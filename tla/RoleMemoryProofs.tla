---------------------------- MODULE RoleMemoryProofs ----------------------------
(***************************************************************************)
(* Proofs about RoleMemory, for any reviews, roles, tools and limits, and  *)
(* any number of failures, timeouts and expired rows: a prompt shows only   *)
(* what its own review observed, a run is refused for its own tokens only,  *)
(* no row is forgotten before it is learned from, no limit hides a row of a  *)
(* role while it has room for all of them, and a prompt is honest about what *)
(* it leaves out of the diff, the observations and the task.                 *)
(*                                                                         *)
(* The rows among others are a recursive function on their number; what is  *)
(* shown of it is shown by the smallest number for which it fails.  Sums and  *)
(* the loops of ContextWindow are such functions too (Recursion, UpTo).      *)
(***************************************************************************)
EXTENDS RoleMemory, FiniteSetTheorems, WellFoundedInduction, TLAPS

(* A set of numbers has a smallest one. *)
LEMMA Smallest ==
  ASSUME NEW S \in SUBSET Nat, S # {}
  PROVE  \E n \in S : \A m \in S : n <= m
<1> DEFINE less == OpToRel(<, Nat)
<1>1. IsWellFoundedOn(less, Nat)
  BY NatLessThanWellFounded
<1>2. \A m, n \in Nat : m < n => <<m, n>> \in less
  BY DEF OpToRel
<1> HIDE DEF less
<1>3. S \subseteq Nat
  OBVIOUS
<1>4. PICK n \in S : \A m \in S : ~(<<m, n>> \in less)
  BY <1>1, <1>3, WFMin
<1>5. \A m \in S : ~(m < n)
  BY <1>2, <1>3, <1>4
<1>6. \A m \in S : n <= m
  BY <1>3, <1>5
<1> QED
  BY <1>6

-------------------------------------------------------------------------------
(* The rows of a sequence that are in a set, built up row by row.            *)
Filters(f, rows, kept, n) ==
  f = [i \in 0 .. n |->
         IF i = 0 THEN <<>>
         ELSE IF rows[i] \in kept THEN Append(f[i - 1], rows[i]) ELSE f[i - 1]]

LEMMA FilterStep ==
  \A f, rows, kept : \A n \in Nat : Filters(f, rows, kept, n) =>
    /\ f[0] = <<>>
    /\ \A i \in 1 .. n :
         f[i] = IF rows[i] \in kept THEN Append(f[i - 1], rows[i]) ELSE f[i - 1]
<1> SUFFICES ASSUME NEW f, NEW rows, NEW kept, NEW n \in Nat, Filters(f, rows, kept, n)
             PROVE  /\ f[0] = <<>>
                    /\ \A i \in 1 .. n :
                         f[i] = IF rows[i] \in kept THEN Append(f[i - 1], rows[i])
                                ELSE f[i - 1]
  OBVIOUS
<1>1. \A i \in 0 .. n :
        f[i] = IF i = 0 THEN <<>>
               ELSE IF rows[i] \in kept THEN Append(f[i - 1], rows[i]) ELSE f[i - 1]
  BY Zenon DEF Filters
<1>2. \A i \in 1 .. n : i \in 0 .. n /\ i # 0
  OBVIOUS
<1>3. 0 \in 0 .. n
  OBVIOUS
<1>4. f[0] = <<>>
  BY <1>1, <1>3, Zenon
<1>5. ASSUME NEW i \in 1 .. n
      PROVE f[i] = IF rows[i] \in kept THEN Append(f[i - 1], rows[i]) ELSE f[i - 1]
  BY <1>1, <1>2, Zenon
<1> QED
  BY <1>4, <1>5

LEMMA FilterExists ==
  ASSUME NEW rows, NEW kept, NEW n \in Nat
  PROVE  \E f : Filters(f, rows, kept, n)
<1> DEFINE Bad == {k \in Nat : ~\E f : Filters(f, rows, kept, k)}
<1>1. SUFFICES ASSUME Bad # {} PROVE FALSE
  OBVIOUS
<1>2. PICK k \in Bad : \A m \in Bad : k <= m
  BY <1>1, Smallest
<1>3. CASE k = 0
  <2> DEFINE f == [i \in 0 .. 0 |-> <<>>]
  <2>1. Filters(f, rows, kept, 0)
    BY DEF Filters
  <2> QED
    BY <1>3, <2>1
<1>4. CASE k # 0
  <2>1. k - 1 \in Nat /\ k - 1 \notin Bad
    BY <1>2, <1>4
  <2>2. PICK f : Filters(f, rows, kept, k - 1)
    BY <2>1
  <2> DEFINE g == [i \in 0 .. k |->
                     IF i # k THEN f[i]
                     ELSE IF rows[k] \in kept THEN Append(f[k - 1], rows[k]) ELSE f[k - 1]]
  <2>3. \A i \in 0 .. k - 1 : g[i] = f[i]
    BY <2>1
  <2> HIDE DEF g
  <2>4. f[0] = <<>>
    BY <2>1, <2>2, FilterStep
  <2>5. \A i \in 1 .. k - 1 :
          f[i] = IF rows[i] \in kept THEN Append(f[i - 1], rows[i]) ELSE f[i - 1]
    BY <2>1, <2>2, FilterStep
  <2> USE DEF g
  <2>6. ASSUME NEW i \in 0 .. k
        PROVE  g[i] = IF i = 0 THEN <<>>
                      ELSE IF rows[i] \in kept THEN Append(g[i - 1], rows[i]) ELSE g[i - 1]
    <3>1. CASE i = k
      BY <1>4, <2>1, <2>3, <3>1
    <3>2. CASE i # k /\ i # 0
      <4>1. i \in 1 .. k - 1 /\ i - 1 \in 0 .. k - 1 /\ i \in 0 .. k - 1
        BY <2>1, <3>2
      <4> QED
        BY <2>3, <2>5, <3>2, <4>1
    <3>3. CASE i = 0
      BY <1>4, <2>1, <2>3, <2>4, <3>3
    <3> QED
      BY <3>1, <3>2, <3>3
  <2> HIDE DEF g
  <2>7. Filters(g, rows, kept, k)
    BY <2>6 DEF Filters, g
  <2> QED
    BY <1>2, <2>7
<1> QED
  BY <1>3, <1>4

(* Each of some is another one of the rows, and h says which. *)
Drawn(h, some, rows) ==
  /\ h \in [DOMAIN some -> DOMAIN rows]
  /\ \A j, k \in DOMAIN some : h[j] = h[k] => j = k
  /\ \A j \in DOMAIN some : some[j] = rows[h[j]]

Complete(h, some, rows, kept) ==
  /\ \A j \in DOMAIN some : rows[h[j]] \in kept
  /\ \A i \in DOMAIN rows : rows[i] \in kept => \E j \in DOMAIN some : h[j] = i

Picked(h, some, rows, kept) == Drawn(h, some, rows) /\ Complete(h, some, rows, kept)

(* What is among them is every row that is kept, once. *)
LEMMA AmongPicked ==
  \A R, kept : \A rows \in Seq(R) :
    /\ Among(rows, kept) \in Seq(R \cap kept)
    /\ \E h : Picked(h, Among(rows, kept), rows, kept)
<1> SUFFICES ASSUME NEW R, NEW kept, NEW rows \in Seq(R)
             PROVE  /\ Among(rows, kept) \in Seq(R \cap kept)
                    /\ \E h : Picked(h, Among(rows, kept), rows, kept)
  OBVIOUS
<1> DEFINE N == Len(rows)
           f == CHOOSE f : Filters(f, rows, kept, N)
<1>1. N \in Nat /\ DOMAIN rows = 1 .. N /\ \A i \in 1 .. N : rows[i] \in R
  OBVIOUS
<1>2. Among(rows, kept) = f[N]
  BY DEF Among, Filters
<1>3. Filters(f, rows, kept, N)
  BY <1>1, FilterExists
<1> HIDE DEF N, f
<1>4. /\ f[0] = <<>>
      /\ \A i \in 1 .. N :
           f[i] = IF rows[i] \in kept THEN Append(f[i - 1], rows[i]) ELSE f[i - 1]
  BY <1>1, <1>3, FilterStep
<1> DEFINE Draws(h, n) ==
             /\ h \in [DOMAIN f[n] -> 1 .. n]
             /\ \A j, k \in DOMAIN f[n] : h[j] = h[k] => j = k
             /\ \A j \in DOMAIN f[n] : f[n][j] = rows[h[j]] /\ rows[h[j]] \in kept
             /\ \A i \in 1 .. n : rows[i] \in kept => \E j \in DOMAIN f[n] : h[j] = i
           Good(n) == f[n] \in Seq(R \cap kept) /\ \E h : Draws(h, n)
           Bad == {n \in 0 .. N : ~Good(n)}
<1>5. Good(0)
  <2> DEFINE e == [j \in {} |-> 0]
  <2>1. f[0] = <<>> /\ DOMAIN f[0] = {} /\ 1 .. 0 = {}
    BY <1>4
  <2>2. e \in [DOMAIN f[0] -> 1 .. 0]
    BY <2>1
  <2>3. Draws(e, 0)
    BY <2>1, <2>2
  <2>4. f[0] \in Seq(R \cap kept)
    BY <2>1
  <2> QED
    BY <2>3, <2>4
<1>6. ASSUME NEW n \in 1 .. N, Good(n - 1) PROVE Good(n)
  <2>1. n \in Nat /\ 1 .. n = 1 .. n - 1 \cup {n} /\ n \notin 1 .. n - 1 /\ rows[n] \in R
    BY <1>1
  <2>2. PICK h : Draws(h, n - 1)
    BY <1>6
  <2>3. CASE rows[n] \in kept
    <3>1. f[n] = Append(f[n - 1], rows[n]) /\ f[n - 1] \in Seq(R \cap kept)
          /\ rows[n] \in R \cap kept
      BY <1>4, <1>6, <2>1, <2>3
    <3> DEFINE L == Len(f[n - 1])
               g == [j \in 1 .. L + 1 |-> IF j = L + 1 THEN n ELSE h[j]]
    <3>2. /\ f[n] \in Seq(R \cap kept) /\ L \in Nat
          /\ DOMAIN f[n - 1] = 1 .. L /\ DOMAIN f[n] = 1 .. L + 1
          /\ f[n][L + 1] = rows[n] /\ \A j \in 1 .. L : f[n][j] = f[n - 1][j]
      BY <3>1
    <3> HIDE DEF L
    <3>3. 1 .. L + 1 = 1 .. L \cup {L + 1} /\ L + 1 \notin 1 .. L
      BY <3>2
    <3>0. /\ \A j \in 1 .. L : h[j] \in 1 .. n - 1 /\ h[j] # n /\ f[n - 1][j] = rows[h[j]]
                                /\ rows[h[j]] \in kept
          /\ \A j, k \in 1 .. L : h[j] = h[k] => j = k
          /\ \A i \in 1 .. n - 1 : rows[i] \in kept => \E j \in 1 .. L : h[j] = i
      <4>1. h \in [1 .. L -> 1 .. n - 1]
        BY <2>2, <3>2
      <4>2. \A j \in 1 .. L : f[n - 1][j] = rows[h[j]] /\ rows[h[j]] \in kept
        BY <2>2, <3>2
      <4>3. \A j, k \in 1 .. L : h[j] = h[k] => j = k
        BY <2>2, <3>2
      <4>4. \A i \in 1 .. n - 1 : rows[i] \in kept => \E j \in 1 .. L : h[j] = i
        BY <2>2, <3>2
      <4>5. \A j \in 1 .. L : h[j] \in 1 .. n - 1 /\ h[j] # n
        BY <2>1, <4>1
      <4> QED
        BY <4>2, <4>3, <4>4, <4>5
    <3>4. /\ DOMAIN g = 1 .. L + 1 /\ g[L + 1] = n
          /\ \A j \in 1 .. L : g[j] = h[j]
      BY <3>3
    <3>5. g \in [1 .. L + 1 -> 1 .. n]
      BY <2>1, <3>0, <3>3, <3>4
    <3> HIDE DEF g
    <3>6. \A j, k \in 1 .. L + 1 : g[j] = g[k] => j = k
      BY <2>1, <3>0, <3>2, <3>3, <3>4
    <3>7. \A j \in 1 .. L + 1 : f[n][j] = rows[g[j]] /\ rows[g[j]] \in kept
      BY <2>3, <3>0, <3>2, <3>3, <3>4
    <3>8. \A i \in 1 .. n : rows[i] \in kept => \E j \in 1 .. L + 1 : g[j] = i
      BY <2>1, <3>0, <3>2, <3>3, <3>4
    <3>9. Draws(g, n)
      BY <3>2, <3>5, <3>6, <3>7, <3>8
    <3> QED
      BY <3>2, <3>9
  <2>4. CASE rows[n] \notin kept
    <3>1. f[n] = f[n - 1]
      BY <1>4, <2>4
    <3>2. Draws(h, n)
      BY <2>1, <2>2, <2>4, <3>1
    <3> QED
      BY <1>6, <3>1, <3>2
  <2> QED
    BY <2>3, <2>4
<1> HIDE DEF Good
<1>7. Bad = {}
  <2>1. SUFFICES ASSUME Bad # {} PROVE FALSE
    OBVIOUS
  <2>0. Bad \in SUBSET Nat
    BY <1>1
  <2>2. PICK n \in Bad : \A m \in Bad : n <= m
    <3> HIDE DEF Bad
    <3> QED BY <2>0, <2>1, Smallest
  <2>3. n # 0 /\ n \in 0 .. N
    BY <1>5, <2>2
  <2>4. n \in 1 .. N /\ n - 1 \in 0 .. N /\ ~(n <= n - 1)
    BY <1>1, <2>3
  <2>5. Good(n - 1)
    BY <2>2, <2>4
  <2> QED
    BY <1>6, <2>2, <2>4, <2>5
<1>8. f[N] \in Seq(R \cap kept) /\ \E h : Draws(h, N)
  <2>1. Good(N)
    BY <1>1, <1>7
  <2> QED
    BY <2>1 DEF Good
<1>9. \A h : Draws(h, N) => Picked(h, f[N], rows, kept)
  BY <1>1 DEF Picked, Drawn, Complete
<1> HIDE DEF Draws
<1> QED
  BY <1>2, <1>8, <1>9

(* In particular: each of them is one of the rows, and each row kept is there. *)
AmongThem(some, rows, R, kept) ==
  /\ some \in Seq(R \cap kept)
  /\ \A j \in DOMAIN some : \E i \in DOMAIN rows : some[j] = rows[i]
  /\ \A i \in DOMAIN rows : rows[i] \in kept => \E j \in DOMAIN some : some[j] = rows[i]

LEMMA AmongRows ==
  \A R, kept : \A rows \in Seq(R) : AmongThem(Among(rows, kept), rows, R, kept)
<1> SUFFICES ASSUME NEW R, NEW kept, NEW rows \in Seq(R)
             PROVE  AmongThem(Among(rows, kept), rows, R, kept)
  OBVIOUS
<1>1. Among(rows, kept) \in Seq(R \cap kept)
  BY AmongPicked
<1>2. PICK h : Picked(h, Among(rows, kept), rows, kept)
  BY AmongPicked
<1> DEFINE some == Among(rows, kept)
<1> HIDE DEF some
<1>3. some \in Seq(R \cap kept) /\ Drawn(h, some, rows) /\ Complete(h, some, rows, kept)
  BY <1>1, <1>2 DEF some, Picked
<1>4. AmongThem(some, rows, R, kept)
  BY <1>3 DEF AmongThem, Drawn, Complete
<1> QED
  BY <1>4 DEF some

-------------------------------------------------------------------------------
(* The rows the store keeps, lists and recalls.                              *)
LEMMA LiveRows ==
  ASSUME NEW rows \in Seq(Row)
  PROVE  /\ Live(rows) \in Seq(Row)
         /\ \A j \in DOMAIN Live(rows) :
              ~Live(rows)[j].expired /\ \E i \in DOMAIN rows : Live(rows)[j] = rows[i]
         /\ \A i \in DOMAIN rows :
              ~rows[i].expired => \E j \in DOMAIN Live(rows) : Live(rows)[j] = rows[i]
<1> DEFINE kept == {row \in Row : ~row.expired}
           some == Among(rows, kept)
<1>0. AmongThem(some, rows, Row, kept)
  BY AmongRows
<1> HIDE DEF kept, some
<1>1. /\ some \in Seq(Row \cap kept)
      /\ \A j \in DOMAIN some : \E i \in DOMAIN rows : some[j] = rows[i]
      /\ \A i \in DOMAIN rows : rows[i] \in kept => \E j \in DOMAIN some : some[j] = rows[i]
  BY <1>0 DEF AmongThem
<1>2. Live(rows) = some
  BY DEF Live, kept, some
<1>3. \A i \in DOMAIN rows : rows[i] \in Row
  OBVIOUS
<1>4. \A j \in DOMAIN some : some[j] \in kept
  BY <1>1
<1>5. some \in Seq(Row)
  BY <1>1
<1> QED
  BY <1>1, <1>2, <1>3, <1>4, <1>5 DEF kept

LEMMA PrefixRows ==
  ASSUME NEW R, NEW s \in Seq(R), NEW c \in Nat
  PROVE  LET cut == SubSeq(s, 1, Least(c, Len(s))) IN
         /\ cut \in Seq(R) /\ DOMAIN cut \subseteq DOMAIN s
         /\ \A j \in DOMAIN cut : cut[j] = s[j]
<1>1. /\ Least(c, Len(s)) \in Nat /\ Least(c, Len(s)) <= Len(s)
      /\ \A i \in 1 .. Len(s) : s[i] \in R
  BY DEF Least
<1> QED
  BY <1>1

LEMMA ListedRows ==
  ASSUME NEW rows \in Seq(Row)
  PROVE  /\ Listed(rows) \in Seq(Row)
         /\ \A j \in DOMAIN Listed(rows) : \E i \in DOMAIN rows : Listed(rows)[j] = rows[i]
<1> DEFINE newest == Reverse(Live(rows))
           fine == {row \in Row : row.out \notin Failed}
           bad == {row \in Row : row.out \in Failed}
           useful == Among(newest, fine)
           failed == Among(newest, bad)
           all == useful \o failed
<1>1. /\ newest \in Seq(Row)
      /\ \A j \in DOMAIN newest : \E i \in DOMAIN rows : newest[j] = rows[i]
  <2>1. /\ Live(rows) \in Seq(Row)
        /\ \A j \in DOMAIN Live(rows) : \E i \in DOMAIN rows : Live(rows)[j] = rows[i]
    BY LiveRows
  <2> QED
    BY <2>1 DEF Reverse
<1> HIDE DEF newest, fine, bad
<1>2. /\ useful \in Seq(Row)
      /\ \A j \in DOMAIN useful : \E i \in DOMAIN newest : useful[j] = newest[i]
  <2>0. AmongThem(useful, newest, Row, fine)
    BY <1>1, AmongRows
  <2> HIDE DEF useful
  <2>1. /\ useful \in Seq(Row \cap fine)
        /\ \A j \in DOMAIN useful : \E i \in DOMAIN newest : useful[j] = newest[i]
    BY <2>0 DEF AmongThem
  <2> QED
    BY <2>1
<1>3. /\ failed \in Seq(Row)
      /\ \A j \in DOMAIN failed : \E i \in DOMAIN newest : failed[j] = newest[i]
  <2>0. AmongThem(failed, newest, Row, bad)
    BY <1>1, AmongRows
  <2> HIDE DEF failed
  <2>1. /\ failed \in Seq(Row \cap bad)
        /\ \A j \in DOMAIN failed : \E i \in DOMAIN newest : failed[j] = newest[i]
    BY <2>0 DEF AmongThem
  <2> QED
    BY <2>1
<1> HIDE DEF useful, failed
<1>4. /\ all \in Seq(Row)
      /\ \A j \in DOMAIN all : \E i \in DOMAIN newest : all[j] = newest[i]
  <2>1. all \in Seq(Row)
    BY <1>2, <1>3
  <2>2. ASSUME NEW j \in DOMAIN all PROVE \E i \in DOMAIN newest : all[j] = newest[i]
    <3>1. CASE j \in DOMAIN useful
      <4>1. all[j] = useful[j]
        BY <1>2, <1>3, <3>1
      <4> QED
        BY <1>2, <3>1, <4>1
    <3>2. CASE j \notin DOMAIN useful
      <4>1. all[j] = failed[j - Len(useful)] /\ j - Len(useful) \in DOMAIN failed
        BY <1>2, <1>3, <2>2, <3>2
      <4> QED
        BY <1>3, <4>1
    <3> QED
      BY <3>1, <3>2
  <2> QED
    BY <2>1, <2>2
<1>5. Listed(rows) = SubSeq(all, 1, Least(CandidateLimit, Len(all))) /\ CandidateLimit \in Nat
  BY MemoryAssumption DEF Listed, newest, useful, failed, fine, bad
<1> HIDE DEF all
<1>6. /\ Listed(rows) \in Seq(Row) /\ DOMAIN Listed(rows) \subseteq DOMAIN all
      /\ \A j \in DOMAIN Listed(rows) : Listed(rows)[j] = all[j]
  BY <1>4, <1>5, PrefixRows
<1> QED
  BY <1>1, <1>4, <1>6

LEMMA RecalledRows ==
  ASSUME NEW task, NEW role, store \in Seq(Row)
  PROVE  \A j \in DOMAIN Recalled(task, role) :
           LET row == Recalled(task, role)[j] IN
           /\ row \in Row /\ row.task = task /\ Mine(row, role)
           /\ \E i \in DOMAIN store : row = store[i]
<1> DEFINE kept == {row \in Row : row.task = task /\ Mine(row, role)}
           some == Among(Listed(store), kept)
<1> HIDE DEF kept
<1>1. /\ Listed(store) \in Seq(Row)
      /\ \A j \in DOMAIN Listed(store) : \E i \in DOMAIN store : Listed(store)[j] = store[i]
  BY ListedRows
<1>2. /\ some \in Seq(Row \cap kept)
      /\ \A j \in DOMAIN some : \E i \in DOMAIN Listed(store) : some[j] = Listed(store)[i]
  <2>1. AmongThem(some, Listed(store), Row, kept)
    BY <1>1, AmongRows
  <2> HIDE DEF some
  <2> QED
    BY <2>1 DEF AmongThem
<1>3. Recalled(task, role) = SubSeq(some, 1, Least(RecallLimit, Len(some)))
      /\ RecallLimit \in Nat
  BY MemoryAssumption DEF Recalled, Cut, kept
<1> HIDE DEF some
<1>4. /\ DOMAIN Recalled(task, role) \subseteq DOMAIN some
      /\ \A j \in DOMAIN Recalled(task, role) : Recalled(task, role)[j] = some[j]
  BY <1>2, <1>3, PrefixRows
<1>5. \A j \in DOMAIN some : some[j] \in kept
  BY <1>2
<1> QED
  BY <1>1, <1>2, <1>4, <1>5 DEF kept

(* What was observed in the rows that come back, which are no more than the   *)
(* limit.                                                                    *)
LEMMA RecalledOuts ==
  ASSUME NEW task, NEW role, store \in Seq(Row)
  PROVE  \A rows : rows = <<>> \/ rows = Recalled(task, role) =>
           rows \in Seq(Row) /\ Outs(rows) \in Recalls /\ Len(Outs(rows)) = Len(rows)
<1> SUFFICES ASSUME NEW rows, rows = <<>> \/ rows = Recalled(task, role)
             PROVE  rows \in Seq(Row) /\ Outs(rows) \in Recalls /\ Len(Outs(rows)) = Len(rows)
  OBVIOUS
<1> DEFINE kept == {row \in Row : row.task = task /\ Mine(row, role)}
           mine == Among(Listed(store), kept)
<1>1. mine \in Seq(Row)
  <2>1. Listed(store) \in Seq(Row)
    BY ListedRows
  <2>2. mine \in Seq(Row \cap kept)
    BY <2>1, AmongPicked
  <2> QED
    BY <2>2
<1>2. RecallLimit \in Nat
  BY MemoryAssumption
<1>3. Recalled(task, role) = SubSeq(mine, 1, Least(RecallLimit, Len(mine)))
  BY DEF Recalled, Cut
<1> HIDE DEF mine
<1>4. rows \in Seq(Row) /\ Len(rows) <= RecallLimit
  <2> DEFINE most == Least(RecallLimit, Len(mine))
             cut == SubSeq(mine, 1, most)
  <2>1. most \in Nat /\ most <= Len(mine) /\ most <= RecallLimit
    BY <1>1, <1>2 DEF Least
  <2> HIDE DEF most
  <2>2. cut \in Seq(Row) /\ Len(cut) = most
    BY <1>1, <2>1
  <2>3. rows = <<>> \/ rows = cut
    BY <1>3 DEF most
  <2> HIDE DEF cut
  <2>4. CASE rows = <<>>
    BY <1>2, <2>4
  <2>5. CASE rows = cut
    BY <2>1, <2>2, <2>5
  <2> QED
    BY <2>3, <2>4, <2>5
<1>5. Len(rows) \in 0 .. RecallLimit /\ Outs(rows) \in [1 .. Len(rows) -> Outputs]
  <2>1. Len(rows) \in Nat /\ \A i \in 1 .. Len(rows) : rows[i] \in Row
    BY <1>4
  <2>2. \A row \in Row : row.out \in Outputs
    BY DEF Row
  <2> QED
    BY <1>2, <1>4, <2>1, <2>2 DEF Outs
<1>6. Outs(rows) \in Recalls
  BY <1>5 DEF Recalls
<1>7. Len(Outs(rows)) = Len(rows)
  BY <1>4 DEF Outs
<1> QED
  BY <1>4, <1>6, <1>7

-------------------------------------------------------------------------------
(* The types the proofs need.  The views of diffs and windows have none.     *)
States == {"waiting", "running", "learning", "archived", "done"}
Places == {"idle", "ready", "calling", "ended", "refused"}

Typed ==
  /\ store \in Seq(Row)
  /\ state \in [Tasks -> States]
  /\ found \in [Tasks -> [all : SUBSET Findings, left : SUBSET Findings]]
  /\ at \in [Runs -> Places] /\ step \in [Runs -> Nat]
  /\ DOMAIN prompt = Runs
  /\ tokens \in [Tasks -> [Roles -> Nat]]
  /\ started \in [Runs -> Nat] /\ spent \in [Runs -> Nat]
  /\ alone \in [Runs -> BOOLEAN]

LEMMA RunTypes ==
  ASSUME NEW r \in Runs
  PROVE  TaskOf[r] \in Tasks /\ RoleOf[r] \in Roles /\ CallTokens[r] \in Nat
BY MemoryAssumption DEF Roles

(* What an observation was: of which review, role and step, and what it said. *)
Observation(row) == [task |-> row.task, role |-> row.role, step |-> row.step, out |-> row.out]

(* A row written is a new one, or the one of the same identity, unexpired.    *)
LEMMA SavedRows ==
  ASSUME store \in Seq(Row), NEW task \in Tasks, NEW role \in Roles, NEW k \in Nat,
         NEW out \in Outputs
  PROVE  LET after == Saved(task, role, k, out)
             made == [task |-> task, role |-> role, step |-> k, out |-> out]
         IN
         /\ after \in Seq(Row)
         /\ \A j \in DOMAIN after :
              \/ Observation(after[j]) = made
              \/ \E i \in DOMAIN store : Observation(after[j]) = Observation(store[i])
         /\ \A i \in DOMAIN store :
              store[i].expired \/ \E j \in DOMAIN after : after[j] = store[i]
<1> DEFINE Same(row) == row.role = role /\ row.step = k /\ row.out = out
           made == [task |-> task, role |-> role, step |-> k, out |-> out]
           new == [task |-> task, role |-> role, step |-> k, out |-> out, expired |-> FALSE]
           after == Saved(task, role, k, out)
<1>1. /\ \A i \in DOMAIN store : store[i] \in Row
      /\ DOMAIN store = 1 .. Len(store) /\ Len(store) \in Nat
  OBVIOUS
<1>2. CASE \E i \in DOMAIN store : Same(store[i])
  <2>1. after = [i \in DOMAIN store |->
                   IF Same(store[i]) THEN [store[i] EXCEPT !.expired = FALSE] ELSE store[i]]
    BY <1>2 DEF Saved
  <2>2. ASSUME NEW i \in DOMAIN store
        PROVE  /\ after[i] \in Row /\ Observation(after[i]) = Observation(store[i])
               /\ store[i].expired \/ after[i] = store[i]
    <3>1. store[i] \in Row
      BY <1>1
    <3>2. CASE Same(store[i])
      <4>1. after[i] = [store[i] EXCEPT !.expired = FALSE]
        BY <2>1, <3>2
      <4> QED
        BY <3>1, <4>1 DEF Row, Observation
    <3>3. CASE ~Same(store[i])
      <4>1. after[i] = store[i]
        BY <2>1, <3>3
      <4> QED
        BY <3>1, <4>1
    <3> QED
      BY <3>2, <3>3
  <2>3. DOMAIN after = DOMAIN store
    BY <2>1
  <2> HIDE DEF after
  <2>4. after \in Seq(Row)
    <3>1. after \in [1 .. Len(store) -> Row]
      BY <1>1, <2>1, <2>2, <2>3
    <3> QED
      BY <1>1, <3>1
  <2> QED
    BY <2>2, <2>3, <2>4 DEF after
<1>3. CASE ~\E i \in DOMAIN store : Same(store[i])
  <2>1. after = Append(store, new)
    BY <1>3 DEF Saved
  <2>2. new \in Row /\ Observation(new) = made
    BY DEF Row, Observation
  <2> HIDE DEF new, after
  <2>3. /\ after \in Seq(Row)
        /\ \A i \in DOMAIN store : i \in DOMAIN after /\ after[i] = store[i]
        /\ \A j \in DOMAIN after : j \in DOMAIN store \/ after[j] = new
    BY <1>1, <2>1, <2>2
  <2> QED
    BY <2>2, <2>3 DEF after
<1> QED
  BY <1>2, <1>3

LEMMA PurgedRows == ASSUME store \in Seq(Row) PROVE Purged \in Seq(Row)
BY LiveRows DEF Purged

LEMMA TypedInit == Init => Typed
BY RunTypes DEF Init, Typed, States, Places

(* A model call is charged to its run and to the ledger of its role. *)
LEMMA ChargedType ==
  ASSUME Typed, NEW r \in Runs, NEW c \in Nat, Charged(r, c)
  PROVE  /\ tokens' \in [Tasks -> [Roles -> Nat]] /\ spent' \in [Runs -> Nat]
         /\ started' = started /\ alone' = alone /\ DOMAIN prompt' = Runs
<1>1. TaskOf[r] \in Tasks /\ RoleOf[r] \in Roles
  BY RunTypes
<1>2. tokens[TaskOf[r]] \in [Roles -> Nat] /\ tokens[TaskOf[r]][RoleOf[r]] + c \in Nat
  BY <1>1 DEF Typed
<1>3. [tokens[TaskOf[r]] EXCEPT ![RoleOf[r]] = @ + c] \in [Roles -> Nat]
  BY <1>1, <1>2
<1>4. tokens' = [tokens EXCEPT ![TaskOf[r]] = [tokens[TaskOf[r]] EXCEPT ![RoleOf[r]] = @ + c]]
  BY <1>1 DEF Charged, Typed
<1>5. tokens' \in [Tasks -> [Roles -> Nat]]
  BY <1>1, <1>3, <1>4 DEF Typed
<1>6. spent' \in [Runs -> Nat] /\ DOMAIN prompt' = Runs
  BY DEF Charged, Typed
<1> QED
  BY <1>5, <1>6 DEF Charged

LEMMA TypedRun ==
  ASSUME Typed, NEW r \in Runs, RunStep(r)
  PROVE  Typed'
<1>0. TaskOf[r] \in Tasks /\ RoleOf[r] \in Roles /\ CallTokens[r] \in Nat
  BY RunTypes
<1>1. CASE StartRun(r)
  <2>1. alone' \in [Runs -> BOOLEAN]
    BY <1>1, Zenon DEF StartRun
  <2>2. started' \in [Runs -> Nat]
    BY <1>0, <1>1 DEF StartRun, Typed
  <2> QED
    BY <1>1, <2>1, <2>2 DEF StartRun, Typed, Places, memory, bounds
<1>2. CASE Refused(r)
  BY <1>2 DEF Refused, Typed, Places, memory, ledger, bounds
<1>3. CASE TimeUp(r)
  BY <1>3 DEF TimeUp, Typed, Places, memory, ledger
<1>4. CASE Prepare(r)
  <2>1. store' \in Seq(Row)
    BY <1>4, PurgedRows DEF Prepare, Typed
  <2>2. DOMAIN prompt' = Runs
    BY <1>4 DEF Prepare, Typed
  <2> QED
    BY <1>4, <2>1, <2>2 DEF Prepare, Typed, Places, ledger
<1>5. CASE AnswerEnds(r)
  <2>1. PICK c \in Nat : Charged(r, c)
    BY <1>0, <1>5 DEF AnswerEnds
  <2> QED
    BY <1>5, <2>1, ChargedType DEF AnswerEnds, Typed, Places, memory
<1>6. CASE AnswerTool(r)
  <2>1. Charged(r, CallTokens[r])
    BY <1>6 DEF AnswerTool
  <2>2. step' \in [Runs -> Nat] /\ at' \in [Runs -> Places]
    BY <1>6 DEF AnswerTool, Typed, Places
  <2>3. store' \in Seq(Row)
    <3>1. step[r] \in Nat /\ store \in Seq(Row) /\ Failed \subseteq Outputs
      BY MemoryAssumption DEF Typed
    <3>2. PICK out \in Outputs :
            store' = store \/ store' = Saved(TaskOf[r], RoleOf[r], step[r], out)
      BY <1>6, <3>1 DEF AnswerTool
    <3> QED
      BY <1>0, <3>1, <3>2, SavedRows
  <2> QED
    BY <1>0, <1>6, <2>1, <2>2, <2>3, ChargedType DEF AnswerTool, Typed
<1> QED
  BY <1>1, <1>2, <1>3, <1>4, <1>5, <1>6 DEF RunStep

LEMMA TypedTask ==
  ASSUME Typed, NEW t \in Tasks, Begin(t) \/ Conclude(t) \/ Persist(t) \/ Fails(t)
  PROVE  Typed'
<1>1. CASE Begin(t)
  <2>1. store' \in Seq(Row)
    BY <1>1, PurgedRows DEF Begin, Typed
  <2>2. PICK restored \in {tokens[t], [role \in Roles |-> 0]} :
          tokens' = [tokens EXCEPT ![t] = restored]
    BY <1>1 DEF Begin
  <2>3. restored \in [Roles -> Nat]
    BY <2>2 DEF Typed
  <2>4. tokens' \in [Tasks -> [Roles -> Nat]]
    BY <2>2, <2>3 DEF Typed
  <2> QED
    BY <1>1, <2>1, <2>4 DEF Begin, Typed, States, loop
<1>2. CASE Conclude(t)
  BY <1>2 DEF Conclude, Move, Typed, States, memory, loop, ledger
<1>3. CASE RememberFinding(t)
  <2>1. PICK f \in found[t].left : found' = [found EXCEPT ![t].left = @ \ {f}]
    BY <1>3 DEF RememberFinding
  <2>2. found' \in [Tasks -> [all : SUBSET Findings, left : SUBSET Findings]]
    BY <2>1 DEF Typed
  <2> QED
    BY <1>3, <2>2 DEF RememberFinding, Typed, loop, ledger
<1>4. CASE Archive(t)
  BY <1>4 DEF Archive, Move, Typed, States, loop, ledger
<1>5. CASE ForgetWorking(t)
  <2>1. store' \in Seq(Row)
    <3> DEFINE kept == {row \in Row : row.task # t}
    <3>1. store' = Among(store, kept) /\ store \in Seq(Row)
      BY <1>5 DEF ForgetWorking, Typed
    <3> HIDE DEF kept
    <3>2. AmongThem(store', store, Row, kept)
      BY <3>1, AmongRows
    <3> QED
      BY <3>2 DEF AmongThem
  <2> QED
    BY <1>5, <2>1 DEF ForgetWorking, Move, Typed, States, loop, ledger
<1>6. CASE PersistFails(t)
  BY <1>6 DEF PersistFails, Move, Typed, States, memory, loop, ledger
<1>7. CASE Fails(t)
  <2>1. at' \in [Runs -> Places] /\ step' \in [Runs -> Nat] /\ DOMAIN prompt' = Runs
    BY <1>7 DEF Fails, Typed, Places
  <2>2. spent' \in [Runs -> Nat] /\ started' \in [Runs -> Nat] /\ alone' \in [Runs -> BOOLEAN]
    BY <1>7 DEF Fails, Typed
  <2> QED
    BY <1>7, <2>1, <2>2 DEF Fails, Typed, States, memory
<1> QED
  BY <1>1, <1>2, <1>3, <1>4, <1>5, <1>6, <1>7 DEF Persist

LEMMA TypedKept == Typed /\ [Next]_roleVars => Typed'
<1> SUFFICES ASSUME Typed, [Next]_roleVars PROVE Typed'
  OBVIOUS
<1>1. CASE \E r \in Runs : RunStep(r)
  BY <1>1, TypedRun
<1>2. CASE \E t \in Tasks : Begin(t) \/ Conclude(t) \/ Persist(t) \/ Fails(t)
  BY <1>2, TypedTask
<1>3. CASE Expire
  <2>1. PICK i \in DOMAIN store : store' = [store EXCEPT ![i].expired = TRUE]
    BY <1>3 DEF Expire
  <2>2. store[i] \in Row /\ store' = [store EXCEPT ![i] = [store[i] EXCEPT !.expired = TRUE]]
    BY <2>1 DEF Typed
  <2>3. [store[i] EXCEPT !.expired = TRUE] \in Row
    BY <2>2 DEF Row
  <2>4. store' \in Seq(Row)
    BY <2>2, <2>3 DEF Typed
  <2> QED
    BY <1>3, <2>4 DEF Expire, Typed, loop, ledger
<1>4. CASE UNCHANGED roleVars
  BY <1>4 DEF roleVars, memory, loop, ledger, bounds, Typed
<1> QED
  BY <1>1, <1>2, <1>3, <1>4 DEF Next

-------------------------------------------------------------------------------
(* What is shown was observed: every row of the store is an observation of   *)
(* the review it belongs to, and of that role and step.                      *)
Backed == \A i \in DOMAIN store : Observation(store[i]) \in observed

LEMMA BackedKept ==
  ASSUME Backed, observed \subseteq observed',
         \A j \in DOMAIN store' :
           \E i \in DOMAIN store : Observation(store'[j]) = Observation(store[i])
  PROVE  Backed'
BY DEF Backed, Observation

LEMMA PurgedFrom ==
  ASSUME store \in Seq(Row)
  PROVE  \A j \in DOMAIN Purged : \E i \in DOMAIN store : Purged[j] = store[i]
BY LiveRows DEF Purged

LEMMA ShownKept ==
  ASSUME WorkingPrivate, observed \subseteq observed',
         \A r \in Runs : prompt'[r] = prompt[r] \/ prompt'[r].memory = <<>>
  PROVE  WorkingPrivate'
<1>1. ASSUME NEW r \in Runs, NEW i \in DOMAIN prompt'[r].memory
      PROVE  LET row == prompt'[r].memory[i] IN
             /\ [task |-> TaskOf[r], role |-> row.role, step |-> row.step, out |-> row.out]
                  \in observed'
             /\ Mine(row, RoleOf[r])
  <2>1. prompt'[r].memory # <<>>
    BY <1>1
  <2>2. prompt'[r] = prompt[r]
    BY <1>1, <2>1
  <2> QED
    BY <1>1, <2>2 DEF WorkingPrivate
<1> QED
  BY <1>1 DEF WorkingPrivate

LEMMA PrivateRun ==
  ASSUME Typed, Backed, WorkingPrivate, NEW r \in Runs, RunStep(r)
  PROVE  Backed' /\ WorkingPrivate'
<1>0. store \in Seq(Row) /\ DOMAIN prompt = Runs
  BY DEF Typed
<1>1. CASE StartRun(r) \/ Refused(r) \/ TimeUp(r)
  <2>1. UNCHANGED <<store, prompt, observed>>
    BY <1>1 DEF StartRun, Refused, TimeUp, memory
  <2> QED
    BY <2>1 DEF Backed, WorkingPrivate, Observation
<1>2. CASE Prepare(r)
  <2>1. observed' = observed /\ (store' = Purged \/ store' = store)
    BY <1>2 DEF Prepare
  <2>2. Backed'
    BY <1>0, <2>1, PurgedFrom, BackedKept
  <2>3. CASE prompt' = [prompt EXCEPT ![r] = Shown(r, Recalled(TaskOf[r], RoleOf[r]), TRUE)]
    <3>1. prompt'[r].memory = <<>> \/ prompt'[r].memory = Recalled(TaskOf[r], RoleOf[r])
      BY <1>0, <2>3 DEF Shown
    <3>2. ASSUME NEW i \in DOMAIN prompt'[r].memory
          PROVE  LET row == prompt'[r].memory[i] IN
                 /\ [task |-> TaskOf[r], role |-> row.role, step |-> row.step,
                     out |-> row.out] \in observed'
                 /\ Mine(row, RoleOf[r])
      <4> DEFINE row == prompt'[r].memory[i]
      <4>1. /\ row \in Row /\ row.task = TaskOf[r] /\ Mine(row, RoleOf[r])
            /\ \E k \in DOMAIN store : row = store[k]
        BY <1>0, <3>1, <3>2, RecalledRows
      <4>2. Observation(row) \in observed
        BY <4>1 DEF Backed
      <4> QED
        BY <2>1, <4>1, <4>2 DEF Observation
    <3>3. \A q \in Runs : q # r => prompt'[q] = prompt[q]
      BY <1>0, <2>3
    <3> QED
      BY <2>1, <2>2, <3>2, <3>3 DEF WorkingPrivate
  <2>4. CASE prompt' = [prompt EXCEPT ![r] = Shown(r, <<>>, FALSE)]
    <3>1. \A q \in Runs : prompt'[q] = prompt[q] \/ prompt'[q].memory = <<>>
      BY <1>0, <2>4 DEF Shown
    <3> QED
      BY <2>1, <2>2, <3>1, ShownKept
  <2> QED
    BY <1>2, <2>3, <2>4 DEF Prepare
<1>3. ASSUME NEW c \in Nat, Charged(r, c), observed \subseteq observed' PROVE WorkingPrivate'
  <2>1. \A q \in Runs : prompt'[q] = prompt[q] \/ prompt'[q].memory = <<>>
    BY <1>0, <1>3 DEF Charged, Nothing
  <2> QED
    BY <1>3, <2>1, ShownKept
<1>4. CASE AnswerEnds(r)
  <2>1. PICK c \in Nat : Charged(r, c)
    BY <1>4, RunTypes DEF AnswerEnds
  <2>2. UNCHANGED <<store, observed>>
    BY <1>4 DEF AnswerEnds, memory
  <2>3. Backed'
    BY <2>2 DEF Backed, Observation
  <2> QED
    BY <1>3, <2>1, <2>2, <2>3
<1>5. CASE AnswerTool(r)
  <2> DEFINE made(out) == [task |-> TaskOf[r], role |-> RoleOf[r], step |-> step[r], out |-> out]
  <2>1. TaskOf[r] \in Tasks /\ RoleOf[r] \in Roles /\ CallTokens[r] \in Nat
        /\ step[r] \in Nat /\ Failed \subseteq Outputs
    BY RunTypes, MemoryAssumption DEF Typed
  <2>2. PICK out \in Outputs :
          /\ observed' = observed \cup {made(out)}
          /\ store' = store \/ store' = Saved(TaskOf[r], RoleOf[r], step[r], out)
    BY <1>5, <2>1 DEF AnswerTool
  <2>3. CASE store' = store
    <3>1. Backed'
      BY <2>2, <2>3, BackedKept
    <3> QED
      BY <1>3, <1>5, <2>1, <2>2, <3>1 DEF AnswerTool
  <2>4. CASE store' = Saved(TaskOf[r], RoleOf[r], step[r], out)
    <3>1. \A j \in DOMAIN store' :
            \/ Observation(store'[j]) = made(out)
            \/ \E i \in DOMAIN store : Observation(store'[j]) = Observation(store[i])
      BY <1>0, <2>1, <2>4, SavedRows
    <3>2. \A j \in DOMAIN store' : Observation(store'[j]) \in observed'
      BY <2>2, <3>1 DEF Backed
    <3>3. Backed'
      BY <3>2 DEF Backed, Observation
    <3> QED
      BY <1>3, <1>5, <2>1, <2>2, <3>3 DEF AnswerTool
  <2> QED
    BY <2>2, <2>3, <2>4
<1> QED
  BY <1>1, <1>2, <1>4, <1>5 DEF RunStep

LEMMA PrivateTask ==
  ASSUME Typed, Backed, WorkingPrivate, NEW t \in Tasks,
         Begin(t) \/ Conclude(t) \/ Persist(t) \/ Fails(t)
  PROVE  Backed' /\ WorkingPrivate'
<1>1. store \in Seq(Row)
  BY DEF Typed
<1>2. \A j \in DOMAIN store' : \E i \in DOMAIN store : store'[j] = store[i]
  <2>1. CASE ForgetWorking(t)
    <3> DEFINE kept == {row \in Row : row.task # t}
    <3>1. store' = Among(store, kept)
      BY <2>1 DEF ForgetWorking
    <3> HIDE DEF kept
    <3>2. AmongThem(store', store, Row, kept)
      BY <1>1, <3>1, AmongRows
    <3> QED
      BY <3>2 DEF AmongThem
  <2>2. CASE ~ForgetWorking(t)
    <3>1. store' = store \/ store' = Purged
      BY <2>2 DEF Begin, Conclude, Persist, RememberFinding, Archive, PersistFails, Fails, memory
    <3> QED
      BY <1>1, <3>1, PurgedFrom
  <2> QED
    BY <2>1, <2>2
<1>3. observed' = observed
  BY DEF Begin, Conclude, Persist, RememberFinding, Archive, ForgetWorking, PersistFails, Fails
<1>4. \A r \in Runs : prompt'[r] = prompt[r] \/ prompt'[r].memory = <<>>
  <2>1. CASE Fails(t)
    <3>1. prompt' = [r \in Runs |-> IF TaskOf[r] = t THEN Nothing ELSE prompt[r]]
      BY <2>1 DEF Fails
    <3> QED
      BY <3>1 DEF Nothing
  <2>2. CASE ~Fails(t)
    BY <2>2 DEF Begin, Conclude, Persist, RememberFinding, Archive, ForgetWorking,
                PersistFails, loop
  <2> QED
    BY <2>1, <2>2
<1> QED
  BY <1>2, <1>3, <1>4, BackedKept, ShownKept

LEMMA PrivateKept ==
  Typed /\ Backed /\ WorkingPrivate /\ [Next]_roleVars => Backed' /\ WorkingPrivate'
<1> SUFFICES ASSUME Typed, Backed, WorkingPrivate, [Next]_roleVars
             PROVE  Backed' /\ WorkingPrivate'
  OBVIOUS
<1>1. CASE \E r \in Runs : RunStep(r)
  BY <1>1, PrivateRun
<1>2. CASE \E t \in Tasks : Begin(t) \/ Conclude(t) \/ Persist(t) \/ Fails(t)
  BY <1>2, PrivateTask
<1>3. CASE Expire
  <2>1. PICK i \in DOMAIN store : store' = [store EXCEPT ![i].expired = TRUE]
    BY <1>3 DEF Expire
  <2>2. store[i] \in Row /\ store' = [store EXCEPT ![i] = [store[i] EXCEPT !.expired = TRUE]]
    BY <2>1 DEF Typed
  <2>3. Observation([store[i] EXCEPT !.expired = TRUE]) = Observation(store[i])
    BY <2>2 DEF Row, Observation
  <2>4. \A j \in DOMAIN store' :
          j \in DOMAIN store /\ Observation(store'[j]) = Observation(store[j])
    BY <2>2, <2>3 DEF Typed
  <2>5. UNCHANGED <<observed, prompt>>
    BY <1>3 DEF Expire, loop
  <2> QED
    BY <2>4, <2>5, BackedKept, ShownKept
<1>4. CASE UNCHANGED roleVars
  BY <1>4 DEF roleVars, memory, loop, Backed, WorkingPrivate, Observation
<1> QED
  BY <1>1, <1>2, <1>3, <1>4 DEF Next

(* Whatever fails, expires or is observed at the same time by another review: *)
(* the working memory in a prompt was observed by its own review, and a role  *)
(* but the Lead sees its own rows only (agentic_core.py:603-606,              *)
(* memory.py:109-131).                                                        *)
THEOREM WorkingIsPrivate == Spec => []WorkingPrivate
<1>1. Init => Typed /\ Backed /\ WorkingPrivate
  BY TypedInit DEF Init, Backed, WorkingPrivate, Nothing
<1>2. Typed /\ Backed /\ WorkingPrivate /\ [Next]_roleVars => (Typed /\ Backed /\ WorkingPrivate)'
  BY TypedKept, PrivateKept
<1> QED
  BY <1>1, <1>2, PTL DEF Spec

-------------------------------------------------------------------------------
(* The budget of a run.  A run is under way only while its task is reviewed;  *)
(* of two runs of a role under way together neither is alone; what a run      *)
(* spent since it started is in the ledger of its role, and nothing else is   *)
(* when it was alone; a call is made below the budget.                       *)
Quiet == \A r \in Runs : Active(r) => state[TaskOf[r]] = "running"

SameRole(r, q) == TaskOf[r] = TaskOf[q] /\ RoleOf[r] = RoleOf[q]

Shared == \A r, q \in Runs : r # q /\ Active(r) /\ Active(q) /\ SameRole(r, q) => ~alone[r]

Ledger(r) == tokens[TaskOf[r]][RoleOf[r]]

Charges ==
  \A r \in Runs : Active(r) =>
    /\ started[r] + spent[r] <= Ledger(r)
    /\ alone[r] => started[r] + spent[r] = Ledger(r)

Below ==
  \A r \in Runs :
    /\ at[r] = "idle" => spent[r] = 0
    /\ at[r] = "calling" => spent[r] < TokenBudget

Budgeted == Quiet /\ Shared /\ Charges /\ Below

(* Runs that are not under way have nothing to keep but what they spent. *)
LEMMA BudgetRun ==
  ASSUME Typed, Budgeted, BudgetIsItsOwn, NEW r \in Runs, RunStep(r)
  PROVE  Budgeted' /\ BudgetIsItsOwn'
<1>0. /\ \A q \in Runs : TaskOf[q] \in Tasks /\ RoleOf[q] \in Roles /\ CallTokens[q] \in Nat
      /\ TokenBudget \in Nat \ {0} /\ Runs \subseteq Nat
  BY RunTypes, MemoryAssumption
<1>1. /\ at \in [Runs -> Places] /\ spent \in [Runs -> Nat] /\ started \in [Runs -> Nat]
      /\ alone \in [Runs -> BOOLEAN]
      /\ \A q \in Runs : Ledger(q) \in Nat
  BY <1>0 DEF Typed, Ledger
<1>2. CASE StartRun(r)
  <2> DEFINE others == {q \in RunsOf(TaskOf[r]) \ {r} : Active(q)}
             same == {q \in others : RoleOf[q] = RoleOf[r]}
  <2>1. /\ state[TaskOf[r]] = "running" /\ at[r] = "idle"
        /\ at' = [at EXCEPT ![r] = "ready"]
        /\ started' = [started EXCEPT ![r] = Ledger(r)]
        /\ alone' = [q \in Runs |-> alone[q] /\ q \notin same /\ (q = r => same = {})]
        /\ UNCHANGED <<state, tokens, spent>>
    BY <1>2 DEF StartRun, Ledger
  <2>2. \A q \in Runs : q \in same <=> q # r /\ Active(q) /\ SameRole(r, q)
    BY DEF RunsOf, SameRole
  <2>3. /\ \A q \in Runs : alone'[q] => alone[q] /\ q \notin same
        /\ alone'[r] => same = {}
    BY <2>1
  <2>4. \A q \in Runs : /\ Active(q)' <=> q = r \/ Active(q)
                        /\ q # r => at'[q] = at[q] /\ started'[q] = started[q]
    BY <1>1, <2>1 DEF Active
  <2>5. at'[r] = "ready" /\ started'[r] = Ledger(r) /\ spent[r] = 0
    BY <1>1, <2>1 DEF Budgeted, Below
  <2>6. same \subseteq Runs
    BY DEF RunsOf
  <2> HIDE DEF same
  <2>7. Quiet'
    BY <2>1, <2>4 DEF Budgeted, Quiet
  <2>8. Shared'
    <3> SUFFICES ASSUME NEW p \in Runs, NEW q \in Runs, p # q, Active(p)', Active(q)',
                        SameRole(p, q), alone'[p]
                 PROVE  FALSE
      BY DEF Shared, SameRole
    <3>1. CASE p = r
      <4>1. Active(q) /\ SameRole(r, q) /\ q # r
        BY <2>4, <3>1
      <4> QED
        BY <2>2, <2>3, <3>1, <4>1
    <3>2. CASE q = r
      <4>1. Active(p) /\ SameRole(r, p) /\ p # r
        BY <2>4, <3>2 DEF SameRole
      <4> QED
        BY <2>2, <2>3, <4>1
    <3>3. CASE p # r /\ q # r
      BY <2>3, <2>4, <3>3 DEF Budgeted, Shared
    <3> QED
      BY <3>1, <3>2, <3>3
  <2>9. Charges'
    <3> SUFFICES ASSUME NEW q \in Runs, Active(q)'
                 PROVE  /\ started'[q] + spent[q] <= Ledger(q)
                        /\ alone'[q] => started'[q] + spent[q] = Ledger(q)
      BY <2>1 DEF Charges, Ledger
    <3>1. CASE q = r
      BY <1>1, <2>5, <3>1
    <3>2. CASE q # r
      BY <2>3, <2>4, <3>2 DEF Budgeted, Charges
    <3> QED
      BY <3>1, <3>2
  <2>10. Below' /\ BudgetIsItsOwn'
    BY <2>1, <2>3, <2>4, <2>5 DEF Budgeted, Below, BudgetIsItsOwn
  <2> QED
    BY <2>7, <2>8, <2>9, <2>10 DEF Budgeted
<1>3. CASE Refused(r) \/ TimeUp(r) \/ Prepare(r)
  <2>1. /\ at[r] = "ready" /\ UNCHANGED <<state, tokens, spent, started, alone>>
        /\ \A q \in Runs : q # r => at'[q] = at[q]
        /\ at'[r] \in {"refused", "ended", "calling"}
        /\ at'[r] = "refused" => Ledger(r) - started[r] >= TokenBudget
        /\ at'[r] = "calling" => Ledger(r) - started[r] < TokenBudget
    BY <1>1, <1>3 DEF Refused, TimeUp, Prepare, ledger, Used, Ledger
  <2>2. Active(r) /\ \A q \in Runs : Active(q)' => Active(q)
    BY <2>1 DEF Active
  <2>3. started[r] + spent[r] <= Ledger(r)
        /\ (alone[r] => started[r] + spent[r] = Ledger(r))
    BY <2>2 DEF Budgeted, Charges
  <2>4. Quiet' /\ Shared' /\ Charges'
    BY <2>1, <2>2 DEF Budgeted, Quiet, Shared, SameRole, Charges, Ledger
  <2>5. /\ at'[r] = "refused" /\ alone[r] => spent[r] >= TokenBudget
        /\ at'[r] = "calling" => spent[r] < TokenBudget
    BY <1>0, <1>1, <2>1, <2>3
  <2>6. Below' /\ BudgetIsItsOwn'
    BY <2>1, <2>5 DEF Budgeted, Below, BudgetIsItsOwn
  <2> QED
    BY <2>4, <2>6 DEF Budgeted
<1>4. CASE AnswerEnds(r) \/ AnswerTool(r)
  <2>1. PICK c \in {0, CallTokens[r]} : Charged(r, c)
    BY <1>4 DEF AnswerEnds, AnswerTool
  <2>2. /\ at[r] = "calling" /\ UNCHANGED state
        /\ \A q \in Runs : q # r => at'[q] = at[q]
        /\ at'[r] \in {"ended", "ready"}
    BY <1>1, <1>4 DEF AnswerEnds, AnswerTool
  <2>3. /\ c \in Nat /\ c <= CallTokens[r]
        /\ UNCHANGED <<started, alone>>
        /\ spent' = [spent EXCEPT ![r] = @ + c]
    BY <1>0, <2>1 DEF Charged
  <2>4. \A q \in Runs : Ledger(q)' = IF SameRole(r, q) THEN Ledger(q) + c ELSE Ledger(q)
    BY <1>0, <2>1 DEF Charged, Ledger, SameRole, Typed
  <2>5. /\ Active(r) /\ \A q \in Runs : Active(q)' => Active(q)
        /\ spent[r] < TokenBudget
    BY <2>2 DEF Active, Budgeted, Below
  <2>6. spent'[r] = spent[r] + c /\ \A q \in Runs : q # r => spent'[q] = spent[q]
    BY <1>1, <2>3
  <2>7. Quiet' /\ Shared'
    BY <2>2, <2>3, <2>5 DEF Budgeted, Quiet, Shared, SameRole
  <2>8. Charges'
    <3> SUFFICES ASSUME NEW q \in Runs, Active(q)'
                 PROVE  /\ started[q] + spent'[q] <= Ledger(q)'
                        /\ alone[q] => started[q] + spent'[q] = Ledger(q)'
      BY <2>3 DEF Charges
    <3>1. /\ started[q] + spent[q] <= Ledger(q)
          /\ alone[q] => started[q] + spent[q] = Ledger(q)
          /\ started[q] \in Nat /\ spent[q] \in Nat /\ Ledger(q) \in Nat
      BY <1>1, <2>5 DEF Budgeted, Charges
    <3>2. CASE q = r
      <4>1. Ledger(q)' = Ledger(q) + c
        BY <2>4, <3>2 DEF SameRole
      <4> QED
        BY <2>3, <2>6, <3>1, <3>2, <4>1
    <3>3. CASE q # r /\ ~SameRole(r, q)
      BY <2>4, <2>6, <3>1, <3>3
    <3>4. CASE q # r /\ SameRole(r, q)
      <4>1. ~alone[q]
        BY <2>5, <3>4 DEF Budgeted, Shared, SameRole
      <4> QED
        BY <2>3, <2>4, <2>6, <3>1, <3>4, <4>1
    <3> QED
      BY <3>2, <3>3, <3>4
  <2>9. /\ spent'[r] \in Nat /\ spent'[r] < TokenBudget + CallTokens[r]
    BY <1>0, <1>1, <2>3, <2>5, <2>6
  <2>10. Below' /\ BudgetIsItsOwn'
    BY <2>2, <2>3, <2>6, <2>9 DEF Budgeted, Below, BudgetIsItsOwn
  <2> QED
    BY <2>7, <2>8, <2>10 DEF Budgeted
<1> QED
  BY <1>2, <1>3, <1>4 DEF RunStep

LEMMA BudgetTask ==
  ASSUME Typed, Budgeted, BudgetIsItsOwn, NEW t \in Tasks,
         Begin(t) \/ Conclude(t) \/ Persist(t) \/ Fails(t)
  PROVE  Budgeted' /\ BudgetIsItsOwn'
<1>0. /\ \A q \in Runs : TaskOf[q] \in Tasks /\ CallTokens[q] \in Nat
      /\ TokenBudget \in Nat \ {0}
  BY RunTypes, MemoryAssumption
<1>1. CASE Begin(t)
  <2>1. /\ state[t] = "waiting" /\ state' = [state EXCEPT ![t] = "running"]
        /\ UNCHANGED <<at, spent, started, alone>>
        /\ \A u \in Tasks : u # t => tokens'[u] = tokens[u]
    BY <1>1 DEF Begin, loop, Typed
  <2>2. \A q \in Runs : Active(q) => TaskOf[q] # t
    BY <2>1 DEF Budgeted, Quiet
  <2>3. Quiet'
    BY <1>0, <2>1, <2>2 DEF Budgeted, Quiet, Active, Typed
  <2>4. Shared' /\ Charges'
    BY <1>0, <2>1, <2>2 DEF Budgeted, Shared, SameRole, Charges, Ledger, Active
  <2>5. Below' /\ BudgetIsItsOwn'
    BY <2>1 DEF Budgeted, Below, BudgetIsItsOwn
  <2> QED
    BY <2>3, <2>4, <2>5 DEF Budgeted
<1>2. CASE Conclude(t) \/ Persist(t)
  <2>1. /\ UNCHANGED <<at, spent, started, alone, tokens>>
        /\ \A u \in Tasks : u # t => state'[u] = state[u]
        /\ \A q \in Runs : Active(q) => TaskOf[q] # t
    <3>1. CASE Conclude(t)
      <4>1. \A q \in Runs : TaskOf[q] = t => ~Active(q)
        BY <3>1 DEF Conclude, RunsOf, Active
      <4> QED
        BY <3>1, <4>1 DEF Conclude, Move, loop, ledger, Typed
    <3>2. CASE Persist(t)
      <4>1. state[t] # "running"
        BY <3>2 DEF Persist, RememberFinding, Archive, ForgetWorking, PersistFails
      <4>2. \A u \in Tasks : u # t => state'[u] = state[u]
        BY <3>2 DEF Persist, RememberFinding, Archive, ForgetWorking, PersistFails, Move, Typed
      <4>3. UNCHANGED <<at, spent, started, alone, tokens>>
        BY <3>2 DEF Persist, RememberFinding, Archive, ForgetWorking, PersistFails, loop, ledger
      <4> QED
        BY <4>1, <4>2, <4>3 DEF Budgeted, Quiet
    <3> QED
      BY <1>2, <3>1, <3>2
  <2>2. Quiet'
    BY <1>0, <2>1 DEF Budgeted, Quiet, Active
  <2>3. Shared' /\ Charges' /\ Below' /\ BudgetIsItsOwn'
    BY <2>1 DEF Budgeted, Shared, SameRole, Charges, Ledger, Active, Below, BudgetIsItsOwn
  <2> QED
    BY <2>2, <2>3 DEF Budgeted
<1>3. CASE Fails(t)
  <2>1. /\ UNCHANGED tokens
        /\ \A u \in Tasks : u # t => state'[u] = state[u]
        /\ \A q \in Runs : TaskOf[q] = t => at'[q] = "idle" /\ spent'[q] = 0
        /\ \A q \in Runs : TaskOf[q] # t =>
             /\ at'[q] = at[q] /\ spent'[q] = spent[q]
             /\ started'[q] = started[q] /\ alone'[q] = alone[q]
    BY <1>3 DEF Fails, Typed
  <2>2. \A q \in Runs : Active(q)' => Active(q) /\ TaskOf[q] # t
    BY <2>1 DEF Active
  <2>3. Quiet'
    BY <1>0, <2>1, <2>2 DEF Budgeted, Quiet
  <2>4. Shared'
    BY <2>1, <2>2 DEF Budgeted, Shared, SameRole
  <2>5. Charges'
    BY <2>1, <2>2 DEF Budgeted, Charges, Ledger
  <2>6. Below'
    BY <1>0, <2>1 DEF Budgeted, Below
  <2>7. BudgetIsItsOwn'
    BY <1>0, <2>1 DEF BudgetIsItsOwn
  <2> QED
    BY <2>3, <2>4, <2>5, <2>6, <2>7 DEF Budgeted
<1> QED
  BY <1>1, <1>2, <1>3

LEMMA BudgetKept ==
  Typed /\ Budgeted /\ BudgetIsItsOwn /\ [Next]_roleVars => Budgeted' /\ BudgetIsItsOwn'
<1> SUFFICES ASSUME Typed, Budgeted, BudgetIsItsOwn, [Next]_roleVars
             PROVE  Budgeted' /\ BudgetIsItsOwn'
  OBVIOUS
<1>1. CASE \E r \in Runs : RunStep(r)
  BY <1>1, BudgetRun
<1>2. CASE \E t \in Tasks : Begin(t) \/ Conclude(t) \/ Persist(t) \/ Fails(t)
  BY <1>2, BudgetTask
<1>3. CASE Expire \/ UNCHANGED roleVars
  <2>1. UNCHANGED <<state, at, spent, started, alone, tokens>>
    BY <1>3 DEF Expire, roleVars, loop, ledger
  <2> QED
    BY <2>1 DEF Budgeted, Quiet, Shared, SameRole, Charges, Ledger, Active, Below,
                BudgetIsItsOwn
<1> QED
  BY <1>1, <1>2, <1>3 DEF Next

(* A run that shared its role with no other is refused only for what it spent *)
(* itself, whatever the ledger was restored to, and every run stays within    *)
(* one call of its budget (bounded_role.py:48-62).                            *)
THEOREM BudgetKeptApart == Spec => []BudgetIsItsOwn
<1>1. Init => Typed /\ Budgeted /\ BudgetIsItsOwn
  <2> SUFFICES ASSUME Init PROVE Typed /\ Budgeted /\ BudgetIsItsOwn
    OBVIOUS
  <2>1. \A r \in Runs : /\ at[r] = "idle" /\ spent[r] = 0 /\ ~Active(r)
                        /\ CallTokens[r] \in Nat /\ TokenBudget \in Nat \ {0}
    BY RunTypes, MemoryAssumption DEF Init, Active
  <2> QED
    BY <2>1, TypedInit DEF Budgeted, Quiet, Shared, Charges, Below, BudgetIsItsOwn
<1>2. Typed /\ Budgeted /\ BudgetIsItsOwn /\ [Next]_roleVars
        => (Typed /\ Budgeted /\ BudgetIsItsOwn)'
  BY TypedKept, BudgetKept
<1> QED
  BY <1>1, <1>2, PTL DEF Spec

-------------------------------------------------------------------------------
(* What the end of a review has put away: before the summary, the decisions   *)
(* that are not left; after it, the summary and every decision.              *)
Learned ==
  \A t \in Tasks :
    /\ state[t] = "learning" =>
         \A f \in found[t].all : f \in found[t].left \/ Decision(f) \in episodes
    /\ state[t] = "archived" =>
         Summary(t) \in episodes /\ \A f \in found[t].all : Decision(f) \in episodes

LEMMA LearnedKept == Typed /\ Learned /\ [Next]_roleVars => Learned'
<1> SUFFICES ASSUME Typed, Learned, [Next]_roleVars PROVE Learned'
  OBVIOUS
<1>0. /\ state \in [Tasks -> States]
      /\ found \in [Tasks -> [all : SUBSET Findings, left : SUBSET Findings]]
  BY DEF Typed
<1>1. CASE (\E r \in Runs : RunStep(r)) \/ Expire \/ UNCHANGED roleVars
  <2>1. UNCHANGED <<state, found, episodes>>
    BY <1>1 DEF RunStep, StartRun, Refused, TimeUp, Prepare, AnswerEnds, AnswerTool, Expire,
                roleVars, memory
  <2> QED
    BY <2>1 DEF Learned, Decision, Summary
<1>2. ASSUME NEW t \in Tasks, Begin(t) \/ Conclude(t) \/ Persist(t) \/ Fails(t)
      PROVE  Learned'
  <2>1. CASE Begin(t) \/ Fails(t) \/ ForgetWorking(t) \/ PersistFails(t)
    <3>1. /\ UNCHANGED <<found, episodes>> /\ state'[t] \notin {"learning", "archived"}
          /\ \A u \in Tasks : u # t => state'[u] = state[u]
      BY <1>0, <2>1 DEF Begin, Fails, ForgetWorking, PersistFails, Move, memory
    <3> QED
      BY <3>1 DEF Learned, Decision, Summary
  <2>2. CASE Conclude(t)
    <3>1. /\ UNCHANGED episodes /\ state'[t] = "learning" /\ found'[t].all = found'[t].left
          /\ \A u \in Tasks : u # t => state'[u] = state[u] /\ found'[u] = found[u]
      BY <1>0, <2>2 DEF Conclude, Move, memory
    <3> QED
      BY <3>1 DEF Learned, Decision, Summary
  <2>3. CASE RememberFinding(t)
    <3>1. PICK f \in found[t].left :
            /\ episodes' = episodes \cup {Decision(f)}
            /\ found' = [found EXCEPT ![t].left = @ \ {f}]
      BY <2>3 DEF RememberFinding
    <3>2. /\ UNCHANGED state /\ state[t] = "learning"
          /\ found'[t].all = found[t].all /\ found'[t].left = found[t].left \ {f}
          /\ \A u \in Tasks : u # t => found'[u] = found[u]
      BY <1>0, <2>3, <3>1 DEF RememberFinding
    <3>3. episodes \subseteq episodes' /\ Decision(f) \in episodes'
      BY <3>1
    <3>4. \A g \in found'[t].all : g \in found'[t].left \/ Decision(g) \in episodes'
      BY <3>2, <3>3 DEF Learned
    <3>5. ASSUME NEW u \in Tasks
          PROVE  /\ state'[u] = "learning" =>
                      \A g \in found'[u].all : g \in found'[u].left \/ Decision(g) \in episodes'
                 /\ state'[u] = "archived" =>
                      /\ Summary(u) \in episodes'
                      /\ \A g \in found'[u].all : Decision(g) \in episodes'
      BY <3>2, <3>3, <3>4 DEF Learned
    <3> QED
      BY <3>5 DEF Learned, Decision, Summary
  <2>4. CASE Archive(t)
    <3>1. /\ UNCHANGED found /\ state[t] = "learning" /\ found[t].left = {}
          /\ episodes' = episodes \cup {Summary(t)} /\ state'[t] = "archived"
          /\ \A u \in Tasks : u # t => state'[u] = state[u]
      BY <1>0, <2>4 DEF Archive, Move
    <3>2. \A f \in found[t].all : Decision(f) \in episodes
      BY <3>1 DEF Learned
    <3>3. ASSUME NEW u \in Tasks
          PROVE  /\ state'[u] = "learning" =>
                      \A g \in found'[u].all : g \in found'[u].left \/ Decision(g) \in episodes'
                 /\ state'[u] = "archived" =>
                      /\ Summary(u) \in episodes'
                      /\ \A g \in found'[u].all : Decision(g) \in episodes'
      BY <3>1, <3>2 DEF Learned
    <3> QED
      BY <3>3 DEF Learned, Decision, Summary
  <2> QED
    BY <1>2, <2>1, <2>2, <2>3, <2>4 DEF Persist
<1> QED
  BY <1>1, <1>2 DEF Next

(* What a step does to the rows of the store. *)
Released ==
  \A i \in DOMAIN store :
    LET row == store[i] IN
    \/ row.expired
    \/ \E j \in DOMAIN store' : store'[j] = row \/ store'[j] = [row EXCEPT !.expired = TRUE]
    \/ /\ Summary(row.task) \in episodes
       /\ \A f \in found[row.task].all : Decision(f) \in episodes

LEMMA ReleasedByStep == Typed /\ Learned /\ [Next]_roleVars => Released
<1> SUFFICES ASSUME Typed, Learned, [Next]_roleVars PROVE Released
  OBVIOUS
<1>0. store \in Seq(Row) /\ \A i \in DOMAIN store : store[i] \in Row
  BY DEF Typed
<1>1. CASE store' = store
  BY <1>1 DEF Released
<1>2. CASE store' = Purged
  <2>1. \A i \in DOMAIN store :
          ~store[i].expired => \E j \in DOMAIN store' : store'[j] = store[i]
    BY <1>0, <1>2, LiveRows DEF Purged
  <2> QED
    BY <2>1 DEF Released
<1>3. ASSUME NEW r \in Runs, AnswerTool(r) PROVE Released
  <2>1. TaskOf[r] \in Tasks /\ RoleOf[r] \in Roles /\ step[r] \in Nat /\ Failed \subseteq Outputs
    BY RunTypes, MemoryAssumption DEF Typed
  <2>2. PICK out \in Outputs : store' = store \/ store' = Saved(TaskOf[r], RoleOf[r], step[r], out)
    BY <1>3, <2>1 DEF AnswerTool
  <2>3. CASE store' = Saved(TaskOf[r], RoleOf[r], step[r], out)
    <3>1. \A i \in DOMAIN store : store[i].expired \/ \E j \in DOMAIN store' : store'[j] = store[i]
      BY <1>0, <2>1, <2>3, SavedRows
    <3> QED
      BY <3>1 DEF Released
  <2> QED
    BY <1>1, <2>2, <2>3
<1>4. ASSUME NEW t \in Tasks, ForgetWorking(t) PROVE Released
  <2> DEFINE kept == {row \in Row : row.task # t}
  <2>1. state[t] = "archived" /\ store' = Among(store, kept)
    BY <1>4 DEF ForgetWorking
  <2>2. \A i \in DOMAIN store : store[i].task # t => store[i] \in kept
    BY <1>0
  <2> HIDE DEF kept
  <2>3. AmongThem(store', store, Row, kept)
    BY <1>0, <2>1, AmongRows
  <2>4. \A i \in DOMAIN store :
          store[i].task # t => \E j \in DOMAIN store' : store'[j] = store[i]
    BY <2>2, <2>3 DEF AmongThem
  <2>5. Summary(t) \in episodes /\ \A f \in found[t].all : Decision(f) \in episodes
    BY <2>1 DEF Learned
  <2> QED
    BY <2>4, <2>5 DEF Released
<1>5. CASE Expire
  <2>1. PICK i \in DOMAIN store : store' = [store EXCEPT ![i].expired = TRUE]
    BY <1>5 DEF Expire
  <2>2. \A j \in DOMAIN store :
          j \in DOMAIN store' /\ (store'[j] = store[j] \/ store'[j] = [store[j] EXCEPT !.expired = TRUE])
    BY <1>0, <2>1
  <2> QED
    BY <2>2 DEF Released
<1>6. ASSUME NEW r \in Runs, RunStep(r), ~AnswerTool(r)
      PROVE  store' = store \/ store' = Purged
  BY <1>6 DEF RunStep, StartRun, Refused, TimeUp, Prepare, AnswerEnds, memory
<1>7. ASSUME NEW t \in Tasks, Begin(t) \/ Conclude(t) \/ Persist(t) \/ Fails(t), ~ForgetWorking(t)
      PROVE  store' = store \/ store' = Purged
  BY <1>7 DEF Begin, Conclude, Persist, RememberFinding, Archive, PersistFails, Fails, memory
<1>8. CASE UNCHANGED roleVars
  BY <1>1, <1>8 DEF roleVars, memory
<1> QED
  BY <1>1, <1>2, <1>3, <1>4, <1>5, <1>6, <1>7, <1>8 DEF Next

(* Whatever fails or dies between the writes of _persist_task_memory: a row    *)
(* that has not expired is forgotten only when the summary of its task and    *)
(* the decision on each of its findings are kept (service.py, memory.py:198). *)
THEOREM ForgottenOnceLearned == Spec => ReleasedOnceLearned
<1>1. Init => Typed /\ Learned
  BY TypedInit DEF Init, Learned
<1>2. Typed /\ Learned /\ [Next]_roleVars => (Typed /\ Learned)'
  BY TypedKept, LearnedKept
<1>3. Typed /\ Learned /\ [Next]_roleVars => [Released]_roleVars
  BY ReleasedByStep
<1> QED
  BY <1>1, <1>2, <1>3, PTL DEF Spec, ReleasedOnceLearned, Released

-------------------------------------------------------------------------------
(* What the limits leave out.  Rows drawn from others are no more than those  *)
(* they are drawn from, so a limit that has room for all of these cuts none.  *)
LEMMA DrawnShort ==
  ASSUME NEW R, NEW some \in Seq(R), NEW rows, NEW h, Drawn(h, some, rows),
         NEW S, IsFiniteSet(S), \A j \in DOMAIN some : h[j] \in S
  PROVE  Len(some) <= Cardinality(S)
<1>1. DOMAIN some = 1 .. Len(some) /\ Len(some) \in Nat
  OBVIOUS
<1>2. h \in Injection(1 .. Len(some), S)
  BY <1>1 DEF Drawn, Injection, IsInjective
<1>3. Cardinality(1 .. Len(some)) <= Cardinality(S)
  BY <1>2, FS_Injection
<1>4. Cardinality(1 .. Len(some)) = Len(some)
  <2>1. /\ IsFiniteSet(1 .. Len(some))
        /\ Cardinality(1 .. Len(some)) = IF 1 > Len(some) THEN 0 ELSE Len(some) - 1 + 1
    BY <1>1, FS_Interval
  <2> QED
    BY <1>1, <2>1
<1> QED
  BY <1>3, <1>4

LEMMA WholePrefix ==
  ASSUME NEW R, NEW s \in Seq(R), NEW c \in Nat, Len(s) <= c
  PROVE  SubSeq(s, 1, Least(c, Len(s))) = s
<1>1. Least(c, Len(s)) = Len(s)
  BY DEF Least
<1> QED
  BY <1>1

(* The rows listed are those that have not expired, each once, if there are   *)
(* no more of them than the store returns.                                   *)
LEMMA ListedPicked ==
  ASSUME NEW rows \in Seq(Row), Len(Live(rows)) <= CandidateLimit
  PROVE  \E h : /\ Drawn(h, Listed(rows), Live(rows))
                /\ \A i \in DOMAIN Live(rows) : \E j \in DOMAIN Listed(rows) : h[j] = i
<1> DEFINE live == Live(rows)
           newest == Reverse(live)
           N == Len(live)
           fine == {row \in Row : row.out \notin Failed}
           bad == {row \in Row : row.out \in Failed}
           useful == Among(newest, fine)
           failed == Among(newest, bad)
           all == useful \o failed
<1>1. live \in Seq(Row) /\ N \in Nat /\ DOMAIN live = 1 .. N
  BY LiveRows
<1>2. /\ newest \in Seq(Row) /\ DOMAIN newest = 1 .. N
      /\ \A i \in 1 .. N : newest[i] = live[N - i + 1]
  BY <1>1 DEF Reverse
<1>3. \A i \in 1 .. N : newest[i] \in fine <=> newest[i] \notin bad
  BY <1>2
<1>4. \A i \in 1 .. N : newest[i] \in fine \/ newest[i] \in bad
  BY <1>2
<1>5. Listed(rows) = SubSeq(all, 1, Least(CandidateLimit, Len(all))) /\ CandidateLimit \in Nat
  BY MemoryAssumption DEF Listed
<1> HIDE DEF fine, bad, newest, N
<1>6. useful \in Seq(Row \cap fine) /\ failed \in Seq(Row \cap bad)
  BY <1>2, AmongPicked
<1>7. PICK u : Picked(u, useful, newest, fine)
  BY <1>2, AmongPicked
<1>8. PICK v : Picked(v, failed, newest, bad)
  BY <1>2, AmongPicked
<1> HIDE DEF useful, failed
<1> DEFINE A == Len(useful)
           B == Len(failed)
<1>9. /\ A \in Nat /\ B \in Nat /\ DOMAIN useful = 1 .. A /\ DOMAIN failed = 1 .. B
      /\ all \in Seq(Row) /\ Len(all) = A + B /\ DOMAIN all = 1 .. A + B
      /\ \A j \in 1 .. A : all[j] = useful[j]
      /\ \A j \in A + 1 .. A + B : all[j] = failed[j - A]
  BY <1>6
<1> HIDE DEF A, B, all
<1>10. /\ \A j \in 1 .. A : u[j] \in 1 .. N /\ useful[j] = newest[u[j]] /\ newest[u[j]] \in fine
       /\ \A j, k \in 1 .. A : u[j] = u[k] => j = k
       /\ \A i \in 1 .. N : newest[i] \in fine => \E j \in 1 .. A : u[j] = i
  BY <1>2, <1>7, <1>9 DEF Picked, Drawn, Complete
<1>11. /\ \A j \in 1 .. B : v[j] \in 1 .. N /\ failed[j] = newest[v[j]] /\ newest[v[j]] \in bad
       /\ \A j, k \in 1 .. B : v[j] = v[k] => j = k
       /\ \A i \in 1 .. N : newest[i] \in bad => \E j \in 1 .. B : v[j] = i
  BY <1>2, <1>8, <1>9 DEF Picked, Drawn, Complete
<1> DEFINE at0(j) == IF j \in 1 .. A THEN u[j] ELSE v[j - A]
           h == [j \in 1 .. A + B |-> N - at0(j) + 1]
<1>12. \A j \in 1 .. A + B : j \in 1 .. A \/ (j \notin 1 .. A /\ j \in A + 1 .. A + B /\ j - A \in 1 .. B)
  BY <1>9
<1>13. \A j \in 1 .. A + B : at0(j) \in 1 .. N /\ all[j] = newest[at0(j)]
  BY <1>9, <1>10, <1>11, <1>12
<1>14. ASSUME NEW j \in 1 .. A + B, NEW k \in 1 .. A + B, at0(j) = at0(k) PROVE j = k
  <2>1. CASE j \in 1 .. A /\ k \in 1 .. A
    BY <1>10, <1>14, <2>1
  <2>2. CASE j \notin 1 .. A /\ k \notin 1 .. A
    <3>1. j - A = k - A
      BY <1>11, <1>12, <1>14, <2>2
    <3> QED
      BY <1>9, <3>1
  <2>3. CASE j \in 1 .. A /\ k \notin 1 .. A
    <3>1. u[j] \in 1 .. N /\ newest[u[j]] \in fine /\ newest[v[k - A]] \in bad /\ u[j] = v[k - A]
      BY <1>10, <1>11, <1>12, <1>14, <2>3
    <3> QED
      BY <1>3, <3>1
  <2>4. CASE j \notin 1 .. A /\ k \in 1 .. A
    <3>1. u[k] \in 1 .. N /\ newest[u[k]] \in fine /\ newest[v[j - A]] \in bad /\ u[k] = v[j - A]
      BY <1>10, <1>11, <1>12, <1>14, <2>4
    <3> QED
      BY <1>3, <3>1
  <2> QED
    BY <2>1, <2>2, <2>3, <2>4
<1>15. ASSUME NEW i \in 1 .. N PROVE \E j \in 1 .. A + B : at0(j) = i
  <2>1. CASE newest[i] \in fine
    <3>1. PICK j \in 1 .. A : u[j] = i
      BY <1>10, <2>1
    <3>2. j \in 1 .. A + B
      BY <1>9
    <3> QED
      BY <3>1, <3>2
  <2>2. CASE newest[i] \in bad
    <3>1. PICK j \in 1 .. B : v[j] = i
      BY <1>11, <2>2
    <3>2. j + A \in 1 .. A + B /\ j + A \notin 1 .. A /\ (j + A) - A = j
      BY <1>9
    <3>3. at0(j + A) = i
      BY <3>1, <3>2
    <3> QED
      BY <3>2, <3>3
  <2> QED
    BY <1>4, <2>1, <2>2
<1> HIDE DEF at0
<1>16. /\ DOMAIN h = 1 .. A + B
       /\ \A j \in 1 .. A + B : h[j] = N - at0(j) + 1
       /\ \A j \in 1 .. A + B : h[j] \in 1 .. N
  BY <1>1, <1>13
<1>17. h \in [1 .. A + B -> 1 .. N]
  BY <1>16
<1> HIDE DEF h
<1>18. \A j, k \in 1 .. A + B : h[j] = h[k] => j = k
  <2>1. \A j, k \in 1 .. A + B : h[j] = h[k] => at0(j) = at0(k)
    BY <1>1, <1>13, <1>16
  <2> QED
    BY <1>14, <2>1
<1>19. \A j \in 1 .. A + B : all[j] = live[h[j]]
  BY <1>2, <1>13, <1>16
<1>20. Drawn(h, all, live)
  BY <1>1, <1>9, <1>17, <1>18, <1>19 DEF Drawn
<1>21. ASSUME NEW i \in 1 .. N PROVE \E j \in DOMAIN all : h[j] = i
  <2>1. N - i + 1 \in 1 .. N
    BY <1>1
  <2>2. PICK j \in 1 .. A + B : at0(j) = N - i + 1
    BY <1>15, <2>1
  <2>3. h[j] = i
    BY <1>1, <1>16, <2>2
  <2> QED
    BY <1>9, <2>3
<1>22. Listed(rows) = all
  <2>1. IsFiniteSet(1 .. N) /\ Cardinality(1 .. N) = IF 1 > N THEN 0 ELSE N - 1 + 1
    BY <1>1, FS_Interval
  <2>2. Cardinality(1 .. N) = N
    BY <1>1, <2>1
  <2>3. Len(all) <= N
    BY <1>9, <1>16, <1>20, <2>1, <2>2, DrawnShort
  <2>4. Len(all) <= CandidateLimit
    BY <1>1, <1>5, <1>9, <2>3 DEF N
  <2> QED
    BY <1>5, <1>9, <2>4, WholePrefix DEF all, useful, failed, newest, fine, bad
<1> QED
  BY <1>1, <1>20, <1>21, <1>22

-------------------------------------------------------------------------------
(* Whatever holds of 0, and of a number if it holds of the one before it,     *)
(* holds up to N.                                                            *)
LEMMA UpTo ==
  ASSUME NEW N \in Nat, NEW S, 0 \in S, \A n \in 1 .. N : n - 1 \in S => n \in S
  PROVE  \A n \in 0 .. N : n \in S
<1> DEFINE Bad == {n \in 0 .. N : n \notin S}
<1>1. SUFFICES ASSUME Bad # {} PROVE FALSE
  OBVIOUS
<1>2. Bad \in SUBSET Nat
  OBVIOUS
<1>3. PICK n \in Bad : \A m \in Bad : n <= m
  <2> HIDE DEF Bad
  <2> QED BY <1>1, <1>2, Smallest
<1>4. n \in 1 .. N /\ n - 1 \in 0 .. N /\ ~(n <= n - 1)
  BY <1>3
<1>5. n - 1 \in S
  BY <1>3, <1>4
<1> QED
  BY <1>3, <1>4, <1>5

(* f goes from x by the steps, through a set of values for each number.       *)
Goes(f, x, steps, Q, N) ==
  /\ f = [n \in 0 .. N |-> f[n]] /\ f[0] = x
  /\ \A n \in 1 .. N : f[n - 1] \in Q[n - 1] /\ f[n] \in Q[n] /\ f[n] = steps[n][f[n - 1]]

LEMMA Recursion ==
  ASSUME NEW N \in Nat, NEW Q, NEW steps, NEW x \in Q[0],
         \A n \in 1 .. N : \A v \in Q[n - 1] : steps[n][v] \in Q[n]
  PROVE  \E f : Goes(f, x, steps, Q, N)
<1> DEFINE S == {n \in 0 .. N : \E f : Goes(f, x, steps, Q, n)}
<1>1. 0 \in S
  <2> DEFINE f == [n \in 0 .. 0 |-> x]
  <2>1. Goes(f, x, steps, Q, 0)
    BY DEF Goes
  <2> QED
    BY <2>1
<1>2. ASSUME NEW n \in 1 .. N, n - 1 \in S PROVE n \in S
  <2>0. n \in Nat /\ n - 1 \in Nat /\ n \in 0 .. N /\ n \notin 0 .. n - 1
        /\ 0 .. n = 0 .. n - 1 \cup {n} /\ n - 1 \in 0 .. n - 1
        /\ n - 1 # n
    OBVIOUS
  <2>1. PICK f : Goes(f, x, steps, Q, n - 1)
    BY <1>2
  <2> DEFINE g == [i \in 0 .. n |-> IF i = n THEN steps[n][f[n - 1]] ELSE f[i]]
  <2>2. /\ g = [i \in 0 .. n |-> g[i]] /\ g[n] = steps[n][f[n - 1]]
        /\ \A i \in 0 .. n - 1 : g[i] = f[i]
    BY <2>0
  <2> HIDE DEF g
  <2>3. f[n - 1] \in Q[n - 1]
    <3>1. CASE n = 1
      BY <2>1, <3>1 DEF Goes
    <3>2. CASE n # 1
      <4>1. n - 1 \in 1 .. n - 1
        BY <3>2
      <4> QED
        BY <2>1, <4>1 DEF Goes
    <3> QED
      BY <3>1, <3>2
  <2>4. g[n] \in Q[n] /\ g[n - 1] = f[n - 1]
    BY <2>0, <2>2, <2>3
  <2>5. g[0] = x
    BY <2>0, <2>1, <2>2 DEF Goes
  <2>6. ASSUME NEW i \in 1 .. n
        PROVE  g[i - 1] \in Q[i - 1] /\ g[i] \in Q[i] /\ g[i] = steps[i][g[i - 1]]
    <3>1. CASE i = n
      BY <2>2, <2>3, <2>4, <3>1
    <3>2. CASE i # n
      <4>1. i \in 1 .. n - 1 /\ i \in 0 .. n - 1 /\ i - 1 \in 0 .. n - 1
        BY <3>2
      <4>2. f[i - 1] \in Q[i - 1] /\ f[i] \in Q[i] /\ f[i] = steps[i][f[i - 1]]
        BY <2>1, <4>1 DEF Goes
      <4> QED
        BY <2>2, <4>1, <4>2
    <3> QED
      BY <3>1, <3>2
  <2>7. Goes(g, x, steps, Q, n)
    BY <2>2, <2>5, <2>6 DEF Goes
  <2> QED
    BY <2>0, <2>7
<1>3. N \in S
  <2> HIDE DEF S
  <2> QED BY <1>1, <1>2, UpTo
<1> QED
  BY <1>3

-------------------------------------------------------------------------------
(* Sums.  Sums(f, s) holds of the function that adds them up.                 *)
Sums(f, s) == f = [n \in 0 .. Len(s) |-> IF n = 0 THEN 0 ELSE f[n - 1] + s[n]]

LEMMA SumsOf ==
  ASSUME NEW s \in Seq(Nat)
  PROVE  \E f \in [0 .. Len(s) -> Nat] :
           /\ Total(s) = f[Len(s)] /\ f[0] = 0
           /\ \A n \in 1 .. Len(s) : f[n] = f[n - 1] + s[n]
<1> DEFINE N == Len(s)
           Q == [n \in 0 .. N |-> Nat]
           steps == [n \in 1 .. N |-> [v \in Nat |-> v + s[n]]]
           f == CHOOSE f : Sums(f, s)
<1>1. N \in Nat /\ \A n \in 1 .. N : s[n] \in Nat
  OBVIOUS
<1>2. Total(s) = f[N]
  BY DEF Total, Sums
<1>3. \E g : Sums(g, s)
  <2>1. \A n \in 1 .. N : n - 1 \in 0 .. N /\ n \in 0 .. N
    BY <1>1
  <2>2. \A n \in 1 .. N : \A v \in Q[n - 1] : steps[n][v] \in Q[n]
    BY <1>1, <2>1
  <2>3. 0 \in Q[0]
    BY <1>1
  <2>4. \A n \in 1 .. N : Q[n - 1] = Nat /\ Q[n] = Nat
    BY <2>1
  <2>5. \A n \in 1 .. N : \A v \in Nat : steps[n][v] = v + s[n]
    OBVIOUS
  <2> HIDE DEF Q, steps, N
  <2>6. PICK g : Goes(g, 0, steps, Q, N)
    BY <1>1, <2>2, <2>3, Recursion
  <2>7. ASSUME NEW n \in 1 .. N PROVE g[n] = g[n - 1] + s[n]
    BY <2>4, <2>5, <2>6 DEF Goes
  <2> DEFINE h == [n \in 0 .. N |-> IF n = 0 THEN 0 ELSE g[n - 1] + s[n]]
  <2>8. g = h
    <3>1. g = [n \in 0 .. N |-> g[n]] /\ g[0] = 0
      BY <2>6 DEF Goes
    <3>2. \A n \in 0 .. N : g[n] = h[n]
      <4>1. \A n \in 0 .. N : n = 0 \/ n \in 1 .. N
        BY <1>1
      <4> QED
        BY <2>7, <3>1, <4>1
    <3> QED
      BY <3>1, <3>2
  <2> QED
    BY <2>8 DEF Sums, N
<1>4. Sums(f, s)
  BY <1>3
<1> HIDE DEF f
<1>5. /\ DOMAIN f = 0 .. N
      /\ \A n \in 0 .. N : f[n] = IF n = 0 THEN 0 ELSE f[n - 1] + s[n]
  BY <1>4, Zenon DEF Sums
<1>6. f[0] = 0 /\ \A n \in 1 .. N : f[n] = f[n - 1] + s[n]
  <2>1. 0 \in 0 .. N /\ \A n \in 1 .. N : n \in 0 .. N /\ n # 0
    BY <1>1
  <2> HIDE DEF N
  <2> QED BY <1>5, <2>1
<1>7. \A n \in 0 .. N : f[n] \in Nat
  <2> DEFINE S == {n \in 0 .. N : f[n] \in Nat}
  <2>1. 0 \in S
    BY <1>1, <1>6
  <2>2. ASSUME NEW n \in 1 .. N, n - 1 \in S PROVE n \in S
    BY <1>1, <1>6, <2>2
  <2>3. \A n \in 0 .. N : n \in S
    <3> HIDE DEF S, N
    <3> QED BY <1>1, <2>1, <2>2, UpTo
  <2> QED
    BY <2>3
<1>8. f = [n \in 0 .. N |-> f[n]]
  BY <1>4 DEF Sums
<1>9. f \in [0 .. N -> Nat]
  BY <1>7, <1>8
<1> QED
  BY <1>2, <1>6, <1>9
LEMMA TotalNat == \A s \in Seq(Nat) : Total(s) \in Nat
<1> SUFFICES ASSUME NEW s \in Seq(Nat) PROVE Total(s) \in Nat
  OBVIOUS
<1>1. PICK f \in [0 .. Len(s) -> Nat] : Total(s) = f[Len(s)]
  BY SumsOf
<1>2. Len(s) \in 0 .. Len(s)
  OBVIOUS
<1> QED
  BY <1>1, <1>2

LEMMA TotalShort ==
  /\ \A s \in Seq(Nat) : Len(s) = 0 => Total(s) = 0
  /\ \A s \in Seq(Nat) : Len(s) = 1 => Total(s) = s[1]
<1>1. ASSUME NEW s \in Seq(Nat), Len(s) = 0 PROVE Total(s) = 0
  <2>1. PICK f \in [0 .. Len(s) -> Nat] : Total(s) = f[Len(s)] /\ f[0] = 0
    BY SumsOf
  <2> QED
    BY <1>1, <2>1
<1>2. ASSUME NEW s \in Seq(Nat), Len(s) = 1 PROVE Total(s) = s[1]
  <2>1. PICK f \in [0 .. Len(s) -> Nat] :
          /\ Total(s) = f[Len(s)] /\ f[0] = 0
          /\ \A n \in 1 .. Len(s) : f[n] = f[n - 1] + s[n]
    BY SumsOf
  <2>2. f[1] = f[0] + s[1] /\ s[1] \in Nat
    BY <1>2, <2>1
  <2> QED
    BY <1>2, <2>1, <2>2
<1> QED
  BY <1>1, <1>2

LEMMA TotalLess ==
  ASSUME NEW s \in Seq(Nat), NEW u \in Seq(Nat), Len(u) = Len(s),
         \A i \in 1 .. Len(s) : u[i] <= s[i]
  PROVE  Total(u) <= Total(s)
<1> DEFINE N == Len(s)
<1>0. N \in Nat /\ \A n \in 1 .. N : s[n] \in Nat /\ u[n] \in Nat /\ u[n] <= s[n]
  OBVIOUS
<1>1. PICK f \in [0 .. N -> Nat] :
        /\ Total(s) = f[N] /\ f[0] = 0 /\ \A n \in 1 .. N : f[n] = f[n - 1] + s[n]
  BY SumsOf
<1>2. PICK g \in [0 .. N -> Nat] :
        /\ Total(u) = g[N] /\ g[0] = 0 /\ \A n \in 1 .. N : g[n] = g[n - 1] + u[n]
  BY SumsOf
<1> HIDE DEF N
<1> DEFINE S == {n \in 0 .. N : g[n] <= f[n]}
<1>3. 0 \in S
  BY <1>0, <1>1, <1>2
<1>4. ASSUME NEW n \in 1 .. N, n - 1 \in S PROVE n \in S
  <2>1. n \in 0 .. N /\ n - 1 \in 0 .. N
    BY <1>0
  <2>2. f[n - 1] \in Nat /\ g[n - 1] \in Nat /\ g[n - 1] <= f[n - 1]
    BY <1>4, <2>1
  <2>3. f[n] = f[n - 1] + s[n] /\ g[n] = g[n - 1] + u[n] /\ u[n] <= s[n]
        /\ s[n] \in Nat /\ u[n] \in Nat
    BY <1>0, <1>1, <1>2
  <2> QED
    BY <2>1, <2>2, <2>3
<1>5. N \in S
  <2> HIDE DEF S
  <2>1. N \in Nat
    BY <1>0
  <2>2. \A n \in 0 .. N : n \in S
    BY <1>3, <1>4, <2>1, UpTo
  <2> QED
    BY <2>1, <2>2
<1> QED
  BY <1>1, <1>2, <1>5

-------------------------------------------------------------------------------
(* The riskiest of some hunks, the first of those by path and place.          *)
Ranked(H) == Path \in [H -> Nat]

Ahead(hunks, risk, i, j) ==
  \/ risk[hunks[i]] > risk[hunks[j]]
  \/ /\ risk[hunks[i]] = risk[hunks[j]]
     /\ \/ Path[hunks[i]] < Path[hunks[j]]
        \/ Path[hunks[i]] = Path[hunks[j]] /\ i <= j

Best(hunks, risk, rest, i) == i \in rest /\ \A j \in rest : Ahead(hunks, risk, i, j)

(* Of two hunks one is ahead, and who is ahead of it is ahead of both. *)
LEMMA AheadOrders ==
  ASSUME NEW H, NEW risk \in [H -> Nat], Ranked(H), NEW hunks \in Seq(H)
  PROVE  /\ \A i \in DOMAIN hunks : Ahead(hunks, risk, i, i)
         /\ \A i, j \in DOMAIN hunks : Ahead(hunks, risk, i, j) \/ Ahead(hunks, risk, j, i)
         /\ \A i, j, k \in DOMAIN hunks :
              Ahead(hunks, risk, i, j) /\ Ahead(hunks, risk, j, k) => Ahead(hunks, risk, i, k)
<1>1. \A i \in DOMAIN hunks : i \in Nat /\ hunks[i] \in H
  OBVIOUS
<1>2. \A h \in H : risk[h] \in Nat /\ Path[h] \in Nat
  BY DEF Ranked
<1> DEFINE r(i) == risk[hunks[i]]
           p(i) == Path[hunks[i]]
<1>3. \A i \in DOMAIN hunks : i \in Nat /\ r(i) \in Nat /\ p(i) \in Nat
  BY <1>1, <1>2
<1>4. \A i, j : Ahead(hunks, risk, i, j) <=>
        r(i) > r(j) \/ (r(i) = r(j) /\ (p(i) < p(j) \/ (p(i) = p(j) /\ i <= j)))
  BY DEF Ahead
<1> HIDE DEF r, p
<1>5. \A i \in DOMAIN hunks : Ahead(hunks, risk, i, i)
  BY <1>3, <1>4
<1>6. \A i, j \in DOMAIN hunks : Ahead(hunks, risk, i, j) \/ Ahead(hunks, risk, j, i)
  <2> SUFFICES ASSUME NEW i \in DOMAIN hunks, NEW j \in DOMAIN hunks
               PROVE  Ahead(hunks, risk, i, j) \/ Ahead(hunks, risk, j, i)
    OBVIOUS
  <2>1. /\ i \in Nat /\ r(i) \in Nat /\ p(i) \in Nat
        /\ j \in Nat /\ r(j) \in Nat /\ p(j) \in Nat
    BY <1>3
  <2> QED
    BY <1>4, <2>1
<1>7. \A i, j, k \in DOMAIN hunks :
        Ahead(hunks, risk, i, j) /\ Ahead(hunks, risk, j, k) => Ahead(hunks, risk, i, k)
  <2> SUFFICES ASSUME NEW i \in DOMAIN hunks, NEW j \in DOMAIN hunks, NEW k \in DOMAIN hunks,
                      Ahead(hunks, risk, i, j), Ahead(hunks, risk, j, k)
               PROVE  Ahead(hunks, risk, i, k)
    OBVIOUS
  <2>1. /\ i \in Nat /\ r(i) \in Nat /\ p(i) \in Nat
        /\ j \in Nat /\ r(j) \in Nat /\ p(j) \in Nat
        /\ k \in Nat /\ r(k) \in Nat /\ p(k) \in Nat
    BY <1>3
  <2>2. r(i) > r(j) \/ (r(i) = r(j) /\ (p(i) < p(j) \/ (p(i) = p(j) /\ i <= j)))
    BY <1>4
  <2>3. r(j) > r(k) \/ (r(j) = r(k) /\ (p(j) < p(k) \/ (p(j) = p(k) /\ j <= k)))
    BY <1>4
  <2>4. r(i) > r(k) \/ (r(i) = r(k) /\ (p(i) < p(k) \/ (p(i) = p(k) /\ i <= k)))
    BY <2>1, <2>2, <2>3
  <2> QED
    BY <1>4, <2>4
<1> QED
  BY <1>5, <1>6, <1>7

LEMMA BestExists ==
  ASSUME NEW H, NEW risk \in [H -> Nat], Ranked(H), NEW hunks \in Seq(H),
         NEW rest \in SUBSET DOMAIN hunks, rest # {}
  PROVE  Best(hunks, risk, rest, Foremost(hunks, risk, rest))
<1> DEFINE N == Len(hunks)
           S == {n \in 0 .. N : rest \cap (1 .. n) # {} =>
                                  \E i \in rest : Best(hunks, risk, rest \cap (1 .. n), i)}
<1>1. N \in Nat /\ DOMAIN hunks = 1 .. N
  OBVIOUS
<1>2. 0 \in S
  BY <1>1
<1>3. ASSUME NEW n \in 1 .. N, n - 1 \in S PROVE n \in S
  <2> DEFINE before == rest \cap (1 .. n - 1)
             upto == rest \cap (1 .. n)
  <2>1. \A j \in upto : j \in before \/ j = n
    BY <1>1
  <2>2. /\ n \in 0 .. N /\ n \in DOMAIN hunks
        /\ \A j \in before : j \in upto /\ j \in DOMAIN hunks
    BY <1>1
  <2>3. CASE n \notin rest
    <3>1. upto = before
      BY <2>1, <2>2, <2>3
    <3> QED
      BY <1>3, <2>2, <3>1
  <2>4. CASE n \in rest /\ before = {}
    <3>1. upto = {n}
      BY <1>1, <2>1, <2>4
    <3>2. Best(hunks, risk, upto, n)
      BY <2>2, <3>1, AheadOrders DEF Best
    <3> QED
      BY <2>2, <2>4, <3>2
  <2>5. CASE n \in rest /\ before # {}
    <3>1. PICK i \in rest : Best(hunks, risk, before, i)
      BY <1>3, <2>5
    <3> HIDE DEF before
    <3>0. i \in before /\ i \in upto /\ i \in DOMAIN hunks
      BY <2>2, <3>1 DEF Best
    <3>2. CASE Ahead(hunks, risk, n, i)
      <4>1. \A j \in before : Ahead(hunks, risk, n, j)
        BY <2>2, <3>0, <3>1, <3>2, AheadOrders DEF Best
      <4>2. n \in upto /\ Ahead(hunks, risk, n, n)
        BY <1>1, <2>2, <2>5, AheadOrders
      <4> HIDE DEF upto
      <4>3. Best(hunks, risk, upto, n)
        BY <2>1, <4>1, <4>2 DEF Best
      <4> QED
        BY <2>2, <2>5, <4>3 DEF upto
    <3>3. CASE ~Ahead(hunks, risk, n, i)
      <4>1. Ahead(hunks, risk, i, n)
        BY <2>2, <3>0, <3>3, AheadOrders
      <4> HIDE DEF upto
      <4>2. Best(hunks, risk, upto, i)
        BY <2>1, <3>0, <3>1, <4>1 DEF Best
      <4> QED
        BY <2>2, <4>2 DEF upto
    <3> QED
      BY <3>2, <3>3
  <2> QED
    BY <2>3, <2>4, <2>5
<1>4. N \in S
  <2> HIDE DEF S, N
  <2>1. N \in Nat
    BY <1>1
  <2>2. \A n \in 0 .. N : n \in S
    BY <1>2, <1>3, <2>1, UpTo
  <2> QED
    BY <2>1, <2>2
<1>5. rest \cap (1 .. N) = rest
  BY <1>1
<1>6. \E i \in rest : Best(hunks, risk, rest, i)
  BY <1>4, <1>5
<1> QED
  BY <1>6 DEF Best, Ahead, Foremost
-------------------------------------------------------------------------------
(* What is kept of a diff, led by a hunk, or by none if there are no hunks.   *)
Excerpt == [hunk : Nat, tokens : Nat]
Views == [shown : Seq(Excerpt), left : Seq(Excerpt), used : Nat, rest : SUBSET Nat]
LedBy(lead) == {p \in Views : lead # 0 => p.shown # <<>> /\ p.shown[1].hunk = lead}

LEMMA Budgets ==
  /\ ContentBudget \in Nat /\ {EntryTokens, SummaryTokens, BriefTokens} \subseteq Nat
  /\ \A a, b \in Int : Least(a, b) \in {a, b} /\ Least(a, b) <= a /\ Least(a, b) <= b
                       /\ Most(a, b) \in {a, b} /\ Most(a, b) >= a
<1>1. DiffBudget \in Nat /\ {EntryTokens, SummaryTokens, BriefTokens} \subseteq Nat
  BY ContextAssumption
<1>2. (DiffBudget * 68) \div 100 \in Nat
  BY <1>1
<1> QED
  BY <1>1, <1>2 DEF ContentBudget, Least, Most

(* One round: the foremost of the rest is shown or left, and shown first.     *)
OneLess(hunks, risk, c, after) ==
  LET i == Foremost(hunks, risk, c.rest) IN
  /\ i \in c.rest /\ after \in Views /\ after.rest = c.rest \ {i}
  /\ after.shown # <<>>
  /\ after.shown[1].hunk = IF c.shown = <<>> THEN i ELSE c.shown[1].hunk

LEMMA SelectKeeps ==
  \A H : \A size, risk \in [H -> Nat] : \A hunks \in Seq(H) : \A c \in Views :
    Ranked(H) /\ c.rest \subseteq DOMAIN hunks /\ c.rest # {} =>
      OneLess(hunks, risk, c, Select(hunks, size, risk, c))
<1> SUFFICES ASSUME NEW H, NEW size \in [H -> Nat], NEW risk \in [H -> Nat],
                    NEW hunks \in Seq(H), NEW c \in Views, Ranked(H),
                    c.rest \subseteq DOMAIN hunks, c.rest # {}
             PROVE  OneLess(hunks, risk, c, Select(hunks, size, risk, c))
  OBVIOUS
<1> DEFINE i == Foremost(hunks, risk, c.rest)
           remaining == ContentBudget - c.used
           content == Least(size[hunks[i]], Most(80, Least(remaining, 1800)))
           next == [c EXCEPT !.rest = @ \ {i}]
           out == [next EXCEPT !.left = Append(@, [hunk |-> i, tokens |-> SummaryTokens])]
           in == [next EXCEPT !.shown = Append(@, [hunk |-> i, tokens |-> content]),
                              !.used = @ + content + EntryTokens]
           after == Select(hunks, size, risk, c)
<1>1. i \in c.rest
  BY BestExists DEF Best
<1>2. i \in DOMAIN hunks /\ DOMAIN hunks \subseteq Nat /\ i \in Nat
  BY <1>1
<1>3. size[hunks[i]] \in Nat
  BY <1>2
<1> HIDE DEF i
<1>4. c.used \in Nat /\ c.shown \in Seq(Excerpt) /\ c.left \in Seq(Excerpt) /\ c.rest \in SUBSET Nat
  BY DEF Views
<1>5. remaining \in Int
  BY <1>4, Budgets
<1>6. content \in Nat
  BY <1>3, <1>5 DEF Least, Most
<1> HIDE DEF content, remaining
<1>7. /\ [hunk |-> i, tokens |-> SummaryTokens] \in Excerpt
      /\ [hunk |-> i, tokens |-> content] \in Excerpt
  BY <1>2, <1>6, Budgets DEF Excerpt
<1>8. c.used + content + EntryTokens \in Nat
  BY <1>4, <1>6, Budgets
<1>9. /\ next \in Views /\ next.shown = c.shown /\ next.left = c.left /\ next.used = c.used
      /\ next.rest = c.rest \ {i}
  BY DEF Views
<1> HIDE DEF next
<1>10. /\ Append(c.left, [hunk |-> i, tokens |-> SummaryTokens]) \in Seq(Excerpt)
       /\ Append(c.shown, [hunk |-> i, tokens |-> content]) \in Seq(Excerpt)
  BY <1>4, <1>7
<1>11. /\ out \in Views /\ out.shown = c.shown /\ out.rest = c.rest \ {i}
       /\ in \in Views /\ in.rest = c.rest \ {i}
       /\ in.shown = Append(c.shown, [hunk |-> i, tokens |-> content])
  BY <1>8, <1>9, <1>10 DEF Views
<1>12. (after = out /\ c.shown # <<>>) \/ after = in
  <2>1. after = IF (remaining < 80 \/ content + EntryTokens > remaining) /\ ~(c.shown = <<>>)
                  THEN out ELSE in
    BY DEF Select, i, remaining, content, next
  <2> HIDE DEF after, out, in
  <2> QED
    BY <2>1
<1> HIDE DEF out, in, after
<1>13. after \in Views /\ after.rest = c.rest \ {i}
  BY <1>11, <1>12
<1>14. CASE after = out /\ c.shown # <<>>
  <2>1. after.shown = c.shown
    BY <1>11, <1>14
  <2> QED
    BY <1>1, <1>13, <1>14, <2>1 DEF i, after, OneLess
<1>15. CASE after = in
  <2>1. after.shown = Append(c.shown, [hunk |-> i, tokens |-> content])
    BY <1>11, <1>15
  <2>2. after.shown # <<>>
    <3>1. Len(after.shown) = Len(c.shown) + 1
      BY <1>4, <1>7, <2>1
    <3> QED
      BY <1>4, <3>1
  <2>3. CASE c.shown = <<>>
    <3>1. after.shown[1] = [hunk |-> i, tokens |-> content]
      BY <2>1, <2>3
    <3>2. after.shown[1].hunk = i
      BY <3>1
    <3> QED
      BY <1>1, <1>13, <2>2, <2>3, <3>2 DEF i, after, OneLess
  <2>4. CASE c.shown # <<>>
    <3>1. after.shown[1] = c.shown[1]
      BY <1>4, <2>1, <2>4
    <3> QED
      BY <1>1, <1>13, <2>2, <2>4, <3>1 DEF i, after, OneLess
  <2> QED
    BY <2>3, <2>4
<1> QED
  BY <1>12, <1>14, <1>15
(* The hunk that leads the diff: the riskiest one. *)
Leader(hunks, risk) == IF hunks = <<>> THEN 0 ELSE Foremost(hunks, risk, DOMAIN hunks)

(* What may be chosen after n rounds. *)
Chosen(hunks, risk, n) ==
  {c \in Views :
     /\ c.rest \subseteq DOMAIN hunks /\ Cardinality(c.rest) = Len(hunks) - n
     /\ IF n = 0 THEN c.shown = <<>> /\ c.rest = DOMAIN hunks
        ELSE c.shown # <<>> /\ c.shown[1].hunk = Leader(hunks, risk)}

LEMMA ChoicesKept ==
  ASSUME NEW H, NEW size \in [H -> Nat], NEW risk \in [H -> Nat], Ranked(H),
         NEW hunks \in Seq(H), NEW n \in 1 .. Len(hunks), NEW c \in Chosen(hunks, risk, n - 1)
  PROVE  Select(hunks, size, risk, c) \in Chosen(hunks, risk, n)
<1> DEFINE i == Foremost(hunks, risk, c.rest)
           after == Select(hunks, size, risk, c)
<1>1. /\ Len(hunks) \in Nat /\ DOMAIN hunks = 1 .. Len(hunks) /\ hunks # <<>> /\ n \in Nat /\ n # 0
  OBVIOUS
<1>2. /\ c \in Views /\ c.rest \subseteq DOMAIN hunks
      /\ Cardinality(c.rest) = Len(hunks) - (n - 1)
      /\ IF n - 1 = 0 THEN c.shown = <<>> /\ c.rest = DOMAIN hunks
         ELSE c.shown # <<>> /\ c.shown[1].hunk = Leader(hunks, risk)
  BY DEF Chosen
<1>3. IsFiniteSet(c.rest)
  <2>1. IsFiniteSet(1 .. Len(hunks))
    BY <1>1, FS_Interval
  <2> QED
    BY <1>1, <1>2, <2>1, FS_Subset
<1>4. c.rest # {}
  <2>1. Cardinality(c.rest) # 0
    BY <1>1, <1>2
  <2> QED
    BY <1>3, <2>1, FS_EmptySet
<1>5. /\ i \in c.rest /\ after \in Views /\ after.rest = c.rest \ {i}
      /\ after.shown # <<>>
      /\ after.shown[1].hunk = IF c.shown = <<>> THEN i ELSE c.shown[1].hunk
  <2>1. OneLess(hunks, risk, c, after)
    BY <1>2, <1>4, SelectKeeps, Zenon
  <2> QED
    BY <2>1, Zenon DEF OneLess
<1>6. after.shown[1].hunk = Leader(hunks, risk)
  <2>1. CASE n = 1
    <3>1. c.shown = <<>> /\ c.rest = DOMAIN hunks
      BY <1>2, <2>1
    <3> QED
      BY <1>1, <1>5, <3>1 DEF Leader
  <2>2. CASE n # 1
    <3>1. c.shown # <<>> /\ c.shown[1].hunk = Leader(hunks, risk)
      BY <1>1, <1>2, <2>2
    <3> QED
      BY <1>5, <3>1
  <2> QED
    BY <2>1, <2>2
<1> HIDE DEF i, after
<1>7. Cardinality(after.rest) = Len(hunks) - n
  <2>1. Cardinality(c.rest \ {i}) = Cardinality(c.rest) - 1
    BY <1>3, <1>5, FS_RemoveElement
  <2> QED
    BY <1>1, <1>2, <1>5, <2>1
<1>8. after.rest \subseteq DOMAIN hunks
  BY <1>2, <1>5
<1>9. after \in Chosen(hunks, risk, n)
  BY <1>1, <1>5, <1>6, <1>7, <1>8 DEF Chosen
<1> QED
  BY <1>9 DEF after

Chooses(f, hunks, size, risk) ==
  f = [n \in 0 .. Len(hunks) |->
         IF n = 0 THEN [shown |-> <<>>, left |-> <<>>, used |-> 0, rest |-> DOMAIN hunks]
         ELSE Select(hunks, size, risk, f[n - 1])]

LEMMA SelectedLed ==
  ASSUME NEW H, NEW size \in [H -> Nat], NEW risk \in [H -> Nat], Ranked(H),
         NEW hunks \in Seq(H)
  PROVE  Selected(hunks, size, risk) \in LedBy(Leader(hunks, risk))
<1> DEFINE N == Len(hunks)
           none == [shown |-> <<>>, left |-> <<>>, used |-> 0, rest |-> DOMAIN hunks]
           Q == [n \in 0 .. N |-> Chosen(hunks, risk, n)]
           steps == [n \in 1 .. N |-> [c \in Chosen(hunks, risk, n - 1) |->
                                         Select(hunks, size, risk, c)]]
           f == CHOOSE f : Chooses(f, hunks, size, risk)
<1>1. N \in Nat /\ DOMAIN hunks = 1 .. N /\ (hunks = <<>> <=> N = 0)
  OBVIOUS
<1>2. none \in Chosen(hunks, risk, 0)
  <2>1. none \in Views
    BY <1>1 DEF Views
  <2>2. Cardinality(DOMAIN hunks) = N
    BY <1>1, FS_Interval
  <2> QED
    BY <1>1, <2>1, <2>2 DEF Chosen
<1>3. Selected(hunks, size, risk) = f[N]
  BY DEF Selected, Chooses
<1> HIDE DEF none
<1>4. \A n \in 1 .. N : \A c \in Chosen(hunks, risk, n - 1) :
        Select(hunks, size, risk, c) \in Chosen(hunks, risk, n)
  BY ChoicesKept
<1>5. \E g : Chooses(g, hunks, size, risk)
  <2>1. \A n \in 1 .. N : n - 1 \in 0 .. N /\ n \in 0 .. N
    BY <1>1
  <2>2. /\ Q[0] = Chosen(hunks, risk, 0)
        /\ \A n \in 1 .. N : Q[n - 1] = Chosen(hunks, risk, n - 1) /\ Q[n] = Chosen(hunks, risk, n)
    BY <1>1, <2>1
  <2>3. \A n \in 1 .. N : \A c \in Chosen(hunks, risk, n - 1) :
          steps[n][c] = Select(hunks, size, risk, c)
    OBVIOUS
  <2> HIDE DEF Q, steps, N
  <2>4. \A n \in 1 .. N : \A c \in Q[n - 1] : steps[n][c] \in Q[n]
    BY <1>4, <2>2, <2>3
  <2>5. none \in Q[0]
    BY <1>2, <2>2
  <2>6. PICK g : Goes(g, none, steps, Q, N)
    BY <1>1, <2>4, <2>5, Recursion
  <2>7. ASSUME NEW n \in 1 .. N PROVE g[n] = Select(hunks, size, risk, g[n - 1])
    BY <2>2, <2>3, <2>6 DEF Goes
  <2> DEFINE h == [n \in 0 .. N |-> IF n = 0 THEN none ELSE Select(hunks, size, risk, g[n - 1])]
  <2>8. g = h
    <3>1. g = [n \in 0 .. N |-> g[n]] /\ g[0] = none
      BY <2>6 DEF Goes
    <3>2. \A n \in 0 .. N : g[n] = h[n]
      <4>1. \A n \in 0 .. N : n = 0 \/ n \in 1 .. N
        BY <1>1
      <4> QED
        BY <2>7, <3>1, <4>1
    <3> QED
      BY <3>1, <3>2
  <2> QED
    BY <2>8 DEF Chooses, N, none
<1>6. Chooses(f, hunks, size, risk)
  BY <1>5
<1> HIDE DEF f
<1>7. \A n \in 0 .. N : f[n] = IF n = 0 THEN none ELSE Select(hunks, size, risk, f[n - 1])
  BY <1>6, Zenon DEF Chooses, none
<1>8. f[0] = none /\ \A n \in 1 .. N : f[n] = Select(hunks, size, risk, f[n - 1])
  <2>1. 0 \in 0 .. N /\ \A n \in 1 .. N : n \in 0 .. N /\ n # 0
    BY <1>1
  <2> HIDE DEF N
  <2> QED BY <1>7, <2>1
<1> HIDE DEF N
<1>9. \A n \in 0 .. N : f[n] \in Chosen(hunks, risk, n)
  <2> DEFINE S == {n \in 0 .. N : f[n] \in Chosen(hunks, risk, n)}
  <2>1. 0 \in S
    BY <1>1, <1>2, <1>8
  <2>2. ASSUME NEW n \in 1 .. N, n - 1 \in S PROVE n \in S
    <3>1. n \in 0 .. N
      BY <1>1
    <3> QED
      BY <1>4, <1>8, <2>2, <3>1
  <2>3. \A n \in 0 .. N : n \in S
    <3> HIDE DEF S
    <3> QED BY <1>1, <2>1, <2>2, UpTo
  <2> QED
    BY <2>3
<1>10. f[N] \in Chosen(hunks, risk, N)
  BY <1>1, <1>9
<1> QED
  BY <1>1, <1>3, <1>10 DEF Chosen, LedBy, Leader
(* What is taken from it leaves its first hunk.                               *)
LEMMA ViewParts ==
  ASSUME NEW p \in Views
  PROVE  /\ p.shown \in Seq(Excerpt) /\ p.left \in Seq(Excerpt)
         /\ \A s \in Seq(Excerpt) : /\ [p EXCEPT !.left = s] \in Views
                                    /\ [p EXCEPT !.left = s].shown = p.shown
         /\ \A s \in Seq(Excerpt) : /\ [p EXCEPT !.shown = s] \in Views
                                    /\ [p EXCEPT !.shown = s].shown = s
         /\ \A s, u \in Seq(Excerpt) : /\ [p EXCEPT !.shown = s, !.left = u] \in Views
                                       /\ [p EXCEPT !.shown = s, !.left = u].shown = s
BY DEF Views

LEMMA ExcerptLen ==
  \A s \in Seq(Excerpt) :
    /\ Len(s) \in Nat /\ DOMAIN s = 1 .. Len(s) /\ \A i \in 1 .. Len(s) : s[i] \in Excerpt
    /\ s # <<>> => Len(s) >= 1
<1> SUFFICES ASSUME NEW s \in Seq(Excerpt)
             PROVE  /\ Len(s) \in Nat /\ DOMAIN s = 1 .. Len(s)
                    /\ \A i \in 1 .. Len(s) : s[i] \in Excerpt
                    /\ s # <<>> => Len(s) >= 1
  OBVIOUS
<1>1. Len(s) = 0 => s = <<>>
  OBVIOUS
<1> QED
  BY <1>1

LEMMA ResizedLed ==
  ASSUME NEW lead, NEW p \in LedBy(lead), p.shown # <<>>, NEW size \in Nat
  PROVE  Resized(p, size) \in LedBy(lead)
<1> DEFINE s == p.shown
           last == [s[Len(s)] EXCEPT !.tokens = size]
           cut == [s EXCEPT ![Len(s)] = last]
<1>0. p \in Views
  BY DEF LedBy
<1>1. s \in Seq(Excerpt) /\ Len(s) \in 1 .. Len(s) /\ DOMAIN s = 1 .. Len(s) /\ 1 \in 1 .. Len(s)
  <2>1. s \in Seq(Excerpt)
    BY <1>0 DEF Views
  <2>2. Len(s) \in Nat /\ DOMAIN s = 1 .. Len(s) /\ Len(s) >= 1
    BY <2>1, ExcerptLen
  <2> HIDE DEF s
  <2> QED
    BY <2>1, <2>2
<1>2. s[Len(s)] \in Excerpt
  BY <1>1
<1>3. last \in Excerpt /\ last.hunk = s[Len(s)].hunk
  BY <1>2 DEF Excerpt
<1>4. Resized(p, size) = [p EXCEPT !.shown = cut]
  BY DEF Resized
<1> HIDE DEF last, s
<1>5. /\ cut \in Seq(Excerpt) /\ DOMAIN cut = DOMAIN s /\ cut[Len(s)] = last
      /\ \A i \in DOMAIN s : i # Len(s) => cut[i] = s[i]
  BY <1>1, <1>3
<1> HIDE DEF cut
<1>6. cut # <<>> /\ cut[1].hunk = s[1].hunk
  <2>1. cut # <<>>
    BY <1>1, <1>5
  <2>2. cut[1].hunk = s[1].hunk
    <3>1. CASE Len(s) = 1
      BY <1>3, <1>5, <3>1
    <3>2. CASE Len(s) # 1
      BY <1>1, <1>5, <3>2
    <3> QED
      BY <3>1, <3>2
  <2> QED
    BY <2>1, <2>2
<1>7. [p EXCEPT !.shown = cut] \in Views /\ [p EXCEPT !.shown = cut].shown = cut
  BY <1>0, <1>1, <1>5, ViewParts
<1> QED
  BY <1>4, <1>6, <1>7 DEF LedBy, s

(* All but the last of several begin with the same. *)
LEMMA FrontLed ==
  ASSUME NEW s \in Seq(Excerpt), s # <<>>, Len(s) # 1
  PROVE  Front(s) \in Seq(Excerpt) /\ Front(s) # <<>> /\ Front(s)[1] = s[1]
<1>1. Len(s) \in Nat /\ Len(s) >= 2 /\ Len(s) - 1 \in Nat /\ 1 \in 1 .. Len(s) - 1
      /\ \A i \in 1 .. Len(s) : s[i] \in Excerpt
  <2>1. /\ Len(s) \in Nat /\ Len(s) >= 1 /\ \A i \in 1 .. Len(s) : s[i] \in Excerpt
    BY ExcerptLen
  <2> DEFINE n == Len(s)
  <2>2. n \in Nat /\ n >= 1 /\ n # 1
    BY <2>1
  <2> HIDE DEF n
  <2>3. n >= 2 /\ n - 1 \in Nat /\ 1 \in 1 .. n - 1
    BY <2>2
  <2> QED
    BY <2>1, <2>3 DEF n
<1>2. Front(s) = SubSeq(s, 1, Len(s) - 1)
  BY DEF Front
<1>3. /\ Front(s) \in Seq(Excerpt) /\ Len(Front(s)) = Len(s) - 1
      /\ \A i \in 1 .. Len(s) - 1 : Front(s)[i] = s[i]
  BY <1>1, <1>2
<1>4. Front(s) # <<>>
  BY <1>1, <1>3
<1> QED
  BY <1>1, <1>3, <1>4

LEMMA HalveLed ==
  ASSUME NEW lead, NEW p \in LedBy(lead)
  PROVE  HalveOnce(p) \in LedBy(lead)
<1>1. p \in Views /\ p.shown \in Seq(Excerpt) /\ p.left \in Seq(Excerpt)
  BY ViewParts DEF LedBy
<1> DEFINE entry == Last(p.shown)
           short == <<[hunk |-> entry.hunk, tokens |-> BriefTokens]>> \o p.left
           given == [p EXCEPT !.shown = Front(p.shown), !.left = short]
<1>2. \/ HalveOnce(p) = p
      \/ p.shown # <<>> /\ HalveOnce(p) = Resized(p, Most(79, entry.tokens \div 2))
      \/ p.shown # <<>> /\ Len(p.shown) # 1 /\ HalveOnce(p) = given
  BY Zenon DEF HalveOnce
<1>3. ASSUME p.shown # <<>> PROVE entry \in Excerpt
  <2>1. Len(p.shown) \in DOMAIN p.shown
    BY <1>1, <1>3
  <2> QED
    BY <1>1, <2>1 DEF Last
<1> HIDE DEF entry
<1>4. ASSUME p.shown # <<>> PROVE Resized(p, Most(79, entry.tokens \div 2)) \in LedBy(lead)
  <2>1. entry.tokens \in Nat
    BY <1>3, <1>4 DEF Excerpt
  <2>2. Most(79, entry.tokens \div 2) \in Nat
    BY <2>1 DEF Most
  <2> QED
    BY <1>4, <2>2, ResizedLed
<1>5. ASSUME p.shown # <<>>, Len(p.shown) # 1 PROVE given \in LedBy(lead)
  <2>1. /\ Front(p.shown) \in Seq(Excerpt) /\ Front(p.shown) # <<>>
        /\ Front(p.shown)[1] = p.shown[1]
    BY <1>1, <1>5, FrontLed
  <2>2. [hunk |-> entry.hunk, tokens |-> BriefTokens] \in Excerpt
    BY <1>3, <1>5, Budgets DEF Excerpt
  <2>3. short \in Seq(Excerpt)
    BY <1>1, <2>2
  <2> HIDE DEF short
  <2>4. given \in Views /\ given.shown = Front(p.shown)
    <3>1. \A s, u \in Seq(Excerpt) : /\ [p EXCEPT !.shown = s, !.left = u] \in Views
                                     /\ [p EXCEPT !.shown = s, !.left = u].shown = s
      BY <1>1, ViewParts
    <3> QED
      BY <2>1, <2>3, <3>1, Zenon
  <2> QED
    BY <2>1, <2>4 DEF LedBy
<1> QED
  BY <1>2, <1>4, <1>5

LEMMA ClipLed ==
  ASSUME NEW lead, NEW p \in LedBy(lead)
  PROVE  ClipOnce(p) \in LedBy(lead)
<1>1. p \in Views /\ p.shown \in Seq(Excerpt)
  BY ViewParts DEF LedBy
<1> DEFINE given == [p EXCEPT !.shown = Front(p.shown)]
<1>2. \/ ClipOnce(p) = p
      \/ p.shown # <<>> /\ ClipOnce(p) = Resized(p, 42)
      \/ p.shown # <<>> /\ Len(p.shown) # 1 /\ ClipOnce(p) = given
  BY Zenon DEF ClipOnce
<1>3. ASSUME p.shown # <<>> PROVE Resized(p, 42) \in LedBy(lead)
  BY <1>3, ResizedLed
<1>4. ASSUME p.shown # <<>>, Len(p.shown) # 1 PROVE given \in LedBy(lead)
  <2>1. /\ Front(p.shown) \in Seq(Excerpt) /\ Front(p.shown) # <<>>
        /\ Front(p.shown)[1] = p.shown[1]
    BY <1>1, <1>4, FrontLed
  <2>2. given \in Views /\ given.shown = Front(p.shown)
    BY <1>1, <2>1, ViewParts
  <2> QED
    BY <2>1, <2>2 DEF LedBy
<1> QED
  BY <1>2, <1>3, <1>4

LEMMA DropLed ==
  ASSUME NEW lead, NEW p \in LedBy(lead)
  PROVE  DropSummaries(p) \in LedBy(lead)
<1>0. p \in Views
  BY DEF LedBy
<1>1. p \in Views /\ p.left \in Seq(Excerpt) /\ Len(p.left) \in Nat
  <2>1. p.left \in Seq(Excerpt)
    BY <1>0 DEF Views
  <2> QED
    BY <1>0, <2>1
<1> DEFINE first(n) == [p EXCEPT !.left = SubSeq(@, 1, n)]
           enough == {n \in 0 .. Len(p.left) : Fitting(first(n))}
           most == CHOOSE n \in enough : \A other \in enough : other <= n
<1>2. ASSUME NEW n \in 0 .. Len(p.left) PROVE first(n) \in LedBy(lead)
  <2>1. SubSeq(p.left, 1, n) \in Seq(Excerpt)
    BY <1>1
  <2>2. first(n) \in Views /\ first(n).shown = p.shown
    BY <1>1, <2>1, ViewParts
  <2> QED
    BY <2>2 DEF LedBy
<1>3. DropSummaries(p) = IF enough = {} THEN first(0) ELSE first(most)
  BY DEF DropSummaries
<1>4. CASE enough = {}
  <2>1. 0 \in 0 .. Len(p.left)
    BY <1>1
  <2>2. first(0) \in LedBy(lead)
    BY <1>2, <2>1
  <2> HIDE DEF enough, first
  <2> QED
    BY <1>3, <1>4, <2>2
<1>5. CASE enough # {}
  <2> DEFINE N == Len(p.left)
             S == {k \in Nat : k <= N /\ N - k \in enough}
  <2>1. \A n \in enough : n \in 0 .. N
    OBVIOUS
  <2> HIDE DEF enough
  <2>2. S # {} /\ S \in SUBSET Nat
    <3>1. PICK n \in enough : TRUE
      BY <1>5
    <3>2. N - n \in S
      BY <1>1, <2>1, <3>1
    <3> QED
      BY <3>2
  <2>3. PICK k \in S : \A m \in S : k <= m
    <3> HIDE DEF S
    <3> QED BY <2>2, Smallest
  <2>4. N - k \in enough /\ \A other \in enough : other <= N - k
    <3>1. \A other \in enough : N - other \in S
      BY <1>1, <2>1
    <3> QED
      BY <1>1, <2>1, <2>3, <3>1
  <2>5. most \in enough
    BY <2>4
  <2> QED
    BY <1>2, <1>3, <1>5, <2>1, <2>5
<1> QED
  BY <1>4, <1>5
(* Each of the two loops is a recursive function of the rounds it took.       *)
HalvesFrom(f, p, N) == f = [n \in 0 .. N |-> IF n = 0 THEN p ELSE HalveOnce(f[n - 1])]
ClipsFrom(f, p, N) == f = [n \in 0 .. N |-> IF n = 0 THEN p ELSE ClipOnce(f[n - 1])]

LEMMA RoundsNat ==
  ASSUME NEW p \in Views
  PROVE  Rounds(p) \in Nat
<1>1. p.shown \in Seq(Excerpt)
  BY DEF Views
<1>2. Len(p.shown) \in Nat
  BY <1>1
<1> QED
  BY <1>2 DEF Rounds

LEMMA HalvedLed ==
  ASSUME NEW lead, NEW p \in LedBy(lead)
  PROVE  Halved(p) \in LedBy(lead)
<1> DEFINE N == Rounds(p)
           All == LedBy(lead)
           Q == [n \in 0 .. N |-> All]
           steps == [n \in 1 .. N |-> [q \in All |-> HalveOnce(q)]]
           f == CHOOSE f : HalvesFrom(f, p, N)
<1>1. N \in Nat
  BY RoundsNat DEF LedBy
<1>2. Halved(p) = f[N]
  BY DEF Halved, HalvesFrom
<1>3. \A q \in All : HalveOnce(q) \in All
  BY HalveLed
<1>4. p \in All
  OBVIOUS
<1> HIDE DEF N, All
<1>5. \E g : HalvesFrom(g, p, N)
  <2>1. \A n \in 1 .. N : n - 1 \in 0 .. N /\ n \in 0 .. N
    BY <1>1
  <2>2. Q[0] = All /\ \A n \in 1 .. N : Q[n - 1] = All /\ Q[n] = All
    BY <1>1, <2>1
  <2>3. \A n \in 1 .. N : \A q \in All : steps[n][q] = HalveOnce(q)
    OBVIOUS
  <2> HIDE DEF Q, steps
  <2>4. \A n \in 1 .. N : \A q \in Q[n - 1] : steps[n][q] \in Q[n]
    BY <1>3, <2>2, <2>3
  <2>5. p \in Q[0]
    BY <1>4, <2>2
  <2>6. PICK g : Goes(g, p, steps, Q, N)
    BY <1>1, <2>4, <2>5, Recursion
  <2>7. ASSUME NEW n \in 1 .. N PROVE g[n] = HalveOnce(g[n - 1])
    BY <2>2, <2>3, <2>6 DEF Goes
  <2> DEFINE h == [n \in 0 .. N |-> IF n = 0 THEN p ELSE HalveOnce(g[n - 1])]
  <2>8. g = h
    <3>1. g = [n \in 0 .. N |-> g[n]] /\ g[0] = p
      BY <2>6 DEF Goes
    <3>2. \A n \in 0 .. N : g[n] = h[n]
      <4>1. \A n \in 0 .. N : n = 0 \/ n \in 1 .. N
        BY <1>1
      <4> QED
        BY <2>7, <3>1, <4>1
    <3> QED
      BY <3>1, <3>2
  <2> QED
    BY <2>8 DEF HalvesFrom
<1>6. HalvesFrom(f, p, N)
  BY <1>5
<1> HIDE DEF f
<1>7. \A n \in 0 .. N : f[n] = IF n = 0 THEN p ELSE HalveOnce(f[n - 1])
  BY <1>6, Zenon DEF HalvesFrom
<1>8. f[0] = p /\ \A n \in 1 .. N : f[n] = HalveOnce(f[n - 1])
  <2>1. 0 \in 0 .. N /\ \A n \in 1 .. N : n \in 0 .. N /\ n # 0
    BY <1>1
  <2> QED
    BY <1>7, <2>1
<1> DEFINE S == {n \in 0 .. N : f[n] \in All}
<1>9. 0 \in S
  BY <1>1, <1>4, <1>8
<1>10. ASSUME NEW n \in 1 .. N, n - 1 \in S PROVE n \in S
  <2>1. n \in 0 .. N
    BY <1>1
  <2> QED
    BY <1>3, <1>8, <1>10, <2>1
<1>11. \A n \in 0 .. N : n \in S
  <2> HIDE DEF S
  <2> QED BY <1>1, <1>9, <1>10, UpTo
<1>12. f[N] \in All
  BY <1>1, <1>11
<1> QED
  BY <1>2, <1>12 DEF All

LEMMA ClippedLed ==
  ASSUME NEW lead, NEW p \in LedBy(lead)
  PROVE  Clipped120(p) \in LedBy(lead)
<1> DEFINE N == Rounds(p)
           All == LedBy(lead)
           Q == [n \in 0 .. N |-> All]
           steps == [n \in 1 .. N |-> [q \in All |-> ClipOnce(q)]]
           f == CHOOSE f : ClipsFrom(f, p, N)
<1>1. N \in Nat
  BY RoundsNat DEF LedBy
<1>2. Clipped120(p) = f[N]
  BY DEF Clipped120, ClipsFrom
<1>3. \A q \in All : ClipOnce(q) \in All
  BY ClipLed
<1>4. p \in All
  OBVIOUS
<1> HIDE DEF N, All
<1>5. \E g : ClipsFrom(g, p, N)
  <2>1. \A n \in 1 .. N : n - 1 \in 0 .. N /\ n \in 0 .. N
    BY <1>1
  <2>2. Q[0] = All /\ \A n \in 1 .. N : Q[n - 1] = All /\ Q[n] = All
    BY <1>1, <2>1
  <2>3. \A n \in 1 .. N : \A q \in All : steps[n][q] = ClipOnce(q)
    OBVIOUS
  <2> HIDE DEF Q, steps
  <2>4. \A n \in 1 .. N : \A q \in Q[n - 1] : steps[n][q] \in Q[n]
    BY <1>3, <2>2, <2>3
  <2>5. p \in Q[0]
    BY <1>4, <2>2
  <2>6. PICK g : Goes(g, p, steps, Q, N)
    BY <1>1, <2>4, <2>5, Recursion
  <2>7. ASSUME NEW n \in 1 .. N PROVE g[n] = ClipOnce(g[n - 1])
    BY <2>2, <2>3, <2>6 DEF Goes
  <2> DEFINE h == [n \in 0 .. N |-> IF n = 0 THEN p ELSE ClipOnce(g[n - 1])]
  <2>8. g = h
    <3>1. g = [n \in 0 .. N |-> g[n]] /\ g[0] = p
      BY <2>6 DEF Goes
    <3>2. \A n \in 0 .. N : g[n] = h[n]
      <4>1. \A n \in 0 .. N : n = 0 \/ n \in 1 .. N
        BY <1>1
      <4> QED
        BY <2>7, <3>1, <4>1
    <3> QED
      BY <3>1, <3>2
  <2> QED
    BY <2>8 DEF ClipsFrom
<1>6. ClipsFrom(f, p, N)
  BY <1>5
<1> HIDE DEF f
<1>7. \A n \in 0 .. N : f[n] = IF n = 0 THEN p ELSE ClipOnce(f[n - 1])
  BY <1>6, Zenon DEF ClipsFrom
<1>8. f[0] = p /\ \A n \in 1 .. N : f[n] = ClipOnce(f[n - 1])
  <2>1. 0 \in 0 .. N /\ \A n \in 1 .. N : n \in 0 .. N /\ n # 0
    BY <1>1
  <2> QED
    BY <1>7, <2>1
<1> DEFINE S == {n \in 0 .. N : f[n] \in All}
<1>9. 0 \in S
  BY <1>1, <1>4, <1>8
<1>10. ASSUME NEW n \in 1 .. N, n - 1 \in S PROVE n \in S
  <2>1. n \in 0 .. N
    BY <1>1
  <2> QED
    BY <1>3, <1>8, <1>10, <2>1
<1>11. \A n \in 0 .. N : n \in S
  <2> HIDE DEF S
  <2> QED BY <1>1, <1>9, <1>10, UpTo
<1>12. f[N] \in All
  BY <1>1, <1>11
<1> QED
  BY <1>2, <1>12 DEF All

(* A view is led by the riskiest hunk, and counts the ones it leaves out.     *)
ViewHonest(view, hunks, risk) ==
  /\ view.shown \in Seq(Excerpt) /\ view.left \in Seq(Excerpt)
  /\ view.omitted = Len(hunks) - Len(view.shown)
  /\ hunks # <<>> =>
       /\ view.shown # <<>> /\ view.shown[1].hunk \in DOMAIN hunks
       /\ \A i \in DOMAIN hunks : risk[hunks[i]] <= risk[hunks[view.shown[1].hunk]]

LEMMA DiffViewLed ==
  \A H : \A size, risk \in [H -> Nat] : \A hunks \in Seq(H) : Ranked(H) =>
    ViewHonest(DiffView(hunks, size, risk), hunks, risk)
<1> SUFFICES ASSUME NEW H, NEW size \in [H -> Nat], NEW risk \in [H -> Nat],
                    NEW hunks \in Seq(H), Ranked(H)
             PROVE  ViewHonest(DiffView(hunks, size, risk), hunks, risk)
  OBVIOUS
<1> DEFINE lead == Leader(hunks, risk)
           p == Clipped120(Halved(DropSummaries(Selected(hunks, size, risk))))
           view == DiffView(hunks, size, risk)
<1>1. p \in LedBy(lead)
  BY SelectedLed, DropLed, HalvedLed, ClippedLed
<1>2. view = [shown |-> p.shown, left |-> p.left, omitted |-> Len(hunks) - Len(p.shown)]
  BY DEF DiffView
<1> HIDE DEF p, view
<1>3. /\ view.shown = p.shown /\ view.left = p.left
      /\ view.omitted = Len(hunks) - Len(view.shown)
  BY <1>2
<1>4. p.shown \in Seq(Excerpt) /\ p.left \in Seq(Excerpt)
  BY <1>1 DEF LedBy, Views
<1>5. ASSUME hunks # <<>>
      PROVE  /\ view.shown # <<>> /\ view.shown[1].hunk \in DOMAIN hunks
             /\ \A i \in DOMAIN hunks : risk[hunks[i]] <= risk[hunks[view.shown[1].hunk]]
  <2>1. DOMAIN hunks # {}
    <3>1. Len(hunks) \in Nat /\ DOMAIN hunks = 1 .. Len(hunks) /\ Len(hunks) # 0
      BY <1>5
    <3>2. 1 \in DOMAIN hunks
      BY <3>1
    <3> QED
      BY <3>2
  <2>2. Best(hunks, risk, DOMAIN hunks, Foremost(hunks, risk, DOMAIN hunks))
    BY <2>1, BestExists
  <2>3. lead = Foremost(hunks, risk, DOMAIN hunks)
    BY <1>5 DEF Leader
  <2>4. lead \in DOMAIN hunks /\ lead # 0
    BY <2>2, <2>3 DEF Best
  <2>5. view.shown # <<>> /\ view.shown[1].hunk = lead
    BY <1>1, <1>3, <2>4 DEF LedBy
  <2>6. \A i \in DOMAIN hunks : risk[hunks[i]] \in Nat
    OBVIOUS
  <2> HIDE DEF lead
  <2>7. \A i \in DOMAIN hunks : risk[hunks[i]] <= risk[hunks[lead]]
    <3>1. \A j \in DOMAIN hunks :
            risk[hunks[lead]] > risk[hunks[j]] \/ risk[hunks[lead]] = risk[hunks[j]]
      BY <2>2, <2>3 DEF Best, Ahead
    <3>2. risk[hunks[lead]] \in Nat
      BY <2>4, <2>6
    <3> QED
      BY <2>6, <3>1, <3>2
  <2> QED
    BY <2>4, <2>5, <2>7
<1>6. /\ view.shown \in Seq(Excerpt) /\ view.left \in Seq(Excerpt)
      /\ view.omitted = Len(hunks) - Len(view.shown)
  BY <1>3, <1>4
<1> QED
  BY <1>5, <1>6 DEF view, ViewHonest
-------------------------------------------------------------------------------
(* Tasks: no text of one grows, and no candidate goes.                        *)
Texts == [texts : Seq(Nat), candidates : Seq(Nat), memory : Seq(Nat)]

LEMMA TextsParts ==
  \A task \in Texts :
    /\ task.texts \in Seq(Nat) /\ task.candidates \in Seq(Nat) /\ task.memory \in Seq(Nat)
    /\ KeyTokens * Len(task.candidates) \in Nat /\ RowTokens * Len(task.memory) \in Nat
<1> SUFFICES ASSUME NEW task \in Texts
             PROVE  /\ task.texts \in Seq(Nat) /\ task.candidates \in Seq(Nat)
                    /\ task.memory \in Seq(Nat) /\ KeyTokens * Len(task.candidates) \in Nat
                    /\ RowTokens * Len(task.memory) \in Nat
  OBVIOUS
<1>1. task.texts \in Seq(Nat) /\ task.candidates \in Seq(Nat) /\ task.memory \in Seq(Nat)
  BY DEF Texts
<1>2. /\ Len(task.candidates) \in Nat /\ Len(task.memory) \in Nat
      /\ KeyTokens \in Nat /\ RowTokens \in Nat
  BY <1>1, ContextAssumption
<1>3. \A a, b \in Nat : a * b \in Nat
  OBVIOUS
<1> QED
  BY <1>1, <1>2, <1>3

LEMMA TaskSizeNat == \A task \in Texts : TaskSize(task) \in Nat
<1> SUFFICES ASSUME NEW task \in Texts PROVE TaskSize(task) \in Nat
  OBVIOUS
<1>1. Total(task.texts) \in Nat /\ Total(task.candidates) \in Nat /\ Total(task.memory) \in Nat
  BY TextsParts, TotalNat
<1>2. KeyTokens * Len(task.candidates) \in Nat /\ RowTokens * Len(task.memory) \in Nat
  BY TextsParts
<1> QED
  BY <1>1, <1>2 DEF TaskSize

(* The task that is left has texts, candidates and rows of no larger sizes.   *)
NoLonger(u, s) == Len(u) = Len(s) /\ \A i \in 1 .. Len(s) : u[i] <= s[i]

Within(cut, task) ==
  /\ cut \in Texts
  /\ NoLonger(cut.texts, task.texts) /\ NoLonger(cut.candidates, task.candidates)
  /\ NoLonger(cut.memory, task.memory)

LEMMA WithinSize ==
  \A task \in Texts : \A cut : Within(cut, task) => TaskSize(cut) <= TaskSize(task)
<1> SUFFICES ASSUME NEW task \in Texts, NEW cut, Within(cut, task)
             PROVE  TaskSize(cut) <= TaskSize(task)
  OBVIOUS
<1> DEFINE k == KeyTokens * Len(task.candidates)
           q == RowTokens * Len(task.memory)
<1>0. cut \in Texts
  BY DEF Within
<1>1. /\ Total(cut.texts) <= Total(task.texts)
      /\ Total(cut.candidates) <= Total(task.candidates)
      /\ Total(cut.memory) <= Total(task.memory)
      /\ Len(cut.candidates) = Len(task.candidates) /\ Len(cut.memory) = Len(task.memory)
  BY <1>0, TextsParts, TotalLess DEF Within, NoLonger
<1>2. /\ Total(cut.texts) \in Nat /\ Total(task.texts) \in Nat
      /\ Total(cut.candidates) \in Nat /\ Total(task.candidates) \in Nat
      /\ Total(cut.memory) \in Nat /\ Total(task.memory) \in Nat
      /\ k \in Nat /\ q \in Nat
  BY <1>0, TextsParts, TotalNat
<1>3. /\ TaskSize(cut) = Total(cut.texts) + Total(cut.candidates) + k + Total(cut.memory) + q
      /\ TaskSize(task) = Total(task.texts) + Total(task.candidates) + k + Total(task.memory) + q
  BY <1>1 DEF TaskSize
<1> HIDE DEF k, q
<1> QED
  BY <1>1, <1>2, <1>3

LEMMA NoLongerOrders ==
  /\ \A s \in Seq(Nat) : NoLonger(s, s)
  /\ \A u, v, s \in Seq(Nat) : NoLonger(u, v) /\ NoLonger(v, s) => NoLonger(u, s)
<1>1. ASSUME NEW s \in Seq(Nat) PROVE NoLonger(s, s)
  <2>1. \A i \in 1 .. Len(s) : s[i] \in Nat
    OBVIOUS
  <2> QED
    BY <2>1 DEF NoLonger
<1>2. ASSUME NEW u \in Seq(Nat), NEW v \in Seq(Nat), NEW s \in Seq(Nat),
             NoLonger(u, v), NoLonger(v, s)
      PROVE  NoLonger(u, s)
  <2>1. Len(u) = Len(s) /\ Len(v) = Len(s)
    BY <1>2 DEF NoLonger
  <2>2. \A i \in 1 .. Len(s) : u[i] \in Nat /\ v[i] \in Nat /\ s[i] \in Nat
    BY <2>1
  <2> QED
    BY <1>2, <2>1, <2>2 DEF NoLonger
<1> QED
  BY <1>1, <1>2

LEMMA WithinOrders ==
  /\ \A task \in Texts : Within(task, task)
  /\ \A cut, mid, task : task \in Texts /\ Within(cut, mid) /\ Within(mid, task) =>
       Within(cut, task)
<1>1. ASSUME NEW task \in Texts PROVE Within(task, task)
  BY TextsParts, NoLongerOrders DEF Within
<1>2. ASSUME NEW cut, NEW mid, NEW task \in Texts, Within(cut, mid), Within(mid, task)
      PROVE  Within(cut, task)
  <2>1. cut \in Texts /\ mid \in Texts
    BY <1>2 DEF Within
  <2> QED
    BY <1>2, <2>1, TextsParts, NoLongerOrders DEF Within
<1> QED
  BY <1>1, <1>2

(* What is shortened grows with what it is made from. *)
LEMMA ShortenedIs ==
  \A s \in Seq(Nat) : \A most \in Nat :
    /\ Shortened(s, most) \in Seq(Nat) /\ NoLonger(Shortened(s, most), s)
    /\ \A t \in Seq(Nat) : NoLonger(s, t) => NoLonger(Shortened(s, most), Shortened(t, most))
<1> SUFFICES ASSUME NEW s \in Seq(Nat), NEW most \in Nat
             PROVE  /\ Shortened(s, most) \in Seq(Nat) /\ NoLonger(Shortened(s, most), s)
                    /\ \A t \in Seq(Nat) : NoLonger(s, t) =>
                         NoLonger(Shortened(s, most), Shortened(t, most))
  OBVIOUS
<1>1. \A t \in Seq(Nat) :
        /\ Len(t) \in Nat /\ Shortened(t, most) \in Seq(Nat)
        /\ Len(Shortened(t, most)) = Len(t)
        /\ \A i \in 1 .. Len(t) : /\ t[i] \in Nat /\ Shortened(t, most)[i] \in Nat
                                  /\ Shortened(t, most)[i] = Least(t[i], most)
  <2> SUFFICES ASSUME NEW t \in Seq(Nat)
               PROVE  /\ Len(t) \in Nat /\ Shortened(t, most) \in Seq(Nat)
                      /\ Len(Shortened(t, most)) = Len(t)
                      /\ \A i \in 1 .. Len(t) :
                           /\ t[i] \in Nat /\ Shortened(t, most)[i] \in Nat
                           /\ Shortened(t, most)[i] = Least(t[i], most)
    OBVIOUS
  <2>1. Len(t) \in Nat /\ \A i \in 1 .. Len(t) : t[i] \in Nat /\ Least(t[i], most) \in Nat
    BY DEF Least
  <2> QED
    BY <2>1 DEF Shortened
<1>2. NoLonger(Shortened(s, most), s)
  BY <1>1 DEF NoLonger, Least
<1>3. ASSUME NEW t \in Seq(Nat), NoLonger(s, t)
      PROVE  NoLonger(Shortened(s, most), Shortened(t, most))
  <2>1. Len(s) = Len(t) /\ \A i \in 1 .. Len(t) : s[i] <= t[i]
    BY <1>3 DEF NoLonger
  <2>2. ASSUME NEW i \in 1 .. Len(t) PROVE Shortened(s, most)[i] <= Shortened(t, most)[i]
    <3>1. /\ s[i] \in Nat /\ t[i] \in Nat /\ s[i] <= t[i]
          /\ Shortened(s, most)[i] = Least(s[i], most)
          /\ Shortened(t, most)[i] = Least(t[i], most)
      BY <1>1, <2>1
    <3> QED
      BY <3>1 DEF Least
  <2> QED
    BY <1>1, <2>1, <2>2 DEF NoLonger
<1> QED
  BY <1>1, <1>2, <1>3

LEMMA ClippedWithin ==
  \A task \in Texts : \A text, prose, row \in Nat :
    /\ Within(Clipped(task, text, prose, row), task)
    /\ \A cut : Within(cut, task) =>
         Within(Clipped(cut, text, prose, row), Clipped(task, text, prose, row))
<1> SUFFICES ASSUME NEW text \in Nat, NEW prose \in Nat, NEW row \in Nat
             PROVE  \A task \in Texts :
                      /\ Within(Clipped(task, text, prose, row), task)
                      /\ \A cut : Within(cut, task) =>
                           Within(Clipped(cut, text, prose, row), Clipped(task, text, prose, row))
  OBVIOUS
<1> DEFINE C(task) == Clipped(task, text, prose, row)
<1>1. \A task \in Texts :
        /\ C(task) \in Texts /\ C(task).texts = Shortened(task.texts, text)
        /\ C(task).candidates = Shortened(task.candidates, prose)
        /\ C(task).memory = Shortened(task.memory, row)
  <2> SUFFICES ASSUME NEW task \in Texts
               PROVE  /\ C(task) \in Texts /\ C(task).texts = Shortened(task.texts, text)
                      /\ C(task).candidates = Shortened(task.candidates, prose)
                      /\ C(task).memory = Shortened(task.memory, row)
    OBVIOUS
  <2>1. /\ Shortened(task.texts, text) \in Seq(Nat) /\ Shortened(task.memory, row) \in Seq(Nat)
        /\ Shortened(task.candidates, prose) \in Seq(Nat)
    BY TextsParts, ShortenedIs
  <2> QED
    BY <2>1 DEF Clipped, Texts
<1> HIDE DEF C
<1>2. ASSUME NEW task \in Texts PROVE Within(C(task), task)
  BY <1>1, TextsParts, ShortenedIs DEF Within
<1>3. ASSUME NEW task \in Texts, NEW cut, Within(cut, task) PROVE Within(C(cut), C(task))
  <2>1. cut \in Texts
    BY <1>3 DEF Within
  <2>2. /\ NoLonger(cut.texts, task.texts) /\ NoLonger(cut.memory, task.memory)
        /\ NoLonger(cut.candidates, task.candidates)
    BY <1>3 DEF Within
  <2>3. /\ NoLonger(Shortened(cut.texts, text), Shortened(task.texts, text))
        /\ NoLonger(Shortened(cut.memory, row), Shortened(task.memory, row))
        /\ NoLonger(Shortened(cut.candidates, prose), Shortened(task.candidates, prose))
    BY <2>1, <2>2, TextsParts, ShortenedIs
  <2>4. C(cut) \in Texts
    BY <1>1, <2>1
  <2> QED
    BY <1>1, <2>1, <2>3, <2>4 DEF Within
<1> QED
  BY <1>2, <1>3 DEF C

LEMMA CompactWithin ==
  \A task \in Texts : \A budget : Within(CompactTask(task, budget), task)
<1> SUFFICES ASSUME NEW task \in Texts, NEW budget
             PROVE  Within(CompactTask(task, budget), task)
  OBVIOUS
<1> DEFINE once == Clipped(task, 188, 94, 94)
           C(size) == Clipped(once, size, size, size)
           cut == <<once, C(57), C(29), C(15)>>
           enough == {k \in DOMAIN cut : TaskSize(cut[k]) <= budget}
           least == CHOOSE k \in enough : \A other \in enough : k <= other
<1>1. Within(once, task) /\ once \in Texts
  BY ClippedWithin DEF Within
<1> HIDE DEF once
<1>2. \A x \in Nat : Within(C(x), task)
  <2> SUFFICES ASSUME NEW x \in Nat PROVE Within(C(x), task)
    OBVIOUS
  <2>1. Within(C(x), once)
    BY <1>1, ClippedWithin
  <2> HIDE DEF C
  <2> QED
    BY <1>1, <2>1, WithinOrders
<1> HIDE DEF C
<1>3. \A k \in 1 .. 4 : Within(cut[k], task)
  <2>1. cut[1] = once /\ cut[2] = C(57) /\ cut[3] = C(29) /\ cut[4] = C(15)
    OBVIOUS
  <2>2. Within(C(57), task) /\ Within(C(29), task) /\ Within(C(15), task)
    BY <1>2
  <2>3. \A k \in 1 .. 4 : k = 1 \/ k = 2 \/ k = 3 \/ k = 4
    OBVIOUS
  <2> HIDE DEF cut
  <2> QED
    BY <1>1, <2>1, <2>2, <2>3
<1>4. DOMAIN cut = 1 .. 4 /\ Len(cut) = 4
  OBVIOUS
<1>5. \/ CompactTask(task, budget) = task
      \/ CompactTask(task, budget) = cut[Len(cut)]
      \/ enough # {} /\ CompactTask(task, budget) = cut[least]
  <2>1. CompactTask(task, budget) =
          IF TaskSize(task) <= budget THEN task
          ELSE IF enough = {} THEN cut[Len(cut)] ELSE cut[least]
    BY DEF CompactTask, once, C
  <2> HIDE DEF enough, cut, least
  <2> QED
    BY <2>1
<1> HIDE DEF cut
<1>6. ASSUME enough # {} PROVE least \in 1 .. 4
  <2>1. enough \in SUBSET Nat /\ \A k \in enough : k \in 1 .. 4
    BY <1>4
  <2> HIDE DEF enough
  <2>2. \E k \in enough : \A other \in enough : k <= other
    BY <1>6, <2>1, Smallest
  <2>3. least \in enough
    BY <2>2
  <2> QED
    BY <2>1, <2>3
<1>7. Within(cut[Len(cut)], task)
  BY <1>3, <1>4
<1>8. ASSUME enough # {} PROVE Within(cut[least], task)
  BY <1>3, <1>6, <1>8
<1> QED
  BY <1>5, <1>7, <1>8, WithinOrders

(* In the last resort a task keeps its candidates, and its rows if it is no    *)
(* more than the budget when every text is cut.                              *)
LEMMA MinimalKeeps ==
  \A task \in Texts : \A budget \in Int :
    LET minimal == MinimalTask(task, budget) IN
    /\ Len(minimal.candidates) = Len(task.candidates)
    /\ Len(minimal.memory) = Len(task.memory) \/ TaskSize(Brief(task)) > budget
<1> SUFFICES ASSUME NEW task \in Texts, NEW budget \in Int
             PROVE  LET minimal == MinimalTask(task, budget) IN
                    /\ Len(minimal.candidates) = Len(task.candidates)
                    /\ Len(minimal.memory) = Len(task.memory) \/ TaskSize(Brief(task)) > budget
  OBVIOUS
<1> DEFINE brief == Brief(task)
           texts == [i \in 1 .. Least(2, Len(task.texts)) |->
                       Least(task.texts[i], IF i = 1 THEN 156 ELSE 50)]
           none == Shortened(task.candidates, 0)
           manifest == [texts |-> texts, candidates |-> none, memory |-> <<>>]
           minimal == MinimalTask(task, budget)
<1>1. /\ brief \in Texts /\ Len(brief.candidates) = Len(task.candidates)
      /\ Len(brief.memory) = Len(task.memory)
  BY ClippedWithin DEF Brief, Within, NoLonger
<1>2. Len(none) = Len(task.candidates)
  BY TextsParts, ShortenedIs DEF NoLonger
<1>3. minimal = IF TaskSize(brief) <= budget THEN brief ELSE manifest
  BY DEF MinimalTask
<1>4. TaskSize(brief) \in Nat
  BY <1>1, TaskSizeNat
<1> HIDE DEF texts, none, brief
<1>5. manifest.candidates = none
  OBVIOUS
<1> HIDE DEF manifest, minimal
<1>6. CASE TaskSize(brief) <= budget
  BY <1>1, <1>3, <1>6 DEF minimal
<1>7. CASE ~(TaskSize(brief) <= budget)
  <2>1. TaskSize(brief) > budget
    BY <1>4, <1>7
  <2> QED
    BY <1>2, <1>3, <1>5, <1>7, <2>1 DEF minimal, brief
<1> QED
  BY <1>6, <1>7

(* The whole task of a role is one. *)
LEMMA TaskTyped ==
  ASSUME NEW role \in Roles, NEW view, NEW recalled \in Seq(Outputs),
         view.shown \in Seq(Excerpt), view.left \in Seq(Excerpt)
  PROVE  /\ Task(role, view, recalled) \in Texts
         /\ Len(Task(role, view, recalled).memory) = Len(recalled)
<1> DEFINE a == [i \in DOMAIN view.shown |-> view.shown[i].tokens]
           b == [i \in DOMAIN view.left |-> view.left[i].tokens]
           m == [i \in 1 .. Len(recalled) |-> MemoryTokens[recalled[i]]]
<1>1. a \in Seq(Nat) /\ b \in Seq(Nat)
  <2>1. \A s \in Seq(Excerpt) : [i \in DOMAIN s |-> s[i].tokens] \in Seq(Nat)
    <3> SUFFICES ASSUME NEW s \in Seq(Excerpt) PROVE [i \in DOMAIN s |-> s[i].tokens] \in Seq(Nat)
      OBVIOUS
    <3>1. Len(s) \in Nat /\ DOMAIN s = 1 .. Len(s) /\ \A i \in 1 .. Len(s) : s[i].tokens \in Nat
      BY ExcerptLen DEF Excerpt
    <3> QED
      BY <3>1
  <2> QED
    BY <2>1
<1>2. ViewTokens(view) \in Nat
  <2>1. Total(a) \in Nat /\ Total(b) \in Nat
    BY <1>1, TotalNat
  <2> QED
    BY <2>1 DEF ViewTokens
<1>3. TaskTexts[role] \in Seq(Nat) /\ Candidates[role] \in Seq(Nat)
  BY MemoryAssumption
<1>4. <<ViewTokens(view)>> \o TaskTexts[role] \in Seq(Nat)
  BY <1>2, <1>3
<1>5. m \in Seq(Nat) /\ Len(m) = Len(recalled)
  <2>1. /\ Len(recalled) \in Nat
        /\ \A i \in 1 .. Len(recalled) : recalled[i] \in Outputs
    OBVIOUS
  <2>2. \A out \in Outputs : MemoryTokens[out] \in Nat
    BY ContextAssumption DEF Outputs
  <2> QED
    BY <2>1, <2>2
<1> HIDE DEF m
<1> QED
  BY <1>3, <1>4, <1>5 DEF Task, Texts, m
-------------------------------------------------------------------------------
(* Observations: those from a step on stay, with a size each.                 *)
LEMMA SizesTyped ==
  ASSUME NEW seen \in Seq(Outputs), NEW from \in 1 .. Len(seen) + 1, NEW upto
  PROVE  /\ Sizes(seen, from, upto) \in Seq(Nat)
         /\ Len(Sizes(seen, from, upto)) = Len(seen) - from + 1
<1> DEFINE n == Len(seen)
           size(i) == Size(seen[i + from - 1], i + from - 1 <= upto)
<1>1. n \in Nat /\ from \in 1 .. n + 1 /\ \A i \in 1 .. n : seen[i] \in Outputs
  OBVIOUS
<1>2. \A out \in Outputs : RawTokens[out] \in Nat /\ ShortTokens[out] \in Nat
  BY ContextAssumption DEF Outputs
<1>3. Sizes(seen, from, upto) = [i \in 1 .. n - from + 1 |-> size(i)]
  BY DEF Sizes
<1> HIDE DEF n
<1>4. n - from + 1 \in Nat
  BY <1>1
<1>5. ASSUME NEW i \in 1 .. n - from + 1 PROVE size(i) \in Nat
  <2>1. i + from - 1 \in 1 .. n
    BY <1>1
  <2>2. seen[i + from - 1] \in Outputs
    BY <1>1, <2>1
  <2> QED
    BY <1>2, <2>2 DEF Size
<1> HIDE DEF size
<1>6. Sizes(seen, from, upto) \in Seq(Nat) /\ Len(Sizes(seen, from, upto)) = n - from + 1
  BY <1>3, <1>4, <1>5
<1> QED
  BY <1>6 DEF n

LEMMA CompactShape ==
  ASSUME NEW seen \in Seq(Outputs), NEW budget \in Nat
  PROVE  LET c == Compact(seen, budget)
             n == Len(seen)
         IN /\ c.from \in 1 .. n + 1 /\ (n > 0 => c.from <= n)
            /\ c.sizes \in Seq(Nat) /\ Len(c.sizes) = n - c.from + 1
<1> DEFINE n == Len(seen)
           raw == [i \in 1 .. n |-> RawTokens[seen[i]]]
           split == Most(0, n - RecentObservations)
           Fits(k, s) == Total(Sizes(seen, k, s)) <= budget
           enough == {s \in split .. n : Fits(1, s)}
           kept == {k \in 1 .. n : Fits(k, n)}
           First(S) == CHOOSE x \in S : \A y \in S : x <= y
           c == Compact(seen, budget)
           From(k, s) == [from |-> k, sizes |-> Sizes(seen, k, s)]
           Shape(d) == /\ d.from \in 1 .. n + 1 /\ (n > 0 => d.from <= n)
                       /\ d.sizes \in Seq(Nat) /\ Len(d.sizes) = n - d.from + 1
<1>1. n \in Nat /\ \A i \in 1 .. n : seen[i] \in Outputs
  OBVIOUS
<1>2. \A out \in Outputs : RawTokens[out] \in Nat /\ AgainTokens[out] \in Nat
  BY ContextAssumption DEF Outputs
<1>3. c = IF Total(raw) <= budget THEN [from |-> 1, sizes |-> raw]
          ELSE IF enough # {} THEN From(1, First(enough))
          ELSE IF kept # {} THEN From(First(kept), n)
          ELSE [from |-> n, sizes |-> <<AgainTokens[Last(seen)]>>]
  BY DEF Compact
<1>4. raw \in Seq(Nat) /\ Len(raw) = n
  BY <1>1, <1>2
<1>5. Shape([from |-> 1, sizes |-> raw])
  <2> HIDE DEF raw, n
  <2> QED
    BY <1>1, <1>4
<1>6. ASSUME NEW k \in 1 .. n + 1, NEW s, n > 0 => k <= n PROVE Shape(From(k, s))
  <2>1. Sizes(seen, k, s) \in Seq(Nat) /\ Len(Sizes(seen, k, s)) = n - k + 1
    BY <1>6, SizesTyped
  <2>2. From(k, s).from = k /\ From(k, s).sizes = Sizes(seen, k, s)
    OBVIOUS
  <2> HIDE DEF From, n
  <2> QED
    BY <1>6, <2>1, <2>2
<1>7. n = 0 => Total(raw) <= budget
  <2> HIDE DEF raw, n
  <2>1. n = 0 => Total(raw) = 0
    BY <1>4, TotalShort
  <2> QED
    BY <2>1
<1>8. ASSUME kept # {} PROVE First(kept) \in 1 .. n
  <2>1. kept \in SUBSET Nat /\ kept \subseteq 1 .. n
    OBVIOUS
  <2> HIDE DEF kept
  <2>2. \E k \in kept : \A m \in kept : k <= m
    BY <1>8, <2>1, Smallest
  <2>3. First(kept) \in kept
    BY <2>2
  <2> QED
    BY <2>1, <2>3
<1>9. ASSUME n > 0 PROVE Shape([from |-> n, sizes |-> <<AgainTokens[Last(seen)]>>])
  <2>1. AgainTokens[Last(seen)] \in Nat
    BY <1>1, <1>2, <1>9 DEF Last
  <2> DEFINE one == <<AgainTokens[Last(seen)]>>
  <2>2. one \in Seq(Nat) /\ Len(one) = 1
    BY <2>1
  <2> HIDE DEF one, n
  <2> QED
    BY <1>1, <1>9, <2>2 DEF one
<1> HIDE DEF c, n, raw, enough, kept, First, From, Shape
<1>10. Shape(c)
  <2>1. CASE Total(raw) <= budget
    BY <1>3, <1>5, <2>1
  <2>2. CASE ~(Total(raw) <= budget) /\ enough # {}
    <3>1. 1 \in 1 .. n + 1 /\ (n > 0 => 1 <= n)
      BY <1>1
    <3> QED
      BY <1>3, <1>6, <2>2, <3>1
  <2>3. CASE ~(Total(raw) <= budget) /\ enough = {} /\ kept # {}
    <3>1. First(kept) \in 1 .. n + 1 /\ (n > 0 => First(kept) <= n)
      BY <1>1, <1>8, <2>3
    <3> QED
      BY <1>3, <1>6, <2>3, <3>1
  <2>4. CASE ~(Total(raw) <= budget) /\ enough = {} /\ kept = {}
    BY <1>1, <1>3, <1>7, <1>9, <2>4
  <2> QED
    BY <2>1, <2>2, <2>3, <2>4
<1> QED
  BY <1>10 DEF Shape, c, n

(* The entries of the prompt: a rollup unless all stay, then the ones that    *)
(* stay, to the last.                                                        *)
Note == [of : Nat, tokens : Nat]
Ordered(entries, c, n) ==
  /\ entries \in Seq(Note)
  /\ Len(entries) = n - c.from + IF c.from = 1 THEN 1 ELSE 2
  /\ \A i \in 1 .. Len(entries) :
       entries[i].of = IF c.from = 1 THEN i ELSE IF i = 1 THEN 0 ELSE c.from + i - 2
  /\ n > 0 => Len(entries) > 0 /\ entries[Len(entries)].tokens = c.sizes[Len(c.sizes)]

LEMMA EntriesOrdered ==
  ASSUME NEW n \in Nat, NEW c, c.from \in 1 .. n + 1, n > 0 => c.from <= n,
         c.sizes \in Seq(Nat), Len(c.sizes) = n - c.from + 1
  PROVE  Ordered(Entries(c), c, n)
<1> DEFINE m == Len(c.sizes)
           from == c.from
           stay == [i \in 1 .. m |-> [of |-> from + i - 1, tokens |-> c.sizes[i]]]
           rollup == [of |-> 0, tokens |-> RollupTokens]
           entries == Entries(c)
<1>1. m \in Nat /\ from \in Nat /\ from >= 1 /\ m = n - from + 1 /\ RollupTokens \in Nat
      /\ \A i \in 1 .. m : c.sizes[i] \in Nat
  <2>1. RollupTokens \in Nat
    BY ContextAssumption
  <2>2. m \in Nat /\ \A i \in 1 .. m : c.sizes[i] \in Nat
    OBVIOUS
  <2>3. from \in Nat /\ from >= 1
    OBVIOUS
  <2> QED
    BY <2>1, <2>2, <2>3
<1>2. entries = IF from = 1 THEN stay ELSE <<rollup>> \o stay
  BY DEF Entries
<1>3. /\ stay \in Seq(Note) /\ Len(stay) = m
      /\ \A i \in 1 .. m : stay[i].of = from + i - 1 /\ stay[i].tokens = c.sizes[i]
  <2> HIDE DEF from, m
  <2>1. \A i \in 1 .. m : [of |-> from + i - 1, tokens |-> c.sizes[i]] \in Note
    BY <1>1 DEF Note
  <2> QED
    BY <1>1, <2>1
<1>4. rollup \in Note /\ rollup.of = 0
  BY <1>1 DEF Note
<1> HIDE DEF stay, rollup
<1>5. CASE from = 1
  <2>1. entries = stay /\ m = n
    BY <1>1, <1>2, <1>5
  <2>2. \A i \in 1 .. m : stay[i].of = i
    BY <1>1, <1>3, <1>5
  <2>3. n > 0 => m \in 1 .. m
    BY <1>1, <2>1
  <2> QED
    BY <1>1, <1>3, <1>5, <2>1, <2>2, <2>3 DEF Ordered
<1>6. CASE from # 1
  <2>1. entries = <<rollup>> \o stay
    BY <1>2, <1>6
  <2>2. /\ entries \in Seq(Note) /\ Len(entries) = m + 1 /\ entries[1] = rollup
        /\ \A i \in 2 .. m + 1 : entries[i] = stay[i - 1]
    BY <1>1, <1>3, <1>4, <2>1
  <2> HIDE DEF entries
  <2>3. \A i \in 1 .. m + 1 : entries[i].of = IF i = 1 THEN 0 ELSE from + i - 2
    <3> SUFFICES ASSUME NEW i \in 1 .. m + 1
                 PROVE  entries[i].of = IF i = 1 THEN 0 ELSE from + i - 2
      OBVIOUS
    <3>1. CASE i = 1
      BY <1>4, <2>2, <3>1
    <3>2. CASE i # 1
      <4>1. i \in 2 .. m + 1 /\ i - 1 \in 1 .. m /\ from + (i - 1) - 1 = from + i - 2
        BY <1>1, <3>2
      <4> QED
        BY <1>3, <2>2, <3>2, <4>1
    <3> QED
      BY <3>1, <3>2
  <2>4. ASSUME n > 0 PROVE entries[m + 1].tokens = c.sizes[m]
    <3>1. m \in 1 .. m /\ m + 1 \in 2 .. m + 1 /\ (m + 1) - 1 = m
      BY <1>1, <2>4
    <3> QED
      BY <1>3, <2>2, <3>1
  <2>5. Len(entries) = n - from + 2
    BY <1>1, <2>2
  <2> QED
    BY <1>1, <1>6, <2>2, <2>3, <2>4, <2>5 DEF Ordered, entries
<1> QED
  BY <1>5, <1>6
LEMMA EntrySizesNat ==
  \A s \in Seq(Note) :
    /\ EntrySizes(s) \in Seq(Nat) /\ Len(EntrySizes(s)) = Len(s)
    /\ \A i \in 1 .. Len(s) : EntrySizes(s)[i] = s[i].tokens
    /\ Total(EntrySizes(s)) \in Nat
<1> SUFFICES ASSUME NEW s \in Seq(Note)
             PROVE  /\ EntrySizes(s) \in Seq(Nat) /\ Len(EntrySizes(s)) = Len(s)
                    /\ \A i \in 1 .. Len(s) : EntrySizes(s)[i] = s[i].tokens
                    /\ Total(EntrySizes(s)) \in Nat
  OBVIOUS
<1>1. Len(s) \in Nat /\ \A i \in 1 .. Len(s) : s[i].tokens \in Nat
  <2>1. Len(s) \in Nat /\ \A i \in 1 .. Len(s) : s[i] \in Note
    OBVIOUS
  <2> QED
    BY <2>1 DEF Note
<1>2. /\ EntrySizes(s) \in Seq(Nat) /\ Len(EntrySizes(s)) = Len(s)
      /\ \A i \in 1 .. Len(s) : EntrySizes(s)[i] = s[i].tokens
  BY <1>1 DEF EntrySizes
<1> QED
  BY <1>2, TotalNat

(* What is left of the entries: those from the k-th on. *)
Tailed(entries, k, e) ==
  /\ e \in Seq(Note) /\ Len(e) = Len(entries) - k + 1
  /\ \A i \in 1 .. Len(e) : e[i] = entries[k + i - 1]

(* Either none fits, not even the last, or the most that do.                  *)
LEMMA TrimmedShape ==
  ASSUME NEW entries \in Seq(Note), NEW room
  PROVE  LET e == Trimmed(entries, room)
             N == Len(entries)
             Fit(k) == Total(EntrySizes(SubSeq(entries, k, N))) <= room
         IN \/ e = <<>> /\ \A k \in 1 .. N : ~Fit(k)
            \/ \E k \in 1 .. N : /\ Tailed(entries, k, e) /\ Total(EntrySizes(e)) <= room
                                 /\ \A j \in 1 .. N : Fit(j) => k <= j
<1> DEFINE e == Trimmed(entries, room)
           N == Len(entries)
           Fit(k) == Total(EntrySizes(SubSeq(entries, k, N))) <= room
           fit == {k \in 1 .. N : Fit(k)}
           k == CHOOSE k \in fit : \A other \in fit : k <= other
<1>1. e = IF fit = {} THEN <<>> ELSE SubSeq(entries, k, N)
  BY DEF Trimmed
<1>2. CASE fit = {}
  <2>1. e = <<>>
    BY <1>1, <1>2
  <2>2. \A j \in 1 .. N : ~Fit(j)
    BY <1>2
  <2> QED
    BY <2>1, <2>2
<1>3. CASE fit # {}
  <2>1. fit \in SUBSET Nat /\ \A j \in fit : j \in 1 .. N /\ Fit(j)
    OBVIOUS
  <2>2. \A j \in 1 .. N : Fit(j) => j \in fit
    OBVIOUS
  <2> HIDE DEF fit
  <2>3. \E j \in fit : \A other \in fit : j <= other
    BY <1>3, <2>1, Smallest
  <2>4. k \in fit /\ \A other \in fit : k <= other
    BY <2>3
  <2> HIDE DEF k
  <2>5. k \in 1 .. N /\ Fit(k) /\ \A j \in 1 .. N : Fit(j) => k <= j
    BY <2>1, <2>2, <2>4
  <2>6. e = SubSeq(entries, k, N)
    BY <1>1, <1>3
  <2>7. Tailed(entries, k, e)
    <3>1. N \in Nat /\ \A i \in 1 .. N : entries[i] \in Note
      OBVIOUS
    <3> HIDE DEF e
    <3> QED
      BY <2>5, <2>6, <3>1 DEF Tailed
  <2>8. Total(EntrySizes(e)) <= room
    BY <2>5, <2>6
  <2> QED
    BY <2>5, <2>7, <2>8
<1> QED
  BY <1>2, <1>3

(* What the prompt shows of them: the last ones, without the rollup.          *)
Latest(shown, n) ==
  /\ Len(shown) \in Nat
  /\ shown = [i \in 1 .. Len(shown) |-> n - Len(shown) + i]

Ofs(entries) ==
  LET own == IF entries # <<>> /\ entries[1].of = 0 THEN Tail(entries) ELSE entries
  IN [i \in DOMAIN own |-> own[i].of]

LEMMA OfsLatest ==
  ASSUME NEW n \in Nat, NEW c, c.from \in 1 .. n + 1, n > 0 => c.from <= n,
         NEW entries, Ordered(entries, c, n), NEW k \in 1 .. Len(entries),
         NEW e, Tailed(entries, k, e)
  PROVE  /\ Latest(Ofs(e), n) /\ (n > 0 => Len(Ofs(e)) > 0)
         /\ n - Len(Ofs(e)) <= c.from - 1 + Len(entries) - Len(e)
<1> DEFINE from == c.from
           N == Len(entries)
           L == Len(e)
           own == IF e # <<>> /\ e[1].of = 0 THEN Tail(e) ELSE e
<1>1. from \in Nat /\ from >= 1 /\ from <= n + 1 /\ (n > 0 => from <= n)
  OBVIOUS
<1>2. /\ N \in Nat /\ N = n - from + IF from = 1 THEN 1 ELSE 2
      /\ \A i \in 1 .. N : entries[i].of = IF from = 1 THEN i ELSE IF i = 1 THEN 0 ELSE from + i - 2
  BY DEF Ordered
<1>3. e \in Seq(Note) /\ L = N - k + 1 /\ \A i \in 1 .. L : e[i] = entries[k + i - 1]
  BY DEF Tailed
<1>4. L \in Nat /\ L >= 1 /\ DOMAIN e = 1 .. L /\ e # <<>>
  BY <1>2, <1>3
<1>5. Ofs(e) = [i \in DOMAIN own |-> own[i].of]
  BY DEF Ofs
<1> HIDE DEF from, N, L
<1>6. \A i \in 1 .. L : k + i - 1 \in 1 .. N /\ e[i].of = entries[k + i - 1].of
  BY <1>2, <1>3, <1>4
<1>7. CASE from = 1
  <2>1. \A i \in 1 .. L : e[i].of = n - L + i
    BY <1>2, <1>3, <1>4, <1>6, <1>7
  <2>2. e[1].of # 0
    BY <1>2, <1>3, <1>4, <1>7, <2>1
  <2>3. own = e
    BY <2>2
  <2>4. Ofs(e) = [i \in 1 .. L |-> n - L + i]
    BY <1>4, <1>5, <2>1, <2>3
  <2>5. Len(Ofs(e)) = L
    BY <1>4, <2>4
  <2>6. Latest(Ofs(e), n)
    BY <1>4, <2>4, <2>5 DEF Latest
  <2>7. n - L <= from - 1 + N - L
    BY <1>2, <1>4, <1>7
  <2> QED
    BY <1>4, <2>5, <2>6, <2>7 DEF from, N, L
<1>8. CASE from # 1 /\ k = 1
  <2>1. L = N /\ \A i \in 2 .. L : e[i].of = from + i - 2
    BY <1>1, <1>2, <1>3, <1>4, <1>6, <1>8
  <2>2. e[1].of = 0
    BY <1>2, <1>3, <1>4, <1>6, <1>8
  <2>3. own = Tail(e)
    BY <1>4, <2>2
  <2>4. /\ L - 1 \in Nat /\ DOMAIN own = 1 .. L - 1
        /\ \A i \in 1 .. L - 1 : own[i] = e[i + 1]
    BY <1>3, <1>4, <2>3 DEF L
  <2> HIDE DEF own
  <2>5. \A i \in 1 .. L - 1 : own[i].of = n - (L - 1) + i
    <3> SUFFICES ASSUME NEW i \in 1 .. L - 1 PROVE own[i].of = n - (L - 1) + i
      OBVIOUS
    <3>1. i + 1 \in 2 .. L
      BY <1>4
    <3>2. own[i].of = from + (i + 1) - 2
      BY <2>1, <2>4, <3>1
    <3> QED
      BY <1>1, <1>2, <1>8, <2>1, <3>2
  <2>6. Ofs(e) = [i \in 1 .. L - 1 |-> n - (L - 1) + i]
    BY <1>5, <2>4, <2>5
  <2>7. Len(Ofs(e)) = L - 1
    BY <2>4, <2>6
  <2>8. Latest(Ofs(e), n)
    BY <2>4, <2>6, <2>7 DEF Latest
  <2>9. n - (L - 1) <= from - 1 + N - L /\ (n > 0 => L - 1 > 0)
    BY <1>1, <1>2, <1>8, <2>1
  <2> QED
    BY <2>7, <2>8, <2>9 DEF from, N, L
<1>9. CASE from # 1 /\ k # 1
  <2>1. \A i \in 1 .. L : e[i].of = n - L + i
    <3> SUFFICES ASSUME NEW i \in 1 .. L PROVE e[i].of = n - L + i
      OBVIOUS
    <3>1. k + i - 1 # 1 /\ k + i - 1 \in 1 .. N
      BY <1>2, <1>6, <1>9
    <3>2. e[i].of = from + (k + i - 1) - 2
      BY <1>2, <1>6, <1>9, <3>1
    <3> QED
      BY <1>1, <1>2, <1>3, <1>9, <3>2
  <2>2. e[1].of # 0
    <3>1. e[1].of = n - L + 1 /\ n - L + 1 = from + k - 2
      BY <1>1, <1>2, <1>3, <1>4, <1>9, <2>1
    <3> QED
      BY <1>1, <1>2, <1>9, <3>1
  <2>3. own = e
    BY <2>2
  <2>4. Ofs(e) = [i \in 1 .. L |-> n - L + i]
    BY <1>4, <1>5, <2>1, <2>3
  <2>5. Len(Ofs(e)) = L
    BY <1>4, <2>4
  <2>6. Latest(Ofs(e), n)
    BY <1>4, <2>4, <2>5 DEF Latest
  <2>7. n - L <= from - 1 + N - L
    BY <1>1, <1>2, <1>3, <1>4, <1>9
  <2> QED
    BY <1>4, <2>5, <2>6, <2>7 DEF from, N, L
<1> QED
  BY <1>7, <1>8, <1>9
(* The entries and the task that fit a room, from a task that is no larger    *)
(* than the whole one.                                                       *)
FittedHonest(w, task, before, c, n, room, least) ==
  /\ Latest(w.shown, n) /\ n - Len(w.shown) <= w.counted
  /\ n > 0 /\ Len(w.shown) = 0 => TaskSize(task) + c.sizes[Len(c.sizes)] > room
  /\ w.task = task \/ w.task = MinimalTask(task, least)
  /\ w.task = task \/ TooMuch(task, before, room)

LEMMA FittedIs ==
  ASSUME NEW n \in Nat, NEW c, c.from \in 1 .. n + 1, n > 0 => c.from <= n,
         c.sizes \in Seq(Nat),
         NEW before, Ordered(before, c, n), NEW task \in Texts, NEW room \in Int, NEW least
  PROVE  FittedHonest(Fitted(task, before, c.from, room, least), task, before, c, n, room, least)
<1> DEFINE space == room - TaskSize(task)
           e == Trimmed(before, space)
           N == Len(before)
           minimal == MinimalTask(task, least)
           w == Fitted(task, before, c.from, room, least)
           Fit(k) == Total(EntrySizes(SubSeq(before, k, N))) <= space
<1>1. /\ w.shown = Ofs(e) /\ w.counted = c.from - 1 + N - Len(e)
      /\ w.task = IF TooMuch(task, e, room) THEN minimal ELSE task
  BY DEF Fitted, Reduced, Ofs
<1>2. TaskSize(task) \in Nat /\ space \in Int
  BY TaskSizeNat
<1>3. before \in Seq(Note) /\ N \in Nat /\ Total(EntrySizes(before)) \in Nat
  BY EntrySizesNat DEF Ordered
<1>4. N = n - c.from + IF c.from = 1 THEN 1 ELSE 2
  BY DEF Ordered
<1>5. \/ e = <<>> /\ \A k \in 1 .. N : ~Fit(k)
      \/ \E k \in 1 .. N : /\ Tailed(before, k, e) /\ Total(EntrySizes(e)) <= space
                           /\ \A j \in 1 .. N : Fit(j) => k <= j
  BY <1>3, TrimmedShape
<1> HIDE DEF e, w, minimal, Fit
<1>6. CASE e = <<>> /\ \A k \in 1 .. N : ~Fit(k)
  <2>1. Ofs(e) = <<>>
    BY <1>6 DEF Ofs
  <2>2. Latest(w.shown, n) /\ Len(w.shown) = 0
    BY <1>1, <2>1 DEF Latest
  <2>3. n - Len(w.shown) <= w.counted
    <3>1. Len(e) = 0
      BY <1>6
    <3> QED
      BY <1>1, <1>3, <1>4, <2>2, <3>1
  <2>4. ASSUME n > 0 PROVE TaskSize(task) + c.sizes[Len(c.sizes)] > room
    <3>1. N \in 1 .. N /\ before[N].tokens = c.sizes[Len(c.sizes)]
      BY <1>3, <2>4 DEF Ordered
    <3> DEFINE one == SubSeq(before, N, N)
    <3>2. one \in Seq(Note) /\ Len(one) = 1 /\ one[1] = before[N] /\ before[N] \in Note
      BY <1>3, <3>1
    <3>3. ~(Total(EntrySizes(one)) <= space)
      BY <1>6, <3>1 DEF Fit
    <3> HIDE DEF one
    <3>4. Total(EntrySizes(one)) = before[N].tokens
      <4>1. /\ EntrySizes(one) \in Seq(Nat) /\ Len(EntrySizes(one)) = 1
            /\ EntrySizes(one)[1] = before[N].tokens
        BY <3>2, EntrySizesNat
      <4> QED
        BY <4>1, TotalShort
    <3>5. before[N].tokens \in Nat
      BY <3>2 DEF Note
    <3> QED
      BY <1>2, <3>1, <3>3, <3>4, <3>5
  <2>5. w.task = task \/ TooMuch(task, before, room)
    <3> SUFFICES ASSUME ~TooMuch(task, before, room) PROVE ~TooMuch(task, e, room)
      BY <1>1
    <3>1. Total(EntrySizes(e)) = 0
      <4>1. e \in Seq(Note) /\ Len(e) = 0
        BY <1>6
      <4> QED
        BY <4>1, EntrySizesNat, TotalShort
    <3> QED
      BY <1>2, <1>3, <3>1 DEF TooMuch
  <2> QED
    BY <1>1, <2>2, <2>3, <2>4, <2>5 DEF FittedHonest, w, minimal
<1>7. ASSUME NEW k \in 1 .. N, Tailed(before, k, e), Total(EntrySizes(e)) <= space
      PROVE  FittedHonest(w, task, before, c, n, room, least)
  <2>1. /\ Latest(Ofs(e), n) /\ (n > 0 => Len(Ofs(e)) > 0)
        /\ n - Len(Ofs(e)) <= c.from - 1 + N - Len(e)
    BY <1>7, OfsLatest
  <2>2. ~TooMuch(task, e, room)
    <3>1. Total(EntrySizes(e)) \in Nat
      BY <1>7, EntrySizesNat DEF Tailed
    <3> QED
      BY <1>2, <1>7, <3>1 DEF TooMuch
  <2>3. w.task = task
    BY <1>1, <2>2
  <2>4. n > 0 => Len(w.shown) # 0
    BY <1>1, <2>1 DEF Latest
  <2> QED
    BY <1>1, <2>1, <2>3, <2>4 DEF FittedHonest
<1> QED
  BY <1>5, <1>6, <1>7 DEF w

(* What a window on observations shows, and what it leaves of the task.       *)
WindowHonest(w, seen, role, view, recalled) ==
  LET n == Len(seen)
      whole == Task(role, view, recalled)
      compact == Compact(seen, ObservationBudget(role))
      Over(size) == TaskSize(whole) + size > Room(role)
  IN
  /\ Latest(w.shown, n) /\ n - Len(w.shown) <= w.counted
  /\ n > 0 /\ Len(w.shown) = 0 => Over(Last(compact.sizes))
  /\ w.task = whole \/ Over(Total(EntrySizes(Entries(compact))))
  /\ Len(w.task.candidates) = Len(whole.candidates)
  /\ Len(w.task.memory) = Len(recalled) \/ Crowded(role, view, recalled)

LEMMA Rooms ==
  ASSUME NEW role \in Roles
  PROVE  ObservationBudget(role) \in Nat /\ Room(role) \in Int /\ LeastRoom(role) \in Nat
<1>1. /\ InputLimit[role] \in Nat /\ ToolTokens[role] \in Nat
      /\ ObservationTokens \in Nat /\ PolicyTokens \in Nat
  BY MemoryAssumption, ContextAssumption
<1> QED
  BY <1>1 DEF ObservationBudget, Room, LeastRoom, Least, Most

LEMMA WindowIs ==
  ASSUME NEW seen \in Seq(Outputs), NEW role \in Roles, NEW view, NEW recalled \in Seq(Outputs),
         view.shown \in Seq(Excerpt), view.left \in Seq(Excerpt)
  PROVE  WindowHonest(Window(seen, role, view, recalled), seen, role, view, recalled)
<1> DEFINE c == Compact(seen, ObservationBudget(role))
           n == Len(seen)
           whole == Task(role, view, recalled)
           room == Room(role)
           least == LeastRoom(role)
           before == Entries(c)
           short == CompactTask(whole, CompactRoom(role))
           task == IF TooMuch(whole, before, room) THEN short ELSE whole
           w == Fitted(task, before, c.from, room, least)
           last == c.sizes[Len(c.sizes)]
           all == Total(EntrySizes(before))
<1>1. Window(seen, role, view, recalled) = w
  BY DEF Window
<1>2. n \in Nat /\ room \in Int /\ least \in Nat
  BY Rooms
<1>3. whole \in Texts /\ Len(whole.memory) = Len(recalled)
  BY TaskTyped
<1>4. Within(whole, whole) /\ Within(short, whole)
  BY <1>3, CompactWithin, WithinOrders
<1> HIDE DEF short, whole
<1>5. Within(task, whole)
  BY <1>4
<1>6. /\ c.from \in 1 .. n + 1 /\ (n > 0 => c.from <= n)
      /\ c.sizes \in Seq(Nat) /\ Len(c.sizes) = n - c.from + 1
  BY Rooms, CompactShape
<1> HIDE DEF c, n
<1>7. Ordered(before, c, n)
  BY <1>2, <1>6, EntriesOrdered
<1>8. before \in Seq(Note) /\ all \in Nat
  BY <1>7, EntrySizesNat DEF Ordered
<1> HIDE DEF before
<1>9. task \in Texts /\ TaskSize(task) \in Nat /\ TaskSize(whole) \in Nat
      /\ TaskSize(task) <= TaskSize(whole)
  BY <1>3, <1>5, TaskSizeNat, WithinSize DEF Within
<1>10. task = whole \/ TooMuch(whole, before, room)
  OBVIOUS
<1> HIDE DEF task, room, least
<1>11. FittedHonest(w, task, before, c, n, room, least)
  BY <1>2, <1>6, <1>7, <1>9, FittedIs
<1> HIDE DEF w, all
<1>12. TooMuch(whole, before, room) => TaskSize(whole) + all > room
  BY DEF TooMuch, all
<1>13. w.task = whole \/ TaskSize(whole) + all > room
  <2>1. CASE task = whole
    BY <1>11, <1>12, <2>1 DEF FittedHonest
  <2> QED
    BY <1>10, <1>12, <2>1
<1>14. ASSUME n > 0, Len(w.shown) = 0
       PROVE  TaskSize(whole) + last > room
  <2>1. TaskSize(task) + last > room
    BY <1>11, <1>14 DEF FittedHonest
  <2>2. last \in Nat
    <3>1. Len(c.sizes) \in 1 .. Len(c.sizes)
      BY <1>2, <1>6, <1>14
    <3> QED
      BY <1>6, <3>1
  <2> HIDE DEF last
  <2> QED
    BY <1>2, <1>9, <2>1, <2>2
<1>15. Last(c.sizes) = last
  BY DEF Last
<1>16. /\ Len(w.task.candidates) = Len(whole.candidates)
       /\ Len(w.task.memory) = Len(recalled) \/ TaskSize(Brief(whole)) > least
  <2>1. /\ Len(task.candidates) = Len(whole.candidates)
        /\ Len(task.memory) = Len(recalled)
    BY <1>3, <1>5 DEF Within, NoLonger
  <2>2. CASE w.task = task
    BY <2>1, <2>2
  <2>3. CASE w.task = MinimalTask(task, least)
    <3>1. /\ Len(w.task.candidates) = Len(task.candidates)
          /\ Len(w.task.memory) = Len(task.memory) \/ TaskSize(Brief(task)) > least
      BY <1>2, <1>9, <2>3, MinimalKeeps
    <3>2. /\ Brief(task) \in Texts /\ Brief(whole) \in Texts
          /\ Within(Brief(task), Brief(whole))
      <4>1. Within(Clipped(task, 50, 50, 25), Clipped(whole, 50, 50, 25))
        BY <1>3, <1>5, ClippedWithin
      <4>2. Within(Clipped(whole, 50, 50, 25), whole)
        BY <1>3, ClippedWithin
      <4> QED
        BY <4>1, <4>2 DEF Brief, Within
    <3>3. /\ TaskSize(Brief(task)) \in Nat /\ TaskSize(Brief(whole)) \in Nat
          /\ TaskSize(Brief(task)) <= TaskSize(Brief(whole))
      BY <3>2, TaskSizeNat, WithinSize
    <3> QED
      BY <1>2, <2>1, <3>1, <3>3
  <2> QED
    BY <1>11, <2>2, <2>3 DEF FittedHonest
<1>17. Latest(w.shown, n) /\ n - Len(w.shown) <= w.counted
  BY <1>11 DEF FittedHonest
<1> QED
  BY <1>1, <1>13, <1>14, <1>15, <1>16, <1>17
     DEF WindowHonest, Crowded, whole, n, c, before, all, room, least
-------------------------------------------------------------------------------
(* While a run waits for its model, its prompt shows the view of the diff of   *)
(* its task, and the window on what it observed so far.                       *)
Fresh(r) ==
  /\ prompt[r].diff = DiffViews[TaskOf[r]][RoleOf[r]]
  /\ prompt[r].recalled \in Recalls
  /\ prompt[r].window = Windows[TaskOf[r]][RoleOf[r]][outputs[r]][prompt[r].recalled]

Windowed ==
  /\ outputs \in [Runs -> Seq(Outputs)] /\ tools \in 0 .. MaxTools
  /\ \A r \in Runs : Len(outputs[r]) <= tools
  /\ \A r \in Runs : at[r] = "calling" => Fresh(r)

(* The parts of a prompt. *)
LEMMA ShownIs ==
  ASSUME NEW r, NEW rows, NEW heard, NEW p, p = Shown(r, rows, heard)
  PROVE  /\ p.memory = <<>> \/ p.memory = rows
         /\ p.window.task.memory # <<>> => p.memory = rows
         /\ p.recalled = Outs(rows) /\ p.heard = heard
         /\ p.window = Windows[TaskOf[r]][RoleOf[r]][outputs[r]][Outs(rows)]
         /\ p.diff = DiffViews[TaskOf[r]][RoleOf[r]]
<1> DEFINE recalled == Outs(rows)
           window == Windows[TaskOf[r]][RoleOf[r]][outputs[r]][recalled]
           diff == DiffViews[TaskOf[r]][RoleOf[r]]
           left == IF window.task.memory = <<>> THEN <<>> ELSE rows
<1>1. p = [memory |-> left, recalled |-> recalled, heard |-> heard, diff |-> diff,
           window |-> window]
  BY DEF Shown
<1>2. left = <<>> \/ left = rows
  OBVIOUS
<1>3. window.task.memory # <<>> => left = rows
  OBVIOUS
<1> HIDE DEF recalled, window, diff, left
<1>4. /\ p.memory = left /\ p.recalled = recalled /\ p.heard = heard /\ p.window = window
      /\ p.diff = diff
  BY <1>1
<1> QED
  BY <1>2, <1>3, <1>4 DEF recalled, window, diff

LEMMA WindowedInit == Init => Windowed
<1> SUFFICES ASSUME Init PROVE Windowed
  OBVIOUS
<1>1. MaxTools \in Nat
  BY MemoryAssumption
<1>2. \A r \in Runs : outputs[r] = <<>> /\ at[r] = "idle"
  BY DEF Init
<1>3. outputs \in [Runs -> Seq(Outputs)] /\ tools = 0
  BY DEF Init
<1>4. \A r \in Runs : Len(outputs[r]) <= tools
  BY <1>2, <1>3
<1> QED
  BY <1>1, <1>2, <1>3, <1>4 DEF Windowed

(* Nothing else changes the prompt of a run that waits.                       *)
LEMMA WindowedRun ==
  ASSUME Typed, Windowed, NEW q \in Runs, RunStep(q)
  PROVE  Windowed'
<1>1. /\ DOMAIN at = Runs /\ DOMAIN prompt = Runs /\ DOMAIN outputs = Runs
      /\ tools \in 0 .. MaxTools /\ MaxTools \in Nat
  BY MemoryAssumption DEF Typed, Windowed
<1>2. CASE StartRun(q) \/ Refused(q) \/ TimeUp(q)
  <2>1. outputs' = outputs /\ tools' = tools /\ prompt' = prompt
    BY <1>2 DEF StartRun, Refused, TimeUp, bounds
  <2>2. \A r \in Runs : at'[r] = "calling" => at[r] = "calling"
    BY <1>1, <1>2 DEF StartRun, Refused, TimeUp
  <2> QED
    BY <2>1, <2>2 DEF Windowed, Fresh
<1>3. CASE Prepare(q)
  <2>1. outputs' = outputs /\ tools' = tools
    BY <1>3 DEF Prepare
  <2>2. PICK rows, heard :
          /\ prompt' = [prompt EXCEPT ![q] = Shown(q, rows, heard)]
          /\ rows = <<>> \/ rows = Recalled(TaskOf[q], RoleOf[q])
    BY <1>3 DEF Prepare
  <2>3. prompt'[q] = Shown(q, rows, heard)
    BY <1>1, <2>2
  <2>10. Outs(rows) \in Recalls
    <3>1. store \in Seq(Row)
      BY DEF Typed
    <3> QED
      BY <2>2, <3>1, RecalledOuts
  <2>11. /\ prompt'[q].recalled = Outs(rows)
         /\ prompt'[q].diff = DiffViews[TaskOf[q]][RoleOf[q]]
         /\ prompt'[q].window = Windows[TaskOf[q]][RoleOf[q]][outputs[q]][Outs(rows)]
    BY <2>3, ShownIs
  <2>4. /\ prompt'[q].diff = DiffViews[TaskOf[q]][RoleOf[q]]
        /\ prompt'[q].recalled \in Recalls
        /\ prompt'[q].window = Windows[TaskOf[q]][RoleOf[q]][outputs[q]][prompt'[q].recalled]
    BY <2>10, <2>11
  <2>5. \A r \in Runs : r # q => prompt'[r] = prompt[r] /\ at'[r] = at[r]
    BY <1>1, <1>3, <2>2 DEF Prepare
  <2>6. ASSUME NEW r \in Runs, at'[r] = "calling" PROVE Fresh(r)'
    <3>1. CASE r = q
      BY <2>1, <2>4, <3>1 DEF Fresh
    <3>2. CASE r # q
      BY <2>1, <2>5, <2>6, <3>2 DEF Fresh, Windowed
    <3> QED
      BY <3>1, <3>2
  <2> QED
    BY <2>1, <2>6 DEF Windowed
<1>4. CASE AnswerEnds(q)
  <2>1. outputs' = outputs /\ tools' = tools
    BY <1>4 DEF AnswerEnds
  <2>2. /\ at'[q] = "ended"
        /\ \A r \in Runs : r # q => prompt'[r] = prompt[r] /\ at'[r] = at[r]
    BY <1>1, <1>4 DEF AnswerEnds, Charged
  <2>3. ASSUME NEW r \in Runs, at'[r] = "calling" PROVE Fresh(r)'
    BY <2>1, <2>2, <2>3 DEF Fresh, Windowed
  <2> QED
    BY <2>1, <2>3 DEF Windowed
<1>5. CASE AnswerTool(q)
  <2>1. PICK out \in Outputs : outputs' = [outputs EXCEPT ![q] = Append(@, out)]
    <3>1. Failed \subseteq Outputs
      BY MemoryAssumption
    <3> QED
      BY <1>5, <3>1 DEF AnswerTool
  <2>2. tools' = tools + 1 /\ tools < MaxTools
    BY <1>5 DEF AnswerTool
  <2>3. /\ at'[q] # "calling"
        /\ \A r \in Runs : r # q => prompt'[r] = prompt[r] /\ at'[r] = at[r]
    BY <1>1, <1>5 DEF AnswerTool, Charged
  <2>4. outputs'[q] = Append(outputs[q], out) /\ \A r \in Runs : r # q => outputs'[r] = outputs[r]
    BY <1>1, <2>1
  <2>5. /\ \A r \in Runs : outputs[r] \in Seq(Outputs) /\ Len(outputs[r]) <= tools
        /\ Append(outputs[q], out) \in Seq(Outputs)
        /\ Len(Append(outputs[q], out)) = Len(outputs[q]) + 1
    BY DEF Windowed
  <2>6. outputs' \in [Runs -> Seq(Outputs)]
    BY <2>1, <2>5 DEF Windowed
  <2>7. ASSUME NEW r \in Runs PROVE Len(outputs'[r]) <= tools'
    <3>1. Len(outputs[r]) \in Nat /\ Len(outputs[q]) \in Nat
      BY <2>5
    <3> QED
      BY <1>1, <2>2, <2>4, <2>5, <3>1
  <2>8. ASSUME NEW r \in Runs, at'[r] = "calling" PROVE Fresh(r)'
    BY <2>3, <2>4, <2>8 DEF Fresh, Windowed
  <2>9. tools' \in 0 .. MaxTools
    BY <1>1, <2>2
  <2> QED
    BY <2>6, <2>7, <2>8, <2>9 DEF Windowed
<1> QED
  BY <1>2, <1>3, <1>4, <1>5 DEF RunStep

LEMMA WindowedKept == Typed /\ Windowed /\ [Next]_roleVars => Windowed'
<1> SUFFICES ASSUME Typed, Windowed, [Next]_roleVars PROVE Windowed'
  OBVIOUS
<1>1. CASE \E r \in Runs : RunStep(r)
  BY <1>1, WindowedRun
<1>2. CASE (\E t \in Tasks : Begin(t) \/ Conclude(t) \/ Persist(t)) \/ Expire \/ UNCHANGED roleVars
  <2>1. UNCHANGED <<at, outputs, prompt, tools>>
    BY <1>2 DEF Begin, Conclude, Persist, RememberFinding, Archive, ForgetWorking,
                PersistFails, Expire, loop, bounds, roleVars
  <2> QED
    BY <2>1 DEF Windowed, Fresh
<1>3. CASE \E t \in Tasks : Fails(t)
  <2>1. PICK t \in Tasks : Fails(t)
    BY <1>3
  <2>2. /\ tools' = tools
        /\ outputs' = [r \in Runs |-> IF TaskOf[r] = t THEN <<>> ELSE outputs[r]]
        /\ at' = [r \in Runs |-> IF TaskOf[r] = t THEN "idle" ELSE at[r]]
        /\ prompt' = [r \in Runs |-> IF TaskOf[r] = t THEN Nothing ELSE prompt[r]]
    BY <2>1 DEF Fails
  <2>3. outputs' \in [Runs -> Seq(Outputs)] /\ tools' \in 0 .. MaxTools
    BY <2>2 DEF Windowed
  <2>4. ASSUME NEW r \in Runs PROVE Len(outputs'[r]) <= tools'
    <3>1. tools \in Nat
      BY MemoryAssumption DEF Windowed
    <3>2. CASE TaskOf[r] = t
      BY <2>2, <3>1, <3>2
    <3>3. CASE TaskOf[r] # t
      BY <2>2, <3>3 DEF Windowed
    <3> QED
      BY <3>2, <3>3
  <2>5. ASSUME NEW r \in Runs, at'[r] = "calling" PROVE Fresh(r)'
    <3>1. TaskOf[r] # t
      BY <2>2, <2>5
    <3> QED
      BY <2>2, <2>5, <3>1 DEF Fresh, Windowed
  <2> QED
    BY <2>3, <2>4, <2>5 DEF Windowed
<1> QED
  BY <1>1, <1>2, <1>3 DEF Next

LEMMA TableIs == \A f : Table(f) = f
BY DEF Table

LEMMA DiffViewsAre ==
  \A t \in Tasks : \A role \in Roles :
    DiffViews[t][role] = DiffView(DiffOf[t], HunkTokens, Risk[role])
<1> SUFFICES ASSUME NEW t \in Tasks, NEW role \in Roles
             PROVE  DiffViews[t][role] = DiffView(DiffOf[t], HunkTokens, Risk[role])
  OBVIOUS
<1> DEFINE of(u) == [q \in Roles |-> DiffView(DiffOf[u], HunkTokens, Risk[q])]
           all == [u \in Tasks |-> Table(of(u))]
<1>1. DiffViews = Table(all)
  BY DEF DiffViews
<1> HIDE DEF of
<1>2. DiffViews = all /\ Table(of(t)) = of(t)
  <2> HIDE DEF all
  <2> QED BY <1>1, TableIs, Zenon
<1>3. DiffViews[t] = of(t)
  BY <1>2
<1> QED
  BY <1>3 DEF of

LEMMA WindowsAre ==
  \A t \in Tasks : \A role \in Roles : \A seen \in Observations : \A recalled \in Recalls :
    Windows[t][role][seen][recalled] = Window(seen, role, DiffViews[t][role], recalled)
<1> SUFFICES ASSUME NEW t \in Tasks, NEW role \in Roles, NEW seen \in Observations,
                    NEW recalled \in Recalls
             PROVE  Windows[t][role][seen][recalled]
                      = Window(seen, role, DiffViews[t][role], recalled)
  OBVIOUS
<1> DEFINE with(u, q, s) == [x \in Recalls |-> Window(s, q, DiffViews[u][q], x)]
           on(u, q) == [s \in Observations |-> Table(with(u, q, s))]
           of(u) == [q \in Roles |-> Table(on(u, q))]
           all == [u \in Tasks |-> Table(of(u))]
<1>1. Windows = Table(all)
  BY DEF Windows
<1> HIDE DEF with
<1>2. /\ Windows = all /\ Table(of(t)) = of(t) /\ Table(on(t, role)) = on(t, role)
      /\ Table(with(t, role, seen)) = with(t, role, seen)
  <2> HIDE DEF all, of, on
  <2> QED BY <1>1, TableIs, Zenon
<1>3. Windows[t] = of(t)
  <2> HIDE DEF of
  <2> QED BY <1>2
<1>4. Windows[t][role] = on(t, role)
  <2> HIDE DEF on
  <2> QED BY <1>2, <1>3
<1>5. Windows[t][role][seen] = with(t, role, seen)
  BY <1>2, <1>4
<1> QED
  BY <1>5 DEF with

(* The view and the window of any prompt of a run are honest. *)
LEMMA WindowAt ==
  ASSUME Windowed, NEW r \in Runs, NEW recalled \in Recalls
  PROVE  LET diff == DiffViews[TaskOf[r]][RoleOf[r]] IN
         /\ ViewHonest(diff, DiffOf[TaskOf[r]], Risk[RoleOf[r]])
         /\ WindowHonest(Windows[TaskOf[r]][RoleOf[r]][outputs[r]][recalled],
                         outputs[r], RoleOf[r], diff, recalled)
<1> DEFINE role == RoleOf[r]
           t == TaskOf[r]
           hunks == DiffOf[t]
           seen == outputs[r]
           diff == DiffView(hunks, HunkTokens, Risk[role])
           w == Window(seen, role, diff, recalled)
<1>1. t \in Tasks /\ role \in Roles
  BY RunTypes
<1>2. /\ HunkTokens \in [DOMAIN HunkTokens -> Nat] /\ Risk[role] \in [DOMAIN HunkTokens -> Nat]
      /\ hunks \in Seq(DOMAIN HunkTokens)
  BY <1>1, MemoryAssumption
<1>11. Ranked(DOMAIN HunkTokens)
  BY MemoryAssumption DEF Ranked
<1>3. seen \in Seq(Outputs) /\ Len(seen) \in Nat /\ Len(seen) <= tools /\ tools \in 0 .. MaxTools
      /\ MaxTools \in Nat
  BY MemoryAssumption DEF Windowed
<1>4. seen \in Observations
  <2>1. Len(seen) \in 0 .. MaxTools /\ seen \in [1 .. Len(seen) -> Outputs]
    BY <1>3
  <2> QED
    BY <2>1 DEF Observations
<1>5. DiffViews[t][role] = diff
  BY <1>1, DiffViewsAre
<1>6. Windows[t][role][seen][recalled] = w
  BY <1>1, <1>4, <1>5, WindowsAre
<1>7. recalled \in Seq(Outputs)
  <2>1. RecallLimit \in Nat
    BY MemoryAssumption
  <2>2. PICK k \in 0 .. RecallLimit : recalled \in [1 .. k -> Outputs]
    BY DEF Recalls
  <2> QED
    BY <2>1, <2>2
<1>8. ViewHonest(diff, hunks, Risk[role])
  BY <1>2, <1>11, DiffViewLed, Zenon
<1>9. diff.shown \in Seq(Excerpt) /\ diff.left \in Seq(Excerpt)
  BY <1>8, Zenon DEF ViewHonest
<1> HIDE DEF diff
<1>10. WindowHonest(w, seen, role, diff, recalled)
  BY <1>1, <1>3, <1>7, <1>9, WindowIs
<1> HIDE DEF w
<1> QED
  BY <1>5, <1>6, <1>8, <1>10

LEMMA HonestPrompt == Windowed => HonestView
<1> SUFFICES ASSUME Windowed, NEW r \in Runs, at[r] = "calling"
             PROVE  LET diff == prompt[r].diff
                        window == prompt[r].window
                        role == RoleOf[r]
                        hunks == DiffOf[TaskOf[r]]
                        n == Len(outputs[r])
                        m == Len(window.shown)
                        recalled == prompt[r].recalled
                        whole == Task(role, diff, recalled)
                        compact == Compact(outputs[r], ObservationBudget(role))
                        Over(size) == TaskSize(whole) + size > Room(role)
                    IN
                    /\ hunks # <<>> =>
                         /\ diff.shown # <<>>
                         /\ \A i \in DOMAIN hunks :
                              Risk[role][hunks[i]] <= Risk[role][hunks[diff.shown[1].hunk]]
                    /\ diff.omitted = Len(hunks) - Len(diff.shown)
                    /\ window.shown = [i \in 1 .. m |-> n - m + i] /\ n - m <= window.counted
                    /\ n > 0 /\ m = 0 => Over(Last(compact.sizes))
                    /\ window.task = whole \/ Over(Total(EntrySizes(Entries(compact))))
                    /\ Len(window.task.candidates) = Len(whole.candidates)
                    /\ Len(window.task.memory) = Len(recalled) \/ Crowded(role, diff, recalled)
  BY DEF HonestView
<1> DEFINE role == RoleOf[r]
           t == TaskOf[r]
           hunks == DiffOf[t]
           recalled == prompt[r].recalled
           diff == prompt[r].diff
           w == prompt[r].window
<1>1. /\ recalled \in Recalls /\ diff = DiffViews[t][role]
      /\ w = Windows[t][role][outputs[r]][recalled]
  BY DEF Windowed, Fresh
<1> HIDE DEF recalled, diff, w
<1>2. ViewHonest(diff, hunks, Risk[role]) /\ WindowHonest(w, outputs[r], role, diff, recalled)
  BY <1>1, WindowAt
<1>3. /\ diff.omitted = Len(hunks) - Len(diff.shown)
      /\ hunks # <<>> =>
           /\ diff.shown # <<>>
           /\ \A i \in DOMAIN hunks :
                Risk[role][hunks[i]] <= Risk[role][hunks[diff.shown[1].hunk]]
  BY <1>2, Zenon DEF ViewHonest
<1> QED
  BY <1>2, <1>3 DEF WindowHonest, Latest, recalled, diff, w

(* A prompt is honest about what it leaves out (context_manager.py:90): the   *)
(* view of the diff begins with a riskiest hunk and counts the hunks it lacks; *)
(* the observations shown are the last ones, no more are missing than it says, *)
(* and all only if the last one is too much; the task is cut only if the      *)
(* prompt is too large, and never loses a candidate.  For any diff, risks,    *)
(* budgets and sizes, and any number of observations.                        *)
THEOREM PromptIsHonest == Spec => []HonestView
<1>1. Init => Typed /\ Windowed
  BY TypedInit, WindowedInit
<1>2. Typed /\ Windowed /\ [Next]_roleVars => (Typed /\ Windowed)'
  BY TypedKept, WindowedKept
<1>3. Typed /\ Windowed => HonestView
  BY HonestPrompt
<1> QED
  BY <1>1, <1>2, <1>3, PTL DEF Spec
-------------------------------------------------------------------------------
(* The rows of a role that sees its own only, among those of the store. *)
Own(r) == {i \in DOMAIN store' : store'[i].task = TaskOf[r] /\ store'[i].role = RoleOf[r]}

(* Unless its task is too much with them, a prompt has the rows that came back. *)
LEMMA AllRecalled ==
  ASSUME Typed, Windowed, NEW r \in Runs, Prepare(r), prompt'[r].heard,
         ~Crowded(RoleOf[r], prompt'[r].diff, prompt'[r].recalled)
  PROVE  store' = Live(store) /\ prompt'[r].memory = Recalled(TaskOf[r], RoleOf[r])
<1>1. DOMAIN prompt = Runs /\ store \in Seq(Row)
  BY DEF Typed
<1>2. /\ store' = Live(store)
      /\ prompt'[r] = Shown(r, Recalled(TaskOf[r], RoleOf[r]), TRUE)
  <2>1. CASE /\ store' = Purged
             /\ prompt' = [prompt EXCEPT ![r] = Shown(r, Recalled(TaskOf[r], RoleOf[r]), TRUE)]
    BY <1>1, <2>1 DEF Purged
  <2>2. CASE prompt' = [prompt EXCEPT ![r] = Shown(r, <<>>, FALSE)]
    <3>1. prompt'[r] = Shown(r, <<>>, FALSE)
      BY <1>1, <2>2
    <3>2. prompt'[r].heard = FALSE
      BY <3>1 DEF Shown
    <3> QED
      BY <3>2
  <2> QED
    BY <2>1, <2>2 DEF Prepare
<1>3. PICK rows : rows = Recalled(TaskOf[r], RoleOf[r])
  OBVIOUS
<1>4. PICK p : p = prompt'[r]
  OBVIOUS
<1>5. ~Crowded(RoleOf[r], p.diff, p.recalled)
  BY <1>4
<1>6. rows \in Seq(Row) /\ Outs(rows) \in Recalls /\ Len(Outs(rows)) = Len(rows)
  BY <1>1, <1>3, RecalledOuts
<1>7. PICK heard : p = Shown(r, rows, heard)
  <2>1. p = Shown(r, rows, TRUE)
    BY <1>2, <1>3, <1>4
  <2> QED
    BY <2>1, Zenon
<1>8. /\ p.memory = <<>> \/ p.memory = rows
      /\ p.window.task.memory # <<>> => p.memory = rows
      /\ p.recalled = Outs(rows)
      /\ p.window = Windows[TaskOf[r]][RoleOf[r]][outputs[r]][Outs(rows)]
      /\ p.diff = DiffViews[TaskOf[r]][RoleOf[r]]
  BY <1>7, ShownIs
<1>9. WindowHonest(p.window, outputs[r], RoleOf[r], p.diff, p.recalled)
  BY <1>6, <1>8, WindowAt
<1>10. Len(p.window.task.memory) = Len(rows)
  BY <1>5, <1>6, <1>8, <1>9 DEF WindowHonest
<1>11. p.window.task.memory = <<>> => rows = <<>>
  BY <1>6, <1>10
<1> QED
  BY <1>2, <1>3, <1>4, <1>8, <1>11

LEMMA RecalledAll ==
  ASSUME Typed, Windowed, NEW r \in Runs, Prepare(r), prompt'[r].heard, RoleOf[r] # Lead,
         Len(store') <= CandidateLimit, Cardinality(Own(r)) <= RecallLimit,
         ~Crowded(RoleOf[r], prompt'[r].diff, prompt'[r].recalled),
         NEW i \in Own(r)
  PROVE  \E j \in DOMAIN prompt'[r].memory : prompt'[r].memory[j] = store'[i]
<1> DEFINE task == TaskOf[r]
           role == RoleOf[r]
           kept == {row \in Row : row.task = task /\ Mine(row, role)}
           listed == Listed(store)
           mine == Among(listed, kept)
<1>1. store' = Live(store) /\ prompt'[r].memory = Recalled(task, role)
  BY AllRecalled
<1>2. store \in Seq(Row) /\ store' \in Seq(Row) /\ Len(store') \in Nat
      /\ DOMAIN store' = 1 .. Len(store')
  BY <1>1, LiveRows DEF Typed
<1>3. PICK g : /\ Drawn(g, listed, store')
               /\ \A k \in DOMAIN store' : \E j \in DOMAIN listed : g[j] = k
  <2>1. Len(Live(store)) <= CandidateLimit
    BY <1>1
  <2>2. PICK g : /\ Drawn(g, Listed(store), Live(store))
                 /\ \A k \in DOMAIN Live(store) : \E j \in DOMAIN Listed(store) : g[j] = k
    BY <1>2, <2>1, ListedPicked
  <2> HIDE DEF listed
  <2>3. store' = Live(store) /\ listed = Listed(store)
    BY <1>1 DEF listed
  <2> QED
    BY <2>2, <2>3
<1>4. listed \in Seq(Row)
  BY <1>2, ListedRows
<1>5. \A row \in Row : row \in kept <=> row.task = task /\ row.role = role
  BY DEF Mine
<1>6. Recalled(task, role) = SubSeq(mine, 1, Least(RecallLimit, Len(mine)))
      /\ RecallLimit \in Nat
  BY MemoryAssumption DEF Recalled, Cut
<1> HIDE DEF kept, listed
<1>7. mine \in Seq(Row \cap kept)
  BY <1>4, AmongPicked
<1>8. PICK h : Picked(h, mine, listed, kept)
  BY <1>4, AmongPicked
<1> HIDE DEF mine
<1> DEFINE d == [j \in DOMAIN mine |-> g[h[j]]]
<1>9. /\ \A j \in DOMAIN mine : h[j] \in DOMAIN listed /\ mine[j] = listed[h[j]]
                                /\ listed[h[j]] \in kept
      /\ \A j, k \in DOMAIN mine : h[j] = h[k] => j = k
      /\ \A k \in DOMAIN listed : listed[k] \in kept => \E j \in DOMAIN mine : h[j] = k
  BY <1>8 DEF Picked, Drawn, Complete
<1>10. /\ \A k \in DOMAIN listed : g[k] \in DOMAIN store' /\ listed[k] = store'[g[k]]
       /\ \A j, k \in DOMAIN listed : g[j] = g[k] => j = k
  BY <1>3 DEF Drawn
<1>11. /\ d \in [DOMAIN mine -> DOMAIN store']
       /\ \A j \in DOMAIN mine : d[j] = g[h[j]] /\ mine[j] = store'[d[j]] /\ mine[j] \in kept
  BY <1>9, <1>10
<1> HIDE DEF d
<1>12. \A j, k \in DOMAIN mine : d[j] = d[k] => j = k
  BY <1>9, <1>10, <1>11
<1>13. Drawn(d, mine, store')
  BY <1>11, <1>12 DEF Drawn
<1>14. \A j \in DOMAIN mine : d[j] \in Own(r)
  <2>1. \A k \in DOMAIN store' : store'[k] \in Row
    BY <1>2
  <2> QED
    BY <1>5, <1>11, <2>1 DEF Own
<1>15. Len(mine) <= RecallLimit
  <2>1. IsFiniteSet(1 .. Len(store')) /\ Own(r) \in SUBSET (1 .. Len(store'))
    BY <1>2, FS_Interval DEF Own
  <2>2. IsFiniteSet(Own(r))
    BY <2>1, FS_Subset
  <2>3. Len(mine) <= Cardinality(Own(r)) /\ Cardinality(Own(r)) \in Nat
    BY <1>7, <1>13, <1>14, <2>2, DrawnShort, FS_CardinalityType
  <2>4. Len(mine) \in Nat
    BY <1>7
  <2> QED
    BY <1>6, <2>3, <2>4
<1>16. Recalled(task, role) = mine
  BY <1>6, <1>7, <1>15, WholePrefix
<1>17. i \in DOMAIN store' /\ store'[i] \in Row /\ store'[i].task = task /\ store'[i].role = role
  BY <1>2 DEF Own
<1>18. PICK k \in DOMAIN listed : g[k] = i
  BY <1>3, <1>17
<1>19. listed[k] = store'[i] /\ listed[k] \in kept
  BY <1>5, <1>10, <1>17, <1>18
<1>20. PICK j \in DOMAIN mine : h[j] = k
  BY <1>9, <1>19
<1>21. mine[j] = store'[i]
  BY <1>9, <1>19, <1>20
<1> QED
  BY <1>1, <1>16, <1>21

Hears ==
  \A r \in Runs : at[r] = "ready" /\ at'[r] = "calling" /\ prompt'[r].heard =>
    LET own == {i \in DOMAIN store' : store'[i].task = TaskOf[r] /\ store'[i].role = RoleOf[r]}
    IN /\ RoleOf[r] # Lead /\ Len(store') <= CandidateLimit /\ Cardinality(own) <= RecallLimit
       /\ ~Crowded(RoleOf[r], prompt'[r].diff, prompt'[r].recalled)
       => \A i \in own : \E j \in DOMAIN prompt'[r].memory : prompt'[r].memory[j] = store'[i]

LEMMA HearsByStep == Typed /\ Windowed /\ [Next]_roleVars => Hears
<1> SUFFICES ASSUME Typed, Windowed, [Next]_roleVars PROVE Hears
  OBVIOUS
<1>1. ASSUME NEW r \in Runs, at[r] = "ready", at'[r] = "calling" PROVE Prepare(r)
  <2>1. DOMAIN at = Runs
    BY DEF Typed
  <2>2. CASE \E q \in Runs : RunStep(q)
    BY <1>1, <2>1, <2>2 DEF RunStep, StartRun, Refused, TimeUp, Prepare, AnswerEnds, AnswerTool
  <2>3. CASE (\E t \in Tasks : Begin(t) \/ Conclude(t) \/ Persist(t)) \/ Expire \/ UNCHANGED roleVars
    <3>1. at' = at
      BY <2>3 DEF Begin, Conclude, Persist, RememberFinding, Archive, ForgetWorking,
                  PersistFails, Expire, loop, roleVars
    <3> QED
      BY <1>1, <3>1
  <2>4. CASE \E t \in Tasks : Fails(t)
    <3>1. \A q \in Runs : at'[q] = "idle" \/ at'[q] = at[q]
      BY <2>4 DEF Fails
    <3> QED
      BY <1>1, <3>1
  <2> QED
    BY <2>2, <2>3, <2>4 DEF Next
<1>2. ASSUME NEW r \in Runs, at[r] = "ready", at'[r] = "calling", prompt'[r].heard,
             RoleOf[r] # Lead, Len(store') <= CandidateLimit, Cardinality(Own(r)) <= RecallLimit,
             ~Crowded(RoleOf[r], prompt'[r].diff, prompt'[r].recalled), NEW i \in Own(r)
      PROVE  \E j \in DOMAIN prompt'[r].memory : prompt'[r].memory[j] = store'[i]
  BY <1>1, <1>2, RecalledAll
<1> QED
  BY <1>2 DEF Hears, Own

(* Neither the limit of the listing nor that of the recall hides a row of a   *)
(* role that sees its own rows only, while both have room for what they       *)
(* concern: no order by importance and age, and no row of another role,       *)
(* takes its place (memory.py:109-131).  Nor does the compaction of the task   *)
(* that holds the rows, unless the task is too much with its texts cut.       *)
THEOREM NothingHidden == Spec => NotHidden
<1>1. Init => Typed /\ Windowed
  BY TypedInit, WindowedInit
<1>2. Typed /\ Windowed /\ [Next]_roleVars => (Typed /\ Windowed)'
  BY TypedKept, WindowedKept
<1>3. Typed /\ Windowed /\ [Next]_roleVars => [Hears]_roleVars
  BY HearsByStep
<1> QED
  BY <1>1, <1>2, <1>3, PTL DEF Spec, NotHidden, Hears
===============================================================================
