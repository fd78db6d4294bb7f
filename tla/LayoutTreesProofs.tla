--------------------------- MODULE LayoutTreesProofs ---------------------------
(***************************************************************************)
(* Proofs about the trees: whatever clients come, go, float and are moved, *)
(* grouped, merged and dragged, every tiled window is a tab of one leaf of *)
(* the tree of its workspace, and groups keep their indices and their      *)
(* focus.                                                                  *)
(***************************************************************************)
EXTENDS LayoutTrees, SequenceTheorems, WellFoundedInduction, FiniteSetTheorems, TLAPS

-----------------------------------------------------------------------------
(* Sequences.                                                              *)

\* r is s with q in the place of what lies between positions a and b.
IsSplice(r, S, s, q, a, b) ==
    /\ r \in Seq(S)
    /\ Len(r) = a + Len(q) + (Len(s) + 1 - b)
    /\ \A i \in 1..Len(r) :
         r[i] = IF i <= a THEN s[i]
                ELSE IF i <= a + Len(q) THEN q[i - a]
                ELSE s[i - a - Len(q) + b - 1]

\* Part of a sequence replaced by another sequence.
LEMMA Spliced ==
    ASSUME NEW S, NEW s \in Seq(S), NEW q \in Seq(S), NEW a \in Nat, NEW b \in Nat,
           a < b, b <= Len(s) + 1
    PROVE  IsSplice(SubSeq(s, 1, a) \o q \o SubSeq(s, b, Len(s)), S, s, q, a, b)
<1> DEFINE n == Len(s)
           u == SubSeq(s, 1, a)
           v == SubSeq(s, b, n)
           r == u \o q \o v
<1>1. n \in Nat /\ Len(q) \in Nat /\ \A i \in 1..n : s[i] \in S
  BY LenProperties, ElementOfSeq
<1>2. u \in Seq(S) /\ Len(u) = a /\ \A i \in 1..a : u[i] = s[i]
  <2>1. \A i \in 1..a : s[i] \in S
    BY <1>1
  <2>2. /\ u \in Seq(S)
        /\ Len(u) = IF 1 <= a THEN a - 1 + 1 ELSE 0
        /\ \A i \in 1..(a - 1 + 1) : u[i] = s[1 + i - 1]
    BY <2>1, SubSeqProperties
  <2> QED BY <2>2
<1>3. v \in Seq(S) /\ Len(v) = n + 1 - b /\ \A i \in 1..(n + 1 - b) : v[i] = s[i + b - 1]
  <2>1. \A i \in b..n : s[i] \in S
    BY <1>1
  <2>2. /\ v \in Seq(S)
        /\ Len(v) = IF b <= n THEN n - b + 1 ELSE 0
        /\ \A i \in 1..(n - b + 1) : v[i] = s[b + i - 1]
    BY <1>1, <2>1, SubSeqProperties
  <2> QED BY <1>1, <2>2
<1> HIDE DEF n, u, v
<1>4. /\ u \o q \in Seq(S) /\ Len(u \o q) = a + Len(q)
      /\ \A i \in 1..(a + Len(q)) : (u \o q)[i] = IF i <= a THEN u[i] ELSE q[i - a]
  BY <1>1, <1>2, ConcatProperties
<1>5. /\ r \in Seq(S) /\ Len(r) = a + Len(q) + (n + 1 - b)
      /\ \A i \in 1..(a + Len(q) + (n + 1 - b)) :
           r[i] = IF i <= a + Len(q) THEN (u \o q)[i] ELSE v[i - (a + Len(q))]
  <2>1. Len(v) \in Nat /\ Len(u \o q) \in Nat
    BY <1>1, <1>3, <1>4
  <2>2. PICK x : x = u \o q
    OBVIOUS
  <2>3. /\ x \o v \in Seq(S) /\ Len(x \o v) = Len(x) + Len(v)
        /\ \A i \in 1..(Len(x) + Len(v)) :
             (x \o v)[i] = IF i <= Len(x) THEN x[i] ELSE v[i - Len(x)]
    <3>1. x \in Seq(S) /\ v \in Seq(S)
      BY <1>3, <1>4, <2>2
    <3> QED BY <3>1, ConcatProperties, Zenon
  <2>4. Len(x) = a + Len(q) /\ Len(v) = n + 1 - b /\ r = x \o v
    BY <1>3, <1>4, <2>2
  <2> HIDE DEF r
  <2> QED BY <2>2, <2>3, <2>4
<1> HIDE DEF r
<1>6. ASSUME NEW i \in 1..Len(r)
      PROVE  r[i] = IF i <= a THEN s[i]
                    ELSE IF i <= a + Len(q) THEN q[i - a]
                    ELSE s[i - a - Len(q) + b - 1]
  <2>0. i \in Nat /\ i >= 1 /\ i <= a + Len(q) + (n + 1 - b)
    BY <1>1, <1>5, <1>6
  <2>1. CASE i <= a
    BY <1>1, <1>2, <1>4, <1>5, <2>0, <2>1
  <2>2. CASE i > a /\ i <= a + Len(q)
    <3>1. r[i] = (u \o q)[i]
      BY <1>1, <1>5, <2>0, <2>2
    <3>2. i \in 1..(a + Len(q)) /\ ~(i <= a)
      BY <1>1, <2>0, <2>2
    <3>3. (u \o q)[i] = q[i - a]
      BY <1>4, <3>2
    <3> QED BY <2>2, <3>1, <3>2, <3>3
  <2>3. CASE i > a + Len(q)
    <3>1. r[i] = v[i - (a + Len(q))]
      BY <1>1, <1>5, <2>0, <2>3
    <3>2. i - (a + Len(q)) \in 1..(n + 1 - b)
      BY <1>1, <2>0, <2>3 DEF n
    <3>3. v[i - (a + Len(q))] = s[i - (a + Len(q)) + b - 1]
      BY <1>3, <3>2
    <3>4. i - (a + Len(q)) + b - 1 = i - a - Len(q) + b - 1
      BY <1>1, <2>0
    <3> QED BY <1>1, <2>3, <3>1, <3>3, <3>4
  <2> QED BY <1>1, <2>0, <2>1, <2>2, <2>3
<1>7. IsSplice(r, S, s, q, a, b)
  BY <1>5, <1>6 DEF IsSplice, n
<1> QED BY <1>7 DEF r, u, v, n

\* The elements of a sequence.
LEMMA Elements ==
    ASSUME NEW S, NEW q \in Seq(S)
    PROVE  /\ Len(q) \in Nat /\ DOMAIN q = 1..Len(q)
           /\ \A i \in 1..Len(q) : q[i] \in S /\ q[i] \in ToSet(q)
           /\ \A x : x \in ToSet(q) <=> \E i \in 1..Len(q) : q[i] = x
           /\ ToSet(q) \subseteq S
           /\ q = <<>> <=> Len(q) = 0
           /\ q = <<>> <=> ToSet(q) = {}
<1>1. Len(q) \in Nat /\ DOMAIN q = 1..Len(q) /\ \A i \in 1..Len(q) : q[i] \in S
  BY LenProperties, ElementOfSeq
<1>2. \A x : x \in ToSet(q) <=> \E i \in 1..Len(q) : q[i] = x
  BY <1>1 DEF ToSet
<1>3. q = <<>> <=> Len(q) = 0
  BY <1>1, EmptySeq
<1>4. q = <<>> <=> ToSet(q) = {}
  <2>1. ASSUME ToSet(q) = {} PROVE Len(q) = 0
    <3>1. SUFFICES ASSUME Len(q) # 0 PROVE FALSE
      OBVIOUS
    <3>2. 1 \in 1..Len(q)
      BY <1>1, <3>1
    <3>3. q[1] \in ToSet(q)
      BY <1>2, <3>2
    <3> QED BY <2>1, <3>3
  <2>2. ASSUME Len(q) = 0 PROVE ToSet(q) = {}
    <3>1. 1..Len(q) = {}
      BY <2>2
    <3> QED BY <1>2, <3>1
  <2> QED BY <1>3, <2>1, <2>2
<1> QED BY <1>1, <1>2, <1>3, <1>4

\* r is q with c at position i.
WithElement(r, S, q, i, c) ==
    /\ r \in Seq(S) /\ IsInjective(r) /\ Len(r) = Len(q) + 1
    /\ ToSet(r) = ToSet(q) \cup {c}
    /\ \A j \in 1..Len(r) : r[j] = IF j < i THEN q[j] ELSE IF j = i THEN c ELSE q[j - 1]

\* One more element.
LEMMA InsertedAt ==
    ASSUME NEW S, NEW q \in Seq(S), IsInjective(q), NEW c \in S, c \notin ToSet(q),
           NEW i \in 1..(Len(q) + 1)
    PROVE  WithElement(InsertAt(q, i, c), S, q, i, c)
<1> DEFINE r == InsertAt(q, i, c)
           n == Len(q)
<1>0. /\ n \in Nat /\ i \in Nat /\ i - 1 \in Nat /\ i - 1 < i /\ i <= n + 1
      /\ DOMAIN q = 1..n
  BY Elements
<1>1. <<c>> \in Seq(S) /\ Len(<<c>>) = 1 /\ <<c>>[1] = c
  OBVIOUS
<1>2. /\ r \in Seq(S)
      /\ Len(r) = (i - 1) + 1 + (n + 1 - i)
      /\ \A j \in 1..Len(r) :
           r[j] = IF j <= i - 1 THEN q[j]
                  ELSE IF j <= (i - 1) + 1 THEN <<c>>[j - (i - 1)]
                  ELSE q[j - (i - 1) - 1 + i - 1]
  <2>1. PICK e : e = <<c>>
    OBVIOUS
  <2>2. PICK a \in Nat, b \in Nat : a = i - 1 /\ b = i
    BY <1>0
  <2>3. e \in Seq(S) /\ Len(e) = 1 /\ a < b /\ b <= Len(q) + 1
    BY <1>0, <1>1, <2>1, <2>2
  <2>4. IsSplice(SubSeq(q, 1, a) \o e \o SubSeq(q, b, Len(q)), S, q, e, a, b)
    BY <2>3, Spliced, Zenon
  <2>5. r = SubSeq(q, 1, a) \o e \o SubSeq(q, b, Len(q))
    BY <2>1, <2>2 DEF InsertAt
  <2> HIDE DEF r
  <2>6. IsSplice(r, S, q, e, a, b)
    BY <2>4, <2>5
  <2> QED BY <2>1, <2>2, <2>3, <2>6 DEF IsSplice
<1> HIDE DEF r
<1>3. Len(r) = n + 1
  BY <1>0, <1>2
<1>4. ASSUME NEW j \in 1..(n + 1)
      PROVE  r[j] = IF j < i THEN q[j] ELSE IF j = i THEN c ELSE q[j - 1]
  <2>1. CASE j < i
    BY <1>0, <1>2, <1>3, <2>1
  <2>2. CASE j = i
    <3>1. j - (i - 1) = 1 /\ ~(j <= i - 1) /\ j <= (i - 1) + 1
      BY <1>0, <2>2
    <3> QED BY <1>0, <1>1, <1>2, <1>3, <2>2, <3>1
  <2>3. CASE j > i
    <3>1. j - (i - 1) - 1 + i - 1 = j - 1 /\ ~(j <= i - 1) /\ ~(j <= (i - 1) + 1)
      BY <1>0, <2>3
    <3> QED BY <1>0, <1>2, <1>3, <2>3, <3>1
  <2> QED BY <1>0, <2>1, <2>2, <2>3
<1>5. DOMAIN r = 1..(n + 1)
  BY <1>2, <1>3, Elements
<1>6. \A j \in 1..n : q[j] \in ToSet(q)
  BY Elements
<1>7. IsInjective(r)
  <2> SUFFICES ASSUME NEW j \in 1..(n + 1), NEW k \in 1..(n + 1), r[j] = r[k] PROVE j = k
    BY <1>5 DEF IsInjective
  <2> DEFINE old(h) == IF h < i THEN h ELSE h - 1
  <2>1. \A h \in 1..(n + 1) : h # i => old(h) \in 1..n /\ r[h] = q[old(h)]
    BY <1>0, <1>4
  <2>2. \A h, l \in 1..(n + 1) : h # i /\ l # i /\ old(h) = old(l) => h = l
    BY <1>0
  <2>3. r[i] = c
    BY <1>0, <1>4
  <2> HIDE DEF old
  <2>4. \A h \in 1..(n + 1) : h # i => r[h] # c
    BY <1>6, <2>1
  <2>5. \A h, l \in 1..n : q[h] = q[l] => h = l
    BY <1>0 DEF IsInjective
  <2> QED BY <2>1, <2>2, <2>3, <2>4, <2>5
<1>8. ToSet(r) = ToSet(q) \cup {c}
  <2>1. \A x : x \in ToSet(r) <=> \E j \in 1..(n + 1) : r[j] = x
    BY <1>2, <1>3, Elements
  <2>2. \A x : x \in ToSet(q) <=> \E j \in 1..n : q[j] = x
    BY Elements
  <2>3. ASSUME NEW j \in 1..(n + 1) PROVE r[j] \in ToSet(q) \cup {c}
    <3>1. j < i => j \in 1..n
      BY <1>0
    <3>2. j > i => j - 1 \in 1..n
      BY <1>0
    <3> QED BY <1>0, <1>4, <1>6, <3>1, <3>2
  <2>4. ASSUME NEW j \in 1..n PROVE \E k \in 1..(n + 1) : r[k] = q[j]
    <3>1. CASE j < i
      BY <1>0, <1>4, <3>1
    <3>2. CASE j >= i
      <4>1. j + 1 \in 1..(n + 1) /\ ~(j + 1 < i) /\ j + 1 # i /\ (j + 1) - 1 = j
        BY <1>0, <3>2
      <4>2. r[j + 1] = q[j]
        BY <1>4, <4>1
      <4> QED BY <4>1, <4>2
    <3> QED BY <1>0, <3>1, <3>2
  <2>5. r[i] = c /\ i \in 1..(n + 1)
    BY <1>0, <1>4
  <2> QED BY <2>1, <2>2, <2>3, <2>4, <2>5
<1>9. WithElement(r, S, q, i, c)
  BY <1>2, <1>3, <1>4, <1>7, <1>8 DEF WithElement
<1> QED BY <1>9 DEF r

\* One element less.
LEMMA RemovedAt ==
    ASSUME NEW S, NEW q \in Seq(S), IsInjective(q), NEW i \in 1..Len(q)
    PROVE  LET r == RemoveAt(q, i)
           IN  /\ r \in Seq(S) /\ IsInjective(r) /\ Len(r) = Len(q) - 1
               /\ ToSet(r) = ToSet(q) \ {q[i]}
               /\ \A j \in 1..Len(r) : r[j] = IF j < i THEN q[j] ELSE q[j + 1]
<1> DEFINE r == RemoveAt(q, i)
           n == Len(q)
           old(h) == IF h < i THEN h ELSE h + 1
<1>0. /\ n \in Nat /\ i \in Nat /\ i >= 1 /\ i <= n /\ DOMAIN q = 1..n
      /\ \A j \in 1..n : q[j] \in S
  BY Elements
<1>1. /\ SubSeq(q, 1, i - 1) \in Seq(S) /\ Len(SubSeq(q, 1, i - 1)) = i - 1
      /\ \A j \in 1..(i - 1) : SubSeq(q, 1, i - 1)[j] = q[j]
  <2>1. \A j \in 1..(i - 1) : q[j] \in S
    BY <1>0
  <2>2. /\ SubSeq(q, 1, i - 1) \in Seq(S)
        /\ Len(SubSeq(q, 1, i - 1)) = IF 1 <= i - 1 THEN i - 1 - 1 + 1 ELSE 0
        /\ \A j \in 1..(i - 1 - 1 + 1) : SubSeq(q, 1, i - 1)[j] = q[1 + j - 1]
    BY <1>0, <2>1, SubSeqProperties
  <2> QED BY <1>0, <2>2
<1>2. /\ SubSeq(q, i + 1, n) \in Seq(S) /\ Len(SubSeq(q, i + 1, n)) = n - i
      /\ \A j \in 1..(n - i) : SubSeq(q, i + 1, n)[j] = q[i + j]
  <2>1. \A j \in (i + 1)..n : q[j] \in S
    BY <1>0
  <2>2. /\ SubSeq(q, i + 1, n) \in Seq(S)
        /\ Len(SubSeq(q, i + 1, n)) = IF i + 1 <= n THEN n - (i + 1) + 1 ELSE 0
        /\ \A j \in 1..(n - (i + 1) + 1) : SubSeq(q, i + 1, n)[j] = q[(i + 1) + j - 1]
    BY <1>0, <2>1, SubSeqProperties
  <2>3. PICK v : v = SubSeq(q, i + 1, n)
    OBVIOUS
  <2>4. /\ v \in Seq(S) /\ Len(v) = IF i + 1 <= n THEN n - (i + 1) + 1 ELSE 0
        /\ \A j \in 1..(n - (i + 1) + 1) : v[j] = q[(i + 1) + j - 1]
    BY <2>2, <2>3
  <2> HIDE DEF n
  <2>5. Len(v) = n - i /\ n - (i + 1) + 1 = n - i
    BY <1>0, <2>4
  <2>6. ASSUME NEW j \in 1..(n - i) PROVE v[j] = q[i + j]
    <3>1. (i + 1) + j - 1 = i + j
      BY <1>0
    <3> QED BY <2>4, <2>5, <3>1
  <2> QED BY <2>3, <2>4, <2>5, <2>6
<1>3. r \in Seq(S) /\ Len(r) = n - 1 /\ \A j \in 1..(n - 1) : r[j] = q[old(j)]
  <2>1. PICK u, v : u = SubSeq(q, 1, i - 1) /\ v = SubSeq(q, i + 1, n)
    OBVIOUS
  <2>2. u \in Seq(S) /\ v \in Seq(S)
    BY <1>1, <1>2, <2>1
  <2>3. /\ u \o v \in Seq(S) /\ Len(u \o v) = Len(u) + Len(v)
        /\ \A j \in 1..(Len(u) + Len(v)) :
              (u \o v)[j] = IF j <= Len(u) THEN u[j] ELSE v[j - Len(u)]
    BY <2>2, ConcatProperties, Zenon
  <2>4. r = u \o v
    BY <2>1 DEF RemoveAt
  <2>5. /\ Len(u) = i - 1 /\ Len(v) = n - i
        /\ \A j \in 1..(i - 1) : u[j] = q[j]
        /\ \A j \in 1..(n - i) : v[j] = q[i + j]
    BY <1>1, <1>2, <2>1
  <2> HIDE DEF r, n
  <2>6. r \in Seq(S) /\ Len(r) = n - 1
    <3>1. (i - 1) + (n - i) = n - 1
      BY <1>0
    <3>2. Len(r) = (i - 1) + (n - i)
      BY <2>3, <2>4, <2>5
    <3> QED BY <2>3, <2>4, <3>1, <3>2
  <2>7. ASSUME NEW j \in 1..(n - 1) PROVE r[j] = q[old(j)]
    <3>0. j \in Nat /\ j \in 1..(Len(u) + Len(v))
      BY <1>0, <2>5
    <3>1. CASE j < i
      BY <1>0, <2>3, <2>4, <2>5, <3>0, <3>1
    <3>2. CASE j >= i
      <4>1. j - Len(u) \in 1..(n - i) /\ i + (j - Len(u)) = j + 1 /\ ~(j <= Len(u))
        BY <1>0, <2>5, <3>0, <3>2
      <4>2. r[j] = v[j - Len(u)]
        BY <2>3, <2>4, <3>0, <4>1
      <4>3. v[j - Len(u)] = q[i + (j - Len(u))]
        BY <2>5, <4>1
      <4> QED BY <1>0, <3>0, <3>2, <4>1, <4>2, <4>3
    <3> QED BY <1>0, <3>0, <3>1, <3>2
  <2> QED BY <2>6, <2>7
<1> HIDE DEF r
<1>4. DOMAIN r = 1..(n - 1)
  BY <1>3, Elements
<1>5. /\ \A j \in 1..(n - 1) : old(j) \in 1..n /\ old(j) # i
      /\ \A j, k \in 1..(n - 1) : old(j) = old(k) => j = k
      /\ \A j \in 1..n : j # i => \E k \in 1..(n - 1) : old(k) = j
  <2>1. ASSUME NEW j \in 1..n, j # i PROVE \E k \in 1..(n - 1) : old(k) = j
    <3>1. CASE j < i
      BY <1>0, <3>1
    <3>2. CASE j > i
      <4>1. j - 1 \in 1..(n - 1) /\ old(j - 1) = j
        BY <1>0, <3>2
      <4> HIDE DEF old
      <4> QED BY <4>1
    <3> QED BY <1>0, <2>1, <3>1, <3>2
  <2> QED BY <1>0, <2>1
<1>6. \A h, l \in 1..n : q[h] = q[l] => h = l
  BY <1>0 DEF IsInjective
<1>7. /\ \A x : x \in ToSet(r) <=> \E j \in 1..(n - 1) : r[j] = x
      /\ \A x : x \in ToSet(q) <=> \E j \in 1..n : q[j] = x
  BY <1>3, Elements
<1>8. \A j \in 1..(n - 1) : r[j] = IF j < i THEN q[j] ELSE q[j + 1]
  BY <1>0, <1>3
<1> HIDE DEF old
<1>9. IsInjective(r)
  <2>1. ASSUME NEW j \in 1..(n - 1), NEW k \in 1..(n - 1), r[j] = r[k] PROVE j = k
    <3>1. q[old(j)] = q[old(k)] /\ old(j) \in 1..n /\ old(k) \in 1..n
      BY <1>3, <1>5, <2>1
    <3>2. old(j) = old(k)
      BY <1>6, <3>1
    <3> QED BY <1>5, <3>2
  <2> QED BY <1>4, <2>1 DEF IsInjective
<1>10. ToSet(r) = ToSet(q) \ {q[i]}
  <2>1. ASSUME NEW x, x \in ToSet(r) PROVE x \in ToSet(q) /\ x # q[i]
    <3>1. PICK j \in 1..(n - 1) : r[j] = x
      BY <1>7, <2>1
    <3>2. x = q[old(j)] /\ old(j) \in 1..n /\ old(j) # i
      BY <1>3, <1>5, <3>1
    <3>3. i \in 1..n
      BY <1>0
    <3> QED BY <1>6, <1>7, <3>2, <3>3
  <2>2. ASSUME NEW x \in ToSet(q), x # q[i] PROVE x \in ToSet(r)
    <3>1. PICK j \in 1..n : q[j] = x
      BY <1>7
    <3>2. PICK k \in 1..(n - 1) : old(k) = j
      BY <1>5, <2>2, <3>1
    <3> QED BY <1>3, <1>7, <3>1, <3>2
  <2> QED BY <2>1, <2>2
<1>11. /\ r \in Seq(S) /\ IsInjective(r) /\ Len(r) = Len(q) - 1
       /\ ToSet(r) = ToSet(q) \ {q[i]}
       /\ \A j \in 1..Len(r) : r[j] = IF j < i THEN q[j] ELSE q[j + 1]
  BY <1>3, <1>8, <1>9, <1>10
<1> QED BY <1>11 DEF r

\* The elements of q, each at the place f gives.
Rearranged(q, f) == [i \in 1..Len(q) |-> q[f[i]]]

\* The same elements at other places.
LEMMA Permuted ==
    ASSUME NEW S, NEW q \in Seq(S), IsInjective(q),
           NEW f \in [1..Len(q) -> 1..Len(q)], \A i \in 1..Len(q) : f[f[i]] = i
    PROVE  /\ Rearranged(q, f) \in Seq(S) /\ IsInjective(Rearranged(q, f))
           /\ Len(Rearranged(q, f)) = Len(q) /\ ToSet(Rearranged(q, f)) = ToSet(q)
<1>0. PICK r : r = [i \in 1..Len(q) |-> q[f[i]]]
  OBVIOUS
<1>1. /\ Len(q) \in Nat /\ DOMAIN q = 1..Len(q) /\ \A i \in 1..Len(q) : q[i] \in S
      /\ \A x : x \in ToSet(q) <=> \E i \in 1..Len(q) : q[i] = x
  BY Elements
<1>2. r \in Seq(S)
  BY <1>0, <1>1, IsASeq
<1>3. Len(r) = Len(q) /\ DOMAIN r = 1..Len(q)
  BY <1>0, <1>1, <1>2, LenProperties
<1>4. \A x : x \in ToSet(r) <=> \E i \in 1..Len(q) : r[i] = x
  BY <1>3 DEF ToSet
<1>5. IsInjective(r)
  <2> SUFFICES ASSUME NEW i \in 1..Len(q), NEW j \in 1..Len(q), r[i] = r[j] PROVE i = j
    BY <1>3 DEF IsInjective
  <2>1. f[i] \in 1..Len(q) /\ f[j] \in 1..Len(q) /\ q[f[i]] = q[f[j]]
    BY <1>0
  <2>2. f[i] = f[j]
    BY <1>1, <2>1 DEF IsInjective
  <2> QED BY <2>2
<1>6. ASSUME NEW x PROVE x \in ToSet(r) <=> x \in ToSet(q)
  <2>1. ASSUME NEW i \in 1..Len(q), q[i] = x PROVE \E j \in 1..Len(q) : r[j] = x
    <3>1. f[i] \in 1..Len(q) /\ r[f[i]] = q[f[f[i]]]
      BY <1>0
    <3> QED BY <2>1, <3>1
  <2>2. ASSUME NEW i \in 1..Len(q), r[i] = x PROVE \E j \in 1..Len(q) : q[j] = x
    <3>1. f[i] \in 1..Len(q) /\ r[i] = q[f[i]]
      BY <1>0
    <3> QED BY <2>2, <3>1
  <2> QED BY <1>1, <1>4, <2>1, <2>2
<1>7. r = Rearranged(q, f)
  BY <1>0 DEF Rearranged
<1> QED BY <1>2, <1>3, <1>5, <1>6, <1>7

-----------------------------------------------------------------------------
(* One leaf.                                                               *)

TabsOf(n) == ToSet(n.tabs)

\* The leaves a tree is made of: no tab twice, and the indices within the tabs.
Leaves == {n \in LeafSet : /\ IsInjective(n.tabs)
                           /\ n.tabs # <<>> => n.active \in 1..Len(n.tabs)
                           /\ n.prev \in 0..Len(n.tabs)}

\* What a leaf of the trees is like.
LEMMA LeafFacts ==
    ASSUME NEW n \in Leaves
    PROVE  /\ n.tabs \in Seq(Clients) /\ IsInjective(n.tabs)
           /\ Len(n.tabs) \in Nat /\ DOMAIN n.tabs = 1..Len(n.tabs)
           /\ n.active \in Nat \ {0} /\ n.prev \in Nat /\ n.groupmode \in BOOLEAN
           /\ n.tabs # <<>> => n.active \in 1..Len(n.tabs)
           /\ n.prev \in 0..Len(n.tabs)
           /\ TabsOf(n) \subseteq Clients
           /\ n.tabs = <<>> <=> TabsOf(n) = {}
           /\ n.tabs = <<>> <=> Len(n.tabs) = 0
           /\ \A c : Holds(n, c) <=> c \in TabsOf(n)
           /\ \A c : c \in TabsOf(n) <=> \E i \in 1..Len(n.tabs) : n.tabs[i] = c
           /\ \A i \in 1..Len(n.tabs) : n.tabs[i] \in TabsOf(n)
           /\ \A i, j \in 1..Len(n.tabs) : n.tabs[i] = n.tabs[j] => i = j
<1>1. /\ n.tabs \in Seq(Clients) /\ IsInjective(n.tabs)
      /\ n.active \in Nat \ {0} /\ n.prev \in Nat /\ n.groupmode \in BOOLEAN
      /\ n.tabs # <<>> => n.active \in 1..Len(n.tabs)
      /\ n.prev \in 0..Len(n.tabs)
  BY DEF Leaves, LeafSet
<1>2. PICK q \in Seq(Clients) : q = n.tabs
  BY <1>1
<1>3. /\ Len(q) \in Nat /\ DOMAIN q = 1..Len(q)
      /\ \A i \in 1..Len(q) : q[i] \in Clients /\ q[i] \in ToSet(q)
      /\ \A x : x \in ToSet(q) <=> \E i \in 1..Len(q) : q[i] = x
      /\ ToSet(q) \subseteq Clients
      /\ q = <<>> <=> Len(q) = 0
      /\ q = <<>> <=> ToSet(q) = {}
  BY Elements
<1>4. \A c : Holds(n, c) <=> c \in TabsOf(n)
  BY <1>2, <1>3 DEF Holds, Contains, TabsOf
<1>5. \A i, j \in 1..Len(q) : q[i] = q[j] => i = j
  BY <1>1, <1>2, <1>3 DEF IsInjective
<1> QED BY <1>1, <1>2, <1>3, <1>4, <1>5 DEF TabsOf

\* What makes a leaf.
LEMMA ALeaf ==
    ASSUME NEW q \in Seq(Clients), IsInjective(q), NEW a \in Nat \ {0}, NEW p \in Nat,
           NEW g \in BOOLEAN, q # <<>> => a \in 1..Len(q), p \in 0..Len(q)
    PROVE  LET m == [tabs |-> q, active |-> a, prev |-> p, groupmode |-> g]
           IN  m \in Leaves /\ TabsOf(m) = ToSet(q)
BY DEF Leaves, LeafSet, TabsOf

\* The position of a tab.
LEMMA PositionIs ==
    ASSUME NEW n \in Leaves, NEW c \in TabsOf(n)
    PROVE  /\ Position(n, c) \in 1..Len(n.tabs) /\ n.tabs[Position(n, c)] = c
           /\ \A j \in 1..Len(n.tabs) : n.tabs[j] = c => j = Position(n, c)
<1>1. PICK i \in 1..Len(n.tabs) : n.tabs[i] = c
  BY LeafFacts
<1>2. \A j \in 1..Len(n.tabs) : n.tabs[j] = c => j = i
  BY <1>1, LeafFacts
<1>3. {j \in 1..Len(n.tabs) : n.tabs[j] = c} = {i}
  BY <1>1, <1>2
<1>4. Len(n.tabs) \in Nat
  BY LeafFacts
<1>5. Min({i}) = i
  BY <1>4 DEF Min
<1>6. Position(n, c) = i
  BY <1>3, <1>5 DEF Position, SelectInSeq
<1> QED BY <1>1, <1>2, <1>6

\* A leaf of one tab.
LEMMA NewLeaf ==
    /\ EmptyLeaf \in Leaves /\ EmptyLeaf.tabs = <<>> /\ TabsOf(EmptyLeaf) = {}
    /\ \A c \in Clients : /\ AddTab(EmptyLeaf, c, FALSE) \in Leaves
                          /\ TabsOf(AddTab(EmptyLeaf, c, FALSE)) = {c}
<1>1. <<>> \in Seq(Clients) /\ IsInjective(<<>>) /\ Len(<<>>) = 0 /\ ToSet(<<>>) = {}
  BY DEF IsInjective, ToSet
<1>2. EmptyLeaf \in Leaves /\ EmptyLeaf.tabs = <<>> /\ TabsOf(EmptyLeaf) = {}
  <2>1. 1 \in Nat \ {0} /\ 0 \in Nat /\ FALSE \in BOOLEAN /\ 0 \in 0..Len(<<>>)
    BY <1>1
  <2>2. PICK q : q = <<>>
    OBVIOUS
  <2>3. /\ q \in Seq(Clients) /\ IsInjective(q) /\ 0 \in 0..Len(q)
        /\ q # <<>> => 1 \in 1..Len(q)
    BY <1>1, <2>1, <2>2
  <2>4. LET m == [tabs |-> q, active |-> 1, prev |-> 0, groupmode |-> FALSE]
        IN  m \in Leaves /\ TabsOf(m) = ToSet(q)
    BY <2>1, <2>3, ALeaf, Zenon
  <2>5. EmptyLeaf = [tabs |-> q, active |-> 1, prev |-> 0, groupmode |-> FALSE]
    BY <2>2 DEF EmptyLeaf
  <2>6. EmptyLeaf \in Leaves /\ TabsOf(EmptyLeaf) = ToSet(q)
    BY <2>4, <2>5, Zenon
  <2>7. EmptyLeaf.tabs = <<>>
    BY DEF EmptyLeaf
  <2> QED BY <1>1, <2>2, <2>6, <2>7
<1>3. ASSUME NEW c \in Clients
      PROVE  /\ AddTab(EmptyLeaf, c, FALSE) \in Leaves
             /\ TabsOf(AddTab(EmptyLeaf, c, FALSE)) = {c}
  <2>1. PICK q : q = <<c>>
    OBVIOUS
  <2>2. q \in Seq(Clients) /\ Len(q) = 1 /\ DOMAIN q = 1..1 /\ q[1] = c /\ q # <<>>
    BY <2>1
  <2>3. IsInjective(q) /\ ToSet(q) = {c}
    BY <2>2 DEF IsInjective, ToSet
  <2>4. Append(<<>>, c) = q /\ Len(<<>>) + 1 = 1
    BY <2>1
  <2>5. AddTab(EmptyLeaf, c, FALSE)
        = [tabs |-> q, active |-> 1, prev |-> 0, groupmode |-> FALSE]
    BY <2>4 DEF AddTab, EmptyLeaf
  <2>6. 1 \in Nat \ {0} /\ 0 \in Nat /\ FALSE \in BOOLEAN /\ 0 \in 0..Len(q) /\ 1 \in 1..Len(q)
    BY <2>2
  <2>7. LET m == [tabs |-> q, active |-> 1, prev |-> 0, groupmode |-> FALSE]
        IN  m \in Leaves /\ TabsOf(m) = ToSet(q)
    BY <2>2, <2>3, <2>6, ALeaf, Zenon
  <2> QED BY <2>3, <2>5, <2>7, Zenon
<1> QED BY <1>2, <1>3

\* A leaf and one more tab.
LEMMA TabAdded ==
    ASSUME NEW n \in Leaves, NEW c \in Clients \ TabsOf(n), NEW after \in BOOLEAN
    PROVE  /\ AddTab(n, c, after) \in Leaves
           /\ TabsOf(AddTab(n, c, after)) = TabsOf(n) \cup {c}
<1> DEFINE m == AddTab(n, c, after)
<1>0. /\ n \in LeafSet /\ n.tabs \in Seq(Clients) /\ IsInjective(n.tabs)
      /\ Len(n.tabs) \in Nat /\ n.active \in Nat \ {0} /\ n.prev \in Nat
      /\ n.groupmode \in BOOLEAN /\ c \in Clients /\ c \notin ToSet(n.tabs)
      /\ n.tabs # <<>> => n.active \in 1..Len(n.tabs)
      /\ n.tabs = <<>> <=> Len(n.tabs) = 0
      /\ n.prev \in 0..Len(n.tabs)
  BY LeafFacts DEF Leaves, TabsOf
<1>1. PICK k : k = (IF n.tabs = <<>> \/ ~after THEN Len(n.tabs) + 1 ELSE n.active + 1)
  OBVIOUS
<1>2. k \in 1..(Len(n.tabs) + 1) /\ k \in Nat \ {0}
  BY <1>0, <1>1
<1>3. PICK q : q = InsertAt(n.tabs, k, c)
  OBVIOUS
<1>4. /\ q \in Seq(Clients) /\ IsInjective(q) /\ Len(q) = Len(n.tabs) + 1
      /\ ToSet(q) = ToSet(n.tabs) \cup {c}
      /\ \A j \in 1..Len(q) :
           q[j] = IF j < k THEN n.tabs[j] ELSE IF j = k THEN c ELSE n.tabs[j - 1]
  <2>1. WithElement(InsertAt(n.tabs, k, c), Clients, n.tabs, k, c)
    BY <1>0, <1>2, InsertedAt, Zenon
  <2> QED BY <1>3, <2>1 DEF WithElement
<1>5. PICK p : p = (IF n.tabs = <<>> THEN n.prev ELSE n.active)
  OBVIOUS
<1>6. p \in Nat /\ p \in 0..Len(q) /\ k \in 1..Len(q)
  BY <1>0, <1>2, <1>4, <1>5
<1>7. LET x == [tabs |-> q, active |-> k, prev |-> p, groupmode |-> n.groupmode]
      IN  x \in Leaves /\ TabsOf(x) = ToSet(q)
  BY <1>0, <1>2, <1>4, <1>6, ALeaf, Zenon
<1>8. k = Len(n.tabs) + 1 => Append(n.tabs, c) = q
  <2> SUFFICES ASSUME k = Len(n.tabs) + 1 PROVE Append(n.tabs, c) = q
    OBVIOUS
  <2>1. PICK t : t = Append(n.tabs, c)
    OBVIOUS
  <2>2. /\ t \in Seq(Clients) /\ Len(t) = Len(n.tabs) + 1
        /\ \A j \in 1..Len(n.tabs) : t[j] = n.tabs[j]
        /\ t[Len(n.tabs) + 1] = c
    BY <1>0, <2>1, AppendProperties
  <2>3. \A j \in 1..Len(t) : t[j] = q[j]
    BY <1>0, <1>4, <2>2
  <2>4. t = q
    BY <1>4, <2>2, <2>3, SeqEqual, Zenon
  <2> QED BY <2>1, <2>4
<1>9. m = [n EXCEPT !.tabs = q, !.active = k, !.prev = p]
  BY <1>0, <1>1, <1>3, <1>5, <1>8 DEF AddTab
<1>10. m = [tabs |-> q, active |-> k, prev |-> p, groupmode |-> n.groupmode]
  BY <1>0, <1>9 DEF LeafSet
<1> HIDE DEF m
<1>11. m \in Leaves /\ TabsOf(m) = ToSet(q)
  BY <1>7, <1>10, Zenon
<1>12. m \in Leaves /\ TabsOf(m) = TabsOf(n) \cup {c}
  BY <1>4, <1>11 DEF TabsOf
<1> QED BY <1>12 DEF m

\* A leaf and one more tab, at a given place.
LEMMA TabAddedAt ==
    ASSUME NEW n \in Leaves, NEW c \in Clients \ TabsOf(n), NEW slot \in Nat \ {0},
           n.tabs # <<>>
    PROVE  /\ AddTabAt(n, c, slot) \in Leaves
           /\ TabsOf(AddTabAt(n, c, slot)) = TabsOf(n) \cup {c}
<1> DEFINE m == AddTabAt(n, c, slot)
<1>0. /\ n \in LeafSet /\ n.tabs \in Seq(Clients) /\ IsInjective(n.tabs)
      /\ Len(n.tabs) \in Nat /\ n.active \in 1..Len(n.tabs)
      /\ n.groupmode \in BOOLEAN /\ c \in Clients /\ c \notin ToSet(n.tabs)
  BY LeafFacts DEF Leaves, TabsOf
<1>1. PICK k : k = (IF slot > Len(n.tabs) THEN Len(n.tabs) + 1 ELSE slot)
  OBVIOUS
<1>2. k \in 1..(Len(n.tabs) + 1) /\ k \in Nat \ {0}
  BY <1>0, <1>1
<1>3. PICK q : q = InsertAt(n.tabs, k, c)
  OBVIOUS
<1>4. /\ q \in Seq(Clients) /\ IsInjective(q) /\ Len(q) = Len(n.tabs) + 1
      /\ ToSet(q) = ToSet(n.tabs) \cup {c}
  <2>1. WithElement(InsertAt(n.tabs, k, c), Clients, n.tabs, k, c)
    BY <1>0, <1>2, InsertedAt, Zenon
  <2> QED BY <1>3, <2>1 DEF WithElement
<1>5. PICK p : p = (IF k <= n.active THEN n.active + 1 ELSE n.active)
  OBVIOUS
<1>6. p \in Nat /\ p \in 0..Len(q) /\ k \in 1..Len(q)
  BY <1>0, <1>2, <1>4, <1>5
<1>7. LET x == [tabs |-> q, active |-> k, prev |-> p, groupmode |-> n.groupmode]
      IN  x \in Leaves /\ TabsOf(x) = ToSet(q)
  BY <1>0, <1>2, <1>4, <1>6, ALeaf, Zenon
<1>8. m = [n EXCEPT !.tabs = q, !.active = k, !.prev = p]
  BY <1>1, <1>3, <1>5 DEF AddTabAt
<1>9. m = [tabs |-> q, active |-> k, prev |-> p, groupmode |-> n.groupmode]
  BY <1>0, <1>8 DEF LeafSet
<1> HIDE DEF m
<1>10. m \in Leaves /\ TabsOf(m) = ToSet(q)
  BY <1>7, <1>9, Zenon
<1>11. m \in Leaves /\ TabsOf(m) = TabsOf(n) \cup {c}
  BY <1>4, <1>10 DEF TabsOf
<1> QED BY <1>11 DEF m

\* A leaf without one of its tabs.
LEMMA TabRemoved ==
    ASSUME NEW n \in Leaves, NEW c \in TabsOf(n)
    PROVE  /\ RemoveTab(n, c) \in Leaves
           /\ TabsOf(RemoveTab(n, c)) = TabsOf(n) \ {c}
<1> DEFINE m == RemoveTab(n, c)
<1>0. /\ n \in LeafSet /\ n.tabs \in Seq(Clients) /\ IsInjective(n.tabs)
      /\ Len(n.tabs) \in Nat /\ n.active \in 1..Len(n.tabs) /\ n.prev \in 0..Len(n.tabs)
      /\ n.groupmode \in BOOLEAN /\ TabsOf(n) \subseteq Clients
  BY LeafFacts DEF Leaves
<1>1. PICK i \in 1..Len(n.tabs) : i = Position(n, c) /\ n.tabs[i] = c
  BY PositionIs
<1>2. PICK q : q = RemoveAt(n.tabs, i)
  OBVIOUS
<1>3. /\ q \in Seq(Clients) /\ IsInjective(q) /\ Len(q) = Len(n.tabs) - 1
      /\ ToSet(q) = ToSet(n.tabs) \ {n.tabs[i]}
  <2>1. PICK t : t = n.tabs
    OBVIOUS
  <2>2. t \in Seq(Clients) /\ IsInjective(t) /\ i \in 1..Len(t) /\ q = RemoveAt(t, i)
    BY <1>0, <1>2, <2>1
  <2>3. /\ q \in Seq(Clients) /\ IsInjective(q) /\ Len(q) = Len(t) - 1
        /\ ToSet(q) = ToSet(t) \ {t[i]}
    BY <2>2, RemovedAt, Zenon
  <2> QED BY <2>1, <2>3
<1>4. PICK p : p = (IF i < n.prev THEN n.prev - 1 ELSE IF i = n.prev THEN 0 ELSE n.prev)
  OBVIOUS
<1>5. PICK a : a = (IF q = <<>> THEN 1 ELSE IF n.active > Len(q) THEN Len(q) ELSE n.active)
  OBVIOUS
<1>6. Len(q) \in Nat /\ (q = <<>> <=> Len(q) = 0)
  BY <1>3, Elements
<1>7. p \in Nat /\ p \in 0..Len(q) /\ a \in Nat \ {0} /\ (q # <<>> => a \in 1..Len(q))
  <2>1. PICK y \in Nat, z \in Nat : y = Len(q) /\ z = Len(n.tabs) /\ y = z - 1
    BY <1>0, <1>3, <1>6
  <2>2. i \in 1..z /\ n.prev \in 0..z /\ n.active \in 1..z
    BY <1>0, <2>1
  <2>3. p \in Nat /\ p \in 0..y
    BY <1>4, <2>1, <2>2
  <2>4. a \in Nat \ {0} /\ (q # <<>> => a \in 1..y)
    <3>1. CASE q = <<>>
      BY <1>5, <3>1
    <3>2. CASE q # <<>>
      <4>1. y # 0 /\ a = (IF n.active > y THEN y ELSE n.active)
        BY <1>5, <1>6, <2>1, <3>2
      <4>2. a \in 1..y
        BY <2>2, <4>1
      <4> QED BY <4>2
    <3> QED BY <3>1, <3>2
  <2> QED BY <2>1, <2>3, <2>4
<1>8. LET x == [tabs |-> q, active |-> a, prev |-> p, groupmode |-> n.groupmode]
      IN  x \in Leaves /\ TabsOf(x) = ToSet(q)
  BY <1>0, <1>3, <1>7, ALeaf, Zenon
<1>9. m = [n EXCEPT !.tabs = q, !.active = a, !.prev = p]
  BY <1>0, <1>1, <1>2, <1>4, <1>5 DEF RemoveTab, LeafSet
<1>10. m = [tabs |-> q, active |-> a, prev |-> p, groupmode |-> n.groupmode]
  BY <1>0, <1>9 DEF LeafSet
<1> HIDE DEF m
<1>11. m \in Leaves /\ TabsOf(m) = ToSet(q)
  BY <1>8, <1>10, Zenon
<1>12. m \in Leaves /\ TabsOf(m) = TabsOf(n) \ {c}
  BY <1>1, <1>3, <1>11 DEF TabsOf
<1> QED BY <1>12 DEF m

\* A leaf whose tabs stay where they are: another group mode ...
LEMMA Regrouped ==
    ASSUME NEW n \in Leaves, NEW g \in BOOLEAN
    PROVE  /\ [n EXCEPT !.groupmode = g] \in Leaves
           /\ TabsOf([n EXCEPT !.groupmode = g]) = TabsOf(n)
           /\ [n EXCEPT !.groupmode = g].tabs = n.tabs
BY DEF Leaves, LeafSet, TabsOf

\* What bsp_focus_client makes of a leaf.
Refocused(n, c) ==
    LET i == Position(n, c)
    IN  [n EXCEPT !.active = i, !.prev = IF n.active = i THEN @ ELSE n.active]

\* ... or another active tab.
LEMMA TabFocused ==
    ASSUME NEW n \in Leaves, NEW c \in TabsOf(n)
    PROVE  Refocused(n, c) \in Leaves /\ TabsOf(Refocused(n, c)) = TabsOf(n)
<1> DEFINE m == Refocused(n, c)
<1>0. /\ n \in LeafSet /\ n.tabs \in Seq(Clients) /\ IsInjective(n.tabs)
      /\ Len(n.tabs) \in Nat /\ n.prev \in 0..Len(n.tabs) /\ n.groupmode \in BOOLEAN
      /\ n.active \in 1..Len(n.tabs)
  BY LeafFacts DEF Leaves
<1>1. PICK i \in 1..Len(n.tabs) : i = Position(n, c)
  BY PositionIs
<1>2. PICK p : p = (IF n.active = i THEN n.prev ELSE n.active)
  OBVIOUS
<1>3. i \in Nat \ {0} /\ p \in Nat /\ p \in 0..Len(n.tabs)
  BY <1>0, <1>1, <1>2
<1>4. LET x == [tabs |-> n.tabs, active |-> i, prev |-> p, groupmode |-> n.groupmode]
      IN  x \in Leaves /\ TabsOf(x) = ToSet(n.tabs)
  BY <1>0, <1>1, <1>3, ALeaf, Zenon
<1>5. m = [tabs |-> n.tabs, active |-> i, prev |-> p, groupmode |-> n.groupmode]
  <2>1. m = [n EXCEPT !.active = i, !.prev = p]
    BY <1>0, <1>1, <1>2 DEF LeafSet, Refocused
  <2> QED BY <1>0, <2>1 DEF LeafSet
<1> HIDE DEF m
<1>6. m \in Leaves /\ TabsOf(m) = TabsOf(n)
  BY <1>4, <1>5, Zenon DEF TabsOf
<1> QED BY <1>6 DEF m

\* The active tab moved past another.
LEMMA ActiveMoved ==
    ASSUME NEW n \in Leaves, n.tabs # <<>>, NEW to \in 1..Len(n.tabs)
    PROVE  MoveActive(n, to) \in Leaves /\ TabsOf(MoveActive(n, to)) = TabsOf(n)
<1> DEFINE m == MoveActive(n, to)
           d == 1..Len(n.tabs)
<1>0. /\ n \in LeafSet /\ n.tabs \in Seq(Clients) /\ IsInjective(n.tabs)
      /\ Len(n.tabs) \in Nat /\ n.active \in d /\ n.groupmode \in BOOLEAN
      /\ DOMAIN n.tabs = d
  BY LeafFacts DEF Leaves
<1>1. PICK f : f = [i \in d |-> IF i = to THEN n.active ELSE IF i = n.active THEN to ELSE i]
  OBVIOUS
<1>2. f \in [d -> d] /\ \A i \in d : f[f[i]] = i
  <2> HIDE DEF d
  <2>1. to \in d
    BY DEF d
  <2> QED BY <1>0, <1>1, <2>1
<1>3. PICK q : q = [i \in d |-> n.tabs[f[i]]]
  OBVIOUS
<1>4. q \in Seq(Clients) /\ IsInjective(q) /\ Len(q) = Len(n.tabs) /\ ToSet(q) = ToSet(n.tabs)
  <2>1. PICK s : s = n.tabs
    OBVIOUS
  <2>2. /\ s \in Seq(Clients) /\ IsInjective(s)
        /\ f \in [1..Len(s) -> 1..Len(s)] /\ \A i \in 1..Len(s) : f[f[i]] = i
        /\ q = Rearranged(s, f)
    BY <1>0, <1>2, <1>3, <2>1 DEF Rearranged
  <2>3. /\ Rearranged(s, f) \in Seq(Clients) /\ IsInjective(Rearranged(s, f))
        /\ Len(Rearranged(s, f)) = Len(s) /\ ToSet(Rearranged(s, f)) = ToSet(s)
    BY ONLY <2>2, Permuted, Zenon
  <2> QED BY <2>1, <2>2, <2>3
<1>5. q = [n.tabs EXCEPT ![n.active] = n.tabs[to], ![to] = n.tabs[n.active]]
  <2>1. PICK r : r = [n.tabs EXCEPT ![n.active] = n.tabs[to], ![to] = n.tabs[n.active]]
    OBVIOUS
  <2>2. n.tabs = [i \in d |-> n.tabs[i]]
    <3>1. n.tabs \in [1..Len(n.tabs) -> Clients]
      BY <1>0, LenProperties
    <3> QED BY <3>1
  <2> HIDE DEF d
  <2>3. to \in d
    BY DEF d
  <2>4. r = [i \in d |-> n.tabs[f[i]]]
    BY <1>0, <1>1, <2>1, <2>2, <2>3
  <2> QED BY <1>3, <2>1, <2>4
<1>6. to \in Nat \ {0} /\ 0 \in 0..Len(q) /\ 0 \in Nat /\ to \in 1..Len(q)
  BY <1>0, <1>4
<1>7. LET x == [tabs |-> q, active |-> to, prev |-> 0, groupmode |-> n.groupmode]
      IN  x \in Leaves /\ TabsOf(x) = ToSet(q)
  BY <1>0, <1>4, <1>6, ALeaf, Zenon
<1>8. m = [tabs |-> q, active |-> to, prev |-> 0, groupmode |-> n.groupmode]
  <2>1. m = [n EXCEPT !.tabs = q, !.active = to, !.prev = 0]
    BY <1>5 DEF MoveActive
  <2> QED BY <1>0, <2>1 DEF LeafSet
<1> HIDE DEF m
<1>9. m \in Leaves /\ TabsOf(m) = TabsOf(n)
  BY <1>4, <1>7, <1>8, Zenon DEF TabsOf
<1> QED BY <1>9 DEF m

\* The tabs of another leaf added.
LEMMA TabsAdded ==
    ASSUME NEW n \in Leaves, n.tabs # <<>>, NEW k \in Leaves, k.tabs # <<>>,
           TabsOf(n) \cap TabsOf(k) = {}, NEW after \in BOOLEAN
    PROVE  /\ AddTabs(n, k.tabs, after) \in Leaves
           /\ TabsOf(AddTabs(n, k.tabs, after)) = TabsOf(n) \cup TabsOf(k)
<1> DEFINE m == AddTabs(n, k.tabs, after)
<1>0. /\ n \in LeafSet /\ n.tabs \in Seq(Clients) /\ Len(n.tabs) \in Nat
      /\ n.active \in 1..Len(n.tabs) /\ n.groupmode \in BOOLEAN
      /\ \A c : c \in TabsOf(n) <=> \E i \in 1..Len(n.tabs) : n.tabs[i] = c
      /\ \A i, j \in 1..Len(n.tabs) : n.tabs[i] = n.tabs[j] => i = j
  BY LeafFacts DEF Leaves
<1>1. PICK u : u = k.tabs
  OBVIOUS
<1>2. /\ u \in Seq(Clients) /\ Len(u) \in Nat /\ Len(u) # 0
      /\ \A c : c \in TabsOf(k) <=> \E i \in 1..Len(u) : u[i] = c
      /\ \A i, j \in 1..Len(u) : u[i] = u[j] => i = j
  <2>1. /\ k.tabs \in Seq(Clients) /\ Len(k.tabs) \in Nat /\ Len(k.tabs) # 0
        /\ \A c : c \in TabsOf(k) <=> \E i \in 1..Len(k.tabs) : k.tabs[i] = c
    BY LeafFacts
  <2>2. \A i, j \in 1..Len(k.tabs) : k.tabs[i] = k.tabs[j] => i = j
    BY LeafFacts
  <2> QED BY <1>1, <2>1, <2>2
<1>3. PICK a \in 0..Len(n.tabs) : a = (IF after THEN n.active ELSE Len(n.tabs))
  BY <1>0
<1>4. PICK s : s = n.tabs
  OBVIOUS
<1>5. PICK z : z = Len(s)
  OBVIOUS
<1>6. PICK y : y = Len(u)
  OBVIOUS
<1>7. a \in Nat /\ a + 1 \in Nat /\ a < a + 1 /\ a + 1 <= Len(s) + 1 /\ z \in Nat /\ y \in Nat /\ y # 0 /\ a <= z
  BY <1>0, <1>2, <1>3, <1>4, <1>5, <1>6
<1>8. PICK q : q = SubSeq(s, 1, a) \o u \o SubSeq(s, a + 1, Len(s))
  OBVIOUS
<1>9. IsSplice(q, Clients, s, u, a, a + 1)
  <2>1. s \in Seq(Clients)
    BY <1>0, <1>4
  <2>2. PICK b : b = a + 1
    OBVIOUS
  <2>3. b \in Nat /\ a < b /\ b <= Len(s) + 1
    BY <1>7, <2>2
  <2>4. IsSplice(SubSeq(s, 1, a) \o u \o SubSeq(s, b, Len(s)), Clients, s, u, a, b)
    BY <1>2, <1>7, <2>1, <2>3, Spliced, Zenon
  <2> QED BY <1>8, <2>2, <2>4
<1>10. /\ q \in Seq(Clients) /\ Len(q) = z + y
       /\ \A i \in 1..Len(q) : q[i] = IF i <= a THEN s[i]
                                      ELSE IF i <= a + y THEN u[i - a] ELSE s[i - y]
  <2>1. /\ q \in Seq(Clients) /\ Len(q) = a + y + (z + 1 - (a + 1))
        /\ \A i \in 1..Len(q) : q[i] = IF i <= a THEN s[i]
                 ELSE IF i <= a + y THEN u[i - a] ELSE s[i - a - y + (a + 1) - 1]
    BY <1>5, <1>6, <1>9 DEF IsSplice
  <2>2. ASSUME NEW i \in 1..Len(q) PROVE i - a - y + (a + 1) - 1 = i - y
    BY <1>7, <2>1
  <2> QED BY <1>7, <2>1, <2>2
<1>11. /\ \A i, j \in 1..z : s[i] = s[j] => i = j
       /\ \A i, j \in 1..y : u[i] = u[j] => i = j
       /\ \A i \in 1..z, j \in 1..y : s[i] # u[j]
       /\ \A c : c \in TabsOf(n) <=> \E i \in 1..z : s[i] = c
       /\ \A c : c \in TabsOf(k) <=> \E i \in 1..y : u[i] = c
  <2>1. /\ \A i, j \in 1..z : s[i] = s[j] => i = j
        /\ \A c : c \in TabsOf(n) <=> \E i \in 1..z : s[i] = c
    BY <1>0, <1>4, <1>5
  <2>2. /\ \A i, j \in 1..y : u[i] = u[j] => i = j
        /\ \A c : c \in TabsOf(k) <=> \E i \in 1..y : u[i] = c
    BY <1>2, <1>6
  <2>3. \A i \in 1..z, j \in 1..y : s[i] # u[j]
    BY <2>1, <2>2
  <2> QED BY <2>1, <2>2, <2>3
<1>12. \A i \in 1..(z + y) : q[i] = IF i <= a THEN s[i]
                                    ELSE IF i <= a + y THEN u[i - a] ELSE s[i - y]
  BY <1>10
<1>13. IsInjective(q)
  <2>1. DOMAIN q = 1..(z + y)
    BY <1>10, LenProperties
  <2> SUFFICES ASSUME NEW i \in 1..(z + y), NEW j \in 1..(z + y), q[i] = q[j] PROVE i = j
    BY <2>1 DEF IsInjective
  <2> DEFINE Old(h) == h <= a \/ h > a + y
             at(h) == IF h <= a THEN h ELSE h - y
  <2>2. \A h \in 1..(z + y) : IF Old(h) THEN at(h) \in 1..z /\ q[h] = s[at(h)]
                              ELSE h - a \in 1..y /\ q[h] = u[h - a]
    <3> SUFFICES ASSUME NEW h \in 1..(z + y)
                 PROVE  IF Old(h) THEN at(h) \in 1..z /\ q[h] = s[at(h)]
                        ELSE h - a \in 1..y /\ q[h] = u[h - a]
      OBVIOUS
    <3>1. q[h] = IF h <= a THEN s[h] ELSE IF h <= a + y THEN u[h - a] ELSE s[h - y]
      BY <1>12
    <3> QED BY <1>7, <3>1
  <2>3. \A h, l \in 1..(z + y) : Old(h) /\ Old(l) /\ at(h) = at(l) => h = l
    BY <1>7
  <2>4. i - a = j - a => i = j
    BY <1>7
  <2> HIDE DEF Old, at
  <2> QED BY <1>11, <2>2, <2>3, <2>4
<1>14. ToSet(q) = TabsOf(n) \cup TabsOf(k)
  <2>1. \A x : x \in ToSet(q) <=> \E i \in 1..(z + y) : q[i] = x
    BY <1>10, Elements
  <2>2. ASSUME NEW i \in 1..(z + y) PROVE q[i] \in TabsOf(n) \cup TabsOf(k)
    <3>1. i <= a => i \in 1..z
      BY <1>7
    <3>2. ~(i <= a) /\ i <= a + y => i - a \in 1..y
      BY <1>7
    <3>3. ~(i <= a) /\ ~(i <= a + y) => i - y \in 1..z
      BY <1>7
    <3> QED BY <1>11, <1>12, <3>1, <3>2, <3>3
  <2>3. ASSUME NEW i \in 1..z PROVE \E j \in 1..(z + y) : q[j] = s[i]
    <3>1. CASE i <= a
      <4>1. i \in 1..(z + y) /\ q[i] = s[i]
        BY <1>7, <1>12, <3>1
      <4> QED BY <4>1
    <3>2. CASE i > a
      <4>1. i + y \in 1..(z + y) /\ ~(i + y <= a) /\ ~(i + y <= a + y) /\ (i + y) - y = i
        BY <1>7, <3>2
      <4>2. q[i + y] = s[i]
        BY <1>12, <4>1
      <4> QED BY <4>1, <4>2
    <3> QED BY <1>7, <3>1, <3>2
  <2>4. ASSUME NEW i \in 1..y PROVE \E j \in 1..(z + y) : q[j] = u[i]
    <3>1. i + a \in 1..(z + y) /\ ~(i + a <= a) /\ i + a <= a + y /\ (i + a) - a = i
      BY <1>7
    <3>2. q[i + a] = u[i]
      BY <1>12, <3>1
    <3> QED BY <3>1, <3>2
  <2> QED BY <1>11, <2>1, <2>2, <2>3, <2>4
<1>15. /\ a + y \in Nat \ {0} /\ a + y \in 1..Len(q) /\ a + y - 1 \in Nat
       /\ a + y - 1 \in 0..Len(q)
  BY <1>7, <1>10
<1>16. PICK e, p : e = a + y /\ p = a + y - 1
  OBVIOUS
<1>. DEFINE x == [tabs |-> q, active |-> e, prev |-> p, groupmode |-> n.groupmode]
<1>17. x \in Leaves /\ TabsOf(x) = ToSet(q)
  <2>2. e \in Nat \ {0} /\ p \in Nat /\ (q # <<>> => e \in 1..Len(q)) /\ p \in 0..Len(q)
    BY <1>15, <1>16
  <2>3. q \in Seq(Clients) /\ n.groupmode \in BOOLEAN
    BY <1>0, <1>10
  <2>4. LET r == [tabs |-> q, active |-> e, prev |-> p, groupmode |-> n.groupmode]
        IN  r \in Leaves /\ TabsOf(r) = ToSet(q)
    BY ONLY <1>13, <2>2, <2>3, ALeaf, Zenon
  <2> QED BY <2>4
<1>18. m = x
  <2>1. m = [n EXCEPT !.tabs = q, !.active = e, !.prev = p]
    BY <1>1, <1>3, <1>4, <1>6, <1>8, <1>16 DEF AddTabs
  <2>2. n \in LeafSet
    BY <1>0
  <2> HIDE DEF m
  <2> QED BY <2>1, <2>2 DEF LeafSet
<1> QED BY <1>14, <1>17, <1>18

\* The first tab of a group, and the others.
LEMMA FirstKept ==
    ASSUME NEW n \in Leaves, n.tabs # <<>>
    PROVE  /\ FirstTab(n) \in Leaves
           /\ n.tabs[1] \in TabsOf(n)
           /\ TabsOf(FirstTab(n)) = {n.tabs[1]}
           /\ ToSet(Tail(n.tabs)) = TabsOf(n) \ {n.tabs[1]}
<1>0. /\ n \in LeafSet /\ n.tabs \in Seq(Clients) /\ Len(n.tabs) \in Nat
      /\ n.groupmode \in BOOLEAN /\ n.prev \in Nat /\ Len(n.tabs) # 0
      /\ \A c : c \in TabsOf(n) <=> \E i \in 1..Len(n.tabs) : n.tabs[i] = c
      /\ \A i, j \in 1..Len(n.tabs) : n.tabs[i] = n.tabs[j] => i = j
      /\ TabsOf(n) \subseteq Clients
  BY LeafFacts DEF Leaves
<1>1. PICK c : c = n.tabs[1]
  OBVIOUS
<1>2. c \in TabsOf(n) /\ c \in Clients
  <2>1. 1 \in 1..Len(n.tabs)
    BY <1>0
  <2> QED BY <1>0, <1>1, <2>1
<1>3. /\ Head(n.tabs) = c
      /\ Tail(n.tabs) \in Seq(Clients) /\ Len(Tail(n.tabs)) = Len(n.tabs) - 1
      /\ \A i \in 1..Len(Tail(n.tabs)) : Tail(n.tabs)[i] = n.tabs[i + 1]
  BY <1>0, <1>1, HeadTailProperties
<1>4. ToSet(Tail(n.tabs)) = TabsOf(n) \ {c}
  <2>1. PICK t : t = Tail(n.tabs)
    OBVIOUS
  <2>2. t \in Seq(Clients) /\ Len(t) = Len(n.tabs) - 1 /\ \A i \in 1..Len(t) : t[i] = n.tabs[i + 1]
    BY <1>3, <2>1
  <2>3. \A x : x \in ToSet(t) <=> \E i \in 1..Len(t) : t[i] = x
    BY <2>2, Elements, Zenon
  <2>4. ASSUME NEW i \in 1..Len(t) PROVE t[i] \in TabsOf(n) \ {c}
    <3>1. i + 1 \in 1..Len(n.tabs) /\ i + 1 # 1 /\ 1 \in 1..Len(n.tabs)
      BY <1>0, <2>2
    <3> QED BY <1>0, <1>1, <2>2, <3>1
  <2>5. ASSUME NEW i \in 1..Len(n.tabs), n.tabs[i] # c PROVE \E j \in 1..Len(t) : t[j] = n.tabs[i]
    <3>1. i # 1
      BY <1>1, <2>5
    <3>2. i - 1 \in 1..Len(t) /\ (i - 1) + 1 = i
      BY <1>0, <2>2, <3>1
    <3> QED BY <2>2, <3>2
  <2>6. ToSet(t) = TabsOf(n) \ {c}
    BY <1>0, <2>3, <2>4, <2>5
  <2> QED BY <2>1, <2>6
<1>5. PICK q : q = <<c>>
  OBVIOUS
<1>6. q \in Seq(Clients) /\ Len(q) = 1 /\ DOMAIN q = 1..1 /\ q[1] = c /\ q # <<>>
  BY <1>2, <1>5
<1>7. IsInjective(q) /\ ToSet(q) = {c}
  BY <1>6 DEF IsInjective, ToSet
<1>8. PICK p : p = (IF n.prev = 1 THEN 1 ELSE 0)
  OBVIOUS
<1>9. /\ 1 \in Nat \ {0} /\ p \in Nat /\ p \in 0..Len(q) /\ q \in Seq(Clients)
      /\ q # <<>> => 1 \in 1..Len(q)
      /\ n.groupmode \in BOOLEAN
  BY <1>0, <1>6, <1>8
<1>10. LET x == [tabs |-> q, active |-> 1, prev |-> p, groupmode |-> n.groupmode]
       IN  x \in Leaves /\ TabsOf(x) = ToSet(q)
  BY ONLY <1>7, <1>9, ALeaf, Zenon
<1>11. FirstTab(n) = [tabs |-> q, active |-> 1, prev |-> p, groupmode |-> n.groupmode]
  <2>1. FirstTab(n) = [n EXCEPT !.tabs = q, !.active = 1, !.prev = p]
    BY <1>3, <1>5, <1>8 DEF FirstTab
  <2> QED BY <1>0, <2>1 DEF LeafSet
<1>12. FirstTab(n) \in Leaves /\ TabsOf(FirstTab(n)) = {c}
  BY <1>7, <1>10, <1>11, Zenon
<1> QED BY <1>1, <1>2, <1>4, <1>12

-----------------------------------------------------------------------------
(* Trees.                                                                  *)

\* The clients of In, and no others, are tabs of the leaves of T, each in one leaf of the
\* tree of its workspace.
Forest(T, home, In) ==
    /\ T \in [Workspaces -> SUBSET Leaves]
    /\ \A w \in Workspaces : \A n \in T[w] : \A c \in TabsOf(n) : c \in In /\ home[c] = w
    /\ \A w \in Workspaces : \A n, m \in T[w] : \A c \in TabsOf(n) : c \in TabsOf(m) => n = m
    /\ \A c \in In : home[c] \in Workspaces /\ \E n \in T[home[c]] : c \in TabsOf(n)

\* U is what the leaves of Q hold.
Held(U, Q) == \A c : c \in U <=> \E n \in Q : c \in TabsOf(n)

\* Some leaves of a tree replaced by others.
LEMMA Grafted ==
    ASSUME NEW T, NEW home, NEW In, Forest(T, home, In),
           NEW w \in Workspaces, NEW old \in SUBSET T[w], NEW new \in SUBSET Leaves,
           NEW O, Held(O, old), NEW U, Held(U, new),
           \A n, m \in new : \A c \in TabsOf(n) : c \in TabsOf(m) => n = m,
           NEW home2, \A c \in In \ O : home2[c] = home[c], \A c \in U : home2[c] = w,
           U \cap (In \ O) = {}
    PROVE  Forest([T EXCEPT ![w] = (T[w] \ old) \cup new], home2, (In \ O) \cup U)
<1> DEFINE R == [T EXCEPT ![w] = (T[w] \ old) \cup new]
           In2 == (In \ O) \cup U
<1>0. /\ T \in [Workspaces -> SUBSET Leaves]
      /\ \A v \in Workspaces : \A n \in T[v] : \A c \in TabsOf(n) : c \in In /\ home[c] = v
      /\ \A v \in Workspaces : \A n, m \in T[v] : \A c \in TabsOf(n) : c \in TabsOf(m) => n = m
      /\ \A c \in In : home[c] \in Workspaces /\ \E n \in T[home[c]] : c \in TabsOf(n)
  BY DEF Forest
<1>1. /\ R \in [Workspaces -> SUBSET Leaves] /\ R[w] = (T[w] \ old) \cup new
      /\ \A v \in Workspaces \ {w} : R[v] = T[v]
  BY <1>0
<1> HIDE DEF R
<1>2. /\ \A c : c \in O <=> \E n \in old : c \in TabsOf(n)
      /\ \A c : c \in U <=> \E n \in new : c \in TabsOf(n)
  BY DEF Held
\* A leaf that stays holds no client of the leaves that go.
<1>3. ASSUME NEW v \in Workspaces, NEW n \in T[v], v # w \/ n \notin old,
             NEW c \in TabsOf(n)
      PROVE  c \in In \ O /\ home2[c] = v
  <2>1. c \in In /\ home[c] = v
    BY <1>0
  <2>2. ASSUME NEW m \in old, c \in TabsOf(m) PROVE FALSE
    <3>1. m \in T[w] /\ home[c] = w
      BY <1>0, <2>2
    <3>2. v = w
      BY <2>1, <3>1
    <3>3. n = m
      BY <1>0, <2>2, <3>1, <3>2
    <3> QED BY <1>3, <2>2, <3>2, <3>3
  <2>3. c \notin O
    BY <1>2, <2>2
  <2> QED BY <2>1, <2>3
<1>4. ASSUME NEW v \in Workspaces, NEW n \in R[v], NEW c \in TabsOf(n)
      PROVE  c \in In2 /\ home2[c] = v
  <2>1. CASE v = w /\ n \in new
    <3>1. c \in U
      BY <1>2, <2>1
    <3> QED BY <2>1, <3>1
  <2>2. CASE ~(v = w /\ n \in new)
    <3>1. n \in T[v] /\ (v # w \/ n \notin old)
      BY <1>1, <2>2
    <3> QED BY <1>3, <3>1
  <2> QED BY <2>1, <2>2
<1>5. ASSUME NEW v \in Workspaces, NEW n \in R[v], NEW m \in R[v], NEW c \in TabsOf(n),
             c \in TabsOf(m)
      PROVE  n = m
  <2>1. CASE v = w /\ n \in new /\ m \in new
    BY <1>5, <2>1
  <2>2. CASE v = w /\ n \in new /\ m \notin new
    <3>1. c \in U
      BY <1>2, <2>2
    <3>2. c \in In \ O
      BY <1>1, <1>3, <1>5, <2>2
    <3> QED BY <3>1, <3>2
  <2>3. CASE v = w /\ n \notin new /\ m \in new
    <3>1. c \in U
      BY <1>2, <1>5, <2>3
    <3>2. c \in In \ O
      BY <1>1, <1>3, <2>3
    <3> QED BY <3>1, <3>2
  <2>4. CASE v # w \/ (n \notin new /\ m \notin new)
    <3>1. n \in T[v] /\ m \in T[v]
      BY <1>1, <2>4
    <3> QED BY <1>0, <1>5, <3>1
  <2> QED BY <2>1, <2>2, <2>3, <2>4
<1>6. ASSUME NEW c \in In2
      PROVE  home2[c] \in Workspaces /\ \E n \in R[home2[c]] : c \in TabsOf(n)
  <2>1. CASE c \in U
    <3>1. home2[c] = w
      BY <2>1
    <3>2. PICK n \in new : c \in TabsOf(n)
      BY <1>2, <2>1
    <3>3. n \in R[w]
      BY <1>1
    <3> QED BY <3>1, <3>2, <3>3
  <2>2. CASE c \in In \ O
    <3>1. home2[c] = home[c] /\ home[c] \in Workspaces
      BY <1>0, <2>2
    <3>2. PICK n \in T[home[c]] : c \in TabsOf(n)
      BY <1>0, <2>2
    <3>3. n \notin old
      BY <1>2, <2>2, <3>2
    <3>4. n \in R[home[c]]
      BY <1>1, <3>1, <3>3
    <3> QED BY <3>1, <3>2, <3>4
  <2> QED BY <2>1, <2>2
<1>7. Forest(R, home2, In2)
  <2> HIDE DEF In2
  <2>1. \A v \in Workspaces : \A n \in R[v] : \A c \in TabsOf(n) : c \in In2 /\ home2[c] = v
    BY <1>4
  <2>2. \A v \in Workspaces : \A n, m \in R[v] : \A c \in TabsOf(n) : c \in TabsOf(m) => n = m
    BY <1>5
  <2>3. \A c \in In2 : home2[c] \in Workspaces /\ \E n \in R[home2[c]] : c \in TabsOf(n)
    BY <1>6
  <2> QED BY <1>1, <2>1, <2>2, <2>3 DEF Forest
<1> QED BY <1>7 DEF R

\* What the state records hold.
StateSet ==
    [active : NormalIds, overlay : Tags \cup {NoTag},
     ws : [Clients -> Workspaces \cup {NoWorkspace}], floating : SUBSET Clients,
     tree : [Workspaces -> SUBSET Leaves], hint : [Clients -> HintSet], sel : Maybe]

\* The clients of In are in the trees of s.
Grown(s, In) == s \in StateSet /\ In \subseteq Clients /\ Forest(s.tree, s.ws, In)

\* s and t differ in trees and hints only.
SameView(s, t) ==
    /\ t.active = s.active /\ t.overlay = s.overlay /\ t.ws = s.ws
    /\ t.floating = s.floating /\ t.sel = s.sel

\* The fields of a state record.
LEMMA StateFields ==
    ASSUME NEW s \in StateSet
    PROVE  /\ s.active \in NormalIds /\ s.overlay \in Tags \cup {NoTag}
           /\ s.ws \in [Clients -> Workspaces \cup {NoWorkspace}]
           /\ s.floating \in SUBSET Clients
           /\ s.tree \in [Workspaces -> SUBSET Leaves]
           /\ s.hint \in [Clients -> HintSet] /\ s.sel \in Maybe
           /\ s.active \in Workspaces
BY DEF StateSet, Workspaces

\* A state with another tree ...
LEMMA Replanted ==
    ASSUME NEW s \in StateSet, NEW w \in Workspaces, NEW X \in SUBSET Leaves
    PROVE  /\ [s EXCEPT !.tree[w] = X] \in StateSet
           /\ SameView(s, [s EXCEPT !.tree[w] = X])
           /\ [s EXCEPT !.tree[w] = X].hint = s.hint
           /\ [s EXCEPT !.tree[w] = X].tree = [s.tree EXCEPT ![w] = X]
BY DEF StateSet, SameView

\* ... another hint ...
LEMMA Rehinted ==
    ASSUME NEW s \in StateSet, NEW c \in Clients, NEW h \in HintSet
    PROVE  /\ [s EXCEPT !.hint[c] = h] \in StateSet
           /\ SameView(s, [s EXCEPT !.hint[c] = h])
           /\ [s EXCEPT !.hint[c] = h].tree = s.tree
BY DEF StateSet, SameView

\* ... or another selection.
LEMMA Reselected ==
    ASSUME NEW s \in StateSet, NEW c \in Maybe
    PROVE  LET t == [s EXCEPT !.sel = c]
           IN  /\ t \in StateSet /\ t.sel = c
               /\ t.active = s.active /\ t.overlay = s.overlay /\ t.ws = s.ws
               /\ t.floating = s.floating /\ t.tree = s.tree
BY DEF StateSet

\* The leaf of a client.
LEMMA LeafOfIs ==
    ASSUME NEW s, NEW In, Grown(s, In)
    PROVE  /\ \A c : Tiled(s, c) <=> c \in In
           /\ \A c \in In : /\ c \in Clients /\ s.ws[c] \in Workspaces
                            /\ Owner(s, c) = s.ws[c]
                            /\ LeafOf(s, c) \in s.tree[s.ws[c]] /\ LeafOf(s, c) \in Leaves
                            /\ c \in TabsOf(LeafOf(s, c))
           /\ \A w \in Workspaces : \A n \in s.tree[w] : \A c \in TabsOf(n) :
                n = LeafOf(s, c) /\ s.ws[c] = w /\ c \in In
<1>0. /\ s \in StateSet /\ In \subseteq Clients
      /\ s.tree \in [Workspaces -> SUBSET Leaves]
      /\ \A w \in Workspaces : \A n \in s.tree[w] : \A c \in TabsOf(n) : c \in In /\ s.ws[c] = w
      /\ \A w \in Workspaces : \A n, m \in s.tree[w] : \A c \in TabsOf(n) : c \in TabsOf(m) => n = m
      /\ \A c \in In : s.ws[c] \in Workspaces /\ \E n \in s.tree[s.ws[c]] : c \in TabsOf(n)
  BY DEF Grown, Forest
<1>1. \A w \in Workspaces : \A n \in s.tree[w] : n \in Leaves /\ \A c : Holds(n, c) <=> c \in TabsOf(n)
  BY <1>0, LeafFacts
<1>2. \A c : Tiled(s, c) <=> c \in In
  BY <1>0, <1>1 DEF Tiled
<1>3. ASSUME NEW c \in In
      PROVE  /\ Owner(s, c) = s.ws[c] /\ LeafOf(s, c) \in s.tree[s.ws[c]]
             /\ c \in TabsOf(LeafOf(s, c))
             /\ \A n \in s.tree[s.ws[c]] : c \in TabsOf(n) => n = LeafOf(s, c)
  <2>1. s.ws[c] \in Workspaces /\ \E n \in s.tree[s.ws[c]] : Holds(n, c)
    BY <1>0, <1>1
  <2>2. \A w \in Workspaces : (\E n \in s.tree[w] : Holds(n, c)) => w = s.ws[c]
    BY <1>0, <1>1
  <2>3. Owner(s, c) = s.ws[c]
    BY <2>1, <2>2 DEF Owner
  <2>4. LeafOf(s, c) \in s.tree[s.ws[c]] /\ Holds(LeafOf(s, c), c)
    BY <2>1, <2>3 DEF LeafOf
  <2> QED BY <1>0, <1>1, <2>1, <2>3, <2>4
<1> QED BY <1>0, <1>1, <1>2, <1>3

\* A tree whose only empty leaf, if any, is its only leaf.
Neat(T) == \A n \in T : n.tabs = <<>> => T = {n}
AllNeat(s) == \A w \in Workspaces : Neat(s.tree[w])

\* t is s with X for the tree of w.
TreeIs(s, t, w, X) == t.tree[w] = X /\ \A v \in Workspaces \ {w} : t.tree[v] = s.tree[v]

\* One leaf changed.
LEMMA Changed ==
    ASSUME NEW s, NEW In, Grown(s, In), NEW w \in Workspaces, NEW n \in s.tree[w],
           NEW m \in Leaves, \A c \in TabsOf(m) : s.ws[c] = w,
           TabsOf(m) \cap (In \ TabsOf(n)) = {}
    PROVE  /\ Grown(Change(s, w, n, m), (In \ TabsOf(n)) \cup TabsOf(m))
           /\ SameView(s, Change(s, w, n, m))
           /\ Change(s, w, n, m).hint = s.hint
           /\ TreeIs(s, Change(s, w, n, m), w, (s.tree[w] \ {n}) \cup {m})
<1> DEFINE X == (s.tree[w] \ {n}) \cup {m}
           t == [s EXCEPT !.tree[w] = X]
<1>0. /\ s \in StateSet /\ In \subseteq Clients /\ Forest(s.tree, s.ws, In)
      /\ s.tree \in [Workspaces -> SUBSET Leaves]
  BY StateFields DEF Grown
<1>1. Change(s, w, n, m) = t
  BY DEF Change
<1>2. /\ X \in SUBSET Leaves /\ {n} \in SUBSET s.tree[w] /\ {m} \in SUBSET Leaves
      /\ TabsOf(m) \subseteq Clients
  BY <1>0, LeafFacts
<1>3. /\ t \in StateSet /\ SameView(s, t) /\ t.hint = s.hint
      /\ t.tree = [s.tree EXCEPT ![w] = X]
  <2> HIDE DEF X
  <2> QED BY <1>0, <1>2, Replanted
<1>4. /\ Held(TabsOf(n), {n}) /\ Held(TabsOf(m), {m})
      /\ \A k, l \in {m} : \A c \in TabsOf(k) : c \in TabsOf(l) => k = l
      /\ \A c \in In \ TabsOf(n) : s.ws[c] = s.ws[c]
  BY DEF Held
<1>5. Forest([s.tree EXCEPT ![w] = (s.tree[w] \ {n}) \cup {m}], s.ws,
             (In \ TabsOf(n)) \cup TabsOf(m))
  BY <1>0, <1>2, <1>4, Grafted, Zenon
<1>6. Grown(t, (In \ TabsOf(n)) \cup TabsOf(m))
  <2> HIDE DEF t
  <2> QED BY <1>0, <1>2, <1>3, <1>5 DEF Grown, SameView
<1>7. TreeIs(s, t, w, X)
  <2> HIDE DEF t, X
  <2> QED BY <1>0, <1>3 DEF TreeIs
<1> QED BY <1>1, <1>3, <1>6, <1>7, Zenon

\* A new leaf.
LEMMA Planted ==
    ASSUME NEW s, NEW In, Grown(s, In), NEW w \in Workspaces, NEW c \in Clients \ In,
           s.ws[c] = w
    PROVE  /\ Grown(Plant(s, w, c), In \cup {c}) /\ SameView(s, Plant(s, w, c))
           /\ Plant(s, w, c).hint = s.hint
           /\ TreeIs(s, Plant(s, w, c), w, s.tree[w] \cup {AddTab(EmptyLeaf, c, FALSE)})
           /\ AddTab(EmptyLeaf, c, FALSE).tabs # <<>>
<1> DEFINE m == AddTab(EmptyLeaf, c, FALSE)
           X == s.tree[w] \cup {m}
           t == [s EXCEPT !.tree[w] = X]
<1>0. /\ s \in StateSet /\ In \subseteq Clients /\ Forest(s.tree, s.ws, In)
      /\ s.tree \in [Workspaces -> SUBSET Leaves]
  BY StateFields DEF Grown
<1>1. Plant(s, w, c) = t
  BY DEF Plant
<1>2. m \in Leaves /\ TabsOf(m) = {c}
  BY NewLeaf
<1> HIDE DEF m
<1>3. m.tabs # <<>>
  BY <1>2, LeafFacts
<1>4. /\ X \in SUBSET Leaves /\ {} \in SUBSET s.tree[w] /\ {m} \in SUBSET Leaves
      /\ (s.tree[w] \ {}) \cup {m} = X
  BY <1>0, <1>2
<1>5. /\ t \in StateSet /\ SameView(s, t) /\ t.hint = s.hint
      /\ t.tree = [s.tree EXCEPT ![w] = X]
  <2> HIDE DEF X
  <2> QED BY <1>0, <1>4, Replanted
<1>6. /\ Held({}, {}) /\ Held({c}, {m})
      /\ \A k, l \in {m} : \A d \in TabsOf(k) : d \in TabsOf(l) => k = l
      /\ \A d \in In \ {} : s.ws[d] = s.ws[d]
      /\ \A d \in {c} : s.ws[d] = w
      /\ {c} \cap (In \ {}) = {}
      /\ (In \ {}) \cup {c} = In \cup {c}
  BY <1>2 DEF Held
<1>7. Forest([s.tree EXCEPT ![w] = (s.tree[w] \ {}) \cup {m}], s.ws, (In \ {}) \cup {c})
  BY <1>0, <1>4, <1>6, Grafted, Zenon
<1>8. Forest([s.tree EXCEPT ![w] = X], s.ws, In \cup {c})
  <2> HIDE DEF X
  <2> QED BY <1>4, <1>6, <1>7
<1>9. Grown(t, In \cup {c})
  <2> HIDE DEF t, X
  <2> QED BY <1>0, <1>5, <1>8 DEF Grown, SameView
<1>10. TreeIs(s, t, w, X)
  <2> HIDE DEF t, X
  <2> QED BY <1>0, <1>5 DEF TreeIs
<1> QED BY <1>1, <1>3, <1>5, <1>9, <1>10, Zenon DEF m

\* Leaves taken out of a tree.
Fell(s, w, old) == [s EXCEPT !.tree[w] = s.tree[w] \ old]

\* A tree without some of its leaves.
LEMMA Felled ==
    ASSUME NEW s, NEW In, Grown(s, In), NEW w \in Workspaces, NEW old \in SUBSET s.tree[w],
           NEW O, Held(O, old)
    PROVE  /\ Grown(Fell(s, w, old), In \ O) /\ SameView(s, Fell(s, w, old))
           /\ Fell(s, w, old).hint = s.hint
           /\ TreeIs(s, Fell(s, w, old), w, s.tree[w] \ old)
<1> DEFINE X == s.tree[w] \ old
           t == [s EXCEPT !.tree[w] = X]
<1>0. /\ s \in StateSet /\ In \subseteq Clients /\ Forest(s.tree, s.ws, In)
      /\ s.tree \in [Workspaces -> SUBSET Leaves]
  BY StateFields DEF Grown
<1>1. /\ X \in SUBSET Leaves /\ {} \in SUBSET Leaves /\ (s.tree[w] \ old) \cup {} = X
      /\ (In \ O) \cup {} = In \ O
  BY <1>0
<1>2. /\ t \in StateSet /\ SameView(s, t) /\ t.hint = s.hint
      /\ t.tree = [s.tree EXCEPT ![w] = X]
  <2> HIDE DEF X
  <2> QED BY <1>0, <1>1, Replanted
<1>3. /\ Held({}, {}) /\ {} \cap (In \ O) = {}
      /\ \A k, l \in {} : \A d \in TabsOf(k) : d \in TabsOf(l) => k = l
      /\ \A d \in In \ O : s.ws[d] = s.ws[d]
      /\ \A d \in {} : s.ws[d] = w
  BY DEF Held
<1>4. Forest([s.tree EXCEPT ![w] = (s.tree[w] \ old) \cup {}], s.ws, (In \ O) \cup {})
  BY <1>0, <1>1, <1>3, Grafted, Zenon
<1>5. Forest([s.tree EXCEPT ![w] = X], s.ws, In \ O)
  <2> HIDE DEF X
  <2> QED BY <1>1, <1>4
<1>6. Grown(t, In \ O)
  <2> HIDE DEF t, X
  <2> QED BY <1>0, <1>2, <1>5 DEF Grown, SameView
<1>7. TreeIs(s, t, w, X)
  <2> HIDE DEF t, X
  <2> QED BY <1>0, <1>2 DEF TreeIs
<1> QED BY <1>2, <1>6, <1>7, Zenon DEF Fell

\* A neat tree stays neat.
LEMMA NeatChange ==
    ASSUME NEW T, Neat(T), NEW n, NEW m
    PROVE  /\ n \in T /\ (m.tabs # <<>> \/ T = {n}) => Neat((T \ {n}) \cup {m})
           /\ Neat(T \ {n})
           /\ (T = {} \/ (n \in T /\ n.tabs # <<>>)) /\ m.tabs # <<>> => Neat(T \cup {m})
BY DEF Neat

\* Neat trees, when one of them changes.
LEMMA AllNeatChange ==
    ASSUME NEW s, NEW t, NEW w \in Workspaces, NEW X, AllNeat(s), TreeIs(s, t, w, X), Neat(X)
    PROVE  AllNeat(t)
BY DEF AllNeat, TreeIs

\* A tree without an empty leaf.
Full(T) == \A n \in T : n.tabs # <<>>

\* No leaf has become empty from s to t.
NotEmptier(s, t) ==
    \A w \in Workspaces : /\ Neat(s.tree[w]) => Neat(t.tree[w])
                          /\ Full(s.tree[w]) => Full(t.tree[w])

\* A tab becomes the active one of its leaf.
LEMMA FocusTabKeeps ==
    ASSUME NEW s, NEW In, Grown(s, In), NEW c
    PROVE  /\ Grown(FocusTab(s, c), In) /\ SameView(s, FocusTab(s, c))
           /\ NotEmptier(s, FocusTab(s, c))
<1>1. CASE ~Tiled(s, c)
  <2>1. FocusTab(s, c) = s
    BY <1>1 DEF FocusTab
  <2> QED BY <2>1 DEF SameView, NotEmptier
<1>2. CASE Tiled(s, c)
  <2> DEFINE n == LeafOf(s, c)
             w == Owner(s, c)
             m == Refocused(n, c)
  <2>1. /\ c \in In /\ w \in Workspaces /\ n \in s.tree[w] /\ n \in Leaves /\ c \in TabsOf(n)
        /\ \A d \in TabsOf(n) : s.ws[d] = w
    BY <1>2, LeafOfIs
  <2> HIDE DEF n, w
  <2>2. m \in Leaves /\ TabsOf(m) = TabsOf(n)
    BY <2>1, TabFocused
  <2>3. FocusTab(s, c) = Change(s, w, n, m)
    BY <1>2 DEF FocusTab, Refocused, n, w
  <2> HIDE DEF m
  <2>4. \A d \in TabsOf(m) : s.ws[d] = w
    BY <2>1, <2>2
  <2>5. TabsOf(m) \cap (In \ TabsOf(n)) = {}
    BY <2>2
  <2>6. /\ Grown(Change(s, w, n, m), (In \ TabsOf(n)) \cup TabsOf(m))
        /\ SameView(s, Change(s, w, n, m))
        /\ TreeIs(s, Change(s, w, n, m), w, (s.tree[w] \ {n}) \cup {m})
    BY <2>1, <2>2, <2>4, <2>5, Changed, Zenon
  <2>7. (In \ TabsOf(n)) \cup TabsOf(m) = In
    BY <2>1, <2>2, LeafOfIs
  <2>8. m.tabs # <<>>
    BY <2>1, <2>2, LeafFacts
  <2>9. NotEmptier(s, Change(s, w, n, m))
    <3>1. Neat(s.tree[w]) => Neat((s.tree[w] \ {n}) \cup {m})
      BY <2>1, <2>8, NeatChange
    <3>2. Full(s.tree[w]) => Full((s.tree[w] \ {n}) \cup {m})
      BY <2>8 DEF Full
    <3> QED BY <2>6, <3>1, <3>2 DEF TreeIs, NotEmptier
  <2> QED BY <2>3, <2>6, <2>7, <2>9
<1> QED BY <1>1, <1>2

\* The focus moves.
LEMMA FocusKeeps ==
    ASSUME NEW s, NEW In, Grown(s, In), NEW c \in Maybe
    PROVE  LET t == Focus(s, c)
           IN  /\ Grown(t, In) /\ NotEmptier(s, t) /\ t.sel = c
               /\ t.active = s.active /\ t.overlay = s.overlay /\ t.ws = s.ws
               /\ t.floating = s.floating
<1> DEFINE u == [s EXCEPT !.sel = c]
<1>1. /\ u \in StateSet /\ u.sel = c
      /\ u.active = s.active /\ u.overlay = s.overlay /\ u.ws = s.ws
      /\ u.floating = s.floating /\ u.tree = s.tree
  BY Reselected DEF Grown
<1>2. c = NoClient => Focus(s, c) = u
  BY DEF Focus
<1>3. c # NoClient => Focus(s, c) = FocusTab(u, c)
  BY DEF Focus
<1> HIDE DEF u
<1>4. Grown(u, In)
  BY <1>1 DEF Grown
<1>5. /\ Grown(FocusTab(u, c), In) /\ SameView(u, FocusTab(u, c))
      /\ NotEmptier(u, FocusTab(u, c))
  BY <1>4, FocusTabKeeps
<1>6. NotEmptier(s, u) /\ NotEmptier(s, FocusTab(u, c))
  BY <1>1, <1>5 DEF NotEmptier
<1>7. CASE c = NoClient
  BY <1>1, <1>2, <1>4, <1>6, <1>7
<1>8. CASE c # NoClient
  BY <1>1, <1>3, <1>5, <1>6, <1>8 DEF SameView
<1> QED BY <1>7, <1>8

\* The hints a client leaves with.
LEMMA AHint ==
    /\ NoHint \in HintSet
    /\ \A n \in Leaves : \A c \in TabsOf(n) : \A rep \in Maybe : HintFor(n, c, rep) \in HintSet
<1>1. NoHint \in HintSet
  BY DEF NoHint, HintSet, Maybe
<1>2. ASSUME NEW n \in Leaves, NEW c \in TabsOf(n), NEW rep \in Maybe
      PROVE  HintFor(n, c, rep) \in HintSet
  <2>1. PICK i \in 1..Len(n.tabs) : i = Position(n, c)
    BY PositionIs
  <2>2. /\ Len(n.tabs) \in Nat /\ Len(n.tabs) # 0
        /\ \A j \in 1..Len(n.tabs) : n.tabs[j] \in Clients
    BY LeafFacts
  <2>3. CASE Len(n.tabs) = 1
    BY <2>3 DEF HintFor, HintSet, Maybe
  <2>4. CASE Len(n.tabs) # 1
    <3>0. 1 \in 1..Len(n.tabs) /\ 2 \in 1..Len(n.tabs)
      <4>1. PICK z \in Nat : z = Len(n.tabs) /\ z # 0 /\ z # 1
        BY <2>2, <2>4
      <4>2. z \in Nat /\ z # 0 /\ z # 1
        BY <4>1
      <4>3. 1 \in 1..z /\ 2 \in 1..z
        BY ONLY <4>2
      <4> QED BY <4>1, <4>3
    <3>1. PICK j \in 1..Len(n.tabs) : j = (IF i = 1 THEN 2 ELSE 1)
      BY <3>0
    <3>2. n.tabs[j] \in Maybe /\ i \in Nat /\ NoClient \in Maybe
      BY <2>1, <2>2 DEF Maybe
    <3>3. HintFor(n, c, rep) = [peer |-> n.tabs[j], slot |-> i, beside |-> NoClient]
      BY <2>1, <2>4, <3>1 DEF HintFor
    <3> QED BY <3>2, <3>3 DEF HintSet
  <2> QED BY <2>3, <2>4
<1> QED BY <1>1, <1>2

\* A client out of its leaf.
LEMMA UntabKeeps ==
    ASSUME NEW s, NEW In, Grown(s, In), NEW c \in In
    PROVE  LET n == LeafOf(s, c)
               w == s.ws[c]
               m == RemoveTab(n, c)
           IN  /\ Grown(Untab(s, c), In \ {c}) /\ SameView(s, Untab(s, c))
               /\ Untab(s, c).hint = s.hint
               /\ TreeIs(s, Untab(s, c), w, (s.tree[w] \ {n}) \cup {m})
               /\ m \in Leaves /\ TabsOf(m) = TabsOf(n) \ {c}
<1> DEFINE n == LeafOf(s, c)
           w == s.ws[c]
           m == RemoveTab(n, c)
<1>1. /\ c \in Clients /\ w \in Workspaces /\ Owner(s, c) = w
      /\ n \in s.tree[w] /\ n \in Leaves /\ c \in TabsOf(n)
      /\ \A d \in TabsOf(n) : s.ws[d] = w /\ d \in In
  BY LeafOfIs
<1>2. Untab(s, c) = Change(s, w, n, m)
  BY <1>1 DEF Untab
<1> HIDE DEF n, w
<1>3. m \in Leaves /\ TabsOf(m) = TabsOf(n) \ {c}
  BY <1>1, TabRemoved
<1> HIDE DEF m
<1>4. (\A d \in TabsOf(m) : s.ws[d] = w) /\ TabsOf(m) \cap (In \ TabsOf(n)) = {}
  BY <1>1, <1>3
<1>5. /\ Grown(Change(s, w, n, m), (In \ TabsOf(n)) \cup TabsOf(m))
      /\ SameView(s, Change(s, w, n, m))
      /\ Change(s, w, n, m).hint = s.hint
      /\ TreeIs(s, Change(s, w, n, m), w, (s.tree[w] \ {n}) \cup {m})
  BY <1>1, <1>3, <1>4, Changed, Zenon
<1>6. (In \ TabsOf(n)) \cup TabsOf(m) = In \ {c}
  BY <1>1, <1>3
<1> QED BY <1>2, <1>3, <1>5, <1>6 DEF n, w, m

\* bsp_remove_client
LEMMA RemoveClientKeeps ==
    ASSUME NEW s, NEW In, Grown(s, In), NEW c \in Clients, NEW rep \in Maybe
    PROVE  LET t == RemoveClient(s, c, rep)
           IN  /\ Grown(t, In \ {c}) /\ SameView(s, t)
               /\ AllNeat(s) => AllNeat(t)
               /\ \A w \in Workspaces : w # s.ws[c] => t.tree[w] = s.tree[w]
               /\ c \notin In => t = s
<1>1. CASE c \notin In
  <2>1. RemoveClient(s, c, rep) = s
    BY <1>1, LeafOfIs DEF RemoveClient
  <2>2. In \ {c} = In
    BY <1>1
  <2> QED BY <2>1, <2>2 DEF SameView
<1>2. CASE c \in In
  <2> DEFINE n == LeafOf(s, c)
             w == s.ws[c]
             m == RemoveTab(n, c)
             collapses == Len(n.tabs) = 1 /\ s.tree[w] # {n}
             out == IF collapses THEN [s EXCEPT !.tree[w] = @ \ {n}] ELSE Untab(s, c)
  <2>1. /\ w \in Workspaces /\ Owner(s, c) = w /\ Tiled(s, c)
        /\ n \in s.tree[w] /\ n \in Leaves /\ c \in TabsOf(n)
    BY <1>2, LeafOfIs
  <2>2. RemoveClient(s, c, rep) = [out EXCEPT !.hint[c] = HintFor(n, c, rep)]
    BY <2>1 DEF RemoveClient
  <2>3. /\ Grown(out, In \ {c}) /\ SameView(s, out)
        /\ AllNeat(s) => AllNeat(out)
        /\ \A v \in Workspaces \ {w} : out.tree[v] = s.tree[v]
    <3>1. CASE collapses
      <4>1. out = Fell(s, w, {n})
        BY <3>1 DEF Fell
      <4>2. TabsOf(n) = {c}
        <5>1. \A i \in 1..Len(n.tabs) : i = 1
          BY <3>1
        <5> QED BY <2>1, <5>1, LeafFacts
      <4>3. Held({c}, {n}) /\ {n} \in SUBSET s.tree[w]
        BY <2>1, <4>2 DEF Held
      <4> HIDE DEF n, w
      <4>4. /\ Grown(Fell(s, w, {n}), In \ {c}) /\ SameView(s, Fell(s, w, {n}))
            /\ TreeIs(s, Fell(s, w, {n}), w, s.tree[w] \ {n})
        BY <2>1, <4>3, Felled, Zenon
      <4> HIDE DEF out
      <4>5. Grown(out, In \ {c}) /\ SameView(s, out) /\ TreeIs(s, out, w, s.tree[w] \ {n})
        BY <4>1, <4>4
      <4>6. AllNeat(s) => AllNeat(out)
        <5> SUFFICES ASSUME AllNeat(s) PROVE AllNeat(out)
          OBVIOUS
        <5>1. Neat(s.tree[w])
          BY <2>1 DEF AllNeat
        <5>2. Neat(s.tree[w] \ {n})
          BY <5>1, NeatChange
        <5> QED BY <2>1, <4>5, <5>2, AllNeatChange
      <4> QED BY <4>5, <4>6 DEF TreeIs
    <3>2. CASE ~collapses
      <4>1. out = Untab(s, c)
        BY <3>2
      <4> HIDE DEF out
      <4>2. /\ Grown(out, In \ {c}) /\ SameView(s, out)
            /\ TreeIs(s, out, w, (s.tree[w] \ {n}) \cup {m})
            /\ m \in Leaves /\ TabsOf(m) = TabsOf(n) \ {c}
        <5>1. LET k == LeafOf(s, c)
                  v == s.ws[c]
                  l == RemoveTab(k, c)
              IN  /\ Grown(Untab(s, c), In \ {c}) /\ SameView(s, Untab(s, c))
                  /\ Untab(s, c).hint = s.hint
                  /\ TreeIs(s, Untab(s, c), v, (s.tree[v] \ {k}) \cup {l})
                  /\ l \in Leaves /\ TabsOf(l) = TabsOf(k) \ {c}
          BY <1>2, UntabKeeps, Zenon
        <5> QED BY <4>1, <5>1
      <4>3. m.tabs # <<>> \/ s.tree[w] = {n}
        <5>1. CASE s.tree[w] # {n}
          <6> HIDE DEF n
          <6>1. PICK z \in Nat : z = Len(n.tabs) /\ z # 0 /\ z # 1
            BY <2>1, <3>2, <5>1, LeafFacts
          <6>0. z \in Nat /\ z # 0 /\ z # 1
            BY <6>1
          <6>2. 1 \in 1..z /\ 2 \in 1..z
            BY ONLY <6>0
          <6>3. n.tabs[1] # n.tabs[2] /\ n.tabs[1] \in TabsOf(n) /\ n.tabs[2] \in TabsOf(n)
            BY <2>1, <6>1, <6>2, LeafFacts
          <6>4. TabsOf(m) # {}
            BY <4>2, <6>3
          <6> HIDE DEF m
          <6> QED BY <4>2, <6>4, LeafFacts
        <5> QED BY <5>1
      <4> HIDE DEF m, n, w
      <4>4. AllNeat(s) => AllNeat(out)
        <5> SUFFICES ASSUME AllNeat(s) PROVE AllNeat(out)
          OBVIOUS
        <5>1. Neat(s.tree[w])
          BY <2>1 DEF AllNeat
        <5>2. Neat((s.tree[w] \ {n}) \cup {m})
          BY <2>1, <4>3, <5>1, NeatChange
        <5> QED BY <2>1, <4>2, <5>2, AllNeatChange
      <4> QED BY <4>2, <4>4 DEF TreeIs
    <3> QED BY <3>1, <3>2
  <2> HIDE DEF out, n, m
  <2>4. HintFor(n, c, rep) \in HintSet
    BY <2>1, AHint
  <2>5. PICK h \in HintSet : h = HintFor(n, c, rep)
    BY <2>4
  <2>6. PICK t : t = [out EXCEPT !.hint[c] = h]
    OBVIOUS
  <2>7. t \in StateSet /\ SameView(out, t) /\ t.tree = out.tree
    BY <2>3, <2>6, Rehinted DEF Grown
  <2>8. /\ Grown(t, In \ {c}) /\ SameView(s, t)
        /\ AllNeat(s) => AllNeat(t)
        /\ \A v \in Workspaces \ {w} : t.tree[v] = s.tree[v]
    BY <2>3, <2>7 DEF Grown, SameView, AllNeat
  <2> QED BY <1>2, <2>2, <2>5, <2>6, <2>8
<1> QED BY <1>1, <1>2

\* A client joins a leaf.
LEMMA Joined ==
    ASSUME NEW s, NEW In, Grown(s, In), NEW w \in Workspaces, NEW n \in s.tree[w],
           NEW c \in Clients \ In, s.ws[c] = w,
           NEW m \in Leaves, TabsOf(m) = TabsOf(n) \cup {c}
    PROVE  /\ Grown(Change(s, w, n, m), In \cup {c}) /\ SameView(s, Change(s, w, n, m))
           /\ TreeIs(s, Change(s, w, n, m), w, (s.tree[w] \ {n}) \cup {m})
           /\ AllNeat(s) => AllNeat(Change(s, w, n, m))
<1>1. \A d \in TabsOf(n) : s.ws[d] = w /\ d \in In
  BY LeafOfIs
<1>2. (\A d \in TabsOf(m) : s.ws[d] = w) /\ TabsOf(m) \cap (In \ TabsOf(n)) = {}
  BY <1>1
<1>3. /\ Grown(Change(s, w, n, m), (In \ TabsOf(n)) \cup TabsOf(m))
      /\ SameView(s, Change(s, w, n, m))
      /\ TreeIs(s, Change(s, w, n, m), w, (s.tree[w] \ {n}) \cup {m})
  <2>1. Grown(s, In) /\ w \in Workspaces /\ n \in s.tree[w] /\ m \in Leaves
    OBVIOUS
  <2> QED BY ONLY <1>2, <2>1, Changed, Zenon
<1>4. (In \ TabsOf(n)) \cup TabsOf(m) = In \cup {c}
  BY <1>1
<1>5. m.tabs # <<>>
  <2>1. TabsOf(m) # {}
    OBVIOUS
  <2> QED BY <2>1, LeafFacts, Zenon
<1>6. AllNeat(s) => AllNeat(Change(s, w, n, m))
  <2> SUFFICES ASSUME AllNeat(s) PROVE AllNeat(Change(s, w, n, m))
    OBVIOUS
  <2>1. Neat(s.tree[w])
    BY DEF AllNeat
  <2>2. Neat((s.tree[w] \ {n}) \cup {m})
    BY <1>5, <2>1, NeatChange
  <2> QED BY <1>3, <2>2, AllNeatChange
<1> QED BY <1>3, <1>4, <1>6

\* A client gets a leaf of its own in a neat tree without an empty leaf.
LEMMA PlantedNeatly ==
    ASSUME NEW s, NEW In, Grown(s, In), AllNeat(s), NEW w \in Workspaces,
           NEW c \in Clients \ In, s.ws[c] = w,
           s.tree[w] = {} \/ \E n \in s.tree[w] : n.tabs # <<>>
    PROVE  Grown(Plant(s, w, c), In \cup {c}) /\ SameView(s, Plant(s, w, c)) /\ AllNeat(Plant(s, w, c))
<1>1. PICK m : m = AddTab(EmptyLeaf, c, FALSE)
  OBVIOUS
<1>2. /\ Grown(Plant(s, w, c), In \cup {c}) /\ SameView(s, Plant(s, w, c))
      /\ TreeIs(s, Plant(s, w, c), w, s.tree[w] \cup {m})
      /\ m.tabs # <<>>
  BY <1>1, Planted
<1>3. Neat(s.tree[w])
  BY DEF AllNeat
<1>4. Neat(s.tree[w] \cup {m})
  BY <1>2, <1>3, NeatChange
<1> QED BY <1>2, <1>4, AllNeatChange

\* BspGroupFlow::attach
LEMMA AttachKeeps ==
    ASSUME NEW s, NEW In, Grown(s, In), AllNeat(s),
           NEW c \in Clients \ In, s.ws[c] \in Workspaces, NEW n \in s.tree[s.ws[c]]
    PROVE  Grown(Attach(s, c, n), In \cup {c}) /\ SameView(s, Attach(s, c, n)) /\ AllNeat(Attach(s, c, n))
<1>1. PICK w \in Workspaces : w = s.ws[c]
  OBVIOUS
<1>0. s \in StateSet
  BY DEF Grown
<1>2. PICK slot \in Nat : slot = s.hint[c].slot
  <2>1. s.hint[c] \in HintSet
    BY <1>0, StateFields
  <2> QED BY <2>1 DEF HintSet
<1>3. n \in Leaves /\ c \notin TabsOf(n) /\ n \in s.tree[w] /\ s.ws[c] = w
  <2>1. n \in Leaves
    BY <1>0, StateFields
  <2>2. c \notin TabsOf(n)
    BY LeafOfIs
  <2> QED BY <1>1, <2>1, <2>2
<1>4. InsertAfterCurrent \in BOOLEAN
  BY TreeConstants
<1>5. ASSUME NEW m, m \in Leaves, TabsOf(m) = TabsOf(n) \cup {c},
             Attach(s, c, n) = Change(s, w, n, m)
      PROVE  /\ Grown(Attach(s, c, n), In \cup {c}) /\ SameView(s, Attach(s, c, n))
             /\ AllNeat(Attach(s, c, n))
  <2>1. /\ Grown(Change(s, w, n, m), In \cup {c}) /\ SameView(s, Change(s, w, n, m))
        /\ AllNeat(s) => AllNeat(Change(s, w, n, m))
    BY <1>3, <1>5, Joined, Zenon
  <2> QED BY <1>5, <2>1
<1>6. CASE n.tabs = <<>>
  <2>1. Attach(s, c, n) = Change(s, w, n, AddTab(n, c, FALSE))
    BY <1>1, <1>6 DEF Attach
  <2>2. AddTab(n, c, FALSE) \in Leaves /\ TabsOf(AddTab(n, c, FALSE)) = TabsOf(n) \cup {c}
    BY <1>3, TabAdded
  <2> QED BY <1>5, <2>1, <2>2
<1>7. CASE n.tabs # <<>> /\ slot # 0
  <2>1. Attach(s, c, n) = Change(s, w, n, AddTabAt(n, c, slot))
    BY <1>1, <1>2, <1>7 DEF Attach
  <2>2. AddTabAt(n, c, slot) \in Leaves /\ TabsOf(AddTabAt(n, c, slot)) = TabsOf(n) \cup {c}
    BY <1>3, <1>7, TabAddedAt
  <2> QED BY <1>5, <2>1, <2>2
<1>8. CASE n.tabs # <<>> /\ slot = 0 /\ n.groupmode
  <2>1. Attach(s, c, n) = Change(s, w, n, AddTab(n, c, InsertAfterCurrent))
    BY <1>1, <1>2, <1>8 DEF Attach
  <2>2. /\ AddTab(n, c, InsertAfterCurrent) \in Leaves
        /\ TabsOf(AddTab(n, c, InsertAfterCurrent)) = TabsOf(n) \cup {c}
    BY <1>3, <1>4, TabAdded
  <2> QED BY <1>5, <2>1, <2>2
<1>9. CASE n.tabs # <<>> /\ slot = 0 /\ ~n.groupmode
  <2>1. Attach(s, c, n) = Plant(s, w, c)
    BY <1>1, <1>2, <1>9 DEF Attach
  <2> QED BY <1>3, <1>9, <2>1, PlantedNeatly
<1> QED BY <1>6, <1>7, <1>8, <1>9

\* bsp_add_client
LEMMA AddClientKeeps ==
    ASSUME NEW s, NEW In, Grown(s, In), AllNeat(s),
           NEW c \in Clients \ In, s.ws[c] \in Workspaces, NEW target \in Targets(s, s.ws[c])
    PROVE  LET t == AddClient(s, c, target)
           IN  /\ c \in s.floating => t = s
               /\ c \notin s.floating =>
                    Grown(t, In \cup {c}) /\ SameView(s, t) /\ AllNeat(t)
<1>1. PICK w \in Workspaces : w = s.ws[c]
  OBVIOUS
<1>2. PICK h : h = s.hint[c]
  OBVIOUS
<1> DEFINE placed == CASE h.beside \in Rejoinable(s, c) \/ s.tree[w] = {} -> Plant(s, w, c)
                       [] h.peer \in Rejoinable(s, c) -> Attach(s, c, LeafOf(s, h.peer))
                       [] OTHER -> Attach(s, c, target)
           A == h.beside \in Rejoinable(s, c) \/ s.tree[w] = {}
           B == h.peer \in Rejoinable(s, c)
\* When both remembered clients are there, CASE may take either branch.
<1>3. \/ A /\ placed = Plant(s, w, c)
      \/ B /\ placed = Attach(s, c, LeafOf(s, h.peer))
      \/ ~A /\ ~B /\ placed = Attach(s, c, target)
  <2> HIDE DEF A, B
  <2>1. placed = CASE A -> Plant(s, w, c) [] B -> Attach(s, c, LeafOf(s, h.peer))
                   [] OTHER -> Attach(s, c, target)
    BY DEF A, B
  <2> HIDE DEF placed
  <2> QED BY <2>1
<1>4. AddClient(s, c, target) = IF c \in s.floating THEN s ELSE [placed EXCEPT !.hint[c] = NoHint]
  BY <1>1, <1>2 DEF AddClient
<1> HIDE DEF placed
<1>5. \A d \in Rejoinable(s, c) : d \in In /\ LeafOf(s, d) \in s.tree[w] /\ d \in TabsOf(LeafOf(s, d))
                                  /\ LeafOf(s, d) \in Leaves
  BY <1>1, LeafOfIs DEF Rejoinable
<1>6. Grown(placed, In \cup {c}) /\ SameView(s, placed) /\ AllNeat(placed)
  <2>1. CASE A /\ placed = Plant(s, w, c)
    <3>1. s.tree[w] = {} \/ \E n \in s.tree[w] : n.tabs # <<>>
      <4>1. CASE h.beside \in Rejoinable(s, c)
        BY <1>5, <4>1, LeafFacts
      <4> QED BY <2>1, <4>1
    <3> QED BY <1>1, <2>1, <3>1, PlantedNeatly
  <2>2. CASE B /\ placed = Attach(s, c, LeafOf(s, h.peer))
    <3>1. LeafOf(s, h.peer) \in s.tree[s.ws[c]]
      BY <1>1, <1>5, <2>2
    <3> QED BY <1>1, <2>2, <3>1, AttachKeeps
  <2>3. CASE ~A /\ ~B /\ placed = Attach(s, c, target)
    <3>1. target \in s.tree[s.ws[c]]
      BY <1>1, <2>3 DEF Targets
    <3> QED BY <1>1, <2>3, <3>1, AttachKeeps
  <2> QED BY <1>3, <2>1, <2>2, <2>3
<1>7. CASE c \in s.floating
  BY <1>4, <1>7
<1>8. CASE c \notin s.floating
  <2>1. PICK t : t = [placed EXCEPT !.hint[c] = NoHint]
    OBVIOUS
  <2>2. t \in StateSet /\ SameView(placed, t) /\ t.tree = placed.tree
    BY <1>6, <2>1, AHint, Rehinted DEF Grown
  <2>3. Grown(t, In \cup {c}) /\ SameView(s, t) /\ AllNeat(t)
    BY <1>6, <2>2 DEF Grown, SameView, AllNeat
  <2> QED BY <1>4, <1>8, <2>1, <2>3
<1> QED BY <1>7, <1>8

-----------------------------------------------------------------------------
(* The arrange pass.                                                       *)

\* Nothing is left out of a sequence all of whose elements are to stay.
LEMMA OnlyAll ==
    ASSUME NEW q \in Seq(Clients), NEW S, \A i \in 1..Len(q) : q[i] \in S
    PROVE  Only(q, S) = q
<1>1. Len(q) \in Nat /\ DOMAIN q = 1..Len(q) /\ q \in [1..Len(q) -> Clients]
  BY LenProperties
<1>2. PICK z \in Nat : z = Len(q)
  BY <1>1
<1>3. {i \in DOMAIN q : q[i] \in S} = 1..z
  BY <1>1, <1>2
<1>4. ASSUME NEW i \in 1..z PROVE Cardinality({j \in 1..z : j <= i}) = i
  <2>1. {j \in 1..z : j <= i} = 1..i
    OBVIOUS
  <2>2. Cardinality(1..i) = i
    <3>1. 1 \in Int /\ i \in Int /\ ~(1 > i)
      OBVIOUS
    <3>2. Cardinality(1..i) = IF 1 > i THEN 0 ELSE i - 1 + 1
      BY <3>1, FS_Interval, Zenon
    <3> QED BY <3>1, <3>2
  <2> QED BY <2>1, <2>2
<1>5. Cardinality(1..z) = z
  <2>1. 1 \in Int /\ z \in Int
    OBVIOUS
  <2>2. Cardinality(1..z) = IF 1 > z THEN 0 ELSE z - 1 + 1
    BY <2>1, FS_Interval, Zenon
  <2> QED BY <2>2
<1>6. ASSUME NEW k \in 1..z
      PROVE  (CHOOSE i \in 1..z : Cardinality({j \in 1..z : j <= i}) = k) = k
  <2> DEFINE size(i) == Cardinality({j \in 1..z : j <= i})
  <2>1. \A i \in 1..z : size(i) = i
    BY <1>4
  <2> HIDE DEF size
  <2>2. (CHOOSE i \in 1..z : size(i) = k) = k
    BY <2>1
  <2> QED BY <2>2 DEF size
<1>7. Only(q, S) = [k \in 1..z |-> q[CHOOSE i \in 1..z : Cardinality({j \in 1..z : j <= i}) = k]]
  <2> DEFINE P == {i \in DOMAIN q : q[i] \in S}
  <2>1. Only(q, S) = [k \in 1..Cardinality(P) |->
                         q[CHOOSE i \in P : Cardinality({j \in P : j <= i}) = k]]
    BY DEF Only
  <2>2. P = 1..z
    BY <1>3
  <2> HIDE DEF P
  <2> QED BY <1>5, <2>1, <2>2
<1>8. Only(q, S) = [k \in 1..z |-> q[k]]
  BY <1>6, <1>7
<1> QED BY <1>1, <1>2, <1>8

\* The pass finds no stranger in a leaf.
LEMMA SanitizedIs ==
    ASSUME NEW s, NEW In, Grown(s, In), NEW w \in Workspaces, NEW n \in s.tree[w]
    PROVE  /\ Sanitized(s, n, w).tabs = n.tabs
           /\ n.tabs # <<>> => Sanitized(s, n, w) = n
<1> DEFINE home == {c \in Clients : s.ws[c] = w}
           kept == Only(n.tabs, home)
           i == IF n.active \in 1..Len(n.tabs)
                THEN SelectInSeq(kept, LAMBDA c : c = n.tabs[n.active]) ELSE 0
           a == CASE kept = <<>> -> 1
                  [] kept # <<>> /\ i # 0 -> i
                  [] kept # <<>> /\ i = 0 /\ n.active > Len(kept) -> Len(kept)
                  [] OTHER -> n.active
<1>1. n \in Leaves /\ \A c \in TabsOf(n) : c \in Clients /\ s.ws[c] = w
  <2>1. n \in Leaves
    BY StateFields DEF Grown
  <2>2. \A c \in TabsOf(n) : s.ws[c] = w
    BY LeafOfIs
  <2>3. TabsOf(n) \subseteq Clients
    BY <2>1, LeafFacts
  <2> QED BY <2>1, <2>2, <2>3
<1>2. kept = n.tabs
  <2>1. n.tabs \in Seq(Clients) /\ \A j \in 1..Len(n.tabs) : n.tabs[j] \in home
    BY <1>1, LeafFacts
  <2> HIDE DEF home
  <2> QED BY <2>1, OnlyAll
<1>3. Sanitized(s, n, w) = [n EXCEPT !.tabs = kept, !.active = a]
  BY DEF Sanitized
<1>4. n.tabs # <<>> => a = n.active
  <2> SUFFICES ASSUME n.tabs # <<>> PROVE a = n.active
    OBVIOUS
  <2>1. n.active \in 1..Len(n.tabs) /\ n.active \in Nat \ {0} /\ n.tabs[n.active] \in TabsOf(n)
    BY <1>1, LeafFacts
  <2>2. Position(n, n.tabs[n.active]) = n.active
    BY <1>1, <2>1, PositionIs
  <2>3. SelectInSeq(n.tabs, LAMBDA c : c = n.tabs[n.active]) = n.active
    BY <2>2 DEF Position
  <2>4. i = n.active
    BY <1>2, <2>1, <2>3
  <2> HIDE DEF i, kept
  <2> QED BY <1>2, <2>1, <2>4
<1> HIDE DEF a, kept
<1>5. n \in LeafSet
  BY <1>1 DEF Leaves
<1> QED BY <1>2, <1>3, <1>4, <1>5 DEF LeafSet

\* The clients that belong in a tree.
Tileable(s) == {c \in Clients : s.ws[c] # NoWorkspace} \ s.floating

\* The trees hold the clients they should.
Settled(s) == Grown(s, Tileable(s))

\* tree_prepare_workspace_bsp_for_arrange drops empty leaves, and nothing else.
LEMMA PrepareIs ==
    ASSUME NEW s, Settled(s), NEW w \in Workspaces
    PROVE  Prepare(s, w) = [s EXCEPT !.tree[w] = {n \in s.tree[w] : n.tabs # <<>>}]
<1> DEFINE T == s.tree[w]
           clean == {Sanitized(s, n, w) : n \in T}
           compact == {n \in clean : n.tabs # <<>>}
           tiled == {c \in Clients : s.ws[c] = w} \ s.floating
           Only1(c) == {[AddTab(EmptyLeaf, c, FALSE) EXCEPT
                           !.groupmode = Tiled(s, c) /\ LeafOf(s, c).groupmode]}
           sole == {c \in tiled : tiled = {c} /\ {n.tabs : n \in compact} # {<<c>>}}
<1>0. /\ Grown(s, Tileable(s)) /\ s \in StateSet /\ T \in SUBSET Leaves
      /\ \A n \in T : n \in Leaves
  BY StateFields DEF Settled, Grown
<1>1. compact = {n \in T : n.tabs # <<>>}
  <2>1. \A n \in T : /\ Sanitized(s, n, w).tabs = n.tabs
                     /\ n.tabs # <<>> => Sanitized(s, n, w) = n
    BY <1>0, SanitizedIs
  <2>2. ASSUME NEW x \in compact PROVE x \in {n \in T : n.tabs # <<>>}
    BY <2>1
  <2>3. ASSUME NEW x \in {n \in T : n.tabs # <<>>} PROVE x \in compact
    BY <2>1
  <2> HIDE DEF compact
  <2> QED BY <2>2, <2>3
<1>2. tiled = {c \in Tileable(s) : s.ws[c] = w}
  <2>1. NoWorkspace # w
    BY TreeConstants
  <2> QED BY <2>1 DEF Tileable
<1>3. ASSUME NEW c \in tiled, tiled = {c} PROVE {n.tabs : n \in compact} = {<<c>>}
  <2>0. c \in Tileable(s) /\ s.ws[c] = w
    BY <1>2
  <2>1. ASSUME NEW n \in compact PROVE n.tabs = <<c>>
    <3>1. n \in T /\ n.tabs # <<>> /\ n \in Leaves
      BY <1>0, <1>1
    <3>2. TabsOf(n) \subseteq {c}
      BY <1>0, <1>2, <1>3, <3>1, LeafOfIs
    <3>3. /\ n.tabs \in Seq(Clients) /\ Len(n.tabs) \in Nat /\ Len(n.tabs) # 0
          /\ \A i \in 1..Len(n.tabs) : n.tabs[i] \in TabsOf(n)
      BY <3>1, LeafFacts
    <3>4. \A i, j \in 1..Len(n.tabs) : n.tabs[i] = n.tabs[j] => i = j
      BY <3>1, LeafFacts
    <3>5. PICK q \in Seq(Clients) : q = n.tabs
      BY <3>3
    <3>6. PICK z \in Nat : z = Len(q)
      BY <3>3, <3>5
    <3>7. /\ \A i \in 1..z : q[i] = c
          /\ \A i, j \in 1..z : q[i] = q[j] => i = j
      BY <3>2, <3>3, <3>4, <3>5, <3>6
    <3>8. \A i, j \in 1..z : i = j
      BY <3>7
    <3>9. z \in Nat /\ z # 0
      BY <3>3, <3>5, <3>6
    <3>10. z = 1
      <4>1. SUFFICES ASSUME z # 1 PROVE FALSE
        OBVIOUS
      <4>2. 1 \in 1..z /\ 2 \in 1..z
        BY ONLY <3>9, <4>1
      <4>3. 1 = 2
        BY <3>8, <4>2
      <4> QED BY <4>3
    <3>11. PICK e : e = <<c>>
      OBVIOUS
    <3>12. c \in Clients
      BY <1>0, <2>0, LeafOfIs
    <3>13. e \in Seq(Clients) /\ Len(e) = 1 /\ e[1] = c
      BY <3>11, <3>12
    <3>14. Len(q) = Len(e) /\ \A i \in 1..Len(q) : q[i] = e[i]
      BY <3>6, <3>7, <3>10, <3>13
    <3>15. q = e
      BY <3>13, <3>14, SeqEqual, Zenon
    <3> QED BY <3>5, <3>11, <3>15
  <2>2. \E n \in compact : TRUE
    <3>1. /\ LeafOf(s, c) \in T /\ c \in TabsOf(LeafOf(s, c)) /\ LeafOf(s, c) \in Leaves
      BY <1>0, <2>0, LeafOfIs
    <3>2. PICK n : n = LeafOf(s, c)
      OBVIOUS
    <3>3. n \in T /\ n.tabs # <<>>
      BY <3>1, <3>2, LeafFacts
    <3> HIDE DEF compact
    <3> QED BY <1>1, <3>3
  <2> HIDE DEF compact
  <2> QED BY <2>1, <2>2
<1>4. sole = {}
  <2> HIDE DEF compact, tiled
  <2> QED BY <1>3
<1>5. Prepare(s, w) = [s EXCEPT !.tree[w] = IF sole = {} THEN compact
                                             ELSE Only1(CHOOSE c \in sole : TRUE)]
  BY DEF Prepare
<1> HIDE DEF sole, compact, Only1
<1> QED BY <1>1, <1>4, <1>5

\* One tree after the pass.
LEMMA PrepareKeeps ==
    ASSUME NEW s, Settled(s), NEW w \in Workspaces
    PROVE  LET t == Prepare(s, w)
           IN  /\ Settled(t) /\ SameView(s, t) /\ t.hint = s.hint
               /\ TreeIs(s, t, w, {n \in s.tree[w] : n.tabs # <<>>})
<1> DEFINE old == {n \in s.tree[w] : n.tabs = <<>>}
<1>0. Grown(s, Tileable(s)) /\ \A n \in s.tree[w] : n \in Leaves
  BY StateFields DEF Settled, Grown
<1>1. s.tree[w] \ old = {n \in s.tree[w] : n.tabs # <<>>}
  OBVIOUS
<1>2. Held({}, old)
  <2>1. \A n \in old : TabsOf(n) = {}
    BY <1>0, LeafFacts
  <2> QED BY <2>1 DEF Held
<1>3. old \in SUBSET s.tree[w]
  OBVIOUS
<1>4. Prepare(s, w) = Fell(s, w, old)
  BY <1>1, PrepareIs DEF Fell
<1> HIDE DEF old
<1>5. /\ Grown(Fell(s, w, old), Tileable(s) \ {}) /\ SameView(s, Fell(s, w, old))
      /\ Fell(s, w, old).hint = s.hint
      /\ TreeIs(s, Fell(s, w, old), w, s.tree[w] \ old)
  BY <1>0, <1>2, <1>3, Felled, Zenon
<1>6. PICK t : t = Prepare(s, w)
  OBVIOUS
<1>7. Tileable(t) = Tileable(s) /\ Tileable(s) \ {} = Tileable(s)
  BY <1>4, <1>5, <1>6 DEF Tileable, SameView
<1> QED BY <1>1, <1>4, <1>5, <1>6, <1>7 DEF Settled

\* Hidden trees are neat, and shown ones have no empty leaf at all.
Tidy(s) == \A w \in Workspaces \ {s.active, s.overlay} : Neat(s.tree[w])
NoGaps(s) == \A w \in Workspaces : /\ Neat(s.tree[w])
                                   /\ w \in {s.active, s.overlay} => Full(s.tree[w])

\* The arrange pass.
LEMMA ArrangeKeeps ==
    ASSUME NEW s, Settled(s), Tidy(s)
    PROVE  Settled(Arrange(s)) /\ SameView(s, Arrange(s)) /\ NoGaps(Arrange(s))
<1> DEFINE t == Prepare(s, s.active)
           u == Prepare(t, s.overlay)
<1>0. s.active \in Workspaces /\ s.overlay \in Tags \cup {NoTag} /\ NoTag \notin Workspaces
  BY StateFields, TreeConstants DEF Settled, Grown
<1>1. /\ Settled(t) /\ SameView(s, t)
      /\ TreeIs(s, t, s.active, {n \in s.tree[s.active] : n.tabs # <<>>})
  BY <1>0, PrepareKeeps
<1> HIDE DEF t
<1>2. Full(t.tree[s.active]) /\ \A w \in Workspaces \ {s.active} : t.tree[w] = s.tree[w]
  BY <1>1 DEF TreeIs, Full
<1>3. \A T : Full(T) => Neat(T)
  BY DEF Full, Neat
<1>4. t.active = s.active /\ t.overlay = s.overlay
  BY <1>1 DEF SameView
<1>5. CASE s.overlay = NoTag \/ s.tree[s.overlay] = {}
  <2>1. Arrange(s) = t
    BY <1>5 DEF Arrange, t
  <2>2. s.overlay \in Workspaces => Full(t.tree[s.overlay])
    BY <1>0, <1>2, <1>5 DEF Full
  <2>3. NoGaps(t)
    BY <1>0, <1>2, <1>3, <1>4, <2>2 DEF NoGaps, Tidy
  <2> QED BY <1>1, <2>1, <2>3
<1>6. CASE ~(s.overlay = NoTag \/ s.tree[s.overlay] = {})
  <2>1. Arrange(s) = u
    BY <1>6 DEF Arrange, t
  <2>2. s.overlay \in Workspaces
    BY <1>0, <1>6 DEF Workspaces
  <2>3. /\ Settled(u) /\ SameView(t, u)
        /\ TreeIs(t, u, s.overlay, {n \in t.tree[s.overlay] : n.tabs # <<>>})
    BY <1>1, <2>2, PrepareKeeps
  <2> HIDE DEF u
  <2>4. /\ Full(u.tree[s.overlay])
        /\ \A w \in Workspaces \ {s.overlay} : u.tree[w] = t.tree[w]
    BY <2>3 DEF TreeIs, Full
  <2>5. u.active = s.active /\ u.overlay = s.overlay /\ SameView(s, u)
    BY <1>1, <2>3 DEF SameView
  <2>6. NoGaps(u)
    BY <1>2, <1>3, <2>4, <2>5 DEF NoGaps, Tidy
  <2> QED BY <2>1, <2>3, <2>5, <2>6
<1> QED BY <1>5, <1>6

-----------------------------------------------------------------------------
(* The invariant.                                                          *)

\* Only managed clients float.
Homed(s) == \A c \in s.floating : s.ws[c] \in Workspaces

\* The selected client is visible.
SelShown(s) == s.sel # NoClient => s.sel \in Shown(s)

\* What holds between the steps of an action, and after the arrange pass.
Basis(s) == Settled(s) /\ AllNeat(s) /\ Homed(s)
Sound(s) == Settled(s) /\ NoGaps(s) /\ Homed(s) /\ SelShown(s)

TreeInv == Sound(State)

\* No client of s is gone in t.
NoneReleased(s, t) == \A c \in Clients : s.ws[c] # NoWorkspace => t.ws[c] # NoWorkspace

LEMMA SoundBasis == ASSUME NEW s, Sound(s) PROVE Basis(s)
BY DEF Sound, Basis, NoGaps, AllNeat

LEMMA TidyBasis == ASSUME NEW s, Basis(s) PROVE Settled(s) /\ Tidy(s) /\ Homed(s)
BY DEF Basis, AllNeat, Tidy

\* Views and selections are no concern of the trees.
LEMMA SameTrees ==
    ASSUME NEW s, NEW t \in StateSet, t.tree = s.tree, t.ws = s.ws, t.floating = s.floating
    PROVE  /\ Basis(s) => Basis(t)
           /\ Settled(s) => Settled(t)
<1>1. Tileable(t) = Tileable(s)
  BY DEF Tileable
<1>2. Settled(s) => Settled(t)
  BY <1>1 DEF Settled, Grown
<1> QED BY <1>2 DEF Basis, AllNeat, Homed

\* After the arrange pass.
LEMMA Arranged ==
    ASSUME NEW s, Settled(s), Tidy(s), Homed(s), SelShown(s)
    PROVE  Sound(Arrange(s)) /\ SameView(s, Arrange(s))
<1>1. Settled(Arrange(s)) /\ SameView(s, Arrange(s)) /\ NoGaps(Arrange(s))
  BY ArrangeKeeps
<1>2. Homed(Arrange(s)) /\ SelShown(Arrange(s))
  BY <1>1 DEF SameView, Homed, SelShown, Shown, Visible
<1> QED BY <1>1, <1>2 DEF Sound

\* Basis after a focus.
LEMMA FocusBasis ==
    ASSUME NEW s, Basis(s), NEW c \in Maybe
    PROVE  LET t == Focus(s, c)
           IN  /\ Basis(t) /\ t.sel = c /\ t.active = s.active /\ t.overlay = s.overlay
               /\ t.ws = s.ws /\ t.floating = s.floating
<1>1. Grown(s, Tileable(s))
  BY DEF Basis, Settled
<1>2. PICK t : t = Focus(s, c)
  OBVIOUS
<1>3. /\ Grown(t, Tileable(s)) /\ NotEmptier(s, t) /\ t.sel = c
      /\ t.active = s.active /\ t.overlay = s.overlay /\ t.ws = s.ws
      /\ t.floating = s.floating
  BY <1>1, <1>2, FocusKeeps
<1>4. Tileable(t) = Tileable(s)
  BY <1>3 DEF Tileable
<1>5. Basis(t)
  BY <1>3, <1>4 DEF Basis, Settled, AllNeat, NotEmptier, Homed
<1> QED BY <1>2, <1>3, <1>5

\* A focus and an arrange pass.
LEMMA FocusArranged ==
    ASSUME NEW s, Basis(s), NEW c \in Shown(s) \cup {NoClient}
    PROVE  LET t == Arrange(Focus(s, c))
           IN  /\ Sound(t) /\ t.sel = c /\ t.active = s.active /\ t.overlay = s.overlay
               /\ t.ws = s.ws /\ t.floating = s.floating
<1>1. c \in Maybe
  BY DEF Maybe, Shown
<1>2. PICK u : u = Focus(s, c)
  OBVIOUS
<1>3. /\ Basis(u) /\ u.sel = c /\ u.active = s.active /\ u.overlay = s.overlay
      /\ u.ws = s.ws /\ u.floating = s.floating
  BY <1>1, <1>2, FocusBasis
<1>4. SelShown(u)
  BY <1>3 DEF SelShown, Shown, Visible
<1>5. Sound(Arrange(u)) /\ SameView(u, Arrange(u))
  BY <1>3, <1>4, TidyBasis, Arranged
<1> QED BY <1>2, <1>3, <1>5 DEF SameView

\* A focus after the arrange pass.
LEMMA FocusSound ==
    ASSUME NEW s, Sound(s), NEW c \in Shown(s) \cup {NoClient}
    PROVE  LET t == Focus(s, c)
           IN  /\ Sound(t) /\ t.sel = c /\ t.active = s.active /\ t.overlay = s.overlay
               /\ t.ws = s.ws /\ t.floating = s.floating
<1>1. Grown(s, Tileable(s)) /\ c \in Maybe
  BY DEF Sound, Settled, Maybe, Shown
<1>2. PICK t : t = Focus(s, c)
  OBVIOUS
<1>3. /\ Grown(t, Tileable(s)) /\ NotEmptier(s, t) /\ t.sel = c
      /\ t.active = s.active /\ t.overlay = s.overlay /\ t.ws = s.ws
      /\ t.floating = s.floating
  BY <1>1, <1>2, FocusKeeps
<1>4. Tileable(t) = Tileable(s)
  BY <1>3 DEF Tileable
<1>5. NoGaps(t)
  BY <1>3 DEF Sound, NoGaps, NotEmptier
<1>6. Homed(t) /\ SelShown(t)
  BY <1>3 DEF Sound, Homed, SelShown, Shown, Visible
<1> QED BY <1>2, <1>3, <1>4, <1>5, <1>6 DEF Sound, Settled

\* A focus and an arrange pass, and maybe one more focus.
LEMMA RefocusSound ==
    ASSUME NEW s, Basis(s), NEW choices \in SUBSET (Shown(s) \cup {NoClient}),
           NEW hid \in BOOLEAN, Refocus(s, choices, hid)
    PROVE  \E t : /\ Become(t) /\ Sound(t) /\ t.ws = s.ws /\ t.overlay = s.overlay
                  /\ ~hid => t.sel \in choices
<1>1. PICK c \in choices :
        LET t == Arrange(Focus(s, c))
        IN  IF hid THEN \E d \in Candidates(t) : Become(Focus(t, d)) ELSE Become(t)
  BY DEF Refocus
<1>2. PICK t : t = Arrange(Focus(s, c))
  OBVIOUS
<1>3. Sound(t) /\ t.sel = c /\ t.overlay = s.overlay /\ t.ws = s.ws
  BY <1>2, FocusArranged
<1>4. CASE ~hid
  <2>1. Become(t)
    BY <1>1, <1>2, <1>4
  <2> QED BY <1>3, <1>4, <2>1
<1>5. CASE hid
  <2>1. PICK d \in Candidates(t) : Become(Focus(t, d))
    BY <1>1, <1>2, <1>5
  <2>2. d \in Shown(t) \cup {NoClient}
    BY DEF Candidates
  <2>3. PICK u : u = Focus(t, d)
    OBVIOUS
  <2>4. Sound(u) /\ u.overlay = t.overlay /\ u.ws = t.ws
    BY <1>3, <2>2, <2>3, FocusSound
  <2> QED BY <1>3, <1>5, <2>1, <2>3, <2>4
<1> QED BY <1>4, <1>5

-----------------------------------------------------------------------------
(* Clients and views.                                                      *)

\* The state record and the variables.
LEMMA StateIs ==
    /\ State.active = active /\ State.overlay = overlay /\ State.ws = ws
    /\ State.floating = floating /\ State.tree = tree /\ State.hint = hint /\ State.sel = sel
BY DEF State

\* The state record after a step.
LEMMA Became ==
    ASSUME NEW t \in StateSet, Become(t)
    PROVE  State' = t
BY DEF Become, State, StateSet

\* The view changes.
LEMMA ViewIs ==
    ASSUME NEW s \in StateSet, NEW w \in Workspaces
    PROVE  LET t == View(s, w)
           IN  /\ t \in StateSet /\ t.tree = s.tree /\ t.ws = s.ws /\ t.floating = s.floating
               /\ t.hint = s.hint /\ t.sel = s.sel
               /\ w \in {t.active, t.overlay}
<1>1. CASE w \in Tags
  <2>1. View(s, w) = [s EXCEPT !.overlay = w]
    <3>1. w # s.active
      BY <1>1, StateFields, TreeConstants
    <3> QED BY <1>1, <3>1 DEF View
  <2> QED BY <1>1, <2>1 DEF StateSet
<1>2. CASE w \notin Tags /\ w = s.active
  <2>1. View(s, w) = s
    BY <1>2 DEF View
  <2> QED BY <1>2, <2>1
<1>3. CASE w \notin Tags /\ w # s.active
  <2>1. View(s, w) = [s EXCEPT !.active = w, !.overlay = NoTag]
    BY <1>3 DEF View
  <2>2. w \in NormalIds
    BY <1>3 DEF Workspaces
  <2> QED BY <2>1, <2>2 DEF StateSet
<1> QED BY <1>1, <1>2, <1>3

\* An empty overlay is hidden.
LEMMA HideIs ==
    ASSUME NEW s \in StateSet
    PROVE  LET t == Hide(s)
           IN  /\ t \in StateSet /\ t.tree = s.tree /\ t.ws = s.ws /\ t.floating = s.floating
               /\ t.hint = s.hint /\ t.sel = s.sel /\ t.active = s.active
               /\ Shown(t) = Shown(s)
<1>1. CASE \E c \in Clients : s.ws[c] = s.overlay
  BY <1>1 DEF Hide
<1>2. CASE ~ \E c \in Clients : s.ws[c] = s.overlay
  <2>1. Hide(s) = [s EXCEPT !.overlay = NoTag]
    BY <1>2 DEF Hide
  <2>2. PICK t : t = Hide(s)
    OBVIOUS
  <2>3. /\ t \in StateSet /\ t.tree = s.tree /\ t.ws = s.ws /\ t.floating = s.floating
        /\ t.hint = s.hint /\ t.sel = s.sel /\ t.active = s.active /\ t.overlay = NoTag
    BY <2>1, <2>2 DEF StateSet
  <2>4. \A c \in Clients : s.ws[c] # NoTag /\ s.ws[c] # s.overlay
    BY <1>2, StateFields, TreeConstants
  <2>5. Shown(t) = Shown(s)
    BY <2>3, <2>4 DEF Shown, Visible
  <2> QED BY <2>2, <2>3, <2>5
<1> QED BY <1>1, <1>2

\* A client that is nowhere in the trees gets another workspace, and floats or not.
LEMMA Rehomed ==
    ASSUME NEW s, NEW In, Grown(s, In), AllNeat(s), NEW c \in Clients \ In,
           NEW t \in StateSet, t.tree = s.tree,
           \A d \in Clients : d # c => t.ws[d] = s.ws[d]
    PROVE  Grown(t, In) /\ AllNeat(t)
<1>1. Grown(t, In)
  BY DEF Grown, Forest
<1>2. AllNeat(t)
  BY DEF AllNeat
<1> QED BY <1>1, <1>2

\* Candidates are visible.
LEMMA CandidatesShown == ASSUME NEW s PROVE Candidates(s) \subseteq Shown(s) \cup {NoClient}
BY DEF Candidates

\* Initially nothing is managed.
LEMMA InitSound ==
    ASSUME Init
    PROVE  Sound(State)
<1>1. NoClient \in Maybe /\ NoHint \in HintSet
  BY AHint DEF Maybe
<1>2. State \in StateSet
  BY <1>1 DEF Init, State, StateSet
<1>3. Tileable(State) = {}
  BY DEF Init, State, Tileable
<1>4. Forest(State.tree, State.ws, {})
  BY DEF Init, State, Forest
<1>5. NoGaps(State) /\ Homed(State) /\ SelShown(State)
  BY DEF Init, State, NoGaps, Neat, Full, Homed, SelShown
<1> QED BY <1>2, <1>3, <1>4, <1>5 DEF Sound, Settled, Grown

\* adopt_client
LEMMA MapSound ==
    ASSUME TreeInv, NEW c \in Clients, NEW w \in Workspaces, Map(c, w)
    PROVE  \E t : Become(t) /\ Sound(t) /\ NoneReleased(State, t)
<1>0. PICK z : z = State
  OBVIOUS
<1>1. /\ Sound(z) /\ Basis(z) /\ z.ws = ws /\ z.floating = floating /\ z \in StateSet
      /\ Grown(z, Tileable(z)) /\ AllNeat(z) /\ Homed(z) /\ SelShown(z)
  BY <1>0, SoundBasis, StateIs DEF TreeInv, Sound, Basis, Settled, Grown
<1>2. PICK floats \in BOOLEAN, target \in Targets(z, w) :
        LET s == [z EXCEPT !.ws[c] = w, !.floating = IF floats THEN @ \cup {c} ELSE @]
            t == AddClient(s, c, target)
        IN  \/ Become(Arrange(t))
            \/ Visible(t, c) /\ Become(Arrange(Focus(t, c)))
            \/ Become(Arrange(Focus(View(t, w), c)))
  BY <1>0 DEF Map
<1>3. ws[c] = NoWorkspace /\ NoWorkspace \notin Workspaces /\ NoTag # NoWorkspace
  BY TreeConstants DEF Map
<1>4. PICK f : f = (IF floats THEN z.floating \cup {c} ELSE z.floating)
  OBVIOUS
<1>5. PICK s : s = [z EXCEPT !.ws[c] = w, !.floating = f]
  OBVIOUS
<1>6. f \in SUBSET Clients
  BY <1>1, <1>4, StateFields
<1>7. /\ s \in StateSet /\ s.tree = z.tree /\ s.hint = z.hint /\ s.sel = z.sel
      /\ s.active = z.active /\ s.overlay = z.overlay /\ s.floating = f
      /\ s.ws = [z.ws EXCEPT ![c] = w]
  BY <1>1, <1>5, <1>6 DEF StateSet
<1>8. s.ws[c] = w /\ \A d \in Clients : d # c => s.ws[d] = z.ws[d]
  BY <1>1, <1>7, StateFields
<1>9. c \notin Tileable(z) /\ c \notin z.floating
  BY <1>1, <1>3 DEF Tileable, Homed
<1>10. Grown(s, Tileable(z)) /\ AllNeat(s)
  <2>1. PICK In : In = Tileable(z)
    OBVIOUS
  <2>2. Grown(z, In) /\ AllNeat(z) /\ c \in Clients \ In
    BY <1>1, <1>9, <2>1
  <2>3. Grown(s, In) /\ AllNeat(s)
    BY <1>7, <1>8, <2>2, Rehomed, Zenon
  <2> QED BY <2>1, <2>3
<1>11. target \in Targets(s, s.ws[c])
  BY <1>7, <1>8 DEF Targets
<1>12. PICK t : t = AddClient(s, c, target)
  OBVIOUS
<1>13. /\ c \in s.floating => t = s
       /\ c \notin s.floating => /\ Grown(t, Tileable(z) \cup {c}) /\ SameView(s, t) /\ AllNeat(t)
  BY <1>8, <1>9, <1>10, <1>11, <1>12, AddClientKeeps
<1>14. SameView(s, t)
  BY <1>13 DEF SameView
<1>15. /\ t.active = z.active /\ t.overlay = z.overlay /\ t.sel = z.sel /\ t.floating = f
       /\ t.ws[c] = w /\ \A d \in Clients : d # c => t.ws[d] = z.ws[d]
  BY <1>7, <1>8, <1>14 DEF SameView
<1>16. Tileable(t) = IF floats THEN Tileable(z) ELSE Tileable(z) \cup {c}
  BY <1>3, <1>4, <1>9, <1>15 DEF Tileable
<1>17. Basis(t)
  <2>1. Homed(t)
    <3>1. ASSUME NEW d \in f PROVE t.ws[d] \in Workspaces
      <4>1. CASE d = c
        BY <1>15, <4>1
      <4>2. CASE d # c
        BY <1>1, <1>4, <1>6, <1>15, <4>2 DEF Homed
      <4> QED BY <4>1, <4>2
    <3> QED BY <1>15, <3>1 DEF Homed
  <2>2. c \in s.floating <=> floats
    BY <1>4, <1>7, <1>9
  <2> QED BY <1>10, <1>13, <1>16, <2>1, <2>2 DEF Basis, Settled
<1>18. NoneReleased(z, t)
  BY <1>3, <1>15 DEF NoneReleased
<1>19. SelShown(t)
  <2>1. z.sel # NoClient => z.sel \in Clients /\ z.sel # c /\ z.ws[z.sel] \in {z.active, z.overlay}
    <3>1. z.active \in Workspaces /\ z.overlay \in Tags \cup {NoTag} /\ Tags \subseteq Workspaces
      BY <1>1, StateFields DEF Workspaces
    <3> QED BY <1>1, <1>3, <3>1 DEF SelShown, Shown, Visible
  <2> QED BY <1>15, <2>1 DEF SelShown, Shown, Visible
<1>20. \/ Become(Arrange(t))
       \/ Visible(t, c) /\ Become(Arrange(Focus(t, c)))
       \/ Become(Arrange(Focus(View(t, w), c)))
  BY <1>2, <1>4, <1>5, <1>12
<1>21. CASE Become(Arrange(t))
  <2>1. Sound(Arrange(t)) /\ SameView(t, Arrange(t))
    BY <1>17, <1>19, TidyBasis, Arranged
  <2>2. NoneReleased(z, Arrange(t))
    BY <1>18, <2>1 DEF NoneReleased, SameView
  <2> QED BY <1>0, <1>21, <2>1, <2>2
<1>22. CASE Visible(t, c) /\ Become(Arrange(Focus(t, c)))
  <2>1. c \in Shown(t) \cup {NoClient}
    BY <1>22 DEF Shown
  <2>2. PICK u : u = Arrange(Focus(t, c))
    OBVIOUS
  <2>3. Sound(u) /\ u.ws = t.ws
    BY <1>17, <2>1, <2>2, FocusArranged
  <2> QED BY <1>0, <1>18, <1>22, <2>2, <2>3 DEF NoneReleased
<1>23. CASE Become(Arrange(Focus(View(t, w), c)))
  <2>1. PICK v : v = View(t, w)
    OBVIOUS
  <2>2. t \in StateSet
    BY <1>17 DEF Basis, Settled, Grown
  <2>3. /\ v \in StateSet /\ v.tree = t.tree /\ v.ws = t.ws /\ v.floating = t.floating
        /\ w \in {v.active, v.overlay}
    BY <2>1, <2>2, ViewIs
  <2>4. Basis(v)
    BY <1>17, <2>3, SameTrees
  <2>5. c \in Shown(v) \cup {NoClient}
    BY <1>15, <2>3 DEF Shown, Visible
  <2>6. PICK u : u = Arrange(Focus(v, c))
    OBVIOUS
  <2>7. Sound(u) /\ u.ws = v.ws
    BY <2>4, <2>5, <2>6, FocusArranged
  <2> QED BY <1>0, <1>18, <1>23, <2>1, <2>3, <2>6, <2>7 DEF NoneReleased
<1> QED BY <1>20, <1>21, <1>22, <1>23

\* The tab that gets the focus is another tab of the group.
LEMMA FocusAfterRemoveIs ==
    ASSUME NEW n \in Leaves, NEW c \in TabsOf(n)
    PROVE  /\ FocusAfterRemove(n, c) \in (TabsOf(n) \ {c}) \cup {NoClient}
           /\ Len(n.tabs) > 1 /\ FocusRemoved # "leave" => FocusAfterRemove(n, c) \in TabsOf(n) \ {c}
<1> DEFINE f == FocusAfterRemove(n, c)
<1>1. PICK q : q = n.tabs
  OBVIOUS
<1>2. /\ q \in Seq(Clients) /\ IsInjective(q) /\ Len(q) \in Nat /\ n.prev \in Nat
      /\ \A j \in 1..Len(q) : q[j] \in TabsOf(n)
  BY <1>1, LeafFacts
<1>3. \A j, k \in 1..Len(q) : q[j] = q[k] => j = k
  BY <1>1, LeafFacts
<1>4. PICK i \in 1..Len(q) : i = Position(n, c) /\ q[i] = c
  BY <1>1, PositionIs
<1>5. PICK z \in Nat : z = Len(q)
  BY <1>2
<1>6. ASSUME NEW j \in 1..z, j # i PROVE q[j] \in TabsOf(n) \ {c}
  BY <1>2, <1>3, <1>4, <1>5, <1>6
<1>7. CASE z < 2 \/ FocusRemoved = "leave"
  <2>1. f = NoClient
    BY <1>1, <1>5, <1>7 DEF FocusAfterRemove
  <2>2. ~(z > 1 /\ FocusRemoved # "leave")
    BY <1>7
  <2> QED BY <1>1, <1>5, <2>1, <2>2
<1>8. CASE z >= 2 /\ FocusRemoved # "leave"
  <2>0. i \in 1..z
    BY <1>4, <1>5
  <2>1. PICK b \in 1..z : b # i /\ q[b] = (IF i > 1 THEN q[i - 1] ELSE q[i + 1])
    <3>1. i > 1 => i - 1 \in 1..z /\ i - 1 # i
      BY <2>0
    <3>2. ~(i > 1) => i + 1 \in 1..z /\ i + 1 # i
      BY <1>8, <2>0
    <3> QED BY <3>1, <3>2
  <2>2. PICK a \in 1..z : a # i /\ q[a] = (IF i < z THEN q[i + 1] ELSE q[i - 1])
    <3>1. i < z => i + 1 \in 1..z /\ i + 1 # i
      BY <2>0
    <3>2. ~(i < z) => i - 1 \in 1..z /\ i - 1 # i
      BY <1>8, <2>0
    <3> QED BY <3>1, <3>2
  <2>3. PICK r : r = RemoveAt(q, i)
    OBVIOUS
  <2>4. /\ r \in Seq(Clients) /\ Len(r) = z - 1 /\ ToSet(r) = ToSet(q) \ {q[i]}
    <3>1. q \in Seq(Clients) /\ IsInjective(q) /\ i \in 1..Len(q)
      BY <1>2, <1>4, <1>5
    <3>2. LET k == RemoveAt(q, i)
          IN  /\ k \in Seq(Clients) /\ IsInjective(k) /\ Len(k) = Len(q) - 1
              /\ ToSet(k) = ToSet(q) \ {q[i]}
              /\ \A j \in 1..Len(k) : k[j] = IF j < i THEN q[j] ELSE q[j + 1]
      BY <3>1, RemovedAt, Zenon
    <3> QED BY <1>5, <2>3, <3>2
  <2>5. ToSet(r) = TabsOf(n) \ {c}
    BY <1>1, <1>4, <2>4 DEF TabsOf
  <2>6. Head(r) \in TabsOf(n) \ {c} /\ Last(r) \in TabsOf(n) \ {c}
    <3>1. Len(r) \in Nat /\ 1 \in 1..Len(r) /\ Len(r) \in 1..Len(r)
      BY <1>8, <2>4
    <3>2. Head(r) = r[1] /\ Last(r) = r[Len(r)]
      <4>1. r # <<>>
        BY <2>4, <3>1, Elements
      <4> QED BY <2>4, <4>1 DEF Last
    <3>3. \A j \in 1..Len(r) : r[j] \in ToSet(r)
      BY <2>4, Elements
    <3> QED BY <2>5, <3>1, <3>2, <3>3
  <2>7. n.prev \in (1..z) \ {i} => q[n.prev] \in TabsOf(n) \ {c}
    BY <1>6
  <2>8. q[b] \in TabsOf(n) \ {c} /\ q[a] \in TabsOf(n) \ {c}
    BY <1>6, <2>1, <2>2
  <2>9. f \in {q[b], q[a], Head(r), Last(r)} \/ (n.prev \in (1..z) \ {i} /\ f = q[n.prev])
    <3>1. ~(z < 2) /\ z >= 2
      BY <1>8
    <3>2. f = CASE Len(n.tabs) < 2 \/ FocusRemoved = "leave" -> NoClient
          [] Len(n.tabs) >= 2 /\ FocusRemoved = "history" ->
               IF n.prev \in (1..z) \ {i} THEN q[n.prev] ELSE q[b]
          [] Len(n.tabs) >= 2 /\ FocusRemoved = "previous" -> q[b]
          [] Len(n.tabs) >= 2 /\ FocusRemoved = "next" -> q[a]
          [] Len(n.tabs) >= 2 /\ FocusRemoved = "first" -> Head(r)
          [] OTHER -> Last(r)
      BY <1>1, <1>4, <1>5, <2>1, <2>2, <2>3 DEF FocusAfterRemove
    <3> DEFINE A == Len(n.tabs) < 2 \/ FocusRemoved = "leave"
               B == Len(n.tabs) >= 2 /\ FocusRemoved = "history"
               C == Len(n.tabs) >= 2 /\ FocusRemoved = "previous"
               D == Len(n.tabs) >= 2 /\ FocusRemoved = "next"
               E == Len(n.tabs) >= 2 /\ FocusRemoved = "first"
               P == n.prev \in (1..z) \ {i}
    <3>3. ~A
      BY <1>1, <1>5, <1>8, <3>1
    <3>4. f = CASE A -> NoClient [] B -> IF P THEN q[n.prev] ELSE q[b]
                [] C -> q[b] [] D -> q[a] [] E -> Head(r) [] OTHER -> Last(r)
      BY <3>2
    <3> HIDE DEF f, A, B, C, D, E, P
    <3>5. f \in {q[b], q[a], Head(r), Last(r)} \/ (P /\ f = q[n.prev])
      BY <3>3, <3>4
    <3> QED BY <3>5 DEF P
  <2>10. f \in TabsOf(n) \ {c}
    BY <2>6, <2>7, <2>8, <2>9
  <2> QED BY <2>10
<1> QED BY <1>5, <1>7, <1>8

\* release_client
LEMMA ReleaseSound ==
    ASSUME TreeInv, NEW c \in Clients, Release(c)
    PROVE  \E t : /\ Become(t) /\ Sound(t)
                  /\ \A d \in Clients \ {c} : State.ws[d] # NoWorkspace => t.ws[d] # NoWorkspace
                  /\ (/\ t.overlay = overlay /\ sel = c /\ FocusRemoved # "leave"
                      /\ Tiled(State, c) /\ Len(LeafOf(State, c).tabs) > 1)
                     => t.sel \in ToSet(LeafOf(State, c).tabs) \ {c}
<1>0. PICK z : z = State
  OBVIOUS
<1>1. /\ Sound(z) /\ Basis(z) /\ z \in StateSet /\ Grown(z, Tileable(z)) /\ AllNeat(z)
      /\ Homed(z) /\ SelShown(z)
      /\ z.ws = ws /\ z.sel = sel /\ z.overlay = overlay /\ z.active = active
  BY <1>0, SoundBasis, StateIs DEF TreeInv, Sound, Basis, Settled, Grown
<1>2. PICK w \in Workspaces : w = z.ws[c]
  BY <1>1, StateFields DEF Release
<1>3. PICK r : r = RemoveClient(z, c, NoClient)
  OBVIOUS
<1>4. Grown(r, Tileable(z) \ {c}) /\ SameView(z, r) /\ AllNeat(r) /\ r \in StateSet
  <2>1. NoClient \in Maybe
    BY DEF Maybe
  <2> QED BY <1>1, <1>3, <2>1, RemoveClientKeeps DEF Grown
<1>5. PICK out : out = [r EXCEPT !.ws[c] = NoWorkspace, !.floating = @ \ {c}, !.hint[c] = NoHint]
  OBVIOUS
<1>6. /\ out \in StateSet /\ out.tree = r.tree /\ out.floating = r.floating \ {c}
      /\ out.ws = [r.ws EXCEPT ![c] = NoWorkspace]
      /\ out.active = r.active /\ out.overlay = r.overlay /\ out.sel = r.sel
  <2>1. NoHint \in HintSet
    BY AHint
  <2> QED BY <1>4, <1>5, <2>1 DEF StateSet
<1>7. out.ws[c] = NoWorkspace /\ \A d \in Clients : d # c => out.ws[d] = z.ws[d]
  BY <1>1, <1>4, <1>6, StateFields DEF SameView
<1>8. Basis(out)
  <2>1. \A d \in Clients : d # c => out.ws[d] = r.ws[d]
    BY <1>4, <1>7 DEF SameView
  <2>2. Grown(out, Tileable(z) \ {c}) /\ AllNeat(out)
    <3>1. PICK In : In = Tileable(z) \ {c}
      OBVIOUS
    <3>2. Grown(r, In) /\ AllNeat(r) /\ c \in Clients \ In /\ out \in StateSet /\ out.tree = r.tree
      BY <1>4, <1>6, <3>1
    <3>3. Grown(out, In) /\ AllNeat(out)
      BY <2>1, <3>2, Rehomed, Zenon
    <3> QED BY <3>1, <3>3
  <2>3. Tileable(out) = Tileable(z) \ {c}
    BY <1>4, <1>6, <1>7 DEF Tileable, SameView
  <2>4. Homed(out)
    <3>1. z.floating \subseteq Clients /\ out.floating = z.floating \ {c}
      BY <1>1, <1>4, <1>6, StateFields DEF SameView
    <3> QED BY <1>1, <1>7, <3>1 DEF Homed
  <2> QED BY <2>2, <2>3, <2>4 DEF Basis, Settled
<1> DEFINE lasts == w \in NormalIds \ Persistent /\ \A d \in Clients : out.ws[d] # w
<1>9. lasts => \A d \in Clients : out.ws[d] # w
  OBVIOUS
<1>10. PICK p : p = (IF lasts THEN [out EXCEPT !.tree[w] = {}] ELSE out)
  OBVIOUS
<1> HIDE DEF lasts
<1>11. /\ Basis(p) /\ p \in StateSet /\ p.ws = out.ws /\ p.active = z.active /\ p.overlay = z.overlay
  <2>1. out.active = z.active /\ out.overlay = z.overlay
    BY <1>4, <1>6 DEF SameView
  <2>2. CASE ~lasts
    BY <1>6, <1>8, <1>10, <2>1, <2>2
  <2>3. CASE lasts
    <3>1. PICK old : old = out.tree[w]
      OBVIOUS
    <3>2. Grown(out, Tileable(out)) /\ \A n \in old : n \in Leaves
      BY <1>6, <1>8, <3>1, StateFields DEF Basis, Settled
    <3>3. Held({}, old)
      <4>1. ASSUME NEW n \in old, NEW d \in TabsOf(n) PROVE FALSE
        <5>1. d \in Clients
          BY <3>2, LeafFacts
        <5>2. out.ws[d] = w
          BY <3>1, <3>2, LeafOfIs
        <5> QED BY <1>9, <2>3, <5>1, <5>2
      <4> QED BY <4>1 DEF Held
    <3>4. p = Fell(out, w, old)
      <4>1. out.tree[w] \ old = {}
        BY <3>1
      <4> QED BY <1>10, <2>3, <4>1 DEF Fell
    <3>5. /\ Grown(p, Tileable(out) \ {}) /\ SameView(out, p)
          /\ TreeIs(out, p, w, out.tree[w] \ old)
      <4>1. old \in SUBSET out.tree[w]
        BY <3>1
      <4>2. /\ Grown(Fell(out, w, old), Tileable(out) \ {}) /\ SameView(out, Fell(out, w, old))
            /\ TreeIs(out, Fell(out, w, old), w, out.tree[w] \ old)
        BY <3>2, <3>3, <4>1, Felled, Zenon
      <4> QED BY <3>4, <4>2
    <3>6. AllNeat(p)
      <4>1. Neat(out.tree[w] \ old)
        BY <3>1 DEF Neat
      <4> QED BY <1>8, <3>5, <4>1, AllNeatChange DEF Basis
    <3>7. Tileable(p) = Tileable(out) /\ Homed(p)
      BY <1>8, <3>5 DEF Tileable, SameView, Basis, Homed
    <3>8. Basis(p) /\ p \in StateSet
      BY <3>5, <3>6, <3>7 DEF Basis, Settled, Grown
    <3> QED BY <2>1, <3>5, <3>8 DEF SameView
  <2> QED BY <2>2, <2>3
<1>12. PICK s : s = Hide(p)
  OBVIOUS
<1>13. s \in StateSet /\ s.ws = out.ws /\ Basis(s) /\ Shown(s) = Shown(p)
  BY <1>11, <1>12, HideIs, SameTrees
<1>14. PICK fallback : fallback = (IF sel = c /\ Tiled(z, c)
                                   THEN FocusAfterRemove(LeafOf(z, c), c) ELSE NoClient)
  OBVIOUS
<1>15. PICK choices : choices = (IF fallback # NoClient THEN {fallback} ELSE Candidates(s))
  OBVIOUS
<1> DEFINE hid == s.overlay # overlay
<1>16. hid \in BOOLEAN /\ (s.overlay = overlay => ~hid)
  OBVIOUS
<1>17. Refocus(s, choices, hid)
  <2> DEFINE w0 == ws[c]
             fallback0 == IF sel = c /\ Tiled(State, c)
                          THEN FocusAfterRemove(LeafOf(State, c), c) ELSE NoClient
             out0 == [RemoveClient(State, c, NoClient) EXCEPT
                        !.ws[c] = NoWorkspace, !.floating = @ \ {c}, !.hint[c] = NoHint]
             lasts0 == w0 \in NormalIds \ Persistent /\ \A d \in Clients : out0.ws[d] # w0
             s0 == Hide(IF lasts0 THEN [out0 EXCEPT !.tree[w0] = {}] ELSE out0)
  <2>1. Refocus(s0, IF fallback0 # NoClient THEN {fallback0} ELSE Candidates(s0),
                s0.overlay # overlay)
    BY DEF Release
  <2>2. w0 = w /\ fallback0 = fallback /\ out0 = out
    BY <1>0, <1>1, <1>2, <1>3, <1>5, <1>14
  <2> HIDE DEF w0, fallback0, out0
  <2>3. s0 = s
    BY <1>10, <1>12, <2>2 DEF lasts
  <2> HIDE DEF s0
  <2> QED BY <1>15, <2>1, <2>2, <2>3
<1> HIDE DEF hid
<1>18. ASSUME sel = c, Tiled(z, c)
       PROVE  /\ LeafOf(z, c) \in Leaves /\ c \in TabsOf(LeafOf(z, c))
              /\ TabsOf(LeafOf(z, c)) \ {c} \subseteq Shown(s)
  <2>1. /\ LeafOf(z, c) \in Leaves /\ c \in TabsOf(LeafOf(z, c)) /\ LeafOf(z, c) \in z.tree[w]
    BY <1>1, <1>2, <1>18, LeafOfIs
  <2>2. z.ws[c] \in {z.active, z.overlay}
    <3>1. c # NoClient
      BY TreeConstants
    <3> QED BY <1>1, <1>18, <3>1 DEF SelShown, Shown, Visible
  <2>3. ASSUME NEW d \in TabsOf(LeafOf(z, c)) \ {c} PROVE d \in Shown(s)
    <3>1. z.ws[d] = w /\ d \in Clients
      BY <1>1, <2>1, LeafOfIs, LeafFacts
    <3>2. p.ws[d] \in {p.active, p.overlay}
      BY <1>2, <1>7, <1>11, <2>2, <3>1
    <3> QED BY <1>13, <3>1, <3>2 DEF Shown, Visible
  <2> QED BY <2>1, <2>3
<1>19. choices \in SUBSET (Shown(s) \cup {NoClient})
  <2>1. fallback # NoClient => fallback \in Shown(s)
    BY <1>14, <1>18, FocusAfterRemoveIs
  <2> QED BY <1>15, <2>1, CandidatesShown
<1>20. PICK t : /\ Become(t) /\ Sound(t) /\ t.ws = s.ws /\ t.overlay = s.overlay
                /\ ~hid => t.sel \in choices
  BY <1>13, <1>16, <1>17, <1>19, RefocusSound, Zenon
<1>21. \A d \in Clients \ {c} : z.ws[d] # NoWorkspace => t.ws[d] # NoWorkspace
  BY <1>7, <1>13, <1>20
<1>22. ASSUME t.overlay = overlay, sel = c, FocusRemoved # "leave",
              Tiled(z, c), Len(LeafOf(z, c).tabs) > 1
       PROVE  t.sel \in ToSet(LeafOf(z, c).tabs) \ {c}
  <2>1. fallback \in TabsOf(LeafOf(z, c)) \ {c} /\ TabsOf(LeafOf(z, c)) \subseteq Clients
    BY <1>14, <1>18, <1>22, FocusAfterRemoveIs, LeafFacts
  <2>2. fallback # NoClient
    BY <2>1, TreeConstants
  <2>3. t.sel = fallback
    BY <1>15, <1>16, <1>20, <1>22, <2>2
  <2> QED BY <2>1, <2>3 DEF TabsOf
<1> QED BY <1>0, <1>20, <1>21, <1>22

\* What every action lands in.
Lands == \E t : Become(t) /\ Sound(t) /\ NoneReleased(State, t)

\* What the invariant says of the state record.
LEMMA Standing ==
    ASSUME TreeInv
    PROVE  /\ Sound(State) /\ Basis(State) /\ State \in StateSet
           /\ Grown(State, Tileable(State)) /\ AllNeat(State)
           /\ Homed(State) /\ SelShown(State)
BY SoundBasis DEF TreeInv, Sound, Basis, Settled, Grown

\* A tree command changes trees only, and ends with the arrange pass.
LEMMA CommandLands ==
    ASSUME TreeInv, NEW t, Grown(t, Tileable(State)), SameView(State, t), Tidy(t),
           Become(Arrange(t))
    PROVE  Lands
<1>0. PICK z : z = State
  OBVIOUS
<1>1. Homed(z) /\ SelShown(z)
  BY <1>0, Standing
<1>2. Tileable(t) = Tileable(z)
  BY <1>0 DEF SameView, Tileable
<1>3. Settled(t) /\ Homed(t) /\ SelShown(t)
  BY <1>0, <1>1, <1>2 DEF Settled, SameView, Homed, SelShown, Shown, Visible
<1>4. PICK u : u = Arrange(t)
  OBVIOUS
<1>5. Sound(u) /\ SameView(t, u)
  BY <1>3, <1>4, Arranged
<1>6. u.ws = z.ws
  BY <1>0, <1>5 DEF SameView
<1> QED BY <1>0, <1>4, <1>5, <1>6 DEF Lands, NoneReleased

\* A neighbour to remember is a client, or none.
LEMMA NeighboursAre == ASSUME NEW s, NEW c PROVE Neighbours(s, c) \subseteq Maybe
BY DEF Neighbours, Shown, Maybe

\* A client starts to float ...
LEMMA FloatSound ==
    ASSUME TreeInv, NEW c \in Clients, Float(c)
    PROVE  Lands
<1>0. PICK z : z = State
  OBVIOUS
<1>1. /\ z \in StateSet /\ Grown(z, Tileable(z)) /\ AllNeat(z) /\ Homed(z) /\ SelShown(z)
      /\ z.ws = ws
  BY <1>0, Standing, StateIs
<1>2. PICK rep \in Maybe :
        Become(Arrange(RemoveClient([z EXCEPT !.floating = @ \cup {c}], c, rep)))
  BY <1>0, NeighboursAre DEF Float
<1>3. PICK s : s = [z EXCEPT !.floating = @ \cup {c}]
  OBVIOUS
<1>4. /\ s \in StateSet /\ s.tree = z.tree /\ s.ws = z.ws /\ s.active = z.active
      /\ s.overlay = z.overlay /\ s.sel = z.sel /\ s.floating = z.floating \cup {c}
  BY <1>1, <1>3 DEF StateSet
<1>5. Grown(s, Tileable(z)) /\ AllNeat(s)
  BY <1>1, <1>4 DEF Grown, AllNeat
<1>6. PICK t : t = RemoveClient(s, c, rep)
  OBVIOUS
<1>7. Grown(t, Tileable(z) \ {c}) /\ SameView(s, t) /\ AllNeat(t)
  BY <1>5, <1>6, RemoveClientKeeps
<1>8. /\ t.ws = z.ws /\ t.active = z.active /\ t.overlay = z.overlay /\ t.sel = z.sel
      /\ t.floating = z.floating \cup {c}
  BY <1>4, <1>7 DEF SameView
<1>9. Tileable(t) = Tileable(z) \ {c}
  BY <1>8 DEF Tileable
<1>10. Homed(t)
  <2>1. ws[c] # NoWorkspace
    BY DEF Float
  <2>2. z.ws[c] \in Workspaces
    BY <1>1, <2>1, StateFields
  <2> QED BY <1>1, <1>8, <2>2 DEF Homed
<1>11. SelShown(t)
  BY <1>1, <1>8 DEF SelShown, Shown, Visible
<1>12. Settled(t) /\ Tidy(t)
  BY <1>7, <1>9 DEF Settled, Tidy, AllNeat
<1>13. PICK u : u = Arrange(t)
  OBVIOUS
<1>14. Sound(u) /\ SameView(t, u)
  BY <1>10, <1>11, <1>12, <1>13, Arranged
<1>15. Become(u)
  BY <1>2, <1>3, <1>6, <1>13
<1>16. NoneReleased(z, u)
  BY <1>8, <1>14 DEF NoneReleased, SameView
<1> QED BY <1>0, <1>14, <1>15, <1>16 DEF Lands

\* ... and stops to.
LEMMA UnfloatSound ==
    ASSUME TreeInv, NEW c \in Clients, Unfloat(c)
    PROVE  Lands
<1>0. PICK z : z = State
  OBVIOUS
<1>1. /\ z \in StateSet /\ Grown(z, Tileable(z)) /\ AllNeat(z) /\ Homed(z) /\ SelShown(z)
      /\ z.ws = ws /\ z.floating = floating
  BY <1>0, Standing, StateIs
<1>2. PICK target \in Targets(z, z.ws[c]) :
        Become(Arrange(AddClient([z EXCEPT !.floating = @ \ {c}], c, target)))
  BY <1>0, <1>1 DEF Unfloat
<1>3. PICK s : s = [z EXCEPT !.floating = @ \ {c}]
  OBVIOUS
<1>4. /\ s \in StateSet /\ s.tree = z.tree /\ s.ws = z.ws /\ s.active = z.active
      /\ s.overlay = z.overlay /\ s.sel = z.sel /\ s.floating = z.floating \ {c}
  BY <1>1, <1>3 DEF StateSet
<1>5. Grown(s, Tileable(z)) /\ AllNeat(s)
  BY <1>1, <1>4 DEF Grown, AllNeat
<1>6. c \in Clients \ Tileable(z) /\ s.ws[c] \in Workspaces /\ c \notin s.floating
  <2>1. c \in z.floating
    BY <1>1 DEF Unfloat
  <2> QED BY <1>1, <1>4, <2>1 DEF Tileable, Homed
<1>7. target \in Targets(s, s.ws[c])
  BY <1>2, <1>4 DEF Targets
<1>8. PICK t : t = AddClient(s, c, target)
  OBVIOUS
<1>9. Grown(t, Tileable(z) \cup {c}) /\ SameView(s, t) /\ AllNeat(t)
  BY <1>5, <1>6, <1>7, <1>8, AddClientKeeps
<1>10. /\ t.ws = z.ws /\ t.active = z.active /\ t.overlay = z.overlay /\ t.sel = z.sel
       /\ t.floating = z.floating \ {c}
  BY <1>4, <1>9 DEF SameView
<1>11. Tileable(t) = Tileable(z) \cup {c}
  BY <1>4, <1>6, <1>10, TreeConstants DEF Tileable
<1>12. Homed(t) /\ SelShown(t)
  BY <1>1, <1>10 DEF Homed, SelShown, Shown, Visible
<1>13. Settled(t) /\ Tidy(t)
  BY <1>9, <1>11 DEF Settled, Tidy, AllNeat
<1>14. PICK u : u = Arrange(t)
  OBVIOUS
<1>15. Sound(u) /\ SameView(t, u)
  BY <1>12, <1>13, <1>14, Arranged
<1>16. Become(u)
  BY <1>2, <1>3, <1>8, <1>14
<1>17. NoneReleased(z, u)
  BY <1>10, <1>15 DEF NoneReleased, SameView
<1> QED BY <1>0, <1>15, <1>16, <1>17 DEF Lands

\* A client of a leaf, or any other, is focused.
LEMMA FocusClientSound ==
    ASSUME TreeInv, NEW c \in Clients, FocusClient(c)
    PROVE  Lands
<1>0. PICK z : z = State
  OBVIOUS
<1>1. Basis(z) /\ Visible(z, c) /\ Become(Arrange(Focus(z, c)))
  BY <1>0, Standing DEF FocusClient
<1>2. PICK t : t = Arrange(Focus(z, c))
  OBVIOUS
<1>3. Sound(t) /\ t.ws = z.ws
  BY <1>1, <1>2, FocusArranged DEF Shown
<1> QED BY <1>0, <1>1, <1>2, <1>3 DEF Lands, NoneReleased

\* Another workspace is viewed, or an overlay opened ...
LEMMA ViewSound ==
    ASSUME TreeInv, NEW w \in Workspaces, ViewWorkspace(w)
    PROVE  Lands
<1>0. PICK z : z = State
  OBVIOUS
<1>1. Basis(z) /\ z \in StateSet
  BY <1>0, Standing
<1>2. PICK s : s = View(z, w)
  OBVIOUS
<1>3. Refocus(s, Candidates(s), FALSE)
  BY <1>0, <1>2 DEF ViewWorkspace
<1>4. Basis(s) /\ s.ws = z.ws
  BY <1>1, <1>2, ViewIs, SameTrees
<1>5. \E t : Become(t) /\ Sound(t) /\ t.ws = s.ws
  BY <1>3, <1>4, CandidatesShown, RefocusSound
<1> QED BY <1>0, <1>4, <1>5 DEF Lands, NoneReleased

\* ... or closed.
LEMMA HideOverlaySound ==
    ASSUME TreeInv, HideOverlay
    PROVE  Lands
<1>0. PICK z : z = State
  OBVIOUS
<1>1. Basis(z) /\ z \in StateSet
  BY <1>0, Standing
<1>2. PICK s : s = [z EXCEPT !.overlay = NoTag]
  OBVIOUS
<1>3. Refocus(s, Candidates(s), FALSE)
  BY <1>0, <1>2 DEF HideOverlay
<1>4. s \in StateSet /\ s.tree = z.tree /\ s.ws = z.ws /\ s.floating = z.floating
  BY <1>1, <1>2 DEF StateSet
<1>5. Basis(s)
  BY <1>1, <1>4, SameTrees
<1>6. \E t : Become(t) /\ Sound(t) /\ t.ws = s.ws
  BY <1>3, <1>5, CandidatesShown, RefocusSound
<1> QED BY <1>0, <1>4, <1>6 DEF Lands, NoneReleased

\* The selected client moves to another workspace.
LEMMA MoveToWorkspaceSound ==
    ASSUME TreeInv, NEW w \in Workspaces, NEW silent \in BOOLEAN, MoveToWorkspace(w, silent)
    PROVE  Lands
<1>0. PICK z : z = State
  OBVIOUS
<1>1. /\ z \in StateSet /\ Grown(z, Tileable(z)) /\ AllNeat(z) /\ Homed(z) /\ SelShown(z)
      /\ z.ws = ws /\ z.sel = sel /\ z.overlay = overlay
  BY <1>0, Standing, StateIs
<1>2. PICK c \in Clients : c = z.sel /\ z.ws[c] # w
  BY <1>1, StateFields DEF MoveToWorkspace, Maybe
<1>3. PICK rep \in Maybe, target \in Targets(z, w) :
        LET s == Hide(AddClient([RemoveClient(z, c, rep) EXCEPT !.ws[c] = w], c, target))
            t == IF silent THEN s ELSE View(s, w)
        IN  Refocus(t, Candidates(t), s.overlay # overlay /\ (silent \/ w \in NormalIds))
  BY <1>0, <1>1, <1>2, NeighboursAre DEF MoveToWorkspace
<1>4. z.ws[c] \in Workspaces
  BY <1>1, <1>2, StateFields, TreeConstants DEF SelShown, Shown, Visible, Workspaces
<1>5. PICK r : r = RemoveClient(z, c, rep)
  OBVIOUS
<1>6. /\ Grown(r, Tileable(z) \ {c}) /\ SameView(z, r) /\ AllNeat(r) /\ r \in StateSet
      /\ r.tree[w] = z.tree[w]
  <2>1. /\ Grown(r, Tileable(z) \ {c}) /\ SameView(z, r)
        /\ AllNeat(z) => AllNeat(r)
        /\ \A v \in Workspaces : v # z.ws[c] => r.tree[v] = z.tree[v]
    BY <1>1, <1>5, RemoveClientKeeps
  <2> QED BY <1>1, <1>2, <2>1 DEF Grown
<1>7. PICK q : q = [r EXCEPT !.ws[c] = w]
  OBVIOUS
<1>8. /\ q \in StateSet /\ q.tree = r.tree /\ q.floating = r.floating
      /\ q.ws = [r.ws EXCEPT ![c] = w]
  BY <1>6, <1>7 DEF StateSet
<1>9. q.ws[c] = w /\ \A d \in Clients : d # c => q.ws[d] = r.ws[d]
  BY <1>6, <1>8, StateFields
<1>10. Grown(q, Tileable(z) \ {c}) /\ AllNeat(q)
  <2>1. PICK In : In = Tileable(z) \ {c}
    OBVIOUS
  <2>2. Grown(r, In) /\ AllNeat(r) /\ c \in Clients \ In
    BY <1>6, <2>1
  <2>3. Grown(q, In) /\ AllNeat(q)
    BY <1>8, <1>9, <2>2, Rehomed, Zenon
  <2> QED BY <2>1, <2>3
<1>11. target \in Targets(q, q.ws[c])
  BY <1>3, <1>6, <1>8, <1>9 DEF Targets
<1>12. PICK a : a = AddClient(q, c, target)
  OBVIOUS
<1>13. /\ c \in q.floating => a = q
       /\ c \notin q.floating =>
            Grown(a, (Tileable(z) \ {c}) \cup {c}) /\ SameView(q, a) /\ AllNeat(a)
  BY <1>9, <1>10, <1>11, <1>12, AddClientKeeps
<1>14. SameView(q, a) /\ a \in StateSet
  BY <1>8, <1>13 DEF SameView, Grown
<1>15. /\ a.floating = z.floating /\ a.ws[c] = w
       /\ \A d \in Clients : d # c => a.ws[d] = z.ws[d]
  BY <1>6, <1>8, <1>9, <1>14 DEF SameView
<1>16. w # NoWorkspace /\ z.ws[c] # NoWorkspace
  BY <1>4, TreeConstants
<1>17. Tileable(a) = Tileable(z)
  BY <1>15, <1>16 DEF Tileable
<1>18. Basis(a)
  <2>1. Homed(a)
    <3>1. ASSUME NEW d \in z.floating PROVE a.ws[d] \in Workspaces
      <4>1. d \in Clients /\ z.ws[d] \in Workspaces
        BY <1>1, StateFields DEF Homed
      <4>2. CASE d = c
        BY <1>15, <4>2
      <4>3. CASE d # c
        BY <1>15, <4>1, <4>3
      <4> QED BY <4>2, <4>3
    <3> QED BY <1>15, <3>1 DEF Homed
  <2>2. c \in q.floating => Tileable(z) \ {c} = Tileable(z)
    BY <1>6, <1>8 DEF Tileable, SameView
  <2>3. c \notin q.floating => (Tileable(z) \ {c}) \cup {c} = Tileable(z)
    BY <1>6, <1>8, <1>16 DEF Tileable, SameView
  <2>4. Grown(a, Tileable(z)) /\ AllNeat(a)
    BY <1>10, <1>13, <2>2, <2>3
  <2> QED BY <1>17, <2>1, <2>4 DEF Basis, Settled
<1>19. PICK s : s = Hide(a)
  OBVIOUS
<1>20. Basis(s) /\ s \in StateSet /\ s.ws = a.ws
  BY <1>14, <1>18, <1>19, HideIs, SameTrees
<1>21. PICK t : t = (IF silent THEN s ELSE View(s, w))
  OBVIOUS
<1>22. Basis(t) /\ t.ws = a.ws
  <2>1. CASE silent
    BY <1>20, <1>21, <2>1
  <2>2. CASE ~silent
    <3>1. t = View(s, w)
      BY <1>21, <2>2
    <3> QED BY <1>20, <3>1, ViewIs, SameTrees
  <2> QED BY <2>1, <2>2
<1> DEFINE hid == s.overlay # overlay /\ (silent \/ w \in NormalIds)
<1>23. Refocus(t, Candidates(t), hid) /\ hid \in BOOLEAN
  BY <1>3, <1>5, <1>7, <1>12, <1>19, <1>21
<1> HIDE DEF hid
<1>24. PICK u : Become(u) /\ Sound(u) /\ u.ws = t.ws
  BY <1>22, <1>23, CandidatesShown, RefocusSound
<1>25. NoneReleased(z, u)
  BY <1>15, <1>16, <1>22, <1>24 DEF NoneReleased
<1> QED BY <1>0, <1>24, <1>25 DEF Lands

-----------------------------------------------------------------------------
(* The tree commands.                                                      *)

\* What a command finds.
LEMMA Selection ==
    ASSUME TreeInv, NEW command, Bound(command)
    PROVE  LET n == LeafOf(State, sel)
           IN  /\ sel \in Clients /\ sel \in Tileable(State) /\ Tiled(State, sel)
               /\ ws[sel] \in Workspaces /\ ws[sel] \in {active, overlay}
               /\ Owner(State, sel) = ws[sel] /\ n \in tree[ws[sel]] /\ n \in Leaves
               /\ sel \in TabsOf(n) /\ n.tabs # <<>>
               /\ \A d \in TabsOf(n) : ws[d] = ws[sel] /\ d \in Tileable(State)
<1>0. PICK z : z = State
  OBVIOUS
<1>1. /\ z \in StateSet /\ Grown(z, Tileable(z)) /\ SelShown(z)
      /\ z.ws = ws /\ z.sel = sel /\ z.active = active /\ z.overlay = overlay
      /\ z.tree = tree
  BY <1>0, Standing, StateIs
<1>2. sel # NoClient /\ Tiled(z, sel)
  BY <1>0 DEF Bound
<1>3. sel \in Tileable(z) /\ sel \in Clients
  BY <1>1, <1>2, LeafOfIs
<1>4. ws[sel] \in {active, overlay}
  BY <1>1, <1>2 DEF SelShown, Shown, Visible
<1>5. /\ ws[sel] \in Workspaces /\ Owner(z, sel) = ws[sel]
      /\ LeafOf(z, sel) \in tree[ws[sel]] /\ LeafOf(z, sel) \in Leaves
      /\ sel \in TabsOf(LeafOf(z, sel))
  BY <1>1, <1>3, LeafOfIs
<1>6. LeafOf(z, sel).tabs # <<>>
  BY <1>5, LeafFacts
<1>7. \A d \in TabsOf(LeafOf(z, sel)) : ws[d] = ws[sel] /\ d \in Tileable(z)
  BY <1>1, <1>5, LeafOfIs
<1> QED BY <1>0, <1>2, <1>3, <1>4, <1>5, <1>6, <1>7

\* A leaf of the tree of the selected client changed into one with the same tabs.
LEMMA LeafChanged ==
    ASSUME TreeInv, NEW w \in Workspaces, NEW n \in tree[w], n.tabs # <<>>, NEW m \in Leaves,
           TabsOf(m) = TabsOf(n)
    PROVE  LET t == Change(State, w, n, m)
           IN  Grown(t, Tileable(State)) /\ SameView(State, t) /\ AllNeat(t)
<1>0. PICK z : z = State
  OBVIOUS
<1>1. /\ z \in StateSet /\ Grown(z, Tileable(z)) /\ AllNeat(z) /\ n \in z.tree[w]
  BY <1>0, Standing, StateIs
<1>2. n \in Leaves
  BY <1>1, StateFields
<1>3. /\ \A c \in TabsOf(n) : z.ws[c] = w /\ c \in Tileable(z)
  BY <1>1, LeafOfIs
<1>4. (Tileable(z) \ TabsOf(n)) \cup TabsOf(m) = Tileable(z)
  BY <1>3
<1>5. m.tabs # <<>>
  BY <1>2, LeafFacts
<1>6. PICK t : t = Change(z, w, n, m)
  OBVIOUS
<1>7. /\ Grown(t, Tileable(z)) /\ SameView(z, t)
      /\ TreeIs(z, t, w, (z.tree[w] \ {n}) \cup {m})
  <2>1. TabsOf(m) \cap (Tileable(z) \ TabsOf(n)) = {} /\ \A c \in TabsOf(m) : z.ws[c] = w
    BY <1>3
  <2>2. /\ Grown(t, (Tileable(z) \ TabsOf(n)) \cup TabsOf(m)) /\ SameView(z, t)
        /\ TreeIs(z, t, w, (z.tree[w] \ {n}) \cup {m})
    BY <1>1, <1>6, <2>1, Changed
  <2> QED BY <1>4, <2>2
<1>8. AllNeat(t)
  <2>1. Neat((z.tree[w] \ {n}) \cup {m})
    BY <1>1, <1>5, NeatChange DEF AllNeat
  <2> QED BY <1>1, <1>7, <2>1, AllNeatChange
<1> QED BY <1>0, <1>6, <1>7, <1>8

LEMMA NeatIsTidy == ASSUME NEW s, AllNeat(s) PROVE Tidy(s)
BY DEF AllNeat, Tidy

\* Every tab but the first of a group gets a leaf of its own.
LEMMA UntabbedKeeps ==
    ASSUME NEW s, NEW In, Grown(s, In), AllNeat(s), NEW c \in In
    PROVE  LET t == Untabbed(s, c)
           IN  Grown(t, In) /\ SameView(s, t) /\ AllNeat(t)
<1>1. PICK n : n = LeafOf(s, c)
  OBVIOUS
<1>2. PICK w \in Workspaces : w = s.ws[c]
  BY LeafOfIs
<1>3. /\ Owner(s, c) = w /\ n \in s.tree[w] /\ n \in Leaves /\ c \in TabsOf(n)
      /\ \A d \in TabsOf(n) : s.ws[d] = w /\ d \in In
  BY <1>1, <1>2, LeafOfIs
<1>4. s \in StateSet /\ s.tree \in [Workspaces -> SUBSET Leaves] /\ Forest(s.tree, s.ws, In)
  BY StateFields DEF Grown
<1>5. n.tabs # <<>> /\ TabsOf(n) \subseteq Clients
  BY <1>3, LeafFacts
<1>6. PICK x \in TabsOf(n) : /\ FirstTab(n) \in Leaves /\ TabsOf(FirstTab(n)) = {x}
                             /\ ToSet(Tail(n.tabs)) = TabsOf(n) \ {x}
  BY <1>3, <1>5, FirstKept
<1>7. PICK others : others = {AddTab(EmptyLeaf, d, FALSE) : d \in TabsOf(n) \ {x}}
  OBVIOUS
<1>8. PICK new : new = {FirstTab(n)} \cup others
  OBVIOUS
<1>9. \A m \in others : m \in Leaves /\ \E d \in TabsOf(n) \ {x} :
                          m = AddTab(EmptyLeaf, d, FALSE) /\ TabsOf(m) = {d}
  BY <1>5, <1>7, NewLeaf
<1>10. new \in SUBSET Leaves /\ \A m \in new : m.tabs # <<>>
  <2>1. \A m \in new : m \in Leaves /\ TabsOf(m) # {}
    BY <1>6, <1>8, <1>9
  <2> QED BY <2>1, LeafFacts
<1>11. Held(TabsOf(n), new)
  <2>1. ASSUME NEW d \in TabsOf(n) PROVE \E m \in new : d \in TabsOf(m)
    <3>1. CASE d = x
      BY <1>6, <1>8, <3>1
    <3>2. CASE d # x
      <4>1. AddTab(EmptyLeaf, d, FALSE) \in new /\ TabsOf(AddTab(EmptyLeaf, d, FALSE)) = {d}
        BY <1>5, <1>7, <1>8, <3>2, NewLeaf
      <4> QED BY <4>1
    <3> QED BY <3>1, <3>2
  <2>2. ASSUME NEW m \in new, NEW d \in TabsOf(m) PROVE d \in TabsOf(n)
    BY <1>6, <1>8, <1>9
  <2> QED BY <2>1, <2>2 DEF Held
<1>12. \A k, m \in new : \A d \in TabsOf(k) : d \in TabsOf(m) => k = m
  <2> DEFINE leafOf(d) == IF d = x THEN FirstTab(n) ELSE AddTab(EmptyLeaf, d, FALSE)
  <2>1. ASSUME NEW m \in new PROVE \A d \in TabsOf(m) : m = leafOf(d)
    <3>1. CASE m = FirstTab(n)
      BY <1>6, <3>1
    <3>2. CASE m \in others
      BY <1>9, <3>2
    <3> QED BY <1>8, <3>1, <3>2
  <2> HIDE DEF leafOf
  <2> QED BY <2>1
<1>13. Held(TabsOf(n), {n})
  BY DEF Held
<1>14. PICK X : X = (s.tree[w] \ {n}) \cup new
  OBVIOUS
<1>15. Forest([s.tree EXCEPT ![w] = X], s.ws, In)
  <2>1. PICK U : U = TabsOf(n)
    OBVIOUS
  <2>2. /\ {n} \in SUBSET s.tree[w] /\ Held(U, {n}) /\ Held(U, new)
        /\ \A d \in U : s.ws[d] = w /\ U \cap (In \ U) = {} /\ (In \ U) \cup U = In
    BY <1>3, <1>11, <1>13, <2>1
  <2>3. \A d \in In \ U : s.ws[d] = s.ws[d]
    OBVIOUS
  <2>4. U \cap (In \ U) = {} /\ (In \ U) \cup U = In
    BY <1>3, <2>1
  <2>5. \A d \in U : s.ws[d] = w
    BY <1>3, <2>1
  <2>6. Forest([s.tree EXCEPT ![w] = (s.tree[w] \ {n}) \cup new], s.ws, (In \ U) \cup U)
    BY ONLY <1>4, <1>10, <1>12, <2>2, <2>3, <2>4, <2>5, w \in Workspaces, Grafted, Zenon
  <2> QED BY <1>14, <2>4, <2>6
<1>16. PICK t : t = [s EXCEPT !.tree[w] = X]
  OBVIOUS
<1>17. X \in SUBSET Leaves
  BY <1>4, <1>10, <1>14
<1>18. t \in StateSet /\ SameView(s, t) /\ t.tree = [s.tree EXCEPT ![w] = X]
  BY <1>4, <1>16, <1>17, Replanted
<1>19. Grown(t, In)
  BY <1>15, <1>18 DEF Grown, SameView
<1>20. AllNeat(t)
  <2>1. TreeIs(s, t, w, X)
    BY <1>4, <1>18 DEF TreeIs
  <2>2. ASSUME NEW m \in s.tree[w] PROVE m.tabs # <<>>
    BY <1>3, <1>5 DEF AllNeat, Neat
  <2>3. Neat(X)
    BY <1>10, <1>14, <2>2 DEF Neat
  <2> QED BY <2>1, <2>3, AllNeatChange
<1>21. t = Untabbed(s, c)
  <2>1. X = (s.tree[w] \ {n}) \cup {FirstTab(n)} \cup others
    BY <1>8, <1>14
  <2>2. Untabbed(s, c) = [s EXCEPT !.tree[w] = (@ \ {n}) \cup {FirstTab(n)} \cup others]
    BY <1>1, <1>3, <1>6, <1>7 DEF Untabbed
  <2> QED BY <1>16, <2>1, <2>2
<1> QED BY <1>18, <1>19, <1>20, <1>21

\* groupmode
LEMMA GroupModeSound ==
    ASSUME TreeInv, GroupMode
    PROVE  Lands
<1>0. PICK z : z = State
  OBVIOUS
<1>1. PICK n : n = LeafOf(State, sel)
  OBVIOUS
<1>2. PICK w \in Workspaces : w = ws[sel]
  BY Selection DEF GroupMode
<1>3. /\ Owner(State, sel) = w /\ n \in tree[w] /\ n \in Leaves /\ n.tabs # <<>>
      /\ sel \in Tileable(State)
  BY <1>1, <1>2, Selection DEF GroupMode
<1>4. PICK m : m = [n EXCEPT !.groupmode = ~@]
  OBVIOUS
<1>5. m \in Leaves /\ TabsOf(m) = TabsOf(n)
  <2>1. PICK g \in BOOLEAN : g = (~n.groupmode)
    BY <1>3, LeafFacts
  <2>2. m = [n EXCEPT !.groupmode = g]
    BY <1>4, <2>1
  <2> QED BY <1>3, <2>2, Regrouped
<1>6. PICK s : s = Change(State, w, n, m)
  OBVIOUS
<1>7. Grown(s, Tileable(State)) /\ SameView(State, s) /\ AllNeat(s)
  BY <1>3, <1>5, <1>6, LeafChanged
<1>8. Become(Arrange(IF n.groupmode /\ Len(n.tabs) > 1 THEN Untabbed(s, sel) ELSE s))
  BY <1>1, <1>3, <1>4, <1>6 DEF GroupMode
<1>9. CASE n.groupmode /\ Len(n.tabs) > 1
  <2>1. PICK t : t = Untabbed(s, sel)
    OBVIOUS
  <2>2. Grown(t, Tileable(State)) /\ SameView(s, t) /\ AllNeat(t)
    BY <1>3, <1>7, <2>1, UntabbedKeeps
  <2>3. SameView(State, t) /\ Tidy(t)
    BY <1>7, <2>2, NeatIsTidy DEF SameView
  <2> QED BY <1>8, <1>9, <2>1, <2>2, <2>3, CommandLands
<1>10. CASE ~(n.groupmode /\ Len(n.tabs) > 1)
  BY <1>7, <1>8, <1>10, NeatIsTidy, CommandLands
<1> QED BY <1>9, <1>10

\* movegroup
LEMMA MoveGroupSound ==
    ASSUME TreeInv, NEW direction \in {-1, 1}, MoveGroup(direction)
    PROVE  Lands
<1>1. PICK n : n = LeafOf(State, sel)
  OBVIOUS
<1>2. PICK w \in Workspaces : w = ws[sel]
  BY Selection DEF MoveGroup
<1>3. Owner(State, sel) = w /\ n \in tree[w] /\ n \in Leaves /\ n.tabs # <<>>
  BY <1>1, <1>2, Selection DEF MoveGroup
<1>4. PICK to \in 1..Len(n.tabs) : Become(Arrange(Change(State, w, n, MoveActive(n, to))))
  BY <1>1, <1>3 DEF MoveGroup
<1>5. PICK m : m = MoveActive(n, to)
  OBVIOUS
<1>6. m \in Leaves /\ TabsOf(m) = TabsOf(n)
  BY <1>3, <1>5, ActiveMoved
<1>7. PICK s : s = Change(State, w, n, m)
  OBVIOUS
<1>8. Grown(s, Tileable(State)) /\ SameView(State, s) /\ AllNeat(s)
  BY <1>3, <1>6, <1>7, LeafChanged
<1> QED BY <1>4, <1>5, <1>7, <1>8, NeatIsTidy, CommandLands

\* The commands given with an overlay open stay within one leaf and its tree.
OverlayKeepsToItsTree == OverlayBinds \subseteq {"groupmode", "movegroup"}

\* The other commands find every visible client on the viewed workspace.
LEMMA OneLayer ==
    ASSUME OverlayKeepsToItsTree, TreeInv, NEW command, Bound(command),
           command \notin {"groupmode", "movegroup"}
    PROVE  /\ ws[sel] = active
           /\ \A d \in Clients : Visible(State, d) => ws[d] = active
<1>1. overlay = NoTag
  BY DEF Bound, OverlayKeepsToItsTree
<1>2. State \in StateSet
  BY Standing
<1>3. \A d \in Clients : ws[d] # NoTag
  BY <1>2, StateIs, StateFields, TreeConstants
<1>4. \A d \in Clients : Visible(State, d) => ws[d] = active
  BY <1>1, <1>3, StateIs DEF Visible
<1>5. ws[sel] \in {active, overlay} /\ sel \in Clients
  BY Selection
<1> QED BY <1>1, <1>3, <1>4, <1>5

\* The selected client goes into another group.
LEMMA IntoGroupLands ==
    ASSUME OverlayKeepsToItsTree, TreeInv, NEW command, Bound(command),
           command \notin {"groupmode", "movegroup"},
           NEW d \in Clients, d # sel, Visible(State, d), Tiled(State, d),
           Become(Arrange(IntoGroup(State, d)))
    PROVE  Lands
<1>0. PICK z : z = State
  OBVIOUS
<1>1. /\ z \in StateSet /\ Grown(z, Tileable(z)) /\ AllNeat(z)
      /\ z.ws = ws /\ z.sel = sel /\ z.active = active
  BY <1>0, Standing, StateIs
<1>2. PICK c \in Clients : c = z.sel /\ c \in Tileable(z) /\ z.ws[c] = z.active
  BY <1>0, <1>1, Selection, OneLayer
<1>3. PICK w \in Workspaces : w = z.active
  BY <1>1, StateFields
<1>4. d \in Tileable(z) /\ z.ws[d] = w /\ d # c
  BY <1>0, <1>1, <1>2, <1>3, OneLayer, LeafOfIs
<1>5. PICK In : In = Tileable(z) \ {c}
  OBVIOUS
<1>6. PICK t : t = Untab(z, c)
  OBVIOUS
<1>7. PICK X : TreeIs(z, t, w, X)
  BY <1>1, <1>2, <1>3, <1>6, UntabKeeps
<1>8. Grown(t, In) /\ SameView(z, t)
  BY <1>1, <1>2, <1>5, <1>6, UntabKeeps
<1>9. PICK n : n = LeafOf(t, d)
  OBVIOUS
<1>10. /\ Owner(t, d) = w /\ n \in t.tree[w] /\ n \in Leaves
       /\ c \in Clients \ In /\ t.ws[c] = w
  <2>1. d \in In /\ t.ws[d] = w /\ t.ws[c] = w
    BY <1>2, <1>3, <1>4, <1>5, <1>8 DEF SameView
  <2> QED BY <1>5, <1>8, <1>9, <2>1, LeafOfIs
<1>11. c \notin TabsOf(n)
  BY <1>8, <1>10, LeafOfIs
<1>12. PICK k : k = AddTab(n, c, FALSE)
  OBVIOUS
<1>13. k \in Leaves /\ TabsOf(k) = TabsOf(n) \cup {c}
  BY <1>10, <1>11, <1>12, TabAdded
<1>14. PICK m : m = [k EXCEPT !.groupmode = TRUE]
  OBVIOUS
<1>15. m \in Leaves /\ TabsOf(m) = TabsOf(n) \cup {c}
  BY <1>13, <1>14, Regrouped
<1>16. PICK u : u = Change(t, w, n, m)
  OBVIOUS
<1>17. /\ Grown(u, In \cup {c}) /\ SameView(t, u)
       /\ TreeIs(t, u, w, (t.tree[w] \ {n}) \cup {m})
  BY <1>8, <1>10, <1>15, <1>16, Joined
<1>18. PICK v : v = FocusTab(u, c)
  OBVIOUS
<1>19. Grown(v, In \cup {c}) /\ SameView(u, v) /\ NotEmptier(u, v)
  BY <1>17, <1>18, FocusTabKeeps
<1>20. In \cup {c} = Tileable(z)
  BY <1>2, <1>5
<1>21. SameView(z, v)
  BY <1>8, <1>17, <1>19 DEF SameView
<1>22. Tidy(v)
  <2>1. v.active = w
    BY <1>3, <1>21 DEF SameView
  <2>2. ASSUME NEW x \in Workspaces, x # w PROVE Neat(v.tree[x])
    <3>1. u.tree[x] = z.tree[x]
      BY <1>7, <1>17, <2>2 DEF TreeIs
    <3> QED BY <1>1, <1>19, <3>1 DEF AllNeat, NotEmptier
  <2> QED BY <2>1, <2>2 DEF Tidy
<1>23. v = IntoGroup(z, d)
  BY <1>2, <1>6, <1>9, <1>10, <1>12, <1>14, <1>16, <1>18 DEF IntoGroup
<1> QED BY <1>0, <1>19, <1>20, <1>21, <1>22, <1>23, CommandLands

\* sendtogroup, and movewindoworgroup towards a group.
LEMMA SendToGroupSound ==
    ASSUME OverlayKeepsToItsTree, TreeInv, NEW d \in Clients, SendToGroup(d)
    PROVE  Lands
BY IntoGroupLands DEF SendToGroup

LEMMA MoveIntoGroupSound ==
    ASSUME OverlayKeepsToItsTree, TreeInv, NEW d \in Clients, MoveIntoGroup(d)
    PROVE  Lands
BY IntoGroupLands DEF MoveIntoGroup, Reachable

\* moveoutofgroup
LEMMA MoveOutOfGroupSound ==
    ASSUME OverlayKeepsToItsTree, TreeInv, MoveOutOfGroup
    PROVE  Lands
<1>0. PICK z : z = State
  OBVIOUS
<1>1. /\ z \in StateSet /\ Grown(z, Tileable(z)) /\ AllNeat(z)
      /\ z.ws = ws /\ z.sel = sel /\ z.active = active
  BY <1>0, Standing, StateIs
<1>2. Bound("moveoutofgroup") /\ Become(Arrange(Peeled(z)))
  BY <1>0 DEF MoveOutOfGroup
<1>3. PICK c \in Clients : c = z.sel /\ c \in Tileable(z) /\ z.ws[c] = z.active
  BY <1>0, <1>1, <1>2, Selection, OneLayer
<1>4. PICK w \in Workspaces : w = z.active
  BY <1>1, StateFields
<1>5. PICK n : n = LeafOf(z, c)
  OBVIOUS
<1>6. /\ Owner(z, c) = w /\ n \in z.tree[w] /\ n \in Leaves /\ c \in TabsOf(n)
      /\ \A d \in TabsOf(n) : z.ws[d] = w /\ d \in Tileable(z)
  BY <1>1, <1>3, <1>4, <1>5, LeafOfIs
<1>7. PICK k : k = RemoveTab(n, c)
  OBVIOUS
<1>8. PICK m : m = [k EXCEPT !.groupmode = TRUE]
  OBVIOUS
<1>9. m \in Leaves /\ TabsOf(m) = TabsOf(n) \ {c}
  BY <1>6, <1>7, <1>8, TabRemoved, Regrouped
<1>10. PICK t : t = Change(z, w, n, m)
  OBVIOUS
<1>11. PICK In : In = Tileable(z) \ {c}
  OBVIOUS
<1>12. Grown(t, In) /\ SameView(z, t) /\ TreeIs(z, t, w, (z.tree[w] \ {n}) \cup {m})
  <2>1. /\ TabsOf(m) \cap (Tileable(z) \ TabsOf(n)) = {} /\ \A d \in TabsOf(m) : z.ws[d] = w
    BY <1>6, <1>9
  <2>2. (Tileable(z) \ TabsOf(n)) \cup TabsOf(m) = In
    BY <1>3, <1>6, <1>9, <1>11
  <2>3. /\ Grown(t, (Tileable(z) \ TabsOf(n)) \cup TabsOf(m)) /\ SameView(z, t)
        /\ TreeIs(z, t, w, (z.tree[w] \ {n}) \cup {m})
    BY <1>1, <1>6, <1>9, <1>10, <2>1, Changed
  <2> QED BY <2>2, <2>3
<1>13. PICK u : u = Plant(t, w, c)
  OBVIOUS
<1>14. c \in Clients \ In /\ t.ws[c] = w
  BY <1>3, <1>4, <1>11, <1>12 DEF SameView
<1>15. /\ Grown(u, In \cup {c}) /\ SameView(t, u)
       /\ TreeIs(t, u, w, t.tree[w] \cup {AddTab(EmptyLeaf, c, FALSE)})
  BY <1>12, <1>13, <1>14, Planted
<1>16. In \cup {c} = Tileable(z)
  BY <1>3, <1>11
<1>17. SameView(z, u)
  BY <1>12, <1>15 DEF SameView
<1>18. Tidy(u)
  BY <1>1, <1>4, <1>12, <1>15, <1>17 DEF Tidy, AllNeat, TreeIs, SameView
<1>19. u = Peeled(z)
  <2>1. u = Plant(t, IF z.tree[w] = {n} THEN z.active ELSE w, c)
    BY <1>4, <1>13
  <2> QED BY <1>3, <1>5, <1>6, <1>7, <1>8, <1>10, <2>1 DEF Peeled
<1> QED BY <1>0, <1>2, <1>15, <1>16, <1>17, <1>18, <1>19, CommandLands

\* layoutmsg movetoroot
LEMMA MoveToRootSound ==
    ASSUME OverlayKeepsToItsTree, TreeInv, MoveToRoot
    PROVE  Lands
<1>0. PICK z : z = State
  OBVIOUS
<1>1. /\ z \in StateSet /\ Grown(z, Tileable(z)) /\ AllNeat(z)
      /\ z.ws = ws /\ z.sel = sel /\ z.active = active
  BY <1>0, Standing, StateIs
<1>2. PICK c \in Clients : c = z.sel /\ c \in Tileable(z) /\ z.ws[c] = z.active
  BY <1>0, <1>1, Selection, OneLayer DEF MoveToRoot
<1>3. PICK w \in Workspaces : w = z.active
  BY <1>1, StateFields
<1>4. PICK rep \in Maybe :
        Become(Arrange(Plant([RemoveClient(z, c, rep) EXCEPT !.hint[c] = NoHint], w, c)))
  BY <1>0, <1>1, <1>2, <1>3, NeighboursAre DEF MoveToRoot
<1>5. PICK r : r = RemoveClient(z, c, rep)
  OBVIOUS
<1>6. PICK In : In = Tileable(z) \ {c}
  OBVIOUS
<1>7. /\ Grown(r, In) /\ SameView(z, r)
      /\ \A v \in Workspaces : v # w => r.tree[v] = z.tree[v]
  BY <1>1, <1>2, <1>3, <1>5, <1>6, RemoveClientKeeps
<1>8. PICK t : t = [r EXCEPT !.hint[c] = NoHint]
  OBVIOUS
<1>9. t \in StateSet /\ SameView(r, t) /\ t.tree = r.tree
  BY <1>7, <1>8, AHint, Rehinted DEF Grown
<1>10. Grown(t, In)
  BY <1>7, <1>9 DEF Grown, SameView
<1>11. PICK u : u = Plant(t, w, c)
  OBVIOUS
<1>12. c \in Clients \ In /\ t.ws[c] = w
  BY <1>2, <1>3, <1>6, <1>7, <1>9 DEF SameView
<1>13. /\ Grown(u, In \cup {c}) /\ SameView(t, u)
       /\ TreeIs(t, u, w, t.tree[w] \cup {AddTab(EmptyLeaf, c, FALSE)})
  BY <1>10, <1>11, <1>12, Planted
<1>14. In \cup {c} = Tileable(z)
  BY <1>2, <1>6
<1>15. SameView(z, u)
  BY <1>7, <1>9, <1>13 DEF SameView
<1>16. Tidy(u)
  BY <1>1, <1>3, <1>7, <1>9, <1>13, <1>15 DEF Tidy, AllNeat, TreeIs, SameView
<1> QED BY <1>0, <1>4, <1>5, <1>8, <1>11, <1>13, <1>14, <1>15, <1>16, CommandLands

\* c for d and d for c.
Exchanged(c, d, e) == CASE e = c -> d [] e = d -> c [] OTHER -> e

\* bsp_swap_clients in one leaf.
SwappedLeaf(n, c, d) == [n EXCEPT !.tabs = [i \in DOMAIN @ |-> Exchanged(c, d, @[i])]]

LEMMA ExchangedIs ==
    ASSUME NEW c \in Clients, NEW d \in Clients, c # d
    PROVE  /\ Exchanged(c, d, c) = d /\ Exchanged(c, d, d) = c
           /\ \A e : e # c /\ e # d => Exchanged(c, d, e) = e
           /\ \A e \in Clients : Exchanged(c, d, e) \in Clients
           /\ \A e : Exchanged(c, d, Exchanged(c, d, e)) = e
<1>1. Exchanged(c, d, c) = d /\ Exchanged(c, d, d) = c
  BY DEF Exchanged
<1>2. ASSUME NEW e, e # c, e # d PROVE Exchanged(c, d, e) = e
  BY <1>2 DEF Exchanged
<1>3. ASSUME NEW e PROVE Exchanged(c, d, Exchanged(c, d, e)) = e
  BY <1>1, <1>2
<1>4. ASSUME NEW e \in Clients PROVE Exchanged(c, d, e) \in Clients
  BY <1>1, <1>2
<1> QED BY <1>1, <1>2, <1>3, <1>4

\* A leaf stays a leaf when clients are swapped.
LEMMA SwappedLeafIs ==
    ASSUME NEW n \in Leaves, NEW c \in Clients, NEW d \in Clients, c # d
    PROVE  /\ SwappedLeaf(n, c, d) \in Leaves
           /\ SwappedLeaf(n, c, d).tabs = <<>> <=> n.tabs = <<>>
           /\ \A e : e \in TabsOf(SwappedLeaf(n, c, d)) <=> Exchanged(c, d, e) \in TabsOf(n)
<1>0. PICK q, z : q = n.tabs /\ z = Len(q) /\ z \in Nat
  BY LeafFacts
<1>1. /\ n \in LeafSet /\ q \in Seq(Clients) /\ DOMAIN q = 1..z
      /\ n.active \in Nat \ {0} /\ n.prev \in Nat /\ n.groupmode \in BOOLEAN
      /\ q # <<>> => n.active \in 1..z
      /\ n.prev \in 0..z
      /\ \A e : e \in TabsOf(n) <=> \E i \in 1..z : q[i] = e
      /\ \A i, j \in 1..z : q[i] = q[j] => i = j
      /\ \A i \in 1..z : q[i] \in Clients
  BY <1>0, LeafFacts, Elements DEF Leaves
<1>2. PICK r : r = [i \in 1..z |-> Exchanged(c, d, q[i])]
  OBVIOUS
<1>3. /\ r \in Seq(Clients) /\ Len(r) = z /\ DOMAIN r = 1..z
      /\ \A i \in 1..z : r[i] = Exchanged(c, d, q[i])
  <2>1. \A i \in 1..z : Exchanged(c, d, q[i]) \in Clients
    BY <1>1, ExchangedIs
  <2> QED BY <1>0, <1>2, <2>1
<1>4. IsInjective(r)
  <2>1. ASSUME NEW i \in 1..z, NEW j \in 1..z, r[i] = r[j] PROVE i = j
    <3>1. q[i] = Exchanged(c, d, r[i]) /\ q[j] = Exchanged(c, d, r[j])
      BY <1>3, ExchangedIs
    <3> QED BY <1>1, <2>1, <3>1
  <2> QED BY <1>3, <2>1 DEF IsInjective
<1>5. \A e : e \in ToSet(r) <=> Exchanged(c, d, e) \in TabsOf(n)
  <2>1. ASSUME NEW e, NEW i \in 1..z PROVE r[i] = e <=> q[i] = Exchanged(c, d, e)
    BY <1>3, ExchangedIs
  <2>2. \A e : e \in ToSet(r) <=> \E i \in 1..z : r[i] = e
    BY <1>3, Elements
  <2> QED BY <1>1, <2>1, <2>2
<1>6. r = <<>> <=> q = <<>>
  BY <1>0, <1>1, <1>3, Elements
<1>7. PICK m : m = [tabs |-> r, active |-> n.active, prev |-> n.prev, groupmode |-> n.groupmode]
  OBVIOUS
<1>8. m \in Leaves /\ TabsOf(m) = ToSet(r) /\ m.tabs = r
  <2>1. r # <<>> => n.active \in 1..Len(r)
    BY <1>1, <1>3, <1>6
  <2>2. n.prev \in 0..Len(r)
    BY <1>1, <1>3
  <2>3. LET x == [tabs |-> r, active |-> n.active, prev |-> n.prev,
                  groupmode |-> n.groupmode]
        IN  x \in Leaves /\ TabsOf(x) = ToSet(r)
    <3>1. /\ r \in Seq(Clients) /\ n.active \in Nat \ {0} /\ n.prev \in Nat
          /\ n.groupmode \in BOOLEAN
      BY <1>1, <1>3
    <3> QED BY ONLY <1>4, <2>1, <2>2, <3>1, ALeaf, Zenon
  <2> QED BY <1>7, <2>3
<1>9. m = SwappedLeaf(n, c, d)
  <2>1. SwappedLeaf(n, c, d) = [n EXCEPT !.tabs = r]
    BY <1>0, <1>1, <1>2 DEF SwappedLeaf, LeafSet
  <2>2. [n EXCEPT !.tabs = r] = m
    BY <1>1, <1>7 DEF LeafSet
  <2> QED BY <2>1, <2>2
<1> QED BY <1>0, <1>5, <1>6, <1>8, <1>9

\* bsp_swap_clients, all trees.
SwappedTrees(T, c, d) == [w \in Workspaces |-> {SwappedLeaf(n, c, d) : n \in T[w]}]

LEMMA SwappedForest ==
    ASSUME NEW T, NEW home, NEW In, Forest(T, home, In), NEW c \in In, NEW d \in In,
           In \subseteq Clients, c # d, home[c] = home[d]
    PROVE  Forest(SwappedTrees(T, c, d), home, In)
<1>1. PICK S : S = SwappedTrees(T, c, d)
  OBVIOUS
<1>2. \A w \in Workspaces : T[w] \subseteq Leaves
  BY DEF Forest
<1>3. \A w \in Workspaces : \A m : m \in S[w] <=> \E n \in T[w] : m = SwappedLeaf(n, c, d)
  BY <1>1 DEF SwappedTrees
<1>4. \A n \in Leaves : /\ SwappedLeaf(n, c, d) \in Leaves
                        /\ \A e : e \in TabsOf(SwappedLeaf(n, c, d)) <=> Exchanged(c, d, e) \in TabsOf(n)
  BY SwappedLeafIs
<1>5. S \in [Workspaces -> SUBSET Leaves]
  BY <1>1, <1>2, <1>4 DEF SwappedTrees
<1>6. \A e : /\ Exchanged(c, d, e) \in In => e \in In
             /\ e \in In => Exchanged(c, d, e) \in In
             /\ home[Exchanged(c, d, e)] = home[e]
  <2> SUFFICES ASSUME NEW e
               PROVE  /\ Exchanged(c, d, e) \in In => e \in In
                      /\ e \in In => Exchanged(c, d, e) \in In
                      /\ home[Exchanged(c, d, e)] = home[e]
    OBVIOUS
  <2>1. CASE e = c
    BY <2>1, ExchangedIs
  <2>2. CASE e = d
    BY <2>2, ExchangedIs
  <2>3. CASE e # c /\ e # d
    <3>1. Exchanged(c, d, e) = e
      BY <2>3, ExchangedIs
    <3> QED BY <3>1
  <2> QED BY <2>1, <2>2, <2>3
<1>7. \A w \in Workspaces : \A m \in S[w] : \A e \in TabsOf(m) : e \in In /\ home[e] = w
  BY <1>2, <1>3, <1>4, <1>6 DEF Forest
<1>8. \A w \in Workspaces : \A k, m \in S[w] : \A e \in TabsOf(k) : e \in TabsOf(m) => k = m
  BY <1>2, <1>3, <1>4 DEF Forest
<1>9. ASSUME NEW e \in In PROVE home[e] \in Workspaces /\ \E m \in S[home[e]] : e \in TabsOf(m)
  <2>1. PICK n \in T[home[e]] : Exchanged(c, d, e) \in TabsOf(n)
    BY <1>6 DEF Forest
  <2>2. home[e] \in Workspaces
    BY DEF Forest
  <2>3. SwappedLeaf(n, c, d) \in S[home[e]] /\ e \in TabsOf(SwappedLeaf(n, c, d))
    BY <1>2, <1>3, <1>4, <2>1, <2>2
  <2> QED BY <2>2, <2>3
<1> QED BY <1>1, <1>5, <1>7, <1>8, <1>9 DEF Forest

\* Two clients change places.
LEMMA SwappedLands ==
    ASSUME OverlayKeepsToItsTree, TreeInv, NEW command, Bound(command),
           command \notin {"groupmode", "movegroup"},
           NEW d \in Clients, Reachable(d), Become(Arrange(Swapped(State, d)))
    PROVE  Lands
<1>0. PICK z : z = State
  OBVIOUS
<1>1. /\ z \in StateSet /\ Grown(z, Tileable(z)) /\ AllNeat(z)
      /\ z.ws = ws /\ z.sel = sel /\ z.active = active
  BY <1>0, Standing, StateIs
<1>2. PICK c \in Clients : c = z.sel /\ c \in Tileable(z) /\ z.ws[c] = z.active
  BY <1>0, <1>1, Selection, OneLayer
<1>3. d \in Tileable(z) /\ z.ws[d] = z.ws[c] /\ d # c
  BY <1>0, <1>1, <1>2, OneLayer, LeafOfIs DEF Reachable
<1>4. Forest(z.tree, z.ws, Tileable(z)) /\ Tileable(z) \subseteq Clients
  BY <1>1 DEF Grown
<1>5. PICK T : T = SwappedTrees(z.tree, c, d)
  OBVIOUS
<1>6. Forest(T, z.ws, Tileable(z))
  BY <1>2, <1>3, <1>4, <1>5, SwappedForest
<1>7. PICK t : t = [z EXCEPT !.tree = T]
  OBVIOUS
<1>8. t \in StateSet /\ SameView(z, t) /\ t.tree = T
  BY <1>1, <1>6, <1>7 DEF StateSet, Forest, SameView
<1>9. Grown(t, Tileable(z))
  BY <1>4, <1>6, <1>8 DEF Grown, SameView
<1>10. AllNeat(t)
  <2>1. ASSUME NEW w \in Workspaces, NEW m \in T[w], m.tabs = <<>> PROVE T[w] = {m}
    <3>1. T[w] = {SwappedLeaf(k, c, d) : k \in z.tree[w]}
      BY <1>5 DEF SwappedTrees
    <3>2. PICK n \in z.tree[w] : m = SwappedLeaf(n, c, d)
      BY <2>1, <3>1
    <3>3. n.tabs = <<>>
      BY <1>1, <1>3, <2>1, <3>2, StateFields, SwappedLeafIs
    <3>4. z.tree[w] = {n}
      BY <1>1, <3>3 DEF AllNeat, Neat
    <3> QED BY <3>1, <3>2, <3>4
  <2> QED BY <1>8, <2>1 DEF AllNeat, Neat
<1>11. PICK u : u = FocusTab(t, c)
  OBVIOUS
<1>12. Grown(u, Tileable(z)) /\ SameView(t, u) /\ NotEmptier(t, u)
  BY <1>9, <1>11, FocusTabKeeps
<1>13. SameView(z, u) /\ Tidy(u)
  BY <1>8, <1>10, <1>12 DEF SameView, NotEmptier, AllNeat, Tidy
<1>14. u = Swapped(z, d)
  BY <1>2, <1>5, <1>7, <1>11 DEF Swapped, SwappedTrees, SwappedLeaf, Exchanged
<1> QED BY <1>0, <1>12, <1>13, <1>14, CommandLands

\* swapwindow
LEMMA SwapWindowSound ==
    ASSUME OverlayKeepsToItsTree, TreeInv, NEW d \in Clients, SwapWindow(d)
    PROVE  Lands
BY SwappedLands DEF SwapWindow

\* One client goes into the leaf of another.
LEMMA MergedLands ==
    ASSUME OverlayKeepsToItsTree, TreeInv, NEW command, Bound(command),
           command \notin {"groupmode", "movegroup"},
           NEW d \in Clients, Reachable(d), NEW rep \in Maybe,
           Become(Arrange(Merged(State, sel, d, rep)))
    PROVE  Lands
<1>0. PICK z : z = State
  OBVIOUS
<1>1. /\ z \in StateSet /\ Grown(z, Tileable(z)) /\ AllNeat(z)
      /\ z.ws = ws /\ z.sel = sel /\ z.active = active
  BY <1>0, Standing, StateIs
<1>2. PICK c \in Clients : c = z.sel /\ c \in Tileable(z) /\ z.ws[c] = z.active
  BY <1>0, <1>1, Selection, OneLayer
<1>3. d \in Tileable(z) /\ z.ws[d] = z.ws[c] /\ d # c
  BY <1>0, <1>1, <1>2, OneLayer, LeafOfIs DEF Reachable
<1>4. PICK In : In = Tileable(z) \ {c}
  OBVIOUS
<1>5. PICK r : r = RemoveClient(z, c, rep)
  OBVIOUS
<1>6. Grown(r, In) /\ SameView(z, r) /\ AllNeat(r)
  BY <1>1, <1>4, <1>5, RemoveClientKeeps
<1>7. PICK w \in Workspaces : w = z.ws[d]
  BY <1>1, <1>3, LeafOfIs
<1>8. PICK t : t = [r EXCEPT !.ws[c] = w, !.hint[c] = NoHint]
  OBVIOUS
<1>9. t \in StateSet /\ SameView(z, t) /\ t.tree = r.tree
  <2>1. r \in StateSet /\ r.ws = z.ws /\ NoHint \in HintSet
    BY <1>6, AHint DEF Grown, SameView
  <2>2. /\ t \in StateSet /\ t.tree = r.tree /\ t.ws = [r.ws EXCEPT ![c] = w]
        /\ t.active = r.active /\ t.overlay = r.overlay /\ t.floating = r.floating
        /\ t.sel = r.sel
    BY <1>8, <2>1 DEF StateSet
  <2>3. [z.ws EXCEPT ![c] = w] = z.ws
    BY <1>1, <1>3, <1>7, StateFields
  <2> QED BY <1>6, <2>1, <2>2, <2>3 DEF SameView
<1>10. Grown(t, In) /\ AllNeat(t)
  BY <1>6, <1>9 DEF Grown, SameView, AllNeat
<1>11. PICK n : n = LeafOf(t, d)
  OBVIOUS
<1>12. /\ Owner(t, d) = w /\ n \in t.tree[w] /\ n \in Leaves
       /\ c \in Clients \ In /\ t.ws[c] = w
  <2>1. d \in In /\ t.ws[d] = w /\ t.ws[c] = w
    BY <1>3, <1>4, <1>7, <1>9 DEF SameView
  <2> QED BY <1>4, <1>10, <1>11, <2>1, LeafOfIs
<1>13. c \notin TabsOf(n)
  BY <1>10, <1>12, LeafOfIs
<1>14. PICK m : m = AddTab(n, c, InsertAfterCurrent)
  OBVIOUS
<1>15. m \in Leaves /\ TabsOf(m) = TabsOf(n) \cup {c}
  BY <1>12, <1>13, <1>14, TabAdded, TreeConstants
<1>16. PICK u : u = Change(t, w, n, m)
  OBVIOUS
<1>17. Grown(u, In \cup {c}) /\ SameView(t, u) /\ AllNeat(u)
  BY <1>10, <1>12, <1>15, <1>16, Joined
<1>18. In \cup {c} = Tileable(z)
  BY <1>2, <1>4
<1>19. SameView(z, u) /\ Tidy(u)
  BY <1>9, <1>17, NeatIsTidy DEF SameView
<1>20. u = Merged(z, c, d, rep)
  BY <1>5, <1>7, <1>8, <1>11, <1>12, <1>14, <1>16 DEF Merged
<1> QED BY <1>0, <1>1, <1>2, <1>17, <1>18, <1>19, <1>20, CommandLands

\* A whole group goes into the leaf of another client.
LEMMA MergedGroupLands ==
    ASSUME OverlayKeepsToItsTree, TreeInv, NEW command, Bound(command),
           command \notin {"groupmode", "movegroup"},
           NEW d \in Clients, Reachable(d), LeafOf(State, sel) # LeafOf(State, d),
           Become(Arrange(MergedGroup(State, d)))
    PROVE  Lands
<1>0. PICK z : z = State
  OBVIOUS
<1>1. /\ z \in StateSet /\ Grown(z, Tileable(z)) /\ AllNeat(z)
      /\ z.ws = ws /\ z.sel = sel /\ z.active = active
      /\ Forest(z.tree, z.ws, Tileable(z)) /\ z.tree \in [Workspaces -> SUBSET Leaves]
  BY <1>0, Standing, StateIs, StateFields DEF Grown
<1>2. PICK c \in Clients : c = z.sel /\ c \in Tileable(z) /\ z.ws[c] = z.active
  BY <1>0, <1>1, Selection, OneLayer
<1>3. d \in Tileable(z) /\ z.ws[d] = z.ws[c] /\ d # c
  BY <1>0, <1>1, <1>2, OneLayer, LeafOfIs DEF Reachable
<1>4. PICK w \in Workspaces : w = z.ws[d]
  BY <1>1, <1>3, LeafOfIs
<1>5. PICK src, dst : src = LeafOf(z, c) /\ dst = LeafOf(z, d)
  OBVIOUS
<1>6. /\ src \in z.tree[w] /\ src \in Leaves /\ dst \in z.tree[w] /\ dst \in Leaves
      /\ c \in TabsOf(src) /\ d \in TabsOf(dst) /\ src # dst
  BY <1>0, <1>1, <1>2, <1>3, <1>4, <1>5, LeafOfIs
<1>7. /\ src.tabs # <<>> /\ dst.tabs # <<>> /\ TabsOf(dst) \cap TabsOf(src) = {}
      /\ \A e \in TabsOf(src) \cup TabsOf(dst) : z.ws[e] = w /\ e \in Tileable(z)
  BY <1>1, <1>6, LeafOfIs, LeafFacts
<1>8. PICK m : m = AddTabs(dst, src.tabs, InsertAfterCurrent)
  OBVIOUS
<1>9. m \in Leaves /\ TabsOf(m) = TabsOf(dst) \cup TabsOf(src)
  BY <1>6, <1>7, <1>8, TabsAdded, TreeConstants
<1>10. PICK X : X = (z.tree[w] \ {src, dst}) \cup {m}
  OBVIOUS
<1>11. Forest([z.tree EXCEPT ![w] = X], z.ws, Tileable(z))
  <2>1. PICK U : U = TabsOf(m)
    OBVIOUS
  <2>2. PICK In : In = Tileable(z)
    OBVIOUS
  <2>3. PICK old : old = {src, dst}
    OBVIOUS
  <2>4. Held(U, old) /\ Held(U, {m})
    BY <1>9, <2>1, <2>3 DEF Held
  <2>5. U \cap (In \ U) = {} /\ (In \ U) \cup U = In /\ \A e \in U : z.ws[e] = w
    BY <1>7, <1>9, <2>1, <2>2
  <2>6. old \in SUBSET z.tree[w] /\ {m} \in SUBSET Leaves /\ Forest(z.tree, z.ws, In)
    BY <1>1, <1>6, <1>9, <2>2, <2>3
  <2>7. \A k, l \in {m} : \A e \in TabsOf(k) : e \in TabsOf(l) => k = l
    OBVIOUS
  <2>8. \A e \in In \ U : z.ws[e] = z.ws[e]
    OBVIOUS
  <2>9. Forest([z.tree EXCEPT ![w] = (z.tree[w] \ old) \cup {m}], z.ws, (In \ U) \cup U)
    BY ONLY <2>4, <2>5, <2>6, <2>7, <2>8, w \in Workspaces, Grafted, Zenon
  <2> QED BY <1>10, <2>2, <2>3, <2>5, <2>9
<1>12. PICK T : T = [z.tree EXCEPT ![w] = X]
  OBVIOUS
<1>13. T = [v \in Workspaces |-> {IF n = dst THEN m ELSE n : n \in z.tree[v] \ {src}}]
  <2>1. ASSUME NEW v \in Workspaces, v # w PROVE src \notin z.tree[v] /\ dst \notin z.tree[v]
    BY <1>1, <1>4, <1>6, <1>7, <2>1, LeafOfIs
  <2>2. ASSUME NEW v \in Workspaces
        PROVE  T[v] = {IF n = dst THEN m ELSE n : n \in z.tree[v] \ {src}}
    <3>1. CASE v = w
      <4>1. T[v] = (z.tree[w] \ {src, dst}) \cup {m}
        BY <1>1, <1>10, <1>12, <3>1
      <4> QED BY <1>6, <3>1, <4>1
    <3>2. CASE v # w
      <4>1. T[v] = z.tree[v]
        BY <1>1, <1>12, <3>2
      <4> QED BY <2>1, <3>2, <4>1
    <3> QED BY <3>1, <3>2
  <2>3. T \in [Workspaces -> SUBSET Leaves]
    BY <1>11, <1>12 DEF Forest
  <2> QED BY <2>2, <2>3
<1>14. PICK h : h = [e \in Clients |-> IF e \in TabsOf(src) THEN NoHint ELSE z.hint[e]]
  OBVIOUS
<1>15. PICK t : t = [z EXCEPT !.tree = T, !.hint = h]
  OBVIOUS
<1>16. /\ T \in [Workspaces -> SUBSET Leaves] /\ h \in [Clients -> HintSet]
  BY <1>1, <1>11, <1>12, <1>14, AHint, StateFields DEF Forest
<1>17. t \in StateSet /\ SameView(z, t) /\ t.tree = T
  BY <1>1, <1>15, <1>16 DEF StateSet, SameView
<1>18. Grown(t, Tileable(z))
  BY <1>1, <1>11, <1>12, <1>17 DEF Grown, SameView
<1>19. AllNeat(t)
  <2>1. TreeIs(z, t, w, X)
    BY <1>1, <1>12, <1>17 DEF TreeIs
  <2>2. m.tabs # <<>>
    BY <1>6, <1>9, LeafFacts
  <2>3. \A n \in z.tree[w] : n.tabs # <<>>
    BY <1>1, <1>6, <1>7 DEF AllNeat, Neat
  <2>4. Neat(X)
    BY <1>10, <2>2, <2>3 DEF Neat
  <2> QED BY <1>1, <2>1, <2>4, AllNeatChange
<1>20. t = MergedGroup(z, d)
  <2>1. PICK p : p = [e \in Clients |-> IF e \in TabsOf(src) THEN z.ws[d] ELSE z.ws[e]]
    OBVIOUS
  <2>2. p = z.ws
    BY <1>1, <1>4, <1>7, <2>1, StateFields
  <2>3. MergedGroup(z, d) = [z EXCEPT !.tree = T, !.ws = p, !.hint = h]
    <3>1. MergedGroup(z, d) =
            [z EXCEPT
               !.tree = [v \in Workspaces |->
                           {IF n = dst THEN AddTabs(n, src.tabs, InsertAfterCurrent) ELSE n :
                              n \in @[v] \ {src}}],
               !.ws = [e \in Clients |-> IF e \in ToSet(src.tabs) THEN z.ws[d] ELSE @[e]],
               !.hint = [e \in Clients |-> IF e \in ToSet(src.tabs) THEN NoHint ELSE @[e]]]
      BY <1>2, <1>5, Zenon DEF MergedGroup
    <3>2. [v \in Workspaces |->
             {IF n = dst THEN AddTabs(n, src.tabs, InsertAfterCurrent) ELSE n :
                n \in z.tree[v] \ {src}}] = T
      BY <1>8, <1>13, Zenon
    <3>3. /\ [e \in Clients |-> IF e \in ToSet(src.tabs) THEN z.ws[d] ELSE z.ws[e]] = p
          /\ [e \in Clients |-> IF e \in ToSet(src.tabs) THEN NoHint ELSE z.hint[e]] = h
      BY <1>14, <2>1, Zenon DEF TabsOf
    <3> QED BY <3>1, <3>2, <3>3
  <2>4. [z EXCEPT !.tree = T, !.ws = p, !.hint = h] = t
    BY <1>1, <1>15, <2>2 DEF StateSet
  <2> QED BY <2>3, <2>4
<1>21. Tidy(t)
  BY <1>19, NeatIsTidy
<1> QED BY <1>0, <1>17, <1>18, <1>20, <1>21, CommandLands

\* movemouse released over another client.
LEMMA DropOnSound ==
    ASSUME OverlayKeepsToItsTree, TreeInv, NEW d \in Clients, DropOn(d)
    PROVE  Lands
<1>1. Bound("movemouse") /\ Reachable(d) /\ Neighbours(State, sel) \subseteq Maybe
  BY NeighboursAre DEF DropOn
<1>2. PICK src, dst : src = LeafOf(State, sel) /\ dst = LeafOf(State, d)
  OBVIOUS
<1>3. \/ Become(Arrange(Swapped(State, d)))
      \/ src # dst /\ Become(Arrange(MergedGroup(State, d)))
      \/ \E rep \in Neighbours(State, sel) : Become(Arrange(Merged(State, sel, d, rep)))
  BY <1>2 DEF DropOn
<1>4. CASE Become(Arrange(Swapped(State, d)))
  BY <1>1, <1>4, SwappedLands
<1>5. CASE src # dst /\ Become(Arrange(MergedGroup(State, d)))
  BY <1>1, <1>2, <1>5, MergedGroupLands
<1>6. CASE \E rep \in Neighbours(State, sel) : Become(Arrange(Merged(State, sel, d, rep)))
  BY <1>1, <1>6, MergedLands
<1> QED BY <1>3, <1>4, <1>5, <1>6

-----------------------------------------------------------------------------
(* Every step.                                                             *)

\* A step that lands leaves a sound state, and every managed client managed.
LEMMA LandsSoundly ==
    ASSUME NEW t, Become(t), Sound(t)
    PROVE  State' = t /\ TreeInv'
<1>1. t \in StateSet
  BY DEF Sound, Settled, Grown
<1>2. State' = t
  BY <1>1, Became
<1>3. Sound(State')
  BY <1>2
<1> QED BY <1>2, <1>3 DEF TreeInv

\* Every action but the release of a client.
LEMMA StepLands ==
    ASSUME OverlayKeepsToItsTree, TreeInv, Next
    PROVE  Lands \/ \E c \in Clients : Release(c)
<1>1. CASE \E c \in Clients, w \in Workspaces : Map(c, w)
  BY <1>1, MapSound DEF Lands
<1>2. CASE \E c \in Clients : Float(c) \/ Unfloat(c) \/ FocusClient(c)
  BY <1>2, FloatSound, UnfloatSound, FocusClientSound
<1>3. CASE \E c \in Clients : SendToGroup(c) \/ SwapWindow(c) \/ MoveIntoGroup(c) \/ DropOn(c)
  BY <1>3, SendToGroupSound, SwapWindowSound, MoveIntoGroupSound, DropOnSound
<1>4. CASE \E w \in Workspaces :
             ViewWorkspace(w) \/ \E silent \in BOOLEAN : MoveToWorkspace(w, silent)
  BY <1>4, ViewSound, MoveToWorkspaceSound
<1>5. CASE \E direction \in {-1, 1} : MoveGroup(direction)
  BY <1>5, MoveGroupSound
<1>6. CASE HideOverlay \/ GroupMode \/ MoveOutOfGroup \/ MoveToRoot
  BY <1>6, HideOverlaySound, GroupModeSound, MoveOutOfGroupSound, MoveToRootSound
<1> QED BY <1>1, <1>2, <1>3, <1>4, <1>5, <1>6 DEF Next

\* The invariant is inductive.
LEMMA StepKeeps ==
    ASSUME OverlayKeepsToItsTree, TreeInv, [Next]_vars
    PROVE  TreeInv'
<1>1. CASE UNCHANGED vars
  <2>1. State' = State
    BY <1>1 DEF vars, State
  <2>2. Sound(State')
    BY <2>1 DEF TreeInv
  <2> QED BY <2>2 DEF TreeInv
<1>2. CASE Lands
  BY <1>2, LandsSoundly DEF Lands
<1>3. CASE \E c \in Clients : Release(c)
  BY <1>3, ReleaseSound, LandsSoundly
<1> QED BY <1>1, <1>2, <1>3, StepLands

LEMMA InitKeeps == Init => TreeInv
BY InitSound DEF TreeInv

\* The trees hold the clients they should, whatever happens.
THEOREM TreesAreSound ==
    ASSUME OverlayKeepsToItsTree
    PROVE  Spec => []TreeInv
<1>1. TreeInv /\ [Next]_vars => TreeInv'
  BY StepKeeps
<1> QED BY <1>1, InitKeeps, PTL DEF Spec

-----------------------------------------------------------------------------
(* What the trees promise.                                                 *)

\* The active and the previous tab of a leaf are tabs of it.
LEMMA IndicesHold == ASSUME TreeInv PROVE TabIndices
<1>1. State \in StateSet
  BY Standing
<1>2. \A w \in Workspaces : \A n \in tree[w] : n \in Leaves
  BY <1>1, StateIs, StateFields
<1> QED BY <1>2, LeafFacts DEF TabIndices

\* No shown tile is empty.
LEMMA TilesHold == ASSUME TreeInv PROVE NoEmptyTile
<1>1. NoGaps(State)
  BY DEF TreeInv, Sound
<1> QED BY <1>1, StateIs DEF NoGaps, Neat, Full, NoEmptyTile

\* Every tiled client is one tab of one leaf.
LEMMA TiledOnce == ASSUME TreeInv PROVE EachTiledOnce
<1>0. PICK z : z = State
  OBVIOUS
<1>1. /\ z \in StateSet /\ Grown(z, Tileable(z)) /\ z.ws = ws /\ z.tree = tree
      /\ z.floating = floating
  BY <1>0, Standing, StateIs
<1>2. \A w \in Workspaces : \A n \in tree[w] : n \in Leaves
  BY <1>1, StateFields
<1>3. ASSUME NEW c, NEW p
      PROVE  p \in Places(c) <=> \E w \in Workspaces : \E n \in tree[w] :
                                   \E j \in DOMAIN n.tabs : n.tabs[j] = c /\ p = <<w, n, j>>
  BY DEF Places
<1>4. ASSUME NEW c \in Clients, ws[c] = NoWorkspace \/ c \in floating PROVE Places(c) = {}
  <2>1. c \notin Tileable(z)
    BY <1>1, <1>4 DEF Tileable
  <2>2. ASSUME NEW p \in Places(c) PROVE FALSE
    <3>1. PICK w \in Workspaces : \E n \in tree[w] : \E j \in DOMAIN n.tabs : n.tabs[j] = c
      BY <1>3
    <3>2. PICK n \in tree[w] : \E j \in DOMAIN n.tabs : n.tabs[j] = c
      BY <3>1
    <3>3. c \in TabsOf(n)
      BY <1>2, <3>2, LeafFacts
    <3> QED BY <1>1, <2>1, <3>3, LeafOfIs
  <2> QED BY <2>2
<1>5. ASSUME NEW c \in Clients, ws[c] # NoWorkspace, c \notin floating
      PROVE  \E n \in tree[ws[c]] : Places(c) = {<<ws[c], n, Position(n, c)>>}
  <2>1. c \in Tileable(z)
    BY <1>1, <1>5 DEF Tileable
  <2>2. PICK n : n = LeafOf(z, c)
    OBVIOUS
  <2>3. n \in tree[ws[c]] /\ n \in Leaves /\ c \in TabsOf(n) /\ ws[c] \in Workspaces
    BY <1>1, <2>1, <2>2, LeafOfIs
  <2>4. /\ Position(n, c) \in DOMAIN n.tabs /\ n.tabs[Position(n, c)] = c
        /\ \A j \in DOMAIN n.tabs : n.tabs[j] = c => j = Position(n, c)
    BY <2>3, LeafFacts, PositionIs
  <2>5. <<ws[c], n, Position(n, c)>> \in Places(c)
    BY <1>3, <2>3, <2>4
  <2>6. ASSUME NEW p \in Places(c) PROVE p = <<ws[c], n, Position(n, c)>>
    <3>1. PICK w \in Workspaces : \E m \in tree[w] : \E j \in DOMAIN m.tabs :
            m.tabs[j] = c /\ p = <<w, m, j>>
      BY <1>3
    <3>2. PICK m \in tree[w] : \E j \in DOMAIN m.tabs : m.tabs[j] = c /\ p = <<w, m, j>>
      BY <3>1
    <3>3. c \in TabsOf(m)
      BY <1>2, <3>2, LeafFacts
    <3>4. m = n /\ w = ws[c]
      BY <1>1, <2>2, <3>3, LeafOfIs
    <3> QED BY <2>4, <3>2, <3>4
  <2> QED BY <2>3, <2>5, <2>6
<1> QED BY <1>4, <1>5 DEF EachTiledOnce

\* When a tab closes, the focus stays in its group.
LEMMA FocusStays ==
    ASSUME OverlayKeepsToItsTree, TreeInv, [Next]_vars, NEW c \in Clients,
           overlay = overlay', sel = c, ws[c] # NoWorkspace, ws'[c] = NoWorkspace,
           FocusRemoved # "leave", Tiled(State, c), Len(LeafOf(State, c).tabs) > 1
    PROVE  sel' \in ToSet(LeafOf(State, c).tabs) \ {c}
<1>1. CASE UNCHANGED vars
  BY <1>1 DEF vars
<1>2. CASE Lands
  <2>1. PICK t : Become(t) /\ NoneReleased(State, t)
    BY <1>2 DEF Lands
  <2> QED BY <2>1, StateIs DEF Become, NoneReleased
<1>3. CASE \E d \in Clients : Release(d)
  <2>1. PICK d \in Clients : Release(d)
    BY <1>3
  <2>2. PICK t : /\ Become(t) /\ Sound(t)
                 /\ \A e \in Clients \ {d} : State.ws[e] # NoWorkspace => t.ws[e] # NoWorkspace
                 /\ (/\ t.overlay = overlay /\ sel = d /\ FocusRemoved # "leave"
                     /\ Tiled(State, d) /\ Len(LeafOf(State, d).tabs) > 1)
                    => t.sel \in ToSet(LeafOf(State, d).tabs) \ {d}
    BY <2>1, ReleaseSound
  <2>3. t.ws = ws' /\ t.overlay = overlay' /\ t.sel = sel'
    BY <2>2 DEF Become
  <2>4. c = d
    BY <2>2, <2>3, StateIs
  <2> QED BY <2>2, <2>3, <2>4
<1> QED BY <1>1, <1>2, <1>3, StepLands

\* EachTiledOnce: neither closing, nor moving, floating, grouping, peeling or dragging
\* loses a window, frees a leaf under it, or leaves a copy of it in another tree.
THEOREM WindowsAreTiledOnce ==
    ASSUME OverlayKeepsToItsTree
    PROVE  Spec => []EachTiledOnce
<1>1. TreeInv => EachTiledOnce
  BY TiledOnce
<1> QED BY <1>1, TreesAreSound, PTL

\* TabIndices: the active and the previously active tab of a group are tabs of it.
THEOREM GroupsKeepTheirIndices ==
    ASSUME OverlayKeepsToItsTree
    PROVE  Spec => []TabIndices
<1>1. TreeInv => TabIndices
  BY IndicesHold
<1> QED BY <1>1, TreesAreSound, PTL

\* NoEmptyTile: no tile of a shown workspace is empty.
THEOREM TilesAreFilled ==
    ASSUME OverlayKeepsToItsTree
    PROVE  Spec => []NoEmptyTile
<1>1. TreeInv => NoEmptyTile
  BY TilesHold
<1> QED BY <1>1, TreesAreSound, PTL

\* FocusStaysInGroup: when the focused tab of a group closes, another tab of that group
\* gets the focus.
THEOREM FocusStaysAmongTabs ==
    ASSUME OverlayKeepsToItsTree
    PROVE  Spec => FocusStaysInGroup
<1> DEFINE stays ==
      \A c \in Clients :
         /\ overlay = overlay'
         /\ sel = c /\ ws[c] # NoWorkspace /\ ws'[c] = NoWorkspace
         /\ FocusRemoved # "leave"
         /\ Tiled(State, c) /\ Len(LeafOf(State, c).tabs) > 1
         => sel' \in ToSet(LeafOf(State, c).tabs) \ {c}
<1>1. TreeInv /\ [Next]_vars => [stays]_vars
  BY FocusStays
<1>2. Spec => [][stays]_vars
  <2> HIDE DEF stays
  <2> QED BY <1>1, TreesAreSound, PTL DEF Spec
<1> QED BY <1>2 DEF FocusStaysInGroup

-----------------------------------------------------------------------------
(* A client leaves its tree and comes back.                                *)

\* What bsp_remove_client leaves of the tree, and the hint it gives.
LEMMA RemoveClientIs ==
    ASSUME NEW s, NEW In, Grown(s, In), NEW c \in In, NEW rep \in Maybe
    PROVE  LET n == LeafOf(s, c)
               w == s.ws[c]
               t == RemoveClient(s, c, rep)
           IN  /\ t.tree[w] = IF Len(n.tabs) = 1 /\ s.tree[w] # {n} THEN s.tree[w] \ {n}
                              ELSE (s.tree[w] \ {n}) \cup {RemoveTab(n, c)}
               /\ t.hint[c] = HintFor(n, c, rep)
<1>1. PICK n, w : n = LeafOf(s, c) /\ w = s.ws[c]
  OBVIOUS
<1>2. /\ w \in Workspaces /\ Owner(s, c) = w /\ Tiled(s, c) /\ c \in Clients
      /\ n \in s.tree[w] /\ n \in Leaves /\ c \in TabsOf(n)
  BY <1>1, LeafOfIs
<1>3. PICK m : m = RemoveTab(n, c)
  OBVIOUS
<1>4. PICK h \in HintSet : h = HintFor(n, c, rep)
  BY <1>2, AHint
<1>5. s \in StateSet /\ s.tree \in [Workspaces -> SUBSET Leaves]
  BY StateFields DEF Grown
<1>6. Grown(s, In)
  OBVIOUS
<1> DEFINE collapses == Len(n.tabs) = 1 /\ s.tree[w] # {n}
<1>7. PICK out : out = (IF collapses THEN [s EXCEPT !.tree[w] = @ \ {n}] ELSE Untab(s, c))
  OBVIOUS
<1>8. RemoveClient(s, c, rep) = [out EXCEPT !.hint[c] = h]
  BY <1>1, <1>2, <1>4, <1>7 DEF RemoveClient
<1> HIDE DEF collapses
<1>9. out \in StateSet /\ out.tree[w] = IF collapses THEN s.tree[w] \ {n} ELSE (s.tree[w] \ {n}) \cup {m}
  <2>1. CASE collapses
    <3>1. out = [s EXCEPT !.tree[w] = s.tree[w] \ {n}]
      BY <1>7, <2>1
    <3>2. s.tree[w] \ {n} \in SUBSET Leaves
      BY <1>2, <1>5
    <3>3. out \in StateSet /\ out.tree = [s.tree EXCEPT ![w] = s.tree[w] \ {n}]
      BY <1>2, <1>5, <3>1, <3>2, Replanted
    <3> QED BY <1>2, <1>5, <2>1, <3>3
  <2>2. CASE ~collapses
    <3>1. out = Untab(s, c)
      BY <1>7, <2>2
    <3>2. LET k == LeafOf(s, c)
              v == s.ws[c]
              l == RemoveTab(k, c)
          IN  /\ Grown(Untab(s, c), In \ {c}) /\ SameView(s, Untab(s, c))
              /\ Untab(s, c).hint = s.hint
              /\ TreeIs(s, Untab(s, c), v, (s.tree[v] \ {k}) \cup {l})
              /\ l \in Leaves /\ TabsOf(l) = TabsOf(k) \ {c}
      BY <1>6, UntabKeeps, Zenon
    <3>3. Grown(out, In \ {c}) /\ TreeIs(s, out, w, (s.tree[w] \ {n}) \cup {m})
      BY <1>1, <1>3, <3>1, <3>2
    <3> QED BY <2>2, <3>3 DEF TreeIs, Grown
  <2> QED BY <2>1, <2>2
<1>10. PICK t : t = [out EXCEPT !.hint[c] = h]
  OBVIOUS
<1>11. t.tree = out.tree /\ t.hint[c] = h
  BY <1>2, <1>9, <1>10 DEF StateSet
<1> QED BY <1>1, <1>3, <1>4, <1>8, <1>9, <1>10, <1>11 DEF collapses

\* What the arrange pass makes of a shown tree.
LEMMA ArrangeShown ==
    ASSUME NEW s, Settled(s), NEW w \in Workspaces, w \in {s.active, s.overlay}
    PROVE  /\ Arrange(s).tree[w] = {n \in s.tree[w] : n.tabs # <<>>}
           /\ Arrange(s).hint = s.hint
<1>0. s.active \in Workspaces /\ s.overlay \in Tags \cup {NoTag} /\ NoTag \notin Workspaces
  BY StateFields, TreeConstants DEF Settled, Grown
<1>1. PICK t : t = Prepare(s, s.active)
  OBVIOUS
<1>2. /\ Settled(t) /\ SameView(s, t) /\ t.hint = s.hint
      /\ TreeIs(s, t, s.active, {n \in s.tree[s.active] : n.tabs # <<>>})
  BY <1>0, <1>1, PrepareKeeps
<1>3. CASE s.overlay = NoTag \/ s.tree[s.overlay] = {}
  <2>1. Arrange(s) = t
    BY <1>1, <1>3 DEF Arrange
  <2>2. CASE w = s.active
    BY <1>2, <2>1, <2>2 DEF TreeIs
  <2>3. CASE w # s.active
    <3>1. s.tree[w] = {} /\ t.tree[w] = s.tree[w]
      BY <1>0, <1>2, <1>3, <2>3 DEF TreeIs
    <3> QED BY <1>2, <2>1, <3>1
  <2> QED BY <2>2, <2>3
<1>4. CASE ~(s.overlay = NoTag \/ s.tree[s.overlay] = {})
  <2>1. PICK u : u = Prepare(t, s.overlay)
    OBVIOUS
  <2>2. Arrange(s) = u
    BY <1>1, <1>4, <2>1 DEF Arrange
  <2>3. s.overlay \in Workspaces /\ s.overlay # s.active
    BY <1>0, <1>4, StateFields, TreeConstants DEF Workspaces, Settled, Grown
  <2>4. /\ u.hint = t.hint
        /\ TreeIs(t, u, s.overlay, {n \in t.tree[s.overlay] : n.tabs # <<>>})
    BY <1>2, <2>1, <2>3, PrepareKeeps
  <2> QED BY <1>0, <1>2, <2>2, <2>3, <2>4 DEF TreeIs
<1> QED BY <1>3, <1>4

\* A tab taken out and put back at its position.
LEMMA TabPutBack ==
    ASSUME NEW n \in Leaves, NEW c \in TabsOf(n), NEW m, m = RemoveTab(n, c), m.tabs # <<>>
    PROVE  AddTabAt(m, c, Position(n, c)).tabs = n.tabs
<1>1. PICK q : q = n.tabs
  OBVIOUS
<1>2. q \in Seq(Clients) /\ IsInjective(q) /\ Len(q) \in Nat /\ c \in Clients
  BY <1>1, LeafFacts
<1>3. PICK i \in 1..Len(q) : i = Position(n, c) /\ q[i] = c
  BY <1>1, PositionIs
<1>4. PICK r : r = RemoveAt(q, i)
  OBVIOUS
<1>5. /\ r \in Seq(Clients) /\ IsInjective(r) /\ Len(r) = Len(q) - 1
      /\ ToSet(r) = ToSet(q) \ {q[i]}
      /\ \A j \in 1..Len(r) : r[j] = IF j < i THEN q[j] ELSE q[j + 1]
  BY <1>2, <1>4, RemovedAt, Zenon
<1>6. m \in LeafSet /\ m.tabs = r
  <2>1. n \in LeafSet
    BY DEF Leaves
  <2>2. m \in Leaves
    BY TabRemoved
  <2> QED BY <1>1, <1>3, <1>4, <2>1, <2>2 DEF Leaves, RemoveTab, LeafSet
<1>7. PICK k : k = InsertAt(r, i, c)
  OBVIOUS
<1>8. WithElement(k, Clients, r, i, c)
  <2>1. i \in 1..(Len(r) + 1) /\ c \notin ToSet(r)
    BY <1>2, <1>3, <1>5
  <2> QED BY <1>2, <1>5, <1>7, <2>1, InsertedAt, Zenon
<1>9. k = q
  <2>1. /\ k \in Seq(Clients) /\ Len(k) = Len(r) + 1
        /\ \A j \in 1..Len(k) : k[j] = IF j < i THEN r[j] ELSE IF j = i THEN c ELSE r[j - 1]
    BY <1>8 DEF WithElement
  <2>2. Len(k) = Len(q)
    BY <1>2, <1>5, <2>1
  <2>3. ASSUME NEW j \in 1..Len(q) PROVE k[j] = q[j]
    <3>1. CASE j < i
      <4>1. j \in 1..Len(r)
        BY <1>2, <1>5, <3>1
      <4> QED BY <1>5, <2>1, <2>2, <3>1, <4>1
    <3>2. CASE j = i
      BY <1>3, <2>1, <2>2, <3>2
    <3>3. CASE j > i
      <4>1. PICK l \in 1..Len(r) : l = j - 1 /\ ~(l < i) /\ l + 1 = j
        BY <1>2, <1>5, <3>3
      <4>2. k[j] = r[l] /\ r[l] = q[l + 1]
        BY <1>5, <2>1, <2>2, <3>3, <4>1
      <4> QED BY <4>1, <4>2
    <3> QED BY <3>1, <3>2, <3>3
  <2> QED BY <1>2, <2>1, <2>2, <2>3
<1>10. AddTabAt(m, c, i).tabs = k
  <2>1. (IF i > Len(r) THEN Len(r) + 1 ELSE i) = i
    BY <1>2, <1>5
  <2> QED BY <1>6, <1>7, <2>1 DEF AddTabAt, LeafSet
<1> QED BY <1>1, <1>3, <1>9, <1>10

\* A client comes back beside its neighbour, or to an empty tree ...
LEMMA AddedBeside ==
    ASSUME NEW s \in StateSet, NEW c \in Clients, c \notin s.floating, s.ws[c] \in Workspaces,
           s.hint[c].peer = NoClient,
           s.hint[c].beside \in Rejoinable(s, c) \/ s.tree[s.ws[c]] = {}, NEW target
    PROVE  AddClient(s, c, target).tree[s.ws[c]] =
             s.tree[s.ws[c]] \cup {AddTab(EmptyLeaf, c, FALSE)}
<1>1. PICK w \in Workspaces : w = s.ws[c]
  OBVIOUS
<1>2. NoClient \notin Rejoinable(s, c)
  BY TreeConstants DEF Rejoinable
<1>3. AddClient(s, c, target) = [Plant(s, w, c) EXCEPT !.hint[c] = NoHint]
  BY <1>1, <1>2 DEF AddClient
<1>4. PICK k : k = AddTab(EmptyLeaf, c, FALSE)
  OBVIOUS
<1>5. PICK p : p = [s EXCEPT !.tree[w] = s.tree[w] \cup {k}]
  OBVIOUS
<1>6. p = Plant(s, w, c)
  BY <1>4, <1>5 DEF Plant
<1>7. s.tree[w] \cup {k} \in SUBSET Leaves /\ s.tree \in [Workspaces -> SUBSET Leaves]
  BY <1>4, NewLeaf, StateFields
<1>8. p \in StateSet /\ p.tree = [s.tree EXCEPT ![w] = s.tree[w] \cup {k}]
  BY <1>5, <1>7, Replanted
<1>9. PICK t : t = [p EXCEPT !.hint[c] = NoHint]
  OBVIOUS
<1>10. t.tree = p.tree
  BY <1>8, <1>9 DEF StateSet
<1>11. t.tree[w] = s.tree[w] \cup {k}
  BY <1>7, <1>8, <1>10
<1> QED BY <1>1, <1>3, <1>4, <1>6, <1>9, <1>11

\* ... or to its position in its group.
LEMMA AddedBack ==
    ASSUME NEW s, NEW In, Grown(s, In), NEW c \in Clients \ In, c \notin s.floating,
           s.ws[c] \in Workspaces, s.hint[c].beside = NoClient,
           s.hint[c].peer \in Rejoinable(s, c), s.hint[c].slot # 0, NEW target
    PROVE  LET m == LeafOf(s, s.hint[c].peer)
           IN  AddClient(s, c, target).tree[s.ws[c]] =
                 (s.tree[s.ws[c]] \ {m}) \cup {AddTabAt(m, c, s.hint[c].slot)}
<1>1. PICK w \in Workspaces : w = s.ws[c]
  OBVIOUS
<1>2. NoClient \notin Rejoinable(s, c)
  BY TreeConstants DEF Rejoinable
<1>3. PICK d \in In : d = s.hint[c].peer /\ s.ws[d] = w
  BY <1>1, LeafOfIs DEF Rejoinable
<1>4. PICK m : m = LeafOf(s, d)
  OBVIOUS
<1>5. m \in s.tree[w] /\ m \in Leaves /\ d \in TabsOf(m) /\ c \notin TabsOf(m)
  BY <1>3, <1>4, LeafOfIs
<1>6. m.tabs # <<>>
  BY <1>5, LeafFacts
<1>7. s \in StateSet /\ s.tree \in [Workspaces -> SUBSET Leaves] /\ s.hint[c] \in HintSet
  BY StateFields DEF Grown
<1>8. PICK slot \in Nat \ {0} : slot = s.hint[c].slot
  BY <1>7 DEF HintSet
<1>9. PICK k : k = AddTabAt(m, c, slot)
  OBVIOUS
<1>10. k \in Leaves
  BY <1>5, <1>6, <1>9, TabAddedAt
<1>11. PICK p : p = [s EXCEPT !.tree[w] = (s.tree[w] \ {m}) \cup {k}]
  OBVIOUS
<1>12. Attach(s, c, m) = p
  BY <1>1, <1>6, <1>8, <1>9, <1>11 DEF Attach, Change
<1>13. AddClient(s, c, target) = [p EXCEPT !.hint[c] = NoHint]
  <2>1. s.tree[w] # {} /\ s.hint[c].beside \notin Rejoinable(s, c)
    BY <1>2, <1>5
  <2> QED BY <1>1, <1>3, <1>4, <1>12, <2>1 DEF AddClient
<1>14. p \in StateSet /\ p.tree = [s.tree EXCEPT ![w] = (s.tree[w] \ {m}) \cup {k}]
  <2>1. (s.tree[w] \ {m}) \cup {k} \in SUBSET Leaves
    BY <1>7, <1>10
  <2> QED BY <1>7, <1>11, <2>1, Replanted
<1>15. PICK t : t = [p EXCEPT !.hint[c] = NoHint]
  OBVIOUS
<1>16. t.tree = p.tree
  BY <1>14, <1>15 DEF StateSet
<1>17. t.tree[w] = (s.tree[w] \ {m}) \cup {k}
  BY <1>7, <1>14, <1>16
<1> QED BY <1>1, <1>3, <1>4, <1>8, <1>9, <1>13, <1>15, <1>17

\* A visible tiled client that starts to float, and stops to.
LEMMA ComesBack ==
    ASSUME TreeInv, NEW c \in Clients, Tiled(State, c), Visible(State, c),
           NEW rep \in Neighbours(State, c), NEW out, NEW target \in Targets(out, ws[c]),
           out = Arrange(RemoveClient([State EXCEPT !.floating = @ \cup {c}], c, rep))
    PROVE  LET back == Arrange(AddClient([out EXCEPT !.floating = floating], c, target))
           IN  {n.tabs : n \in back.tree[ws[c]]} = {n.tabs : n \in tree[ws[c]]}
<1>0. PICK z : z = State
  OBVIOUS
<1>1. /\ z \in StateSet /\ Grown(z, Tileable(z)) /\ AllNeat(z) /\ z.ws = ws /\ z.tree = tree
      /\ z.floating = floating /\ NoGaps(z)
  BY <1>0, Standing, StateIs DEF Sound
<1>2. c \in Tileable(z)
  BY <1>0, <1>1, LeafOfIs
<1>3. PICK w \in Workspaces : w = z.ws[c]
  BY <1>1, <1>2, LeafOfIs
<1>4. PICK n : n = LeafOf(z, c)
  OBVIOUS
<1>5. /\ n \in z.tree[w] /\ n \in Leaves /\ c \in TabsOf(n) /\ Owner(z, c) = w
      /\ \A d \in TabsOf(n) : d \in Tileable(z) /\ z.ws[d] = w
  BY <1>1, <1>2, <1>3, <1>4, LeafOfIs
<1>6. w \in {z.active, z.overlay} /\ \A k \in z.tree[w] : k \in Leaves /\ k.tabs # <<>>
  <2>1. w \in {z.active, z.overlay}
    BY <1>0, <1>3 DEF Visible
  <2> QED BY <1>1, <2>1, StateFields DEF NoGaps, Full
<1>7. PICK s : s = [z EXCEPT !.floating = @ \cup {c}]
  OBVIOUS
<1>8. /\ s \in StateSet /\ s.tree = z.tree /\ s.ws = z.ws /\ s.active = z.active
      /\ s.overlay = z.overlay /\ s.floating = z.floating \cup {c}
  BY <1>1, <1>7 DEF StateSet
<1>9. Grown(s, Tileable(z)) /\ AllNeat(s)
  BY <1>1, <1>8 DEF Grown, AllNeat
<1>10. LeafOf(s, c) = n
  BY <1>3, <1>5, <1>8, <1>9, LeafOfIs
<1>11. PICK r : r = RemoveClient(s, c, rep)
  OBVIOUS
<1>12. rep \in Maybe
  BY NeighboursAre
<1>13. PICK In : In = Tileable(z) \ {c}
  OBVIOUS
<1>14. Grown(r, In) /\ SameView(s, r) /\ AllNeat(r)
  BY <1>9, <1>11, <1>12, <1>13, RemoveClientKeeps
<1>15. PICK m : m = RemoveTab(n, c)
  OBVIOUS
<1>16. m \in Leaves /\ TabsOf(m) = TabsOf(n) \ {c}
  BY <1>5, <1>15, TabRemoved
<1>17. /\ r.tree[w] = IF Len(n.tabs) = 1 /\ z.tree[w] # {n} THEN z.tree[w] \ {n}
                      ELSE (z.tree[w] \ {n}) \cup {m}
       /\ r.hint[c] = HintFor(n, c, rep)
  <2>1. PICK T : T = Tileable(z)
    OBVIOUS
  <2>2. Grown(s, T) /\ c \in T
    BY <1>2, <1>9, <2>1
  <2>3. LET k == LeafOf(s, c)
            v == s.ws[c]
            t == RemoveClient(s, c, rep)
        IN  /\ t.tree[v] = IF Len(k.tabs) = 1 /\ s.tree[v] # {k} THEN s.tree[v] \ {k}
                           ELSE (s.tree[v] \ {k}) \cup {RemoveTab(k, c)}
            /\ t.hint[c] = HintFor(k, c, rep)
    BY <1>12, <2>2, RemoveClientIs, Zenon
  <2>4. s.ws[c] = w /\ s.tree[w] = z.tree[w]
    BY <1>3, <1>8
  <2>5. r.tree[w] = IF Len(n.tabs) = 1 /\ z.tree[w] # {n} THEN z.tree[w] \ {n}
                    ELSE (z.tree[w] \ {n}) \cup {m}
    BY <1>10, <1>11, <1>15, <2>3, <2>4, Zenon
  <2>6. r.hint[c] = HintFor(n, c, rep)
    BY <1>10, <1>11, <2>3, Zenon
  <2> QED BY <2>5, <2>6
<1>18. Tileable(r) = In
  BY <1>8, <1>13, <1>14 DEF Tileable, SameView
<1>19. Settled(r) /\ Tidy(r) /\ w \in {r.active, r.overlay}
  BY <1>6, <1>8, <1>14, <1>18, NeatIsTidy DEF Settled, SameView
<1>20. /\ Settled(out) /\ SameView(r, out) /\ NoGaps(out)
       /\ out.tree[w] = {k \in r.tree[w] : k.tabs # <<>>} /\ out.hint = r.hint
  <2>1. out = Arrange(r)
    BY <1>0, <1>7, <1>11
  <2>2. Settled(out) /\ SameView(r, out) /\ NoGaps(out)
    BY <1>19, <2>1, ArrangeKeeps
  <2>3. out.tree[w] = {k \in r.tree[w] : k.tabs # <<>>} /\ out.hint = r.hint
    BY <1>19, <2>1, ArrangeShown
  <2> QED BY <2>2, <2>3
<1>21. PICK b : b = [out EXCEPT !.floating = z.floating]
  OBVIOUS
<1>22. /\ b \in StateSet /\ b.tree = out.tree /\ b.ws = z.ws /\ b.hint = r.hint
       /\ b.floating = z.floating /\ b.active = z.active /\ b.overlay = z.overlay
  BY <1>1, <1>8, <1>14, <1>20, <1>21 DEF StateSet, SameView, Settled, Grown
<1>23. Grown(b, In) /\ AllNeat(b)
  <2>1. Tileable(out) = In
    BY <1>14, <1>18, <1>20 DEF Tileable, SameView
  <2>2. Grown(out, In) /\ out.ws = z.ws
    BY <1>8, <1>14, <1>20, <2>1 DEF Settled, SameView
  <2> QED BY <1>20, <1>22, <2>2 DEF Grown, AllNeat, NoGaps
<1>24. c \in Clients \ In /\ c \notin b.floating /\ b.ws[c] = w /\ target \in Targets(b, b.ws[c])
  BY <1>1, <1>2, <1>3, <1>13, <1>22 DEF Tileable, Targets
<1>25. PICK a : a = AddClient(b, c, target)
  OBVIOUS
<1>26. Grown(a, In \cup {c}) /\ SameView(b, a) /\ AllNeat(a)
  BY <1>23, <1>24, <1>25, AddClientKeeps
<1>27. Settled(a) /\ w \in {a.active, a.overlay}
  <2>1. Tileable(a) = Tileable(z) /\ In \cup {c} = Tileable(z)
    BY <1>2, <1>13, <1>22, <1>26 DEF Tileable, SameView
  <2> QED BY <1>6, <1>22, <1>26, <2>1 DEF Settled, SameView
<1>28. \E k : k.tabs = n.tabs /\ a.tree[w] = (z.tree[w] \ {n}) \cup {k}
  <2>1. CASE Len(n.tabs) = 1
    <3>1. TabsOf(n) = {c} /\ m.tabs = <<>>
      <4>1. \A i \in 1..Len(n.tabs) : i = 1
        BY <2>1
      <4>2. TabsOf(n) = {c}
        BY <1>5, <4>1, LeafFacts
      <4> QED BY <1>16, <4>2, LeafFacts
    <3>2. b.tree[w] = z.tree[w] \ {n}
      BY <1>5, <1>6, <1>17, <1>20, <1>22, <2>1, <3>1
    <3>3. b.hint[c].peer = NoClient /\ b.hint[c].beside = rep
      BY <1>17, <1>22, <2>1 DEF HintFor
    <3>4. b.hint[c].beside \in Rejoinable(b, c) \/ b.tree[w] = {}
      <4> SUFFICES ASSUME z.tree[w] \ {n} # {} PROVE rep \in Rejoinable(b, c)
        BY <3>2, <3>3
      <4>1. PICK k \in z.tree[w] : k # n
        OBVIOUS
      <4> DEFINE reps == {l.tabs[l.active] : l \in {x \in z.tree[w] : x # n /\ x.tabs # <<>>}}
                         \cap Shown(z)
      <4>2. ASSUME NEW l \in z.tree[w], l # n
            PROVE  /\ l.tabs[l.active] \in Tileable(z) \ {c} /\ z.ws[l.tabs[l.active]] = w
                   /\ l.tabs[l.active] \in Shown(z)
        <5>1. l.tabs[l.active] \in TabsOf(l)
          BY <1>6, LeafFacts
        <5>2. /\ l.tabs[l.active] \in Tileable(z) /\ z.ws[l.tabs[l.active]] = w
              /\ l = LeafOf(z, l.tabs[l.active])
          BY <1>1, <5>1, LeafOfIs
        <5>3. l.tabs[l.active] # c
          BY <1>4, <4>2, <5>2
        <5> QED BY <1>6, <5>2, <5>3 DEF Shown, Visible, Tileable
      <4>3. reps # {}
        BY <1>6, <4>1, <4>2
      <4>4. Neighbours(z, c) = reps
        BY <1>0, <1>4, <1>5, <2>1, <4>3 DEF Neighbours
      <4>5. PICK l \in z.tree[w] : l # n /\ rep = l.tabs[l.active]
        BY <1>0, <4>4
      <4>6. rep \in Tileable(z) \ {c} /\ z.ws[rep] = w
        BY <4>2, <4>5
      <4>7. rep \in In /\ rep \in Clients
        BY <1>13, <4>6 DEF Tileable
      <4>8. Tiled(b, rep)
        BY <1>23, <4>7, LeafOfIs
      <4> QED BY <1>22, <1>24, <4>6, <4>7, <4>8 DEF Rejoinable
    <3>5. a.tree[w] = b.tree[w] \cup {AddTab(EmptyLeaf, c, FALSE)}
      BY <1>22, <1>24, <1>25, <3>3, <3>4, AddedBeside
    <3>6. AddTab(EmptyLeaf, c, FALSE).tabs = n.tabs
      <4>1. AddTab(EmptyLeaf, c, FALSE).tabs = <<c>>
        BY DEF AddTab, EmptyLeaf
      <4>2. PICK q : q = n.tabs
        OBVIOUS
      <4>3. q \in Seq(Clients) /\ Len(q) = 1 /\ q[1] \in TabsOf(n)
        <5>1. 1 \in 1..Len(n.tabs)
          BY <2>1
        <5> QED BY <1>5, <2>1, <4>2, <5>1, LeafFacts
      <4>4. q[1] = c
        BY <3>1, <4>3
      <4>5. q = <<c>>
        BY <4>3, <4>4
      <4> QED BY <4>1, <4>2, <4>5
    <3> QED BY <3>2, <3>5, <3>6
  <2>2. CASE Len(n.tabs) # 1
    <3>1. PICK i \in 1..Len(n.tabs) : i = Position(n, c) /\ n.tabs[i] = c
      BY <1>5, PositionIs
    <3>2. PICK q \in Nat : q = Len(n.tabs) /\ q # 0 /\ q # 1
      BY <1>5, <2>2, LeafFacts
    <3>3. 1 \in 1..Len(n.tabs) /\ 2 \in 1..Len(n.tabs)
      <4>1. q \in Nat /\ q # 0 /\ q # 1
        BY <3>2
      <4>2. 1 \in 1..q /\ 2 \in 1..q
        BY ONLY <4>1
      <4> QED BY <3>2, <4>2
    <3>4. PICK j \in 1..Len(n.tabs) : j = (IF i = 1 THEN 2 ELSE 1) /\ j # i
      BY <3>3
    <3>5. PICK d : d = n.tabs[j]
      OBVIOUS
    <3>6. d \in TabsOf(n) /\ d # c /\ d \in TabsOf(m) /\ m.tabs # <<>>
      <4>1. d \in TabsOf(n) /\ d # c
        BY <1>5, <3>1, <3>4, <3>5, LeafFacts
      <4> QED BY <1>16, <4>1, LeafFacts
    <3>7. b.hint[c] = [peer |-> d, slot |-> i, beside |-> NoClient]
      BY <1>17, <1>22, <2>2, <3>1, <3>4, <3>5 DEF HintFor
    <3>8. b.tree[w] = (z.tree[w] \ {n}) \cup {m}
      <4>1. r.tree[w] = (z.tree[w] \ {n}) \cup {m}
        BY <1>17, <2>2
      <4> QED BY <1>6, <1>20, <1>22, <3>6, <4>1
    <3>9. d \in In /\ LeafOf(b, d) = m /\ b.ws[d] = w
      <4>1. d \in In /\ b.ws[d] = w
        BY <1>5, <1>13, <1>22, <3>6
      <4>2. m \in b.tree[w] /\ d \in TabsOf(m)
        BY <3>6, <3>8
      <4>3. m = LeafOf(b, d)
        BY <1>23, <4>2, LeafOfIs
      <4> QED BY <4>1, <4>3
    <3>10. d \in Rejoinable(b, c)
      <4>1. Tiled(b, d) /\ d \in Clients
        BY <1>23, <3>9, LeafOfIs
      <4> QED BY <1>24, <3>9, <4>1 DEF Rejoinable
    <3>11. a.tree[w] = (b.tree[w] \ {m}) \cup {AddTabAt(m, c, i)}
      <4>1. /\ b.hint[c].beside = NoClient /\ b.hint[c].peer = d /\ b.hint[c].slot = i
            /\ b.hint[c].slot # 0
        BY <3>7
      <4>2. b.hint[c].peer \in Rejoinable(b, c) /\ b.ws[c] \in Workspaces
        BY <1>24, <3>10, <4>1
      <4>3. LET k == LeafOf(b, b.hint[c].peer)
            IN  AddClient(b, c, target).tree[b.ws[c]] =
                  (b.tree[b.ws[c]] \ {k}) \cup {AddTabAt(k, c, b.hint[c].slot)}
        BY <1>23, <1>24, <4>1, <4>2, AddedBack, Zenon
      <4> QED BY <1>24, <1>25, <3>9, <4>1, <4>3
    <3>12. m \notin z.tree[w] \ {n}
      <4>1. m \in z.tree[w] => m = LeafOf(z, d)
        BY <1>1, <3>6, LeafOfIs
      <4>2. n = LeafOf(z, d)
        BY <1>1, <1>5, <3>6, LeafOfIs
      <4> QED BY <4>1, <4>2
    <3>13. AddTabAt(m, c, i).tabs = n.tabs
      BY <1>5, <1>15, <3>1, <3>6, TabPutBack
    <3> QED BY <3>8, <3>11, <3>12, <3>13
  <2> QED BY <2>1, <2>2
<1>29. PICK k : k.tabs = n.tabs /\ a.tree[w] = (z.tree[w] \ {n}) \cup {k}
  BY <1>28
<1>30. PICK back : back = Arrange(a)
  OBVIOUS
<1>31. back.tree[w] = {x \in a.tree[w] : x.tabs # <<>>}
  BY <1>27, <1>30, ArrangeShown
<1>32. back.tree[w] = (z.tree[w] \ {n}) \cup {k}
  BY <1>5, <1>6, <1>29, <1>31
<1>33. {x.tabs : x \in back.tree[w]} = {x.tabs : x \in z.tree[w]}
  BY <1>5, <1>29, <1>32
<1> QED BY <1>1, <1>3, <1>21, <1>25, <1>30, <1>33

\* ReturnsToItsPlace
LEMMA PlacesKept == ASSUME TreeInv PROVE ReturnsToItsPlace
<1> SUFFICES ASSUME NEW c \in Clients, Tiled(State, c), Visible(State, c),
                    NEW rep \in Neighbours(State, c), NEW out,
                    out = Arrange(RemoveClient([State EXCEPT !.floating = @ \cup {c}], c, rep)),
                    NEW target \in Targets(out, ws[c])
             PROVE  LET back == Arrange(AddClient([out EXCEPT !.floating = floating], c, target))
                    IN  {n.tabs : n \in back.tree[ws[c]]} = {n.tabs : n \in tree[ws[c]]}
  BY DEF ReturnsToItsPlace
<1> QED BY ComesBack

\* ReturnsToItsPlace: a window that leaves its tree to float or go fullscreen, and comes
\* back before anything else happens, finds every tab where it was.
THEOREM WindowsReturn ==
    ASSUME OverlayKeepsToItsTree
    PROVE  Spec => []ReturnsToItsPlace
<1>1. TreeInv => ReturnsToItsPlace
  BY PlacesKept
<1> QED BY <1>1, TreesAreSound, PTL
=============================================================================
