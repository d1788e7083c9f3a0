-------------------------- MODULE LinkedListProofs --------------------------
(***************************************************************************)
(* LinkedList for any cells, items and positions.  The invariant says that *)
(* the pointers spell order, and where in it a call has got to.            *)
(***************************************************************************)
EXTENDS LinkedList, SequenceTheorems, TLAPS

(* Inserting opens a gap of one ...                                        *)
LEMMA InsertFacts ==
    ASSUME NEW S, NEW s \in Seq(S), NEW n \in 0 .. Len(s), NEW x \in S
    PROVE  /\ InsertAt(s, n + 1, x) \in Seq(S)
           /\ Len(InsertAt(s, n + 1, x)) = Len(s) + 1
           /\ \A k \in 1 .. Len(s) + 1 :
                 InsertAt(s, n + 1, x)[k] = IF k <= n THEN s[k] ELSE IF k = n + 1 THEN x ELSE s[k - 1]
<1> DEFINE a == SubSeq(s, 1, n)
           b == SubSeq(s, n + 1, Len(s))
           c == <<x>>
<1>0. Len(s) \in Nat /\ n \in Nat /\ n <= Len(s) /\ (n + 1) - 1 = n
  BY LenProperties
<1>1. a \in Seq(S) /\ Len(a) = n /\ \A k \in 1 .. n : a[k] = s[k]
  BY <1>0
<1>2. b \in Seq(S) /\ Len(b) = Len(s) - n /\ \A k \in 1 .. Len(s) - n : b[k] = s[n + k]
  BY <1>0
<1>3. c \in Seq(S) /\ Len(c) = 1 /\ c[1] = x
  OBVIOUS
<1>4. InsertAt(s, n + 1, x) = (a \o c) \o b
  BY <1>0 DEF InsertAt
<1> HIDE DEF a, b, c
<1>5. /\ a \o c \in Seq(S) /\ Len(a \o c) = n + 1
      /\ \A k \in 1 .. n + 1 : (a \o c)[k] = IF k <= n THEN s[k] ELSE x
  <2>1. /\ a \o c \in Seq(S) /\ Len(a \o c) = Len(a) + Len(c)
        /\ \A k \in 1 .. Len(a) + Len(c) : (a \o c)[k] = IF k <= Len(a) THEN a[k] ELSE c[k - Len(a)]
    BY <1>1, <1>3, ConcatProperties
  <2>2. \A k \in 1 .. n + 1 : ~ (k <= n) => k - n = 1
    BY <1>0
  <2> QED BY <1>0, <1>1, <1>3, <2>1, <2>2
<1>6. /\ (a \o c) \o b \in Seq(S) /\ Len((a \o c) \o b) = Len(a \o c) + Len(b)
      /\ \A k \in 1 .. Len(a \o c) + Len(b) :
            ((a \o c) \o b)[k] = IF k <= Len(a \o c) THEN (a \o c)[k] ELSE b[k - Len(a \o c)]
  BY <1>2, <1>5, ConcatProperties
<1>7. Len(a \o c) + Len(b) = Len(s) + 1
  BY <1>0, <1>2, <1>5
<1>8. ASSUME NEW k \in 1 .. Len(s) + 1
      PROVE  ((a \o c) \o b)[k] = IF k <= n THEN s[k] ELSE IF k = n + 1 THEN x ELSE s[k - 1]
  <2>1. CASE k <= n + 1
    BY <1>0, <1>5, <1>6, <1>7, <2>1
  <2>2. CASE ~ (k <= n + 1)
    <3>1. k - (n + 1) \in 1 .. Len(s) - n /\ n + (k - (n + 1)) = k - 1
      BY <1>0, <2>2
    <3>2. ((a \o c) \o b)[k] = b[k - (n + 1)]
      BY <1>5, <1>6, <1>7, <2>2
    <3>3. b[k - (n + 1)] = s[k - 1]
      BY <1>2, <3>1
    <3>4. ~ (k <= n) /\ k # n + 1
      BY <1>0, <2>2
    <3> QED BY <3>2, <3>3, <3>4
  <2> QED BY <2>1, <2>2
<1> QED BY <1>4, <1>6, <1>7, <1>8

(* ... and removing closes one.                                            *)
LEMMA RemoveFacts ==
    ASSUME NEW S, NEW s \in Seq(S), NEW n \in 1 .. Len(s)
    PROVE  /\ RemoveAt(s, n) \in Seq(S)
           /\ Len(RemoveAt(s, n)) = Len(s) - 1
           /\ \A k \in 1 .. Len(s) - 1 : RemoveAt(s, n)[k] = IF k < n THEN s[k] ELSE s[k + 1]
<1> DEFINE a == SubSeq(s, 1, n - 1)
           b == SubSeq(s, n + 1, Len(s))
<1>0. Len(s) \in Nat /\ n \in Nat /\ 1 <= n /\ n <= Len(s)
  BY LenProperties
<1>1. a \in Seq(S) /\ Len(a) = n - 1 /\ \A k \in 1 .. n - 1 : a[k] = s[k]
  BY <1>0
<1>2. b \in Seq(S) /\ Len(b) = Len(s) - n /\ \A k \in 1 .. Len(s) - n : b[k] = s[n + k]
  BY <1>0
<1>3. RemoveAt(s, n) = a \o b
  BY DEF RemoveAt
<1> HIDE DEF a, b
<1>4. /\ a \o b \in Seq(S) /\ Len(a \o b) = Len(a) + Len(b)
      /\ \A k \in 1 .. Len(a) + Len(b) : (a \o b)[k] = IF k <= Len(a) THEN a[k] ELSE b[k - Len(a)]
  BY <1>1, <1>2, ConcatProperties
<1>5. Len(a) + Len(b) = Len(s) - 1
  BY <1>0, <1>1, <1>2
<1>6. ASSUME NEW k \in 1 .. Len(s) - 1
      PROVE  (a \o b)[k] = IF k < n THEN s[k] ELSE s[k + 1]
  <2>1. CASE k < n
    BY <1>0, <1>1, <1>4, <1>5, <2>1
  <2>2. CASE ~ (k < n)
    <3>1. k - (n - 1) \in 1 .. Len(s) - n /\ n + (k - (n - 1)) = k + 1
      BY <1>0, <2>2
    <3>2. (a \o b)[k] = b[k - (n - 1)]
      BY <1>0, <1>1, <1>4, <1>5, <2>2
    <3>3. b[k - (n - 1)] = s[k + 1]
      BY <1>2, <3>1
    <3> QED BY <2>2, <3>2, <3>3
  <2> QED BY <2>1, <2>2
<1> QED BY <1>3, <1>4, <1>5, <1>6
-----------------------------------------------------------------------------
(* The k-th cell from the header, and what it is that the pointers spell.  *)
Cell(s, k) == IF k = 0 THEN Header ELSE s[k]

Spells(f, s) ==
    /\ \A k \in 0 .. Len(s) - 1 : f[Cell(s, k)] = s[k + 1]
    /\ f[Cell(s, Len(s))] = Null

Fields == [Cells \cup {Header} -> Cells \cup {Null}]

LEMMA CellFacts ==
    ASSUME NEW s \in Seq(Cells), IsInjective(s)
    PROVE  /\ Len(s) \in Nat /\ DOMAIN s = 1 .. Len(s)
           /\ \A k \in 0 .. Len(s) : Cell(s, k) \in Cells \cup {Header}
           /\ \A k \in 1 .. Len(s) : Cell(s, k) = s[k] /\ s[k] \in Cells /\ s[k] # Header
           /\ \A k, l \in 0 .. Len(s) : Cell(s, k) = Cell(s, l) => k = l
           /\ \A x \in Cells : x \notin ToSet(s) => \A k \in 0 .. Len(s) : Cell(s, k) # x
<1>1. Len(s) \in Nat /\ DOMAIN s = 1 .. Len(s)
  BY LenProperties
<1>2. \A k \in 1 .. Len(s) : Cell(s, k) = s[k] /\ s[k] \in Cells /\ s[k] # Header
  BY <1>1, CellsAssumption, ElementOfSeq DEF Cell
<1>3. \A k \in 0 .. Len(s) : k = 0 \/ k \in 1 .. Len(s)
  BY <1>1
<1>4. Cell(s, 0) = Header
  BY DEF Cell
<1>5. \A k, l \in 1 .. Len(s) : s[k] = s[l] => k = l
  BY <1>1 DEF IsInjective
<1>6. \A k, l \in 0 .. Len(s) : Cell(s, k) = Cell(s, l) => k = l
  BY <1>2, <1>3, <1>4, <1>5
<1>7. \A x \in Cells : x \notin ToSet(s) => \A k \in 0 .. Len(s) : Cell(s, k) # x
  BY <1>1, <1>2, <1>3, <1>4, CellsAssumption DEF ToSet
<1> QED BY <1>1, <1>2, <1>3, <1>4, <1>6, <1>7

(* A store to a cell that is not on the list does not show in it.          *)
LEMMA StoreAside ==
    ASSUME NEW s \in Seq(Cells), IsInjective(s), NEW f \in Fields, Spells(f, s),
           NEW x \in Cells, x \notin ToSet(s), NEW y \in Cells \cup {Null}
    PROVE  [f EXCEPT ![x] = y] \in Fields /\ Spells([f EXCEPT ![x] = y], s)
<1>1. [f EXCEPT ![x] = y] \in Fields
  BY DEF Fields
<1>2. \A k \in 0 .. Len(s) : [f EXCEPT ![x] = y][Cell(s, k)] = f[Cell(s, k)]
  BY CellFacts DEF Fields
<1>3. \A k \in 0 .. Len(s) - 1 : k \in 0 .. Len(s)
  BY CellFacts
<1>4. Len(s) \in 0 .. Len(s)
  BY CellFacts
<1> QED BY <1>1, <1>2, <1>3, <1>4 DEF Spells

(* The store that hooks x behind the n-th cell.                            *)
LEMMA StoreHook ==
    ASSUME NEW s \in Seq(Cells), IsInjective(s), NEW f \in Fields, Spells(f, s),
           NEW x \in Cells, x \notin ToSet(s), NEW n \in 0 .. Len(s), f[x] = f[Cell(s, n)]
    PROVE  LET r == InsertAt(s, n + 1, x)
               g == [f EXCEPT ![Cell(s, n)] = x]
           IN  /\ r \in Seq(Cells) /\ IsInjective(r) /\ ToSet(r) = ToSet(s) \cup {x}
               /\ g \in Fields /\ Spells(g, r)
<1> DEFINE r == InsertAt(s, n + 1, x)
           g == [f EXCEPT ![Cell(s, n)] = x]
<1>1. /\ r \in Seq(Cells) /\ Len(r) = Len(s) + 1
      /\ \A k \in 1 .. Len(s) + 1 : r[k] = IF k <= n THEN s[k] ELSE IF k = n + 1 THEN x ELSE s[k - 1]
  <2> HIDE DEF g
  <2>1. /\ InsertAt(s, n + 1, x) \in Seq(Cells) /\ Len(InsertAt(s, n + 1, x)) = Len(s) + 1
        /\ \A k \in 1 .. Len(s) + 1 :
              InsertAt(s, n + 1, x)[k] = IF k <= n THEN s[k] ELSE IF k = n + 1 THEN x ELSE s[k - 1]
    BY InsertFacts
  <2> QED BY <2>1
<1>2. DOMAIN r = 1 .. Len(s) + 1
  BY <1>1, LenProperties
<1> HIDE DEF r
<1>3. Len(s) \in Nat /\ n \in Nat /\ n <= Len(s) /\ DOMAIN s = 1 .. Len(s)
  BY CellFacts
<1>4. /\ \A k \in 1 .. n : r[k] = s[k] /\ k \in 1 .. Len(s)
      /\ r[n + 1] = x
      /\ \A k \in n + 2 .. Len(s) + 1 : r[k] = s[k - 1] /\ k - 1 \in n + 1 .. Len(s) /\ k - 1 \in 1 .. Len(s)
  BY <1>1, <1>3
<1>5. \A k \in DOMAIN r : k \in 1 .. n \/ k = n + 1 \/ k \in n + 2 .. Len(s) + 1
  BY <1>2, <1>3
<1>6. x \notin {s[k] : k \in 1 .. Len(s)}
  BY <1>3 DEF ToSet
<1>7. \A k, l \in 1 .. Len(s) : s[k] = s[l] => k = l
  BY <1>3 DEF IsInjective
<1>8. IsInjective(r)
  <2>1. ASSUME NEW k \in DOMAIN r, NEW l \in DOMAIN r, k < l
        PROVE  r[k] # r[l]
    <3>1. CASE k \in 1 .. n /\ l \in 1 .. n
      BY <1>3, <1>4, <1>7, <2>1, <3>1
    <3>2. CASE k \in 1 .. n /\ l = n + 1
      BY <1>4, <1>6, <3>2
    <3>3. CASE k \in 1 .. n /\ l \in n + 2 .. Len(s) + 1
      <4>1. r[k] = s[k] /\ r[l] = s[l - 1] /\ k \in 1 .. Len(s) /\ l - 1 \in 1 .. Len(s) /\ k # l - 1
        BY <1>3, <1>4, <3>3
      <4> QED BY <1>7, <4>1
    <3>4. CASE k = n + 1 /\ l \in n + 2 .. Len(s) + 1
      <4>1. r[l] = s[l - 1] /\ l - 1 \in 1 .. Len(s)
        BY <1>4, <3>4
      <4> QED BY <1>4, <1>6, <3>4, <4>1
    <3>5. CASE k \in n + 2 .. Len(s) + 1 /\ l \in n + 2 .. Len(s) + 1
      <4>1. r[k] = s[k - 1] /\ r[l] = s[l - 1] /\ k - 1 \in 1 .. Len(s) /\ l - 1 \in 1 .. Len(s) /\ k - 1 # l - 1
        BY <1>3, <1>4, <2>1, <3>5
      <4> QED BY <1>7, <4>1
    <3> QED BY <1>2, <1>3, <1>5, <2>1, <3>1, <3>2, <3>3, <3>4, <3>5
  <2>2. \A k, l \in DOMAIN r : k < l \/ l < k \/ k = l
    BY <1>2, <1>3
  <2> QED BY <2>1, <2>2 DEF IsInjective
<1>9. ToSet(r) = ToSet(s) \cup {x}
  <2>1. \A k \in DOMAIN r : r[k] \in ToSet(s) \cup {x}
    BY <1>3, <1>4, <1>5 DEF ToSet
  <2>2. \A k \in DOMAIN s : \E l \in DOMAIN r : r[l] = s[k]
    <3> SUFFICES ASSUME NEW k \in DOMAIN s PROVE \E l \in DOMAIN r : r[l] = s[k]
      OBVIOUS
    <3>1. CASE k <= n
      <4>1. k \in DOMAIN r /\ r[k] = s[k]
        BY <1>2, <1>3, <1>4, <3>1
      <4> QED BY <4>1
    <3>2. CASE ~ (k <= n)
      <4>1. k + 1 \in DOMAIN r /\ k + 1 \in n + 2 .. Len(s) + 1 /\ (k + 1) - 1 = k
        BY <1>2, <1>3, <3>2
      <4> QED BY <1>4, <4>1
    <3> QED BY <3>1, <3>2
  <2>3. n + 1 \in DOMAIN r /\ r[n + 1] = x
    BY <1>2, <1>3, <1>4
  <2>4. ToSet(r) \subseteq ToSet(s) \cup {x}
    BY <2>1 DEF ToSet
  <2>5. ToSet(s) \subseteq ToSet(r) /\ x \in ToSet(r)
    BY <2>2, <2>3 DEF ToSet
  <2> QED BY <2>4, <2>5
<1>10. g \in Fields
  BY CellFacts DEF Fields
<1>11. /\ g[Cell(s, n)] = x /\ g[x] = f[x]
       /\ \A k \in 0 .. Len(s) : k # n => g[Cell(s, k)] = f[Cell(s, k)]
  <2>1. Cell(s, n) \in Cells \cup {Header} /\ Cell(s, n) # x /\ x \in Cells \cup {Header}
    BY CellFacts
  <2>2. \A k \in 0 .. Len(s) : k # n => Cell(s, k) # Cell(s, n) /\ Cell(s, k) \in Cells \cup {Header}
    BY CellFacts
  <2> QED BY <2>1, <2>2 DEF Fields
<1> HIDE DEF g
<1>12. /\ \A k \in 0 .. n : Cell(r, k) = Cell(s, k)
       /\ Cell(r, n + 1) = x
       /\ \A k \in n + 2 .. Len(s) + 1 : Cell(r, k) = Cell(s, k - 1)
  BY <1>3, <1>4 DEF Cell
<1>13. \A k \in 0 .. Len(s) - 1 : f[Cell(s, k)] = s[k + 1]
  BY DEF Spells
<1>14. f[Cell(s, Len(s))] = Null
  BY DEF Spells
<1>15. ASSUME NEW k \in 0 .. Len(r) - 1
       PROVE  g[Cell(r, k)] = r[k + 1]
  <2>0. k \in 0 .. Len(s) /\ k \in Int
    BY <1>1, <1>3
  <2>1. CASE k < n
    <3>1. k \in 0 .. n /\ k \in 0 .. Len(s) - 1 /\ k # n /\ k + 1 \in 1 .. n
      BY <1>3, <2>0, <2>1
    <3> QED BY <1>4, <1>11, <1>12, <1>13, <2>0, <3>1
  <2>2. CASE k = n
    <3>1. n \in 0 .. n
      BY <1>3
    <3> QED BY <1>4, <1>11, <1>12, <2>2, <3>1
  <2>3. CASE k = n + 1
    <3>1. n \in 0 .. Len(s) - 1 /\ k + 1 \in n + 2 .. Len(s) + 1 /\ (k + 1) - 1 = n + 1
      BY <1>3, <2>0, <2>3
    <3>2. g[Cell(r, k)] = s[n + 1]
      BY <1>11, <1>12, <1>13, <2>3, <3>1
    <3> QED BY <1>4, <3>1, <3>2
  <2>4. CASE k > n + 1
    <3>1. /\ k \in n + 2 .. Len(s) + 1 /\ k - 1 \in 0 .. Len(s) - 1 /\ k - 1 \in 0 .. Len(s) /\ k - 1 # n
          /\ k + 1 \in n + 2 .. Len(s) + 1 /\ (k + 1) - 1 = k /\ (k - 1) + 1 = k
      BY <1>3, <2>0, <2>4
    <3>2. g[Cell(r, k)] = s[k]
      BY <1>11, <1>12, <1>13, <3>1
    <3> QED BY <1>4, <3>1, <3>2
  <2> QED BY <1>3, <2>0, <2>1, <2>2, <2>3, <2>4
<1>16. g[Cell(r, Len(r))] = Null
  <2>1. CASE n = Len(s)
    BY <1>1, <1>11, <1>12, <1>14, <2>1
  <2>2. CASE n # Len(s)
    <3> DEFINE m == Len(s)
    <3>0. m \in Nat /\ n \in Nat /\ n <= m /\ n # m
      BY <1>3, <2>2
    <3> HIDE DEF m
    <3>1. m + 1 \in n + 2 .. m + 1 /\ (m + 1) - 1 = m /\ m \in 0 .. m
      BY <3>0
    <3> QED BY <1>1, <1>11, <1>12, <1>14, <2>2, <3>1 DEF m
  <2> QED BY <2>1, <2>2
<1> QED BY <1>1, <1>8, <1>9, <1>10, <1>15, <1>16 DEF Spells, r, g

(* The store that unlinks the n-th cell.                                   *)
LEMMA StoreUnlink ==
    ASSUME NEW s \in Seq(Cells), IsInjective(s), NEW f \in Fields, Spells(f, s), NEW n \in 1 .. Len(s)
    PROVE  LET r == RemoveAt(s, n)
               g == [f EXCEPT ![Cell(s, n - 1)] = f[s[n]]]
           IN  /\ r \in Seq(Cells) /\ IsInjective(r) /\ ToSet(r) = ToSet(s) \ {s[n]}
               /\ g \in Fields /\ Spells(g, r)
<1> DEFINE r == RemoveAt(s, n)
           g == [f EXCEPT ![Cell(s, n - 1)] = f[s[n]]]
           m == Len(s)
<1>1. /\ r \in Seq(Cells) /\ Len(r) = m - 1
      /\ \A k \in 1 .. m - 1 : r[k] = IF k < n THEN s[k] ELSE s[k + 1]
  BY RemoveFacts
<1>2. DOMAIN r = 1 .. m - 1
  BY <1>1, LenProperties
<1> HIDE DEF r
<1>3. m \in Nat /\ n \in Nat /\ 1 <= n /\ n <= m /\ DOMAIN s = 1 .. m
  BY CellFacts
<1>4. \A k, l \in 1 .. m : s[k] = s[l] => k = l
  BY <1>3 DEF IsInjective
<1>a. \A k \in 0 .. m - 1 : f[Cell(s, k)] = s[k + 1]
  BY DEF Spells
<1>b. f[Cell(s, m)] = Null
  BY DEF Spells
<1>c. Cell(s, n) = s[n] /\ n \in 0 .. m /\ n - 1 \in 0 .. m /\ n \in 1 .. m
  BY <1>3 DEF Cell
<1>d. Cell(s, n) \in Cells \cup {Header} /\ Cell(s, n - 1) \in Cells \cup {Header}
  BY <1>c, CellFacts
<1>e. \A k \in 0 .. m : k # n - 1 => Cell(s, k) \in Cells \cup {Header} /\ Cell(s, k) # Cell(s, n - 1)
  BY <1>c, CellFacts
<1>5. g \in Fields
  BY <1>c, <1>d DEF Fields
<1>6. /\ g[Cell(s, n - 1)] = f[Cell(s, n)]
      /\ \A k \in 0 .. m : k # n - 1 => g[Cell(s, k)] = f[Cell(s, k)]
  BY <1>c, <1>d, <1>e DEF Fields
<1> HIDE DEF g, m
<1>7. \A k \in DOMAIN r : /\ k \in Int /\ k \in 1 .. m /\ k + 1 \in 1 .. m
                          /\ r[k] = IF k < n THEN s[k] ELSE s[k + 1]
  BY <1>1, <1>2, <1>3
<1>8. IsInjective(r)
  <2>1. ASSUME NEW k \in DOMAIN r, NEW l \in DOMAIN r, k < l
        PROVE  r[k] # r[l]
    <3> DEFINE a == IF k < n THEN k ELSE k + 1
               b == IF l < n THEN l ELSE l + 1
    <3>1. r[k] = s[a] /\ r[l] = s[b]
      BY <1>7
    <3>2. a \in 1 .. m /\ b \in 1 .. m /\ a # b
      BY <1>3, <1>7, <2>1
    <3> HIDE DEF a, b
    <3> QED BY <1>4, <3>1, <3>2
  <2>2. \A k, l \in DOMAIN r : k < l \/ l < k \/ k = l
    BY <1>7
  <2> QED BY <2>1, <2>2 DEF IsInjective
<1>9. ToSet(r) = ToSet(s) \ {s[n]}
  <2>1. ASSUME NEW k \in DOMAIN r
        PROVE  \E l \in 1 .. m : r[k] = s[l] /\ l # n
    <3>1. CASE k < n
      BY <1>3, <1>7, <3>1
    <3>2. CASE ~ (k < n)
      <4>1. k + 1 \in 1 .. m /\ r[k] = s[k + 1] /\ k + 1 # n
        BY <1>3, <1>7, <3>2
      <4> QED BY <4>1
    <3> QED BY <3>1, <3>2
  <2>2. ASSUME NEW l \in 1 .. m, l # n
        PROVE  \E k \in DOMAIN r : r[k] = s[l]
    <3>1. CASE l < n
      <4>1. l \in DOMAIN r
        BY <1>2, <1>3, <3>1
      <4> QED BY <1>7, <3>1, <4>1
    <3>2. CASE ~ (l < n)
      <4>1. l - 1 \in DOMAIN r /\ ~ (l - 1 < n) /\ (l - 1) + 1 = l
        BY <1>2, <1>3, <2>2, <3>2
      <4>2. r[l - 1] = s[l]
        BY <1>7, <4>1
      <4> QED BY <4>1, <4>2
    <3> QED BY <3>1, <3>2
  <2>3. ToSet(r) \subseteq ToSet(s) \ {s[n]}
    BY <1>3, <1>4, <1>c, <2>1 DEF ToSet
  <2>4. ToSet(s) \ {s[n]} \subseteq ToSet(r)
    BY <1>3, <2>2 DEF ToSet
  <2> QED BY <2>3, <2>4
<1>10. /\ \A k \in 0 .. n - 1 : Cell(r, k) = Cell(s, k)
       /\ \A k \in n .. m - 1 : Cell(r, k) = Cell(s, k + 1)
  <2>1. ASSUME NEW k \in 0 .. n - 1
        PROVE  Cell(r, k) = Cell(s, k)
    <3>1. CASE k = 0
      BY <3>1 DEF Cell
    <3>2. CASE k # 0
      <4>1. k \in DOMAIN r /\ k < n
        BY <1>2, <1>3, <3>2
      <4> QED BY <1>7, <3>2, <4>1 DEF Cell
    <3> QED BY <3>1, <3>2
  <2>2. ASSUME NEW k \in n .. m - 1
        PROVE  Cell(r, k) = Cell(s, k + 1)
    <3>1. k \in DOMAIN r /\ ~ (k < n) /\ k # 0 /\ k + 1 # 0
      BY <1>2, <1>3
    <3> QED BY <1>7, <3>1 DEF Cell
  <2> QED BY <2>1, <2>2
<1>11. ASSUME NEW k \in 0 .. Len(r) - 1
       PROVE  g[Cell(r, k)] = r[k + 1]
  <2>0. k \in Int /\ 0 <= k /\ k <= m - 2 /\ k + 1 \in DOMAIN r
    BY <1>1, <1>2, <1>3
  <2>1. CASE k < n - 1
    <3>1. k \in 0 .. n - 1 /\ k \in 0 .. m - 1 /\ k \in 0 .. m /\ k # n - 1 /\ k + 1 < n
      BY <1>3, <2>0, <2>1
    <3>2. g[Cell(r, k)] = s[k + 1]
      BY <1>6, <1>10, <1>a, <3>1
    <3>3. r[k + 1] = s[k + 1]
      BY <1>7, <2>0, <3>1
    <3> QED BY <3>2, <3>3
  <2>2. CASE k = n - 1
    <3>1. n - 1 \in 0 .. n - 1 /\ n \in 0 .. m - 1 /\ ~ (n < n) /\ k + 1 = n
      BY <1>3, <2>0, <2>2
    <3>2. g[Cell(r, k)] = s[n + 1]
      BY <1>6, <1>10, <1>a, <2>2, <3>1
    <3>3. r[n] = s[n + 1]
      BY <1>7, <2>0, <3>1
    <3> QED BY <3>1, <3>2, <3>3
  <2>3. CASE k > n - 1
    <3>1. k \in n .. m - 1 /\ k + 1 \in 0 .. m - 1 /\ k + 1 \in 0 .. m /\ k + 1 # n - 1 /\ ~ (k + 1 < n)
      BY <1>3, <2>0, <2>3
    <3>2. g[Cell(r, k)] = s[(k + 1) + 1]
      BY <1>6, <1>10, <1>a, <3>1
    <3>3. r[k + 1] = s[(k + 1) + 1]
      BY <1>7, <2>0, <3>1
    <3> QED BY <3>2, <3>3
  <2> QED BY <1>3, <2>0, <2>1, <2>2, <2>3
<1>12. g[Cell(r, Len(r))] = Null
  <2>1. CASE n = m
    <3>1. m - 1 \in 0 .. n - 1 /\ m - 1 = n - 1
      BY <1>3, <2>1
    <3> QED BY <1>1, <1>6, <1>10, <1>b, <2>1, <3>1
  <2>2. CASE n # m
    <3>1. m - 1 \in n .. m - 1 /\ (m - 1) + 1 = m /\ m \in 0 .. m /\ m # n - 1
      BY <1>3, <2>2
    <3> QED BY <1>1, <1>6, <1>10, <1>b, <3>1
  <2> QED BY <2>1, <2>2
<1> QED BY <1>1, <1>5, <1>8, <1>9, <1>11, <1>12 DEF Spells, r, g

(* A search for a cell of the list finds its position.                     *)
LEMMA UpToCell ==
    ASSUME order \in Seq(Cells), IsInjective(order), NEW n \in 0 .. Len(order)
    PROVE  UpTo(Cell(order, n)) = n
<1>1. /\ DOMAIN order = 1 .. Len(order) /\ Len(order) \in Nat
      /\ \A k \in 1 .. Len(order) : Cell(order, k) = order[k] /\ order[k] # Header
      /\ \A k, l \in 0 .. Len(order) : Cell(order, k) = Cell(order, l) => k = l
  BY CellFacts
<1>2. CASE n = 0
  <2>1. Cell(order, n) \notin ToSet(order)
    BY <1>1, <1>2 DEF Cell, ToSet
  <2> QED BY <1>2, <2>1 DEF UpTo
<1>3. CASE n # 0
  <2>1. n \in DOMAIN order /\ order[n] = Cell(order, n)
    BY <1>1, <1>3
  <2>2. \A k \in DOMAIN order : order[k] = Cell(order, n) => k = n
    BY <1>1
  <2>3. (CHOOSE k \in DOMAIN order : order[k] = Cell(order, n)) = n
    BY <2>1, <2>2
  <2> QED BY <2>1, <2>3 DEF UpTo, ToSet
<1> QED BY <1>2, <1>3
-----------------------------------------------------------------------------
(* The pointers spell order, whose cells are filled and not free.          *)
Linked ==
    /\ IsInjective(order)
    /\ Spells(next, order)
    /\ \A c \in ToSet(order) : elem[c] \in Items /\ c \notin free

(* What each kind of call has so far.                                      *)
Linking ==
    /\ pc \in {"idle", "malloc", "fill"} => i = 0
    /\ pc \in {"malloc", "fill", "walk", "splice", "hook"} => op \in Linkers /\ item \in Items
    /\ pc \in {"fill", "walk", "splice", "hook"} => t1 \in Cells
    /\ pc \in {"walk", "splice", "hook"} => elem[t1] \in Items
    /\ pc = "walk" => /\ i \in 0 .. Len(order) /\ t2 = Cell(order, i)
                      /\ op = "insert" => pos \notin 1 .. i
                      /\ next[t1] = Null
    /\ pc \in {"splice", "hook"} => t2 = Cell(order, Behind)
    /\ pc = "hook" => next[t1] = next[t2]

Finding ==
    /\ pc = "idle" => t1 = Header /\ t2 = Header
    /\ pc = "find" => /\ op \in Finders
                      /\ i \in 0 .. Len(order) /\ t1 = Cell(order, i) /\ t2 = Cell(order, i)
                      /\ op # "count" => pos \notin 0 .. i - 1
    /\ pc \in {"find", "set"} /\ op = "set" => item \in Items
    /\ pc \in {"get", "set", "remove"} =>
          /\ op = pc
          /\ pos + 1 \in 1 .. Len(order) /\ t1 = order[pos + 1] /\ t2 = Cell(order, pos)
    /\ pc = "free" => t1 \in Cells

IInv == ListTypeOK /\ Linked /\ Accounted /\ Linking /\ Finding
(* The facts of the invariant that the actions' proofs start from.         *)
LEMMA Known ==
    ASSUME IInv
    PROVE  /\ order \in Seq(Cells) /\ IsInjective(order)
           /\ next \in Fields /\ Spells(next, order)
           /\ Len(order) \in Nat /\ DOMAIN order = 1 .. Len(order)
           /\ pos \in Int /\ i \in Nat
           /\ Behind \in 0 .. Len(order)
<1>1. order \in Seq(Cells) /\ IsInjective(order) /\ next \in Fields /\ Spells(next, order) /\ i \in Nat
  BY DEF IInv, ListTypeOK, Linked, Fields
<1>2. Len(order) \in Nat /\ DOMAIN order = 1 .. Len(order)
  BY <1>1, LenProperties
<1>3. pos \in Int
  BY PositionsAssumption DEF IInv, ListTypeOK
<1>4. Behind \in 0 .. Len(order)
  BY <1>2, <1>3 DEF Behind
<1> QED BY <1>1, <1>2, <1>3, <1>4

LEMMA InitIInv == Init => IInv
<1> SUFFICES ASSUME Init PROVE IInv
  OBVIOUS
<1>1. ToSet(order) = {} /\ Len(order) = 0 /\ order \in Seq(Cells) /\ IsInjective(order)
  BY EmptySeq DEF Init, ToSet, IsInjective
<1>2. ListTypeOK
  BY <1>1 DEF Init, ListTypeOK
<1>3. Spells(next, order)
  BY <1>1 DEF Init, Spells, Cell
<1> QED BY <1>1, <1>2, <1>3 DEF Init, IInv, Linked, Accounted, Held, Linking, Finding

(* A call that returns, or is abandoned, leaves its locals in no state     *)
(* that matters.                                                           *)
LEMMA ReturnIInv ==
    ASSUME Return
    PROVE  /\ pc' = "idle" /\ i' = 0
           /\ Held' = {} /\ Linking' /\ Finding'
           /\ pc' \in {"idle"} /\ op' \in {"none"} /\ pos' \in {0} /\ item' = Null
           /\ t1' = Header /\ t2' = Header
BY DEF Return, Held, Linking, Finding

LEMMA CallLinkerIInv ==
    ASSUME IInv, NEW o \in Linkers, NEW n \in Positions \cup {0}, NEW x \in Items, CallLinker(o, n, x)
    PROVE  IInv'
<1>1. ListTypeOK'
  BY DEF IInv, ListTypeOK, CallLinker, memory, locals, Linkers
<1>2. Linked' /\ Accounted'
  BY DEF IInv, Linked, Accounted, Held, CallLinker, memory, locals
<1>3. Linking' /\ Finding'
  BY DEF IInv, Linking, Finding, CallLinker, memory, locals
<1> QED BY <1>1, <1>2, <1>3 DEF IInv

LEMMA CallFinderIInv ==
    ASSUME IInv, NEW o \in Finders, NEW n \in Positions \cup {0}, NEW x \in Items \cup {Null},
           o = "set" => x \in Items, CallFinder(o, n, x)
    PROVE  IInv'
<1>1. ListTypeOK'
  BY DEF IInv, ListTypeOK, CallFinder, memory, locals, Finders
<1>2. Linked' /\ Accounted'
  BY DEF IInv, Linked, Accounted, Held, CallFinder, memory, locals
<1>3. Linking'
  BY DEF IInv, Linking, CallFinder, memory, locals
<1>4. 0 \in 0 .. Len(order) /\ Cell(order, 0) = Header /\ n \notin 0 .. 0 - 1
  BY Known DEF Cell
<1>5. Finding'
  BY <1>4 DEF IInv, Linking, Finding, CallFinder, memory, locals
<1> QED BY <1>1, <1>2, <1>3, <1>5 DEF IInv

(* Calls that end without a store, one of them before it has a cell.       *)
LEMMA EndIInv ==
    ASSUME IInv, Return, Held = {}, UNCHANGED memory
    PROVE  IInv'
<1>1. ListTypeOK'
  BY ReturnIInv DEF IInv, ListTypeOK, memory
<1>2. Linked' /\ Accounted'
  BY ReturnIInv DEF IInv, Linked, Accounted, memory
<1> QED BY <1>1, <1>2, ReturnIInv DEF IInv

LEMMA MallocOkIInv ==
    ASSUME IInv, MallocOk
    PROVE  IInv'
<1>1. PICK c \in free : t1' = c /\ free' = free \ {c}
  BY DEF MallocOk
<1>2. c \in Cells /\ free \subseteq Cells
  BY DEF IInv, ListTypeOK
<1>3. ListTypeOK'
  BY <1>1, <1>2 DEF IInv, ListTypeOK, MallocOk, call
<1>4. Linked'
  BY <1>1 DEF IInv, Linked, MallocOk
<1>5. Held = {} /\ Held' = {c}
  BY <1>1 DEF MallocOk, Held
<1>6. Accounted'
  BY <1>1, <1>2, <1>5 DEF IInv, Accounted, MallocOk
<1>7. Linking' /\ Finding'
  BY <1>1, <1>2 DEF IInv, Linking, Finding, MallocOk, call
<1> QED BY <1>3, <1>4, <1>6, <1>7 DEF IInv

LEMMA FillIInv ==
    ASSUME IInv, Fill
    PROVE  IInv'
<1>1. /\ pc = "fill" /\ t1 \in Cells /\ item \in Items /\ i = 0 /\ op \in Linkers
      /\ Held = {t1} /\ t1 \notin ToSet(order)
  BY DEF IInv, Linking, Accounted, Held, Fill
<1>2. ListTypeOK'
  BY <1>1 DEF IInv, ListTypeOK, Fill, call
<1>3. Spells(next', order)
  BY <1>1, Known, StoreAside DEF Fill
<1>4. \A c \in ToSet(order) : elem'[c] = elem[c]
  BY <1>1 DEF IInv, ListTypeOK, Fill
<1>5. Linked'
  BY <1>3, <1>4 DEF IInv, Linked, Fill
<1>6. Accounted'
  BY <1>1 DEF IInv, Accounted, Held, Fill
<1>7. elem'[t1] = item /\ next'[t1] = Null
  BY <1>1 DEF IInv, ListTypeOK, Fill
<1>8. 0 \in 0 .. Len(order) /\ Cell(order, 0) = Header /\ pos \notin 1 .. 0
  BY Known DEF Cell
<1>9. Linking' /\ Finding'
  BY <1>1, <1>7, <1>8 DEF Linking, Finding, Fill, call
<1> QED BY <1>2, <1>5, <1>6, <1>9 DEF IInv

(* What a search sees at its k-th cell.                                    *)
LEMMA Ahead ==
    ASSUME IInv, NEW k \in 0 .. Len(order)
    PROVE  IF next[Cell(order, k)] = Null
           THEN k = Len(order)
           ELSE /\ k + 1 \in 1 .. Len(order) /\ k + 1 \in 0 .. Len(order)
                /\ next[Cell(order, k)] = order[k + 1]
                /\ Cell(order, k + 1) = order[k + 1] /\ order[k + 1] \in Cells
<1>1. CASE k = Len(order)
  <2>1. next[Cell(order, k)] = Null
    BY <1>1, Known DEF Spells
  <2> QED BY <1>1, <2>1
<1>2. CASE k # Len(order)
  <2>0. Len(order) \in Nat
    BY Known
  <2>1. k \in 0 .. Len(order) - 1 /\ k + 1 \in 1 .. Len(order) /\ k + 1 \in 0 .. Len(order)
    BY <1>2, <2>0
  <2>2. next[Cell(order, k)] = order[k + 1]
    BY <2>1, Known DEF Spells
  <2>3. Cell(order, k + 1) = order[k + 1] /\ order[k + 1] \in Cells
    BY <2>1, Known, CellFacts
  <2>4. order[k + 1] # Null
    BY <2>3, CellsAssumption
  <2> QED BY <2>1, <2>2, <2>3, <2>4
<1> QED BY <1>1, <1>2
LEMMA WalkIInv ==
    ASSUME IInv, Walk
    PROVE  IInv'
<1>1. /\ pc = "walk" /\ t1 \in Cells /\ i \in 0 .. Len(order) /\ t2 = Cell(order, i)
      /\ op \in Linkers /\ item \in Items /\ elem[t1] \in Items /\ next[t1] = Null
      /\ op = "insert" => pos \notin 1 .. i
  BY DEF IInv, Linking, Walk
<1>2. Len(order) \in Nat /\ pos \in Int
  BY Known
<1>3. pc' \in {"walk", "splice", "hook"}
  BY DEF Walk
<1>4. Held = {t1} /\ Held' = {t1}
  BY <1>1, <1>3 DEF Held, Walk
<1>5. Linked' /\ Accounted'
  BY <1>4 DEF IInv, Linked, Accounted, Walk, memory
<1>6. Finding'
  BY <1>3 DEF Finding
<1>7. CASE next[t2] = Null
  <2>1. i = Len(order) /\ t2 = Cell(order, Len(order))
    BY <1>1, <1>7, Ahead
  <2>2. Behind = Len(order) /\ Behind' = Behind
    BY <1>1, <2>1 DEF Behind, Walk, memory, call
  <2>3. /\ pc' = (IF op = "insert" THEN "splice" ELSE "hook")
        /\ UNCHANGED <<t1, t2, i, next, elem, op, pos, item, order>>
    BY <1>7 DEF Walk, memory, call
  <2>4. ListTypeOK'
    BY <1>3, <2>3 DEF IInv, ListTypeOK, Walk, memory, call
  <2>5. Linking'
    BY <1>1, <1>7, <2>1, <2>2, <2>3 DEF Linking
  <2> QED BY <1>5, <1>6, <2>4, <2>5 DEF IInv
<1>8. CASE next[t2] # Null
  <2>1. /\ i + 1 \in 1 .. Len(order) /\ i + 1 \in 0 .. Len(order)
        /\ next[t2] = Cell(order, i + 1) /\ next[t2] \in Cells
    BY <1>1, <1>8, Ahead
  <2>2. /\ t2' = Cell(order, i + 1) /\ i' = i + 1 /\ t2' \in Cells
        /\ pc' = IF op = "insert" /\ i + 1 = pos THEN "splice" ELSE "walk"
        /\ UNCHANGED <<t1, next, elem, op, pos, item, order>>
    BY <1>8, <2>1 DEF Walk, memory, call
  <2>3. ListTypeOK'
    BY <1>3, <2>2 DEF IInv, ListTypeOK, Walk, memory, call
  <2>4. CASE op = "insert" /\ i + 1 = pos
    <3>1. Behind' = i + 1
      BY <2>1, <2>2, <2>4 DEF Behind
    <3> QED BY <1>1, <1>5, <1>6, <2>2, <2>3, <2>4, <3>1 DEF IInv, Linking
  <2>5. CASE ~ (op = "insert" /\ i + 1 = pos)
    <3>1. op = "insert" => pos \notin 1 .. i + 1
      BY <1>1, <1>2, <2>5
    <3>2. Linking'
      BY <1>1, <2>1, <2>2, <2>5, <3>1 DEF Linking
    <3> QED BY <1>5, <1>6, <2>3, <3>2 DEF IInv
  <2> QED BY <2>4, <2>5
<1> QED BY <1>7, <1>8

LEMMA SpliceIInv ==
    ASSUME IInv, Splice
    PROVE  IInv'
<1>1. /\ pc = "splice" /\ t1 \in Cells /\ op \in Linkers /\ item \in Items /\ elem[t1] \in Items
      /\ t2 = Cell(order, Behind) /\ Held = {t1} /\ t1 \notin ToSet(order)
  BY DEF IInv, Linking, Accounted, Held, Splice
<1>2. t2 # t1 /\ t2 \in Cells \cup {Header} /\ next[t2] \in Cells \cup {Null}
  BY <1>1, Known, CellFacts DEF Fields
<1>3. ListTypeOK'
  BY <1>1, <1>2 DEF IInv, ListTypeOK, Splice, call, locals
<1>4. Linked'
  BY <1>1, <1>2, Known, StoreAside DEF IInv, Linked, Splice
<1>5. Accounted'
  BY <1>1 DEF IInv, Accounted, Held, Splice, locals
<1>6. next'[t1] = next'[t2] /\ Behind' = Behind
  BY <1>1, <1>2, Known DEF Behind, Fields, Splice, call
<1>7. Linking' /\ Finding'
  BY <1>1, <1>6 DEF Linking, Finding, Splice, call, locals
<1> QED BY <1>3, <1>4, <1>5, <1>7 DEF IInv

LEMMA HookIInv ==
    ASSUME IInv, Hook
    PROVE  IInv' /\ order' = InsertAt(order, Behind + 1, t1)
<1>1. /\ t1 \in Cells /\ elem[t1] \in Items /\ next[t1] = next[t2]
      /\ t2 = Cell(order, Behind) /\ Held = {t1}
      /\ t1 \notin ToSet(order) /\ t1 \notin free /\ t1 \notin lost
  BY DEF IInv, Linking, Accounted, Held, Hook
<1>2. order' = InsertAt(order, Behind + 1, t1) /\ next' = [next EXCEPT ![Cell(order, Behind)] = t1]
  BY <1>1, Known, UpToCell DEF Hook
<1>3. /\ order' \in Seq(Cells) /\ IsInjective(order') /\ ToSet(order') = ToSet(order) \cup {t1}
      /\ next' \in Fields /\ Spells(next', order')
  BY <1>1, <1>2, Known, StoreHook
<1>4. Return /\ UNCHANGED <<elem, free, lost>>
  BY DEF Hook
<1>5. ListTypeOK'
  BY <1>3, <1>4, ReturnIInv DEF IInv, ListTypeOK, Fields
<1>6. Linked'
  BY <1>1, <1>3, <1>4 DEF IInv, Linked
<1>7. Accounted'
  BY <1>1, <1>3, <1>4, ReturnIInv DEF IInv, Accounted
<1> QED BY <1>2, <1>4, <1>5, <1>6, <1>7, ReturnIInv DEF IInv

LEMMA FindIInv ==
    ASSUME IInv, Find
    PROVE  IInv'
<1>1. /\ pc = "find" /\ op \in Finders /\ i \in 0 .. Len(order)
      /\ t1 = Cell(order, i) /\ t2 = Cell(order, i) /\ next[t1] # Null
      /\ op # "count" => pos \notin 0 .. i - 1
      /\ op = "set" => item \in Items
  BY DEF IInv, Finding, Find
<1>2. Len(order) \in Nat /\ pos \in Int
  BY Known
<1>3. /\ i + 1 \in 1 .. Len(order) /\ i + 1 \in 0 .. Len(order)
      /\ next[t1] = Cell(order, i + 1) /\ next[t1] = order[i + 1] /\ next[t1] \in Cells
  BY <1>1, Ahead
<1>4. pc' \in {"find", "remove", "get", "set"}
  BY <1>1 DEF Find, Finders
<1>5. Held = {} /\ Held' = {}
  BY <1>1, <1>4 DEF Held
<1>6. Linked' /\ Accounted'
  BY <1>5 DEF IInv, Linked, Accounted, Find, memory
<1>7. Linking'
  BY <1>4 DEF Linking
<1>8. t1' = next[t1] /\ i' = i + 1 /\ UNCHANGED <<next, elem, op, pos, item, order>>
  BY DEF Find, memory, call
<1>9. CASE op # "count" /\ i = pos
  <2>1. pc' = op /\ t2' = t2
    BY <1>9 DEF Find
  <2>2. ListTypeOK'
    BY <1>3, <1>4, <1>8, <2>1 DEF IInv, ListTypeOK, Find, memory, call
  <2>3. pc' \in {"remove", "get", "set"} /\ pc' = op'
    BY <1>1, <1>8, <1>9, <2>1 DEF Finders
  <2>4. /\ pos' + 1 \in 1 .. Len(order') /\ t1' = order'[pos' + 1] /\ t2' = Cell(order', pos')
        /\ op' = "set" => item' \in Items
    BY <1>1, <1>3, <1>8, <1>9, <2>1
  <2>5. Finding'
    BY <2>3, <2>4 DEF Finding
  <2> QED BY <1>6, <1>7, <2>2, <2>5 DEF IInv
<1>10. CASE ~ (op # "count" /\ i = pos)
  <2>1. pc' = "find" /\ t2' = t1'
    BY <1>10 DEF Find
  <2>2. ListTypeOK'
    BY <1>3, <1>8, <2>1 DEF IInv, ListTypeOK, Find, memory, call
  <2>3. op # "count" => pos \notin 0 .. (i + 1) - 1
    <3>1. i \in Nat /\ pos \in Int
      BY <1>2, Known
    <3>2. op # "count" => pos \notin 0 .. i - 1 /\ pos # i
      BY <1>1, <1>10
    <3> QED BY <3>1, <3>2
  <2>4. Finding'
    BY <1>1, <1>3, <1>8, <2>1, <2>3 DEF Finding
  <2> QED BY <1>6, <1>7, <2>2, <2>4 DEF IInv
<1> QED BY <1>9, <1>10

LEMMA FindEndFacts ==
    ASSUME IInv, FindEnd
    PROVE  IInv' /\ IF op = "count" THEN i = Len(order) ELSE pos + 1 \notin DOMAIN order
<1>1. /\ pc = "find" /\ i \in 0 .. Len(order) /\ t1 = Cell(order, i) /\ next[t1] = Null
      /\ op # "count" => pos \notin 0 .. i - 1
  BY DEF IInv, Finding, FindEnd
<1>2. i = Len(order)
  BY <1>1, Ahead
<1>3. DOMAIN order = 1 .. Len(order) /\ Len(order) \in Nat /\ pos \in Int
  BY Known
<1>4. op # "count" => pos + 1 \notin DOMAIN order
  BY <1>1, <1>2, <1>3
<1>5. IInv'
  BY <1>1, EndIInv DEF FindEnd, Held
<1> QED BY <1>2, <1>4, <1>5

(* A call that has found its cell.                                         *)
LEMMA Found ==
    ASSUME IInv, pc \in {"get", "set", "remove"}
    PROVE  /\ pos + 1 \in 1 .. Len(order) /\ pos + 1 \in DOMAIN order
           /\ t1 = order[pos + 1] /\ t2 = Cell(order, (pos + 1) - 1)
           /\ t1 \in Cells /\ t1 \in ToSet(order) /\ Held = {}
           /\ UpTo(t1) = pos + 1
<1>1. pos + 1 \in 1 .. Len(order) /\ t1 = order[pos + 1] /\ t2 = Cell(order, pos)
  BY DEF IInv, Finding
<1>2. pos \in Int /\ Len(order) \in Nat /\ DOMAIN order = 1 .. Len(order)
  BY Known
<1>3. (pos + 1) - 1 = pos /\ pos + 1 \in 0 .. Len(order)
  BY <1>1, <1>2
<1>4. t1 = Cell(order, pos + 1) /\ t1 \in Cells
  BY <1>1, Known, CellFacts
<1>5. t1 \in ToSet(order)
  BY <1>1, <1>2 DEF ToSet
<1>6. UpTo(t1) = pos + 1
  BY <1>3, <1>4, Known, UpToCell
<1>7. Held = {}
  BY DEF Held
<1> QED BY <1>1, <1>2, <1>3, <1>4, <1>5, <1>6, <1>7

LEMMA SetIInv ==
    ASSUME IInv, Set
    PROVE  IInv' /\ pos + 1 \in DOMAIN order /\ elem' = [elem EXCEPT ![order[pos + 1]] = item]
<1>1. /\ pos + 1 \in DOMAIN order /\ t1 = order[pos + 1] /\ t1 \in Cells /\ Held = {}
  BY Found DEF Set
<1>2. item \in Items
  BY DEF IInv, Finding, Set
<1>3. Return /\ elem' = [elem EXCEPT ![t1] = item] /\ UNCHANGED <<next, free, order, lost>>
  BY DEF Set
<1>4. ListTypeOK'
  BY <1>1, <1>2, <1>3, ReturnIInv DEF IInv, ListTypeOK
<1>5. Linked'
  BY <1>1, <1>2, <1>3 DEF IInv, ListTypeOK, Linked
<1>6. Accounted'
  BY <1>1, <1>3, ReturnIInv DEF IInv, Accounted
<1> QED BY <1>1, <1>3, <1>4, <1>5, <1>6, ReturnIInv DEF IInv

LEMMA UnlinkIInv ==
    ASSUME IInv, Unlink
    PROVE  IInv' /\ pos + 1 \in DOMAIN order /\ order' = RemoveAt(order, pos + 1)
<1>1. /\ pos + 1 \in 1 .. Len(order) /\ pos + 1 \in DOMAIN order
      /\ t1 = order[pos + 1] /\ t2 = Cell(order, (pos + 1) - 1)
      /\ t1 \in Cells /\ t1 \in ToSet(order) /\ Held = {}
      /\ UpTo(t1) = pos + 1
  BY Found DEF Unlink
<1>2. order' = RemoveAt(order, pos + 1)
      /\ next' = [next EXCEPT ![Cell(order, (pos + 1) - 1)] = next[order[pos + 1]]]
  BY <1>1 DEF Unlink
<1>3. /\ order' \in Seq(Cells) /\ IsInjective(order') /\ ToSet(order') = ToSet(order) \ {order[pos + 1]}
      /\ next' \in Fields /\ Spells(next', order')
  BY <1>1, <1>2, Known, StoreUnlink
<1>4. pc' = "free" /\ UNCHANGED <<elem, free, lost, op, pos, item, t1, t2, i>>
  BY DEF Unlink, call, locals
<1>5. Held' = {t1}
  BY <1>4 DEF Held
<1>6. ListTypeOK'
  BY <1>3, <1>4 DEF IInv, ListTypeOK, Fields
<1>7. Linked'
  BY <1>3, <1>4 DEF IInv, Linked
<1>8. Accounted'
  BY <1>1, <1>3, <1>4, <1>5 DEF IInv, Accounted, Linked
<1>9. Linking' /\ Finding'
  BY <1>1, <1>4 DEF Linking, Finding
<1> QED BY <1>1, <1>2, <1>6, <1>7, <1>8, <1>9 DEF IInv

LEMMA FreeIInv ==
    ASSUME IInv, Free
    PROVE  IInv'
<1>1. t1 \in Cells /\ Held = {t1} /\ t1 \notin ToSet(order)
  BY DEF IInv, Finding, Accounted, Held, Free
<1>2. Return /\ free' = free \cup {t1} /\ UNCHANGED <<next, elem, order, lost>>
  BY DEF Free
<1>3. ListTypeOK' /\ Linked'
  BY <1>1, <1>2, ReturnIInv DEF IInv, ListTypeOK, Linked
<1>4. Accounted'
  BY <1>1, <1>2, ReturnIInv DEF IInv, Accounted
<1> QED BY <1>2, <1>3, <1>4, ReturnIInv DEF IInv

LEMMA AbandonIInv ==
    ASSUME IInv, Abandon
    PROVE  IInv'
<1>1. Return /\ lost' = lost \cup Held /\ UNCHANGED <<next, elem, free, order>>
  BY DEF Abandon
<1>2. Held \subseteq Cells
  BY DEF IInv, Accounted
<1>3. ListTypeOK' /\ Linked'
  BY <1>1, <1>2, ReturnIInv DEF IInv, ListTypeOK, Linked
<1>4. Accounted'
  BY <1>1, ReturnIInv DEF IInv, Accounted
<1> QED BY <1>1, <1>3, <1>4, ReturnIInv DEF IInv

LEMMA NextIInv == IInv /\ [Next]_vars => IInv'
<1> SUFFICES ASSUME IInv, [Next]_vars PROVE IInv'
  OBVIOUS
<1>1. ASSUME NEW x \in Items, CallLinker("append", 0, x)
      PROVE  IInv'
  BY <1>1, CallLinkerIInv DEF Linkers
<1>2. ASSUME NEW n \in Positions, NEW x \in Items, CallLinker("insert", n, x)
      PROVE  IInv'
  BY <1>2, CallLinkerIInv DEF Linkers
<1>3. ASSUME NEW n \in Positions, NEW x \in Items, CallFinder("set", n, x)
      PROVE  IInv'
  BY <1>3, CallFinderIInv DEF Finders
<1>4. ASSUME NEW n \in Positions, NEW o \in {"remove", "get"}, CallFinder(o, n, Null)
      PROVE  IInv'
  <2>1. o \in Finders /\ o # "set"
    BY DEF Finders
  <2> QED BY <1>4, <2>1, CallFinderIInv
<1>5. CASE CallFinder("count", 0, Null)
  <2>1. "count" \in Finders /\ "count" # "set"
    BY DEF Finders
  <2> QED BY <1>5, <2>1, CallFinderIInv
<1>6. CASE MallocFail
  BY <1>6, EndIInv DEF MallocFail, Held
<1>7. CASE Get
  BY <1>7, EndIInv DEF Get, Held
<1>8. CASE Step
  BY <1>6, <1>7, <1>8, MallocOkIInv, FillIInv, WalkIInv, SpliceIInv, HookIInv, FindIInv, FindEndFacts,
     SetIInv, UnlinkIInv, FreeIInv DEF Step
<1>9. CASE Abandon
  BY <1>9, AbandonIInv
<1>10. CASE UNCHANGED vars
  BY <1>10 DEF vars, memory, call, locals, IInv, ListTypeOK, Linked, Accounted, Held, Linking, Finding, Behind
<1> QED BY <1>1, <1>2, <1>3, <1>4, <1>5, <1>8, <1>9, <1>10 DEF Next
-----------------------------------------------------------------------------
(* Every variable keeps its type.                                          *)
THEOREM ListTypes == Spec => []ListTypeOK
<1>1. IInv => ListTypeOK
  BY DEF IInv
<1> QED BY <1>1, InitIInv, NextIInv, PTL DEF Spec

(* Whenever a tick abandons list_append, list_insert or list_remove, the   *)
(* pointers still spell a list without the unfinished cell (list.c:18-81). *)
THEOREM ListWhole == Spec => []Whole
<1>1. IInv => Whole
  <2> SUFFICES ASSUME IInv PROVE Whole
    OBVIOUS
  <2> DEFINE path == <<Header>> \o order
  <2>1. order \in Seq(Cells) /\ Len(order) \in Nat
    BY Known
  <2>2. Len(path) = Len(order) + 1 /\ \A k \in 1 .. Len(order) + 1 : path[k] = Cell(order, k - 1)
    <3>1. <<Header>> \in Seq(Cells \cup {Header}) /\ Len(<<Header>>) = 1 /\ <<Header>>[1] = Header
      OBVIOUS
    <3>2. order \in Seq(Cells \cup {Header})
      BY <2>1
    <3>3. /\ Len(path) = Len(<<Header>>) + Len(order)
          /\ \A k \in 1 .. Len(<<Header>>) + Len(order) :
                path[k] = IF k <= Len(<<Header>>) THEN <<Header>>[k] ELSE order[k - Len(<<Header>>)]
      BY <3>1, <3>2, ConcatProperties
    <3> HIDE DEF path
    <3>4. Len(path) = Len(order) + 1
      BY <2>1, <3>1, <3>3
    <3>5. ASSUME NEW k \in 1 .. Len(order) + 1
          PROVE  path[k] = Cell(order, k - 1)
      <4>1. CASE k = 1
        BY <2>1, <3>1, <3>3, <4>1 DEF Cell
      <4>2. CASE k # 1
        BY <2>1, <3>1, <3>3, <4>2 DEF Cell
      <4> QED BY <4>1, <4>2
    <3> QED BY <3>4, <3>5
  <2> HIDE DEF path
  <2>3. \A k \in 1 .. Len(order) : k \in 1 .. Len(order) + 1 /\ k - 1 \in 0 .. Len(order) - 1 /\ (k - 1) + 1 = k
    BY <2>1
  <2>4. \A k \in 1 .. Len(order) : next[path[k]] = order[k]
    BY <2>2, <2>3, Known DEF Spells
  <2>5. Len(order) + 1 \in 1 .. Len(order) + 1 /\ (Len(order) + 1) - 1 = Len(order)
    BY <2>1
  <2>6. next[Last(path)] = Null
    BY <2>2, <2>5, Known DEF Spells, Last
  <2> QED BY <2>4, <2>6 DEF Whole, path, IInv, Linked
<1> QED BY <1>1, InitIInv, NextIInv, PTL DEF Spec

(* A cell is free, linked, held or lost to a tick, and no two of them: no  *)
(* cell is freed twice (list.c:74), nor linked while it is free.           *)
THEOREM ListAccounted == Spec => []Accounted
<1>1. IInv => Accounted
  BY DEF IInv
<1> QED BY <1>1, InitIInv, NextIInv, PTL DEF Spec

(* What following pointers does is what counting cells says: the place of  *)
(* an insertion, the cell removed, set or returned, failure, the count.    *)
THEOREM ListPositional == Spec => Positional
<1> DEFINE A == /\ Hook => order' = InsertAt(order, Behind + 1, t1)
                /\ Unlink => pos + 1 \in DOMAIN order /\ order' = RemoveAt(order, pos + 1)
                /\ Set => pos + 1 \in DOMAIN order /\ elem' = [elem EXCEPT ![order[pos + 1]] = item]
                /\ Get => pos + 1 \in DOMAIN order /\ t1 = order[pos + 1]
                /\ FindEnd => IF op = "count" THEN i = Len(order) ELSE pos + 1 \notin DOMAIN order
<1>1. IInv => A
  <2> SUFFICES ASSUME IInv PROVE A
    OBVIOUS
  <2>1. Get => pos + 1 \in DOMAIN order /\ t1 = order[pos + 1]
    BY Found DEF Get
  <2> QED BY <2>1, HookIInv, UnlinkIInv, SetIInv, FindEndFacts
<1>2. IInv /\ [Next]_vars => [A]_vars
  <2> HIDE DEF A
  <2> QED BY <1>1
<1> QED BY <1>2, InitIInv, NextIInv, PTL DEF Spec, Positional
=============================================================================
