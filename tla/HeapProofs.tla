----------------------------- MODULE HeapProofs -----------------------------
(***************************************************************************)
(* Proofs about Heap for a pool of any size and any set of requests.       *)
(***************************************************************************)
EXTENDS Heap, TLAPS

(* No row of free blocks ends behind x and starts at or behind last_free   *)
(* before it: a search that reaches x has seen every row before x whole.   *)
Boundary(x) ==
    \A h \in heads : last_free <= h /\ h < x => \E g \in heads : h <= g /\ g < x /\ used[g]

(* Nothing between last_free and x is big enough for the request. *)
Seen(x) ==
    \A h, e \in heads : last_free <= h /\ h < e /\ e <= x => ~ Fits(h, e, request)

(* Where malloc is in its search. *)
Locals ==
    /\ last_free # End
    /\ pc # "idle" => request \in Requests /\ last_free <= q /\ q <= p
    /\ pc = "search" =>
          /\ p # last_free => used[p] \/ p = End
          /\ p = last_free => q = p
          /\ Seen(p)
    /\ pc = "used" => p = q /\ Seen(p) /\ Boundary(p) /\ (used[p] \/ p # End)
    /\ pc = "free" =>
          /\ q # End /\ Seen(q) /\ Boundary(q)
          /\ ~ used[q]
          /\ \A g \in heads : q <= g /\ g < p => ~ used[g]
    /\ pc = "take" =>
          /\ p = q /\ p # End /\ ~ used[p]
          /\ next[p] - p >= request + 2 * HDR

IInv == HeapTypeOK /\ Chained /\ Locals

LEMMA Numbers == End \in Int /\ HDR = 2 /\ Null = -1 /\ End >= 2 /\ Requests \subseteq Nat
  BY PoolAssumption, RequestsAssumption DEF End, HDR, Null

LEMMA InitIInv == Init => IInv
  <1> SUFFICES ASSUME Init PROVE IInv
    OBVIOUS
  <1>1. HeapTypeOK
    BY Numbers DEF Init, HeapTypeOK
  <1>2. Chained
    BY Numbers DEF Init, Chained
  <1>3. Locals
    BY Numbers DEF Init, Locals
  <1> QED
    BY <1>1, <1>2, <1>3 DEF IInv

LEMMA FreeIInv ==
    ASSUME IInv, NEW h \in heads, Free(h)
    PROVE  IInv'
  <1>1. HeapTypeOK /\ Chained /\ Locals
    BY DEF IInv
  <1>2. HeapTypeOK'
    BY <1>1, Numbers DEF HeapTypeOK, Chained, Free, first_free
  <1>3. Chained'
    BY <1>1, Numbers DEF HeapTypeOK, Chained, Free
  <1>4. Locals'
    BY <1>1, Numbers DEF Locals, Free, first_free
  <1> QED
    BY <1>2, <1>3, <1>4 DEF IInv

LEMMA AbandonFreeIInv ==
    ASSUME IInv, NEW h \in heads, AbandonFree(h)
    PROVE  IInv'
  <1>1. HeapTypeOK /\ Chained /\ Locals
    BY DEF IInv
  <1>2. HeapTypeOK'
    BY <1>1 DEF HeapTypeOK, AbandonFree
  <1>3. Chained'
    BY <1>1, Numbers DEF HeapTypeOK, Chained, AbandonFree
  <1>4. Locals'
    BY <1>1 DEF Locals, AbandonFree
  <1> QED
    BY <1>2, <1>3, <1>4 DEF IInv

(* What an abandoned malloc leaves behind: the size of a free block, and a *)
(* last_free that is not the end.                                          *)
LEMMA AbandonMallocIInv ==
    ASSUME IInv, AbandonMalloc
    PROVE  IInv'
  <1>1. HeapTypeOK /\ Chained /\ Locals
    BY DEF IInv
  <1>2. UNCHANGED <<heads, next, used>> /\ pc' = "idle" /\ request' = 0 /\ p' = 0 /\ q' = 0
    BY DEF AbandonMalloc, Return
  <1>3. p \in heads /\ q \in heads /\ heads \subseteq Int
    BY <1>1, Numbers DEF AbandonMalloc, HeapTypeOK
  <1>4. size' \in [heads -> Int] /\ \A h \in heads : used[h] => size'[h] = size[h]
    <2>1. CASE size' = size
      BY <1>1, <2>1 DEF HeapTypeOK
    <2>2. CASE pc = "free" /\ size' = [size EXCEPT ![q] = p - q - HDR]
      <3>1. ~ used[q]
        BY <1>1, <2>2 DEF Locals
      <3>2. p - q - HDR \in Int
        BY <1>3, Numbers
      <3> QED
        BY <1>1, <2>2, <3>1, <3>2 DEF HeapTypeOK
    <2> QED
      BY <2>1, <2>2 DEF AbandonMalloc
  <1>5. last_free' \in heads /\ last_free' \in Int /\ last_free' # End
    BY <1>1, <1>3 DEF AbandonMalloc, HeapTypeOK, Locals
  <1>6. HeapTypeOK'
    BY <1>1, <1>2, <1>4, <1>5 DEF HeapTypeOK
  <1>7. Chained'
    BY <1>1, <1>2, <1>4 DEF Chained
  <1>8. Locals'
    BY <1>2, <1>5 DEF Locals
  <1> QED
    BY <1>6, <1>7, <1>8 DEF IInv

LEMMA MallocCallIInv ==
    ASSUME IInv, NEW n \in Requests, MallocCall(n)
    PROVE  IInv'
  <1>1. HeapTypeOK /\ Chained /\ Locals
    BY DEF IInv
  <1>2. HeapTypeOK'
    BY <1>1, Numbers DEF HeapTypeOK, MallocCall, chain
  <1>3. Chained'
    BY <1>1 DEF Chained, MallocCall, chain
  <1>4. Seen(p)'
    BY <1>1, Numbers DEF Seen, MallocCall, chain, HeapTypeOK
  <1>5. Locals'
    BY <1>1, <1>4, Numbers DEF Locals, HeapTypeOK, MallocCall, chain
  <1> QED
    BY <1>2, <1>3, <1>5 DEF IInv

LEMMA MallocFailIInv ==
    ASSUME IInv, MallocFail
    PROVE  IInv'
  <1>1. HeapTypeOK /\ Chained /\ Locals
    BY DEF IInv
  <1>2. HeapTypeOK'
    BY <1>1 DEF HeapTypeOK, MallocFail, Return, chain
  <1>3. Chained'
    BY <1>1 DEF Chained, MallocFail, chain
  <1>4. Locals'
    BY <1>1 DEF Locals, MallocFail, Return, chain
  <1> QED
    BY <1>2, <1>3, <1>4 DEF IInv

LEMMA SkipUsedIInv ==
    ASSUME IInv, SkipUsed
    PROVE  IInv'
  <1>1. HeapTypeOK /\ Chained /\ Locals
    BY DEF IInv
  <1>2. UNCHANGED <<heads, next, size, used, last_free, request>>
    BY DEF SkipUsed, chain
  <1>3. Chained'
    BY <1>1, <1>2 DEF Chained
  <1>4. p \in heads /\ q \in heads /\ p \in Int /\ last_free \in Int /\ request \in Requests /\ last_free <= p
    BY <1>1 DEF HeapTypeOK, Locals, SkipUsed
  <1>5. CASE used[p]
    <2>1. p # End /\ next[p] \in heads /\ next[p] # End /\ p + HDR <= next[p]
          /\ \A g \in heads : g <= p \/ next[p] <= g
      BY <1>1, <1>4, <1>5 DEF Chained
    <2>2. p' = next[p] /\ q' = next[p] /\ pc' = "used"
      BY <1>5 DEF SkipUsed
    <2>3. HeapTypeOK'
      BY <1>1, <1>2, <2>1, <2>2 DEF HeapTypeOK
    <2>4. Boundary(p)'
      BY <1>1, <1>2, <1>4, <1>5, <2>1, <2>2, Numbers DEF Boundary, HeapTypeOK
    <2>5. Seen(p)
      BY <1>1 DEF SkipUsed, Locals
    <2>6. Seen(p)'
      BY <1>1, <1>2, <1>4, <1>5, <2>1, <2>2, <2>5, Numbers DEF Seen, Fits, HeapTypeOK
    <2>7. Locals'
      BY <1>1, <1>2, <1>4, <2>1, <2>2, <2>4, <2>6, <2>3, Numbers DEF Locals, HeapTypeOK
    <2> QED
      BY <1>3, <2>3, <2>7 DEF IInv
  <1>6. CASE ~ used[p]
    <2>1. p' = p /\ q' = q /\ pc' = "free"
      BY <1>6 DEF SkipUsed
    <2>2. HeapTypeOK'
      BY <1>1, <1>2, <1>4, <2>1 DEF HeapTypeOK
    <2>3. p # End
      BY <1>1, <1>6 DEF SkipUsed, Chained, Locals
    <2>4. q = p /\ Seen(p) /\ Boundary(p)
      BY <1>1, <1>4, <1>6, <2>3 DEF SkipUsed, Locals, Boundary, HeapTypeOK
    <2>5. Seen(q)' /\ Boundary(q)'
      BY <1>2, <2>1, <2>4 DEF Seen, Boundary, Fits
    <2>6. Locals'
      BY <1>1, <1>2, <1>4, <1>6, <2>1, <2>3, <2>4, <2>5 DEF Locals, HeapTypeOK
    <2> QED
      BY <1>3, <2>2, <2>6 DEF IInv
  <1> QED
    BY <1>5, <1>6

LEMMA SkipFreeIInv ==
    ASSUME IInv, SkipFree
    PROVE  IInv'
  <1>1. HeapTypeOK /\ Chained /\ Locals
    BY DEF IInv
  <1>2. UNCHANGED <<heads, next, size, used, last_free, q, pc, request>> /\ pc = "free"
    BY DEF SkipFree, chain
  <1>3. p \in heads /\ p # End /\ ~ used[p] /\ p' = next[p]
    BY <1>1, <1>2 DEF HeapTypeOK, Chained, SkipFree
  <1>4. next[p] \in heads /\ p + HDR <= next[p] /\ \A g \in heads : g <= p \/ next[p] <= g
    BY <1>1, <1>3 DEF Chained
  <1>5. HeapTypeOK' /\ Chained'
    BY <1>1, <1>2, <1>3, <1>4 DEF HeapTypeOK, Chained
  <1>6. Seen(q)' /\ Boundary(q)'
    BY <1>1, <1>2 DEF Locals, Seen, Boundary, Fits
  <1>7. Locals'
    BY <1>1, <1>2, <1>3, <1>4, <1>6, Numbers DEF Locals, HeapTypeOK
  <1> QED
    BY <1>5, <1>7 DEF IInv

(* Merging keeps the chain; if the merged block is too small, nothing up   *)
(* to p fits the request.                                                  *)
LEMMA MergeFacts ==
    ASSUME IInv, Merge
    PROVE  /\ p \in heads /\ q \in heads /\ q < p /\ q # End /\ ~ used[q]
           /\ heads' = heads \ {h \in heads : q < h /\ h < p}
           /\ \A h \in heads' : /\ h \in heads
                                /\ used'[h] = used[h]
                                /\ next'[h] = IF h = q THEN p ELSE next[h]
                                /\ h # q => size'[h] = size[h]
           /\ \A h \in heads \ heads' : ~ used[h]
           /\ \A h \in heads' : h <= q \/ p <= h
           /\ last_free \in heads' /\ q \in heads' /\ p \in heads'
           /\ used[p] \/ p = End
  <1>1. HeapTypeOK /\ Chained /\ Locals /\ pc = "free"
    BY DEF IInv, Merge
  <1>2. p \in heads /\ q \in heads /\ q <= p /\ q # End /\ ~ used[q] /\ last_free <= q /\ last_free \in heads
    BY <1>1 DEF HeapTypeOK, Locals
  <1>3. used[p] \/ p = End
    BY <1>1, <1>2, Numbers DEF Merge, Chained, HeapTypeOK
  <1>4. q < p
    BY <1>2, <1>3, Numbers, <1>1 DEF HeapTypeOK
  <1>5. heads' = heads \ {h \in heads : q < h /\ h < p}
    BY DEF Merge
  <1>6. \A h \in heads' : /\ h \in heads
                          /\ used'[h] = used[h]
                          /\ next'[h] = IF h = q THEN p ELSE next[h]
                          /\ h # q => size'[h] = size[h]
    BY <1>5 DEF Merge
  <1>7. heads \subseteq Int /\ last_free \in Int
    BY <1>1, Numbers DEF HeapTypeOK
  <1>8. \A h \in heads \ heads' : ~ used[h]
    BY <1>1, <1>2, <1>5, <1>7 DEF Locals
  <1>9. \A h \in heads' : h <= q \/ p <= h
    BY <1>2, <1>5, <1>7
  <1>10. last_free \in heads' /\ q \in heads' /\ p \in heads'
    BY <1>2, <1>5, <1>7
  <1> QED
    BY <1>2, <1>3, <1>4, <1>5, <1>6, <1>8, <1>9, <1>10

LEMMA MergeIInv ==
    ASSUME IInv, Merge
    PROVE  IInv'
  <1>1. HeapTypeOK /\ Chained /\ Locals /\ pc = "free"
    BY DEF IInv, Merge
  <1>2. UNCHANGED <<last_free, q, request>>
    BY DEF Merge
  <1>3. /\ heads \subseteq 0 .. End /\ heads \subseteq Int /\ request \in Requests /\ request \in Nat
        /\ last_free \in Int /\ last_free <= q /\ p \in Int /\ q \in Int
    BY <1>1, Numbers DEF HeapTypeOK, Locals
  <1>a. p \in heads /\ q \in heads /\ q < p /\ q # End /\ ~ used[q] /\ (used[p] \/ p = End)
    BY MergeFacts
  <1>b. heads' = heads \ {h \in heads : q < h /\ h < p} /\ heads' \subseteq heads
    BY MergeFacts
  <1>c. \A h \in heads' : /\ used'[h] = used[h]
                          /\ next'[h] = IF h = q THEN p ELSE next[h]
                          /\ h # q => size'[h] = size[h]
    BY MergeFacts
  <1>d. \A h \in heads \ heads' : ~ used[h]
    BY MergeFacts
  <1>e. \A h \in heads' : h <= q \/ p <= h
    BY MergeFacts
  <1>f. last_free \in heads' /\ q \in heads' /\ p \in heads'
    BY MergeFacts
  <1>4. /\ next' \in [heads' -> heads' \cup {Null}]
        /\ size' \in [heads' -> Int]
        /\ used' \in [heads' -> BOOLEAN]
    <2>1. \A h \in heads' \ {q} : next[h] \in heads' \cup {Null}
      <3> SUFFICES ASSUME NEW h \in heads', h # q
                   PROVE  next[h] \in heads' \cup {Null}
        OBVIOUS
      <3>1. CASE h = End
        BY <1>1, <3>1 DEF Chained
      <3>2. CASE h # End
        <4>1. next[h] \in heads /\ h + HDR <= next[h] /\ \A g \in heads : g <= h \/ next[h] <= g
          BY <1>1, <1>b, <3>2 DEF Chained
        <4>2. h \in Int /\ next[h] \in Int /\ (h <= q \/ p <= h)
          BY <1>3, <1>b, <1>e, <4>1
        <4>3. h < q \/ p <= h
          BY <1>3, <4>2
        <4>4. next[h] <= q \/ p <= next[h]
          <5>1. CASE h < q
            BY <1>3, <1>a, <4>1, <4>2, <5>1
          <5>2. CASE p <= h
            BY <1>3, <4>1, <4>2, <5>2, Numbers
          <5> QED
            BY <4>3, <5>1, <5>2
        <4> QED
          BY <1>3, <1>b, <4>1, <4>2, <4>4
      <3> QED
        BY <3>1, <3>2
    <2>2. /\ next' = [h \in heads' |-> IF h = q THEN p ELSE next[h]]
          /\ size' = [h \in heads' |-> IF h = q THEN p - q - HDR ELSE size[h]]
          /\ used' = [h \in heads' |-> used[h]]
      BY DEF Merge
    <2>3. \A h \in heads' : size[h] \in Int /\ used[h] \in BOOLEAN
      BY <1>1, <1>b DEF HeapTypeOK
    <2>4. p \in heads' /\ p - q - HDR \in Int
      BY <1>3, <1>f, Numbers
    <2> QED
      BY <2>1, <2>2, <2>3, <2>4
  <1>5. Chained'
    <2>1. 0 \in heads' /\ End \in heads' /\ 0 < End
      <3>1. 0 \in heads /\ End \in heads /\ 0 < End /\ 0 <= q /\ p <= End
        BY <1>1, <1>3, <1>a, Numbers DEF Chained
      <3> QED
        BY <1>3, <1>b, <3>1, Numbers
    <2>2. next'[End] = Null /\ ~ used'[End]
      BY <1>1, <1>a, <1>c, <2>1 DEF Chained
    <2>3. ASSUME NEW h \in heads' \ {End}
          PROVE  /\ next'[h] \in heads'
                 /\ h + HDR <= next'[h]
                 /\ \A g \in heads' : g <= h \/ next'[h] <= g
                 /\ used'[h] => next'[h] = h + HDR + size'[h] /\ size'[h] >= 0 /\ next'[h] # End
      <3>1. CASE h = q
        <4>1. next[q] \in heads /\ q + HDR <= next[q] /\ \A g \in heads : g <= q \/ next[q] <= g
          BY <1>1, <1>a DEF Chained
        <4>0. next[q] \in Int /\ heads \subseteq Int
          BY <4>1, <1>3
        <4>7. p <= q \/ next[q] <= p
          BY <4>1, <1>a
        <4>2. next[q] <= p /\ next[q] \in Int
          BY <4>0, <4>7, <1>3, <1>a
        <4>3. next'[q] = p /\ used'[q] = used[q]
          BY <1>c, <1>f
        <4>4. q + HDR <= p
          BY <4>1, <4>2, <1>3, Numbers
        <4>5. \A g \in heads' : g <= q \/ p <= g
          BY <1>e
        <4>6. next'[h] = p /\ used'[h] = FALSE /\ h = q
          BY <3>1, <4>3, <1>1, <1>a DEF HeapTypeOK
        <4> QED
          BY <4>4, <4>5, <4>6, <1>f
      <3>2. CASE h # q
        <4>1. /\ next[h] \in heads /\ h + HDR <= next[h] /\ \A g \in heads : g <= h \/ next[h] <= g
              /\ used[h] => next[h] = h + HDR + size[h] /\ size[h] >= 0 /\ next[h] # End
          BY <1>1, <1>b DEF Chained
        <4>2. next'[h] = next[h] /\ size'[h] = size[h] /\ used'[h] = used[h]
          BY <3>2, <1>c
        <4>3. h \in 0 .. End /\ next'[h] \in 0 .. End
          BY <4>1, <4>2, <1>b, <1>3
        <4>4. next'[h] \in heads'
          BY <1>4, <4>3, Numbers
        <4>5. \A g \in heads' : g <= h \/ next'[h] <= g
          BY <4>1, <4>2, <1>b
        <4> QED
          BY <4>1, <4>2, <4>4, <4>5
      <3> QED
        BY <3>1, <3>2
    <2> QED
      BY <2>1, <2>2, <2>3 DEF Chained
  <1>6. CASE Enough(p - q - HDR)
    <2>1. p' = q /\ pc' = "take"
      BY <1>6 DEF Merge
    <2>2. HeapTypeOK'
      BY <1>1, <1>2, <1>3, <1>4, <1>b, <1>f, <2>1 DEF HeapTypeOK
    <2>3. next'[p'] - p' >= request' + 2 * HDR
      <3>1. next'[p'] = p /\ p' = q /\ request' = request
        BY <1>2, <1>c, <1>f, <2>1
      <3>2. p - q >= request + 2 * HDR
        BY <1>3, <1>6, Numbers DEF Enough
      <3> QED
        BY <3>1, <3>2
    <2>4. ~ used'[q]
      BY <1>a, <1>c, <1>f
    <2>5. last_free' # End
      BY <1>1, <1>2 DEF Locals
    <2>6. q <= q
      BY <1>3
    <2>7. Locals'
      BY <1>2, <1>3, <1>a, <2>1, <2>3, <2>4, <2>5, <2>6 DEF Locals
    <2> QED
      BY <1>5, <2>2, <2>7 DEF IInv
  <1>7. CASE ~ Enough(p - q - HDR)
    <2>1. p' = p /\ pc' = "search"
      BY <1>7 DEF Merge
    <2>2. HeapTypeOK'
      BY <1>1, <1>2, <1>3, <1>4, <1>b, <1>f, <2>1 DEF HeapTypeOK
    <2>3. Seen(p)'
      <3> SUFFICES ASSUME NEW h \in heads', NEW e \in heads', last_free <= h, h < e, e <= p,
                          \A g \in heads' : h <= g /\ g < e => ~ used'[g],
                          e - h >= request + 2 * HDR
                   PROVE  FALSE
        BY <1>2, <2>1 DEF Seen, Fits
      <3>0. h \in heads /\ e \in heads /\ h \in Int /\ e \in Int
        BY <1>b, <1>3
      <3>1. \A g \in heads : h <= g /\ g < e => ~ used[g]
        BY <1>c, <1>d
      <3>2. CASE e <= q
        <4>1. Seen(q)
          BY <1>1 DEF Locals
        <4> QED
          BY <3>0, <3>1, <3>2, <4>1 DEF Seen, Fits
      <3>3. CASE ~ (e <= q) /\ h = q
        BY <1>3, <1>7, <3>0, <3>3, Numbers DEF Enough
      <3>4. CASE ~ (e <= q) /\ h # q
        <4>0. h <= q \/ p <= h
          BY <1>e
        <4>1. h < q /\ q < e
          BY <1>3, <3>0, <3>4, <4>0
        <4>2. Boundary(q)
          BY <1>1 DEF Locals
        <4>3. PICK g \in heads : h <= g /\ g < q /\ used[g]
          BY <3>0, <4>1, <4>2 DEF Boundary
        <4>4. g \in Int /\ g < e
          BY <1>3, <3>0, <4>1, <4>3
        <4> QED
          BY <3>1, <4>3, <4>4
      <3> QED
        BY <3>2, <3>3, <3>4
    <2>4. used'[p'] \/ p' = End
      BY <1>a, <1>c, <1>f, <2>1
    <2>5. last_free' # End /\ last_free <= p /\ q <= p /\ (p # last_free)
      BY <1>1, <1>2, <1>3, <1>a DEF Locals
    <2>6. Locals'
      BY <1>2, <1>3, <2>1, <2>3, <2>4, <2>5 DEF Locals
    <2> QED
      BY <1>5, <2>2, <2>6 DEF IInv
  <1> QED
    BY <1>6, <1>7

LEMMA MallocTakeIInv ==
    ASSUME IInv, MallocTake
    PROVE  IInv'
  <1>1. HeapTypeOK /\ Chained /\ Locals /\ pc = "take"
    BY DEF IInv, MallocTake
  <1>2. /\ p \in heads /\ p # End /\ ~ used[p] /\ heads \subseteq Int /\ heads \subseteq 0 .. End
        /\ request \in Nat /\ p \in Int /\ last_free \in heads
        /\ next[p] - p >= request + 2 * HDR
    BY <1>1, Numbers DEF HeapTypeOK, Locals
  <1>3. next[p] \in heads /\ next[p] \in Int /\ \A g \in heads : g <= p \/ next[p] <= g
    BY <1>1, <1>2 DEF Chained
  <1>4. Rest \in Int /\ p + HDR <= Rest /\ Rest + HDR <= next[p] /\ p < Rest /\ Rest < next[p]
    BY <1>2, <1>3, Numbers DEF Rest
  <1>5. Rest \notin heads /\ Rest # End /\ Rest \in 0 .. End
    <2>1. Rest \notin heads
      BY <1>2, <1>3, <1>4
    <2>2. End \in heads
      BY <1>1 DEF Chained
    <2>3. 0 <= p /\ next[p] <= End
      BY <1>2, <1>3, Numbers
    <2> QED
      BY <1>2, <1>3, <1>4, <2>1, <2>2, <2>3, Numbers
  <1>6. heads' = heads \cup {Rest}
    BY DEF MallocTake
  <1>7. /\ next' = [h \in heads' |-> CASE h = p -> Rest [] h = Rest -> next[p] [] OTHER -> next[h]]
        /\ size' = [h \in heads' |-> CASE h = p -> request [] h = Rest -> - HDR [] OTHER -> size[h]]
        /\ used' = [h \in heads' |-> CASE h = p -> TRUE [] h = Rest -> FALSE [] OTHER -> used[h]]
        /\ last_free' = p /\ pc' = "idle" /\ p' = 0 /\ q' = 0 /\ request' = 0
    BY <1>6 DEF MallocTake, Return
  <1>8. /\ next'[p] = Rest /\ size'[p] = request /\ used'[p] = TRUE
        /\ next'[Rest] = next[p] /\ used'[Rest] = FALSE
    BY <1>2, <1>5, <1>6, <1>7
  <1>9. \A h \in heads : h # p => next'[h] = next[h] /\ size'[h] = size[h] /\ used'[h] = used[h]
    BY <1>5, <1>6, <1>7
  <1>10. HeapTypeOK'
    <2>1. heads' \subseteq 0 .. End
      BY <1>2, <1>5, <1>6
    <2>2. \A h \in heads : next[h] \in heads \cup {Null} /\ size[h] \in Int /\ used[h] \in BOOLEAN
      BY <1>1 DEF HeapTypeOK
    <2>3. next' \in [heads' -> heads' \cup {Null}]
      BY <1>3, <1>6, <1>7, <2>2
    <2>4. size' \in [heads' -> Int]
      BY <1>2, <1>6, <1>7, <2>2, Numbers
    <2>5. used' \in [heads' -> BOOLEAN]
      BY <1>6, <1>7, <2>2
    <2> QED
      <3>1. last_free' \in heads' /\ {last_free', p', q'} \subseteq Int
        BY <1>2, <1>6, <1>7
      <3>2. pc' = "idle" /\ request' \in Nat
        BY <1>7
      <3> QED
        BY <2>1, <2>3, <2>4, <2>5, <3>1, <3>2 DEF HeapTypeOK
  <1>11. Chained'
    <2>1. 0 \in heads' /\ End \in heads' /\ 0 < End /\ next'[End] = Null /\ ~ used'[End]
      BY <1>1, <1>2, <1>6, <1>9 DEF Chained
    <2>2. ASSUME NEW h \in heads' \ {End}
          PROVE  /\ next'[h] \in heads'
                 /\ h + HDR <= next'[h]
                 /\ \A g \in heads' : g <= h \/ next'[h] <= g
                 /\ used'[h] => next'[h] = h + HDR + size'[h] /\ size'[h] >= 0 /\ next'[h] # End
      <3>1. CASE h = p
        <4>1. \A g \in heads' : g <= p \/ Rest <= g
          <5> SUFFICES ASSUME NEW g \in heads' PROVE g <= p \/ Rest <= g
            OBVIOUS
          <5>1. CASE g \in heads
            <6>1. g \in Int /\ (g <= p \/ next[p] <= g)
              BY <1>2, <1>3, <5>1
            <6> QED
              BY <1>2, <1>3, <1>4, <6>1
          <5>2. CASE g = Rest
            BY <1>4, <5>2
          <5> QED
            BY <1>6, <5>1, <5>2
        <4>2. Rest = p + HDR + request
          BY <1>2, Numbers DEF Rest
        <4>3. next'[h] = Rest /\ size'[h] = request /\ h = p
          BY <1>8, <3>1
        <4>4. request >= 0
          BY <1>2
        <4> QED
          BY <1>4, <1>5, <1>6, <4>1, <4>2, <4>3, <4>4
      <3>2. CASE h = Rest
        <4>1. \A g \in heads' : g <= Rest \/ next[p] <= g
          <5> SUFFICES ASSUME NEW g \in heads' PROVE g <= Rest \/ next[p] <= g
            OBVIOUS
          <5>1. CASE g \in heads
            <6>1. g \in Int /\ (g <= p \/ next[p] <= g)
              BY <1>2, <1>3, <5>1
            <6> QED
              BY <1>2, <1>3, <1>4, <6>1
          <5>2. CASE g = Rest
            BY <1>4, <5>2
          <5> QED
            BY <1>6, <5>1, <5>2
        <4>2. next'[h] = next[p] /\ used'[h] = FALSE /\ h = Rest
          BY <1>8, <3>2
        <4> QED
          BY <1>3, <1>4, <1>6, <4>1, <4>2
      <3>3. CASE h \in heads /\ h # p
        <4>1. /\ next[h] \in heads /\ h + HDR <= next[h] /\ \A g \in heads : g <= h \/ next[h] <= g
              /\ used[h] => next[h] = h + HDR + size[h] /\ size[h] >= 0 /\ next[h] # End
          BY <1>1, <3>3 DEF Chained
        <4>2. next'[h] = next[h] /\ size'[h] = size[h] /\ used'[h] = used[h]
          BY <1>9, <3>3
        <4>3. Rest <= h \/ next[h] <= Rest
          <5>1. h \in Int /\ next[h] \in Int
            BY <1>2, <3>3, <4>1
          <5>2. (h <= p \/ next[p] <= h) /\ (p <= h \/ next[h] <= p)
            BY <1>2, <1>3, <3>3, <4>1
          <5> QED
            BY <1>2, <1>3, <1>4, <3>3, <5>1, <5>2
        <4>4. h \in Int /\ next[h] \in Int
          BY <1>2, <3>3, <4>1
        <4>5. Rest <= h \/ next[h] <= Rest
          BY <4>3
        <4>6. \A g \in heads' : g <= h \/ next[h] <= g
          BY <1>4, <1>6, <4>1, <4>3, <4>4
        <4> QED
          BY <1>6, <4>1, <4>2, <4>6
      <3> QED
        BY <1>6, <3>1, <3>2, <3>3
    <2> QED
      BY <2>1, <2>2 DEF Chained
  <1>12. Locals'
    BY <1>2, <1>7 DEF Locals
  <1> QED
    BY <1>10, <1>11, <1>12 DEF IInv

LEMMA NextIInv == IInv /\ [Next]_vars => IInv'
  <1> SUFFICES ASSUME IInv, [Next]_vars PROVE IInv'
    OBVIOUS
  <1>1. CASE \E n \in Requests : MallocCall(n)
    BY <1>1, MallocCallIInv
  <1>2. CASE \E h \in heads : Free(h)
    BY <1>2, FreeIInv
  <1>3. CASE Malloc
    BY <1>3, MallocFailIInv, SkipUsedIInv, SkipFreeIInv, MergeIInv, MallocTakeIInv DEF Malloc
  <1>4. CASE \E h \in heads : AbandonFree(h)
    BY <1>4, AbandonFreeIInv
  <1>5. CASE AbandonMalloc
    BY <1>5, AbandonMallocIInv
  <1>6. CASE UNCHANGED vars
    BY <1>6 DEF IInv, HeapTypeOK, Chained, Locals, Seen, Boundary, Fits, vars, chain
  <1> QED
    BY <1>1, <1>2, <1>3, <1>4, <1>5, <1>6 DEF Next
-----------------------------------------------------------------------------
(* The strengthening that the theorems below rest on holds in every        *)
(* reachable state of the heap.                                            *)
THEOREM HeapInvariant == Spec => []IInv
  BY InitIInv, NextIInv, PTL DEF Spec

(* Types: every variable of malloc and of its pool stays in its range, and *)
(* last_free and malloc's locals at headers of the chain.                  *)
THEOREM HeapTypes == Spec => []HeapTypeOK
  <1>1. IInv => HeapTypeOK
    BY DEF IInv
  <1> QED
    BY <1>1, HeapInvariant, PTL

(* malloc and free keep the pool cut into blocks: no block overlaps        *)
(* another or a header, and the last block is never a used one.            *)
THEOREM HeapChained == Spec => []Chained
  <1>1. IInv => Chained
    BY DEF IInv
  <1> QED
    BY <1>1, HeapInvariant, PTL

(* A search that returns 0 has looked at every row of free blocks.         *)
LEMMA FailSaw ==
    ASSUME IInv, MallocFail
    PROVE  \A h, e \in heads : h >= last_free /\ h < e => ~ Fits(h, e, request)
  <1>1. HeapTypeOK /\ Chained /\ Locals /\ p \in heads
    BY DEF IInv, MallocFail, HeapTypeOK
  <1>2. p = End
    BY <1>1, Numbers DEF MallocFail, Chained, HeapTypeOK
  <1>3. pc = "search" /\ Seen(End)
    BY <1>1, <1>2 DEF MallocFail, Locals
  <1>4. heads \subseteq Int /\ last_free \in Int /\ \A e \in heads : e <= End
    BY <1>1, Numbers DEF HeapTypeOK
  <1> QED
    BY <1>3, <1>4 DEF Seen

(* malloc returns 0 only when no row of free blocks at or behind last_free *)
(* is big enough: the two loops and the merge miss none.                   *)
THEOREM HeapRefusal == Spec => RefusesOnlyWhenFull
  <1>1. IInv /\ [Next]_vars =>
          [MallocFail => \A h, e \in heads : h >= last_free /\ h < e => ~ Fits(h, e, request)]_vars
    BY FailSaw
  <1> QED
    BY <1>1, HeapInvariant, PTL DEF Spec, RefusesOnlyWhenFull

(* The areas in use, and what the heap shows its callers of them. *)
Areas == {h + HDR : h \in {g \in heads : used[g]}}

Live == [a \in Areas |-> size[a - HDR]]

(* Taking a free block grants its area, which overlaps none in use. *)
LEMMA TakeGrants ==
    ASSUME IInv, MallocTake
    PROVE  A!Grant(request)
  <1> DEFINE a == p + HDR
  <1>0. HeapTypeOK /\ Chained /\ Locals /\ pc = "take"
    BY DEF IInv, MallocTake
  <1>1. /\ p \in heads /\ p # End /\ ~ used[p] /\ heads \subseteq Int /\ heads \subseteq 0 .. End
        /\ request \in Nat /\ p \in Int /\ next[p] - p >= request + 2 * HDR
    BY <1>0, Numbers DEF HeapTypeOK, Locals
  <1>2. next[p] \in heads /\ next[p] \in Int /\ \A g \in heads : g <= p \/ next[p] <= g
    BY <1>0, <1>1 DEF Chained
  <1>3. Rest = p + HDR + request /\ Rest \in Int /\ p < Rest /\ Rest < next[p]
    BY <1>1, <1>2, Numbers DEF Rest
  <1>4. Rest \notin heads
    BY <1>1, <1>2, <1>3
  <1>5. a \in 0 .. Pool /\ a + request <= Pool
    <2>1. 0 <= p /\ next[p] <= End /\ Pool = End + HDR
      BY <1>1, <1>2, PoolAssumption, Numbers DEF End
    <2> QED
      BY <1>1, <1>2, <1>3, <2>1, Numbers
  <1>6. a \notin Areas
    <2>1. \A g \in heads : used[g] => g + HDR # p + HDR
      BY <1>1, Numbers
    <2> QED
      BY <2>1 DEF Areas
  <1>7. \A b \in Areas : A!Area(a, request) \cap A!Area(b, Live[b]) = {}
    <2> SUFFICES ASSUME NEW b \in Areas, NEW w \in A!Area(a, request), w \in A!Area(b, Live[b])
                 PROVE  FALSE
      OBVIOUS
    <2>1. PICK g \in heads : b = g + HDR /\ used[g]
      BY DEF Areas
    <2>2. g \in Int /\ g # p /\ g # End
      BY <1>0, <1>1, <2>1 DEF Chained
    <2>3. next[g] = g + HDR + size[g] /\ size[g] >= 0 /\ (p <= g \/ next[g] <= p) /\ next[g] \in heads
      BY <1>0, <1>1, <2>1, <2>2 DEF Chained
    <2>4. Live[b] = size[g] /\ size[g] \in Int
      <3>1. b - HDR = g
        BY <2>1, <2>2, Numbers
      <3> QED
        BY <1>0, <2>1, <3>1 DEF Live, HeapTypeOK
    <2>5. w \in Int /\ a <= w /\ w < Rest
      BY <1>1, <1>3, Numbers DEF A!Area
    <2>6. b <= w /\ w < next[g]
      BY <2>1, <2>2, <2>3, <2>4, <2>5, Numbers DEF A!Area
    <2>7. g <= p \/ next[p] <= g
      BY <1>2
    <2>8. next[g] \in Int
      BY <1>1, <2>3
    <2> QED
      BY <1>1, <1>2, <1>3, <2>1, <2>2, <2>3, <2>5, <2>6, <2>7, <2>8, Numbers
  <1>8. heads' = heads \cup {Rest}
    BY DEF MallocTake
  <1>9. /\ size'[p] = request /\ used'[p] = TRUE /\ used'[Rest] = FALSE
        /\ \A h \in heads : h # p => size'[h] = size[h] /\ used'[h] = used[h]
    BY <1>1, <1>3, <1>4 DEF MallocTake
  <1>10. Areas' = Areas \cup {a}
    <2>1. \A h : h \in heads' /\ used'[h] <=> (h \in heads /\ used[h]) \/ h = p
      BY <1>0, <1>1, <1>3, <1>4, <1>8, <1>9 DEF HeapTypeOK
    <2>2. {g \in heads' : used'[g]} = {g \in heads : used[g]} \cup {p}
      BY <2>1
    <2> HIDE <1>8
    <2> QED
      BY <2>2 DEF Areas
  <1>11. Live' = [b \in Areas \cup {a} |-> IF b = a THEN request ELSE Live[b]]
    <2>1. \A b \in Areas' : size'[b - HDR] = IF b = a THEN request ELSE Live[b]
      <3> SUFFICES ASSUME NEW b \in Areas' PROVE size'[b - HDR] = IF b = a THEN request ELSE Live[b]
        OBVIOUS
      <3>1. CASE b = a
        <4>1. b - HDR = p
          BY <1>1, <3>1, Numbers
        <4> QED
          BY <1>9, <3>1, <4>1
      <3>2. CASE b # a
        <4>1. b \in Areas
          BY <1>10, <3>2
        <4>2. PICK g \in heads : b = g + HDR /\ used[g]
          BY <4>1 DEF Areas
        <4>3. g # p /\ b - HDR = g
          BY <1>1, <4>2, Numbers
        <4> QED
          BY <1>9, <3>2, <4>1, <4>3 DEF Live
      <3> QED
        BY <3>1, <3>2
    <2> QED
      BY <1>10, <2>1 DEF Live
  <1>12. DOMAIN Live = Areas
    BY DEF Live
  <1> HIDE DEF a
  <1> QED
    BY <1>5, <1>6, <1>7, <1>11, <1>12 DEF A!Grant, Live, Areas

(* free ends the use of the one area behind its header, with its first     *)
(* store.                                                                  *)
LEMMA FreeReleases ==
    ASSUME IInv, NEW h \in heads, Free(h) \/ AbandonFree(h)
    PROVE  h + HDR \in Areas /\ A!Release(h + HDR)
  <1>1. heads \subseteq Int /\ h \in Int /\ used[h] /\ used \in [heads -> BOOLEAN]
    BY Numbers DEF IInv, HeapTypeOK, Free, AbandonFree
  <1>2. used' = [used EXCEPT ![h] = FALSE] /\ heads' = heads /\ size' = size
    BY DEF Free, AbandonFree
  <1>3. h + HDR \in Areas
    BY <1>1 DEF Areas
  <1>4. Areas' = Areas \ {h + HDR}
    <2>1. {g \in heads' : used'[g]} = {g \in heads : used[g]} \ {h}
      BY <1>1, <1>2
    <2>2. \A g \in heads : g + HDR = h + HDR => g = h
      BY <1>1, Numbers
    <2>3. Areas' = {g + HDR : g \in {g \in heads : used[g]} \ {h}}
      BY <2>1 DEF Areas
    <2> QED
      BY <2>2, <2>3 DEF Areas
  <1>5. Live' = [b \in Areas \ {h + HDR} |-> Live[b]]
    BY <1>2, <1>4 DEF Live
  <1>6. DOMAIN Live = Areas
    BY DEF Live
  <1> QED
    BY <1>3, <1>5, <1>6 DEF A!Release, Live, Areas

(* Merging touches free blocks only. *)
LEMMA MergeKeeps ==
    ASSUME IInv, Merge
    PROVE  Live' = Live
  <1>1. heads \subseteq Int /\ used \in [heads -> BOOLEAN]
    BY Numbers DEF IInv, HeapTypeOK
  <1>2. /\ q \in heads /\ ~ used[q]
        /\ heads' \subseteq heads
        /\ \A h \in heads' : used'[h] = used[h] /\ (h # q => size'[h] = size[h])
        /\ \A h \in heads \ heads' : ~ used[h]
    BY MergeFacts
  <1>3. {g \in heads' : used'[g]} = {g \in heads : used[g]}
    BY <1>2
  <1>4. Areas' = Areas
    BY <1>3 DEF Areas
  <1>5. \A a \in Areas : size'[a - HDR] = size[a - HDR]
    <2> SUFFICES ASSUME NEW a \in Areas PROVE size'[a - HDR] = size[a - HDR]
      OBVIOUS
    <2>1. PICK g \in heads : a = g + HDR /\ used[g]
      BY DEF Areas
    <2>2. a - HDR = g /\ g \in heads' /\ g # q
      BY <1>1, <1>2, <2>1, Numbers
    <2> QED
      BY <1>2, <2>2
  <1> QED
    BY <1>4, <1>5 DEF Live

(* An abandoned malloc grants nothing. *)
LEMMA AbandonKeeps ==
    ASSUME IInv, AbandonMalloc
    PROVE  Live' = Live
  <1>1. heads \subseteq Int /\ size \in [heads -> Int] /\ heads' = heads /\ used' = used
    BY Numbers DEF IInv, HeapTypeOK, AbandonMalloc
  <1>2. \A h \in heads : used[h] => size'[h] = size[h]
    <2>1. CASE size' = size
      BY <2>1
    <2>2. CASE pc = "free" /\ size' = [size EXCEPT ![q] = p - q - HDR]
      <3>1. ~ used[q]
        BY <2>2 DEF IInv, Locals
      <3> QED
        BY <1>1, <2>2, <3>1
    <2> QED
      BY <2>1, <2>2 DEF AbandonMalloc
  <1>3. Areas' = Areas
    BY <1>1 DEF Areas
  <1>4. \A a \in Areas : size'[a - HDR] = size[a - HDR]
    <2> SUFFICES ASSUME NEW a \in Areas PROVE size'[a - HDR] = size[a - HDR]
      OBVIOUS
    <2>1. PICK g \in heads : a = g + HDR /\ used[g]
      BY DEF Areas
    <2>2. a - HDR = g
      BY <1>1, <2>1, Numbers
    <2> QED
      BY <1>2, <2>1, <2>2
  <1> QED
    BY <1>3, <1>4 DEF Live

(* Every step of the heap is a step of the allocator or leaves it alone. *)
LEMMA NextRefines == IInv /\ [Next]_vars => [A!Next]_Live
  <1> SUFFICES ASSUME IInv, [Next]_vars PROVE A!Next \/ Live' = Live
    OBVIOUS
  <1>1. ASSUME NEW n \in Requests, MallocCall(n) PROVE Live' = Live
    BY <1>1 DEF MallocCall, chain, Live, Areas
  <1>2. ASSUME NEW h \in heads, Free(h) \/ AbandonFree(h) PROVE A!Next
    <2>1. h + HDR \in Areas /\ A!Release(h + HDR)
      BY <1>2, FreeReleases
    <2> QED
      BY <2>1 DEF A!Next, Areas
  <1>3. CASE MallocFail \/ SkipUsed \/ SkipFree
    BY <1>3 DEF MallocFail, SkipUsed, SkipFree, chain, Live, Areas
  <1>4. CASE Merge
    BY <1>4, MergeKeeps
  <1>5. CASE MallocTake
    <2>1. request \in Requests
      BY <1>5 DEF IInv, Locals, MallocTake
    <2>2. A!Grant(request)
      BY <1>5, TakeGrants
    <2>3. \E n \in Requests : A!Grant(n)
      BY <2>1, <2>2, Zenon DEF A!Grant
    <2> QED
      BY <2>3 DEF A!Next
  <1>6. CASE AbandonMalloc
    BY <1>6, AbandonKeeps
  <1>7. CASE UNCHANGED vars
    BY <1>7 DEF vars, chain, Live, Areas
  <1> QED
    BY <1>1, <1>2, <1>3, <1>4, <1>5, <1>6, <1>7 DEF Next, Malloc

(* To its callers the heap is the allocator: what malloc returns lies      *)
(* inside the pool, overlaps no area in use, and free gives back just one. *)
THEOREM HeapRefines == Spec => ImplementsAllocator
  <1>1. Init => A!Init
    <2> SUFFICES ASSUME Init PROVE Live = [a \in {} |-> 0]
      BY DEF A!Init, Live, Areas
    <2>1. Areas = {}
      BY Numbers DEF Init, Areas
    <2> QED
      BY <2>1 DEF Live
  <1>2. IInv /\ [Next]_vars => [A!Next]_Live
    BY NextRefines
  <1>3. IInv /\ [Next]_vars =>
          [A!Next]_[a \in {h + HDR : h \in {g \in heads : used[g]}} |-> size[a - HDR]]
    BY <1>2 DEF Live, Areas
  <1> QED
    BY <1>1, <1>3, HeapInvariant, PTL DEF Spec, ImplementsAllocator, A!Spec
=============================================================================
