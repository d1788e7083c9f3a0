-------------------------------- MODULE Heap --------------------------------
(***************************************************************************)
(* malloc, free and heap_init of tp1/lib/malloc.c: a pool of memory cut    *)
(* into blocks, each after a header with a pointer to the next header and  *)
(* a size whose low bit marks the block as used.                           *)
(*                                                                         *)
(* Addresses and sizes count 4-byte words from the start of the pool.      *)
(* Only the headers on the chain are kept: the header of a block that      *)
(* malloc merges into the one before it is free memory like the rest.      *)
(* malloc takes an action per turn of its loops.                           *)
(***************************************************************************)
EXTENDS Integers

CONSTANTS
    Pool,       \* words of the pool given to heap_init
    Requests    \* sizes asked for, after align4

HDR == 2        \* sizeof(struct mem_block_s)
Null == -1

(* Operators named Bad... are wrong forms of the definition behind them,   *)
(* for which some property fails; nothing else uses them.                  *)

ASSUME PoolAssumption == Pool \in Nat /\ Pool >= 2 * HDR
ASSUME RequestsAssumption == Requests \subseteq Nat

VARIABLES
    heads,              \* addresses of the headers on the chain
    next, size, used,   \* the fields of each
    last_free,          \* where the next search starts
    pc,                 \* "idle", or the statement malloc is at
    p, q,               \* malloc's locals
    request             \* malloc's argument

chain == <<heads, next, size, used>>
vars == <<chain, last_free, pc, p, q, request>>

End == Pool - HDR       \* the last header, whose next is null

first_free == 0         \* assigned by heap_init only

(* heap_init: one free block and the header that ends the chain. *)
Init ==
    /\ heads = {0, End}
    /\ next = [h \in {0, End} |-> IF h = 0 THEN End ELSE Null]
    /\ size = [h \in {0, End} |-> IF h = 0 THEN End - HDR ELSE 0]
    /\ used = [h \in {0, End} |-> FALSE]
    /\ last_free = 0
    /\ pc = "idle"
    /\ p = 0 /\ q = 0
    /\ request = 0

(* free of a block malloc returned and nobody freed yet. *)
Free(h) ==
    /\ pc = "idle"
    /\ h \in heads /\ used[h]
    /\ used' = [used EXCEPT ![h] = FALSE]
    /\ last_free' = first_free
    /\ UNCHANGED <<heads, next, size, pc, p, q, request>>

MallocCall(n) ==
    /\ pc = "idle"
    /\ request' = n
    /\ p' = last_free /\ q' = last_free
    /\ pc' = "search"
    /\ UNCHANGED <<chain, last_free>>

(* malloc's locals do not outlive the call. *)
Return == pc' = "idle" /\ p' = 0 /\ q' = 0 /\ request' = 0

(* malloc returns 0 if it leaves the outer loop at the last header. *)
MallocFail ==
    /\ pc \in {"search", "take"}
    /\ next[p] = Null
    /\ Return
    /\ UNCHANGED <<chain, last_free>>

(* The first inner loop passes the used blocks ... *)
BadSkipUsed ==
    /\ pc = "used" \/ (pc = "search" /\ next[p] # Null)
    /\ IF used[p] THEN q' = next[p] /\ pc' = "used" /\ UNCHANGED p
       ELSE pc' = "free" /\ UNCHANGED <<p, q>>
    /\ UNCHANGED <<chain, last_free, request>>
SkipUsed ==
    /\ pc = "used" \/ (pc = "search" /\ next[p] # Null)
    /\ IF used[p]
       THEN p' = next[p] /\ q' = next[p] /\ pc' = "used"
       ELSE pc' = "free" /\ UNCHANGED <<p, q>>
    /\ UNCHANGED <<chain, last_free, request>>

(* ... and the second one the free blocks that follow q. *)
SkipFree ==
    /\ pc = "free"
    /\ ~ used[p] /\ next[p] # Null
    /\ p' = next[p]
    /\ UNCHANGED <<chain, last_free, pc, q, request>>

(* A block is taken if it leaves room for a header behind the request. *)
BadEnoughAlways(room) == TRUE
BadEnoughNoHeader(room) == room >= request
BadEnoughStrict(room) == room > request + HDR
Enough(room) == room >= request + HDR

(* The free blocks from q up to p become one. *)
Merge ==
    /\ pc = "free"
    /\ used[p] \/ next[p] = Null
    /\ LET kept == heads \ {h \in heads : q < h /\ h < p}
           room == p - q - HDR
       IN  /\ heads' = kept
           /\ next' = [h \in kept |-> IF h = q THEN p ELSE next[h]]
           /\ size' = [h \in kept |-> IF h = q THEN room ELSE size[h]]
           /\ used' = [h \in kept |-> used[h]]
           /\ IF Enough(room)
              THEN p' = q /\ pc' = "take"
              ELSE pc' = "search" /\ UNCHANGED p
    /\ UNCHANGED <<last_free, q, request>>

(* Where the header behind the block taken goes. *)
Rest == p + request + HDR

(* p is cut in two: the block returned and a free one, whose size the code *)
(* computes from the p->size it has just overwritten; the next merge that  *)
(* reaches it sets it right.                                               *)
MallocTake ==
    /\ pc = "take" /\ next[p] # Null
    /\ LET grown == heads \cup {Rest}
       IN  /\ heads' = grown
           /\ next' = [h \in grown |-> CASE h = p -> Rest [] h = Rest -> next[p] [] OTHER -> next[h]]
           /\ size' = [h \in grown |-> CASE h = p -> request [] h = Rest -> - HDR [] OTHER -> size[h]]
           /\ used' = [h \in grown |-> CASE h = p -> TRUE [] h = Rest -> FALSE [] OTHER -> used[h]]
    /\ last_free' = p
    /\ Return

Malloc == MallocFail \/ SkipUsed \/ SkipFree \/ Merge \/ MallocTake

(* A tick abandons the call it interrupts, for good, and the kernel calls  *)
(* malloc: free after its first store ...                                  *)
AbandonFree(h) ==
    /\ pc = "idle"
    /\ h \in heads /\ used[h]
    /\ used' = [used EXCEPT ![h] = FALSE]
    /\ UNCHANGED <<heads, next, size, last_free, pc, p, q, request>>

(* ... and malloc between two turns, between the two stores of a merge, or *)
(* after it has set last_free.  A tick between the three stores that cut p *)
(* in two is left out: the chain leads through unwritten memory there.     *)
AbandonMalloc ==
    /\ pc # "idle" /\ Return
    /\ UNCHANGED <<heads, next, used>>
    /\ \/ UNCHANGED <<size, last_free>>
       \/ /\ pc = "free" /\ (used[p] \/ next[p] = Null)
          /\ size' = [size EXCEPT ![q] = p - q - HDR]
          /\ UNCHANGED last_free
       \/ /\ pc = "take" /\ next[p] # Null
          /\ last_free' = p
          /\ UNCHANGED size

Next ==
    \/ \E n \in Requests : MallocCall(n)
    \/ \E h \in heads : Free(h)
    \/ \E h \in heads : AbandonFree(h)
    \/ Malloc
    \/ AbandonMalloc

(* A call that no tick abandons runs to its end. *)
Fairness == WF_vars(Malloc)

Spec == Init /\ [][Next]_vars
FairSpec == Spec /\ Fairness
-----------------------------------------------------------------------------
(* Every variable has its type; malloc's locals are at headers.            *)
HeapTypeOK ==
    /\ heads \subseteq 0 .. End
    /\ next \in [heads -> heads \cup {Null}]
    /\ size \in [heads -> Int]
    /\ used \in [heads -> BOOLEAN]
    /\ pc \in {"idle", "search", "used", "free", "take"}
    /\ {last_free, p, q} \subseteq Int
    /\ last_free \in heads
    /\ pc # "idle" => p \in heads /\ q \in heads
    /\ request \in Nat

(* The chain of headers cuts the whole pool into blocks: it starts at the  *)
(* first word, ends at the last header, leaves none out, and every header  *)
(* is behind the header before it.  A used block ends exactly where the    *)
(* next header is, so no two blocks and no header overlap.  The block      *)
(* before the end is free: if it were used, malloc would merge the end     *)
(* with itself, for a size of - HDR, a huge unsigned number.               *)
Chained ==
    /\ 0 \in heads /\ End \in heads /\ 0 < End
    /\ next[End] = Null /\ ~ used[End]
    /\ \A h \in heads \ {End} :
          /\ next[h] \in heads
          /\ h + HDR <= next[h]
          /\ \A g \in heads : g <= h \/ next[h] <= g
          /\ used[h] => next[h] = h + HDR + size[h] /\ size[h] >= 0 /\ next[h] # End

(* Free blocks in a row from h up to the header e, big enough for n. *)
Fits(h, e, n) ==
    /\ \A g \in heads : h <= g /\ g < e => ~ used[g]
    /\ e - h >= n + 2 * HDR

(* malloc returns 0 only if no row of free blocks at or behind last_free   *)
(* is big enough, merged or not; and it starts over at the first block     *)
(* after every free.                                                       *)
RefusesOnlyWhenFull ==
    [][MallocFail =>
         \A h, e \in heads : h >= last_free /\ h < e => ~ Fits(h, e, request)]_vars

(* Every call of malloc ends: the loops reach the end of the chain, and do *)
(* so whatever the calls that were abandoned left of it.                   *)
MallocReturns == pc # "idle" ~> pc = "idle"

(* To the callers the heap is an allocator of areas that do not overlap.   *)
A == INSTANCE Allocator WITH
       live <- [a \in {h + HDR : h \in {g \in heads : used[g]}} |-> size[a - HDR]]

ImplementsAllocator == A!Spec
=============================================================================
