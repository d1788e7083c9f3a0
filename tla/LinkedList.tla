----------------------------- MODULE LinkedList -----------------------------
(***************************************************************************)
(* tp1/lib/list.c at the grain of its loads and stores: cells behind a     *)
(* header, one call at a time, and a timer tick that may abandon the call  *)
(* between any two of them, since rt_context_switch leaves by longjmp and  *)
(* the call never resumes.  The tick reads the list as it finds it.        *)
(*                                                                         *)
(* Operators named Bad... are wrong forms of the definition behind them,   *)
(* for which some property fails; nothing else uses them.                  *)
(*                                                                         *)
(* malloc and free are taken whole; malloc may refuse, and returns a cell  *)
(* with whatever it held before.                                           *)
(***************************************************************************)
EXTENDS Integers, SequencesExt

CONSTANTS
    Cells,      \* the addresses malloc returns for a struct list
    Header,     \* the cell list_init returned
    Null,
    Items,      \* what elem may point to
    Positions,  \* arguments pos
    Limit       \* of i: more than a list of all the cells makes it

ASSUME CellsAssumption == Header \notin Cells /\ Null \notin Cells \cup {Header}
ASSUME PositionsAssumption == Positions \subseteq Int
ASSUME LimitAssumption == Limit \in Nat
ASSUME ItemsAssumption == Null \notin Items

VARIABLES
    next, elem,         \* the fields of the cells
    free,               \* cells malloc may return
    pc,                 \* "idle", or what the call does next
    op, pos, item,      \* the call and its arguments
    t1, t2, i,          \* its locals
    order,              \* history: the cells linked, in order
    lost                \* history: cells that no call and no list holds

memory == <<next, elem, free, order, lost>>
call   == <<op, pos, item>>
locals == <<t1, t2, i>>
vars   == <<memory, pc, call, locals>>

Linkers == {"append", "insert"}
Finders == {"remove", "get", "set", "count"}

(* list_init. *)
Init ==
    /\ next = [c \in Cells \cup {Header} |-> Null]
    /\ elem = [c \in Cells \cup {Header} |-> Null]
    /\ free = Cells
    /\ pc = "idle"
    /\ op = "none" /\ pos = 0 /\ item = Null
    /\ t1 = Header /\ t2 = Header /\ i = 0
    /\ order = <<>>
    /\ lost = {}

(* The call is over; its locals are gone. *)
Return ==
    /\ pc' = "idle"
    /\ op' = "none" /\ pos' = 0 /\ item' = Null
    /\ t1' = Header /\ t2' = Header /\ i' = 0

(* Cells a call has and the list has not. *)
Held == IF pc \in {"fill", "walk", "splice", "hook", "free"} THEN {t1} ELSE {}
-----------------------------------------------------------------------------
(* list_append and list_insert. *)
CallLinker(o, n, x) ==
    /\ pc = "idle"
    /\ pc' = "malloc"
    /\ op' = o /\ pos' = n /\ item' = x
    /\ UNCHANGED <<memory, locals>>

MallocFail ==
    /\ pc = "malloc"
    /\ Return
    /\ UNCHANGED memory

MallocOk ==
    /\ pc = "malloc"
    /\ \E c \in free : t1' = c /\ free' = free \ {c}
    /\ pc' = "fill"
    /\ UNCHANGED <<next, elem, order, lost, call, t2, i>>

(* elem and next of a cell nobody else sees; the search starts. *)
Fill ==
    /\ pc = "fill"
    /\ elem' = [elem EXCEPT ![t1] = item]
    /\ next' = [next EXCEPT ![t1] = Null]
    /\ t2' = Header
    /\ pc' = "walk"
    /\ UNCHANGED <<free, order, lost, call, t1, i>>

(* while (t2->next): list_insert stops early at its position, which it     *)
(* compares after the increment.                                           *)
BadWalk ==
    /\ pc = "walk" /\ i < Limit
    /\ IF next[t2] = Null
       THEN pc' = (IF op = "insert" THEN "splice" ELSE "hook") /\ UNCHANGED <<t2, i>>
       ELSE /\ t2' = next[t2]
            /\ i' = i + 1
            /\ pc' = IF op = "insert" /\ i = pos THEN "splice" ELSE "walk"
    /\ UNCHANGED <<memory, call, t1>>
Walk ==
    /\ pc = "walk" /\ i < Limit
    /\ IF next[t2] = Null
       THEN pc' = (IF op = "insert" THEN "splice" ELSE "hook") /\ UNCHANGED <<t2, i>>
       ELSE /\ t2' = next[t2]
            /\ i' = i + 1
            /\ pc' = IF op = "insert" /\ i' = pos THEN "splice" ELSE "walk"
    /\ UNCHANGED <<memory, call, t1>>

BadSplice ==
    /\ pc = "splice"
    /\ next' = [next EXCEPT ![t1] = t1]
    /\ pc' = "hook"
    /\ UNCHANGED <<elem, free, order, lost, call, locals>>
Splice ==
    /\ pc = "splice"
    /\ next' = [next EXCEPT ![t1] = next[t2]]
    /\ pc' = "hook"
    /\ UNCHANGED <<elem, free, order, lost, call, locals>>

(* The cells linked before and including c. *)
UpTo(c) == IF c \in ToSet(order) THEN CHOOSE k \in DOMAIN order : order[k] = c ELSE 0

(* The one store that puts the cell on the list. *)
Hook ==
    /\ pc = "hook"
    /\ next' = [next EXCEPT ![t2] = t1]
    /\ order' = InsertAt(order, UpTo(t2) + 1, t1)
    /\ Return
    /\ UNCHANGED <<elem, free, lost>>
-----------------------------------------------------------------------------
(* list_remove, list_get, list_set and list_count. *)
CallFinder(o, n, x) ==
    /\ pc = "idle"
    /\ pc' = "find"
    /\ op' = o /\ pos' = n /\ item' = x
    /\ UNCHANGED <<memory, locals>>

(* while ((t1 = t1->next)) if (i++ == pos) ... t2 = t1; *)
BadFind ==
    /\ pc = "find" /\ i < Limit
    /\ next[t1] # Null
    /\ t1' = next[t1] /\ t2' = t1'
    /\ i' = i + 1
    /\ pc' = IF op # "count" /\ i = pos THEN op ELSE "find"
    /\ UNCHANGED <<memory, call>>
Find ==
    /\ pc = "find" /\ i < Limit
    /\ next[t1] # Null
    /\ t1' = next[t1]
    /\ i' = i + 1
    /\ IF op # "count" /\ i = pos THEN pc' = op /\ UNCHANGED t2 ELSE pc' = "find" /\ t2' = t1'
    /\ UNCHANGED <<memory, call>>

(* No such position, or the end of the count. *)
FindEnd ==
    /\ pc = "find"
    /\ next[t1] = Null
    /\ Return
    /\ UNCHANGED memory

Get ==
    /\ pc = "get"
    /\ Return
    /\ UNCHANGED memory

Set ==
    /\ pc = "set"
    /\ elem' = [elem EXCEPT ![t1] = item]
    /\ Return
    /\ UNCHANGED <<next, free, order, lost>>

Unlink ==
    /\ pc = "remove"
    /\ next' = [next EXCEPT ![t2] = next[t1]]
    /\ order' = RemoveAt(order, UpTo(t1))
    /\ pc' = "free"
    /\ UNCHANGED <<elem, free, lost, call, locals>>

BadFree ==
    /\ pc = "free"
    /\ free' = free \cup {t2}
    /\ Return
    /\ UNCHANGED <<next, elem, order, lost>>
Free ==
    /\ pc = "free"
    /\ free' = free \cup {t1}
    /\ Return
    /\ UNCHANGED <<next, elem, order, lost>>
-----------------------------------------------------------------------------
(* A tick abandons the call. *)
Abandon ==
    /\ pc # "idle"
    /\ lost' = lost \cup Held
    /\ Return
    /\ UNCHANGED <<next, elem, free, order>>

Step ==
    \/ MallocFail \/ MallocOk \/ Fill \/ Walk \/ Splice \/ Hook
    \/ Find \/ FindEnd \/ Get \/ Set \/ Unlink \/ Free

Next ==
    \/ \E x \in Items : CallLinker("append", 0, x)
    \/ \E n \in Positions, x \in Items : CallLinker("insert", n, x) \/ CallFinder("set", n, x)
    \/ \E n \in Positions, o \in {"remove", "get"} : CallFinder(o, n, Null)
    \/ CallFinder("count", 0, Null)
    \/ Step
    \/ Abandon

(* A call that is not abandoned goes on. *)
Spec == Init /\ [][Next]_vars
FairSpec == Spec /\ WF_vars(Step)
-----------------------------------------------------------------------------
(* Every variable has its type. *)
ListTypeOK ==
    /\ next \in [Cells \cup {Header} -> Cells \cup {Null}]
    /\ elem \in [Cells \cup {Header} -> Items \cup {Null}]
    /\ free \subseteq Cells /\ lost \subseteq Cells
    /\ pc \in {"idle", "malloc", "fill", "walk", "splice", "hook", "find", "get", "set", "remove", "free"}
    /\ op \in Linkers \cup Finders \cup {"none"}
    /\ pos \in Positions \cup {0} /\ item \in Items \cup {Null}
    /\ {t1, t2} \subseteq Cells \cup {Header}
    /\ i \in Nat
    /\ order \in Seq(Cells)

(* Whenever a tick comes, the list it reads is a list: from the header it  *)
(* passes every linked cell once and ends, each with the item it was       *)
(* given, and none of them free (the loops of rt.c over rt_list_task).     *)
Whole ==
    LET path == <<Header>> \o order
    IN  /\ \A k \in 1 .. Len(order) : next[path[k]] = order[k]
        /\ next[Last(path)] = Null
        /\ IsInjective(order)
        /\ \A c \in ToSet(order) : elem[c] \in Items /\ c \notin free

(* A cell is free, on the list, held by a call or lost, and never two of   *)
(* them: no double free, and memory is lost only by a tick.                *)
Accounted ==
    /\ Cells = free \cup ToSet(order) \cup Held \cup lost
    /\ free \cap ToSet(order) = {} /\ free \cap Held = {} /\ free \cap lost = {}
    /\ ToSet(order) \cap Held = {} /\ ToSet(order) \cap lost = {} /\ Held \cap lost = {}

(* What a call does to the list, found by following pointers, is what its  *)
(* argument says by counting: an insertion goes behind pos cells, or to    *)
(* the end if there are fewer or pos is not positive; removal and          *)
(* assignment take the cell pos cells have before them, and fail exactly   *)
(* if there is none; the count is the length.                              *)
Behind == IF op = "insert" /\ pos \in 1 .. Len(order) THEN pos ELSE Len(order)

Positional ==
    [][/\ Hook => order' = InsertAt(order, Behind + 1, t1)
       /\ Unlink => pos + 1 \in DOMAIN order /\ order' = RemoveAt(order, pos + 1)
       /\ Set => pos + 1 \in DOMAIN order /\ elem' = [elem EXCEPT ![order[pos + 1]] = item]
       /\ Get => pos + 1 \in DOMAIN order /\ t1 = order[pos + 1]
       /\ FindEnd => IF op = "count" THEN i = Len(order) ELSE pos + 1 \notin DOMAIN order]_vars

(* Every call ends: its loop reaches the position or the end of the list.  *)
CallsReturn == pc # "idle" ~> pc = "idle"
=============================================================================
