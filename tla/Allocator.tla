----------------------------- MODULE Allocator ------------------------------
(***************************************************************************)
(* What malloc and free of tp1/lib/malloc.c promise their callers: areas   *)
(* inside the pool that do not overlap, each the caller's until freed.     *)
(* Refusing a request changes nothing.                                     *)
(***************************************************************************)
EXTENDS Integers

CONSTANTS
    Pool,       \* words of the pool
    Requests    \* sizes asked for, in words

VARIABLE live   \* address -> length of the areas in use

Area(a, n) == a .. a + n - 1

Init == live = [a \in {} |-> 0]

Grant(n) ==
    \E a \in 0 .. Pool :
       /\ a \notin DOMAIN live
       /\ a + n <= Pool
       /\ \A b \in DOMAIN live : Area(a, n) \cap Area(b, live[b]) = {}
       /\ live' = [b \in DOMAIN live \cup {a} |-> IF b = a THEN n ELSE live[b]]

Release(a) ==
    /\ a \in DOMAIN live
    /\ live' = [b \in DOMAIN live \ {a} |-> live[b]]

Next ==
    \/ \E n \in Requests : Grant(n)
    \/ \E a \in DOMAIN live : Release(a)

Spec == Init /\ [][Next]_live
=============================================================================
