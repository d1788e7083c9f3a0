-------------------------------- MODULE Link --------------------------------
(***************************************************************************)
(* What a serial line promises: the bytes sent are received, each once, in *)
(* their order.                                                            *)
(***************************************************************************)
EXTENDS Integers, Sequences

CONSTANT Byte

VARIABLES
    queue,      \* bytes sent and not received
    last,       \* the byte received last
    received    \* number of bytes received

vars == <<queue, last, received>>

Init == queue = <<>> /\ received = 0

(* Bytes are sent and received at both ends at once. *)
Receive ==
    /\ queue # <<>>
    /\ last' = Head(queue)
    /\ received' = received + 1

Next == \E sends \in {<<>>} \cup {<<byte>> : byte \in Byte} :
    \/ Receive /\ queue' = Tail(queue) \o sends
    \/ UNCHANGED <<last, received>> /\ queue' = queue \o sends

Spec == Init /\ [][Next]_vars
=============================================================================
