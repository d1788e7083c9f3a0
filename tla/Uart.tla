-------------------------------- MODULE Uart --------------------------------
(***************************************************************************)
(* The two halves of uart.vhd as functions on their registers: what a      *)
(* clock edge makes of them.  A byte is a sequence of bits, the first on   *)
(* the line at the left.                                                   *)
(***************************************************************************)
EXTENDS Integers, Sequences

CONSTANTS
    Bits,       \* bits of a byte, 8 in the code
    Filter      \* where the counter that averages the line saturates, 255 in the code

ASSUME BitsAssumption == Bits \in Nat \ {0}
ASSUME FilterAssumption == Filter \in Nat \ {0}

Byte == [1 .. Bits -> {0, 1}]

(* The registers of the transmitter: bits, delay and data_write_reg.       *)
Tx(Delays) == [bits : 0 .. Bits + 2, delay : Delays, data : [1 .. Bits + 1 -> {0, 1}]]
TxReset == [bits |-> 0, delay |-> 0, data |-> [n \in 1 .. Bits + 1 |-> IF n = 1 THEN 1 ELSE 0]]

busy(tx) == tx.bits # 0
uart_write(tx) == tx.data[1]

Loaded(byte) == [bits |-> Bits + 2, delay |-> 0, data |-> <<0>> \o byte]
BadShifted(tx) == [bits |-> tx.bits, delay |-> 0, data |-> Append(Tail(tx.data), 1)]
Shifted(tx) == [bits |-> tx.bits - 1, delay |-> 0, data |-> Append(Tail(tx.data), 1)]

TxNext(tx, divisor, enable_write, byte) ==
    IF ~ busy(tx) THEN (IF enable_write THEN Loaded(byte) ELSE tx)
    ELSE IF tx.delay # divisor THEN [tx EXCEPT !.delay = @ + 1] ELSE Shifted(tx)

(* The registers of the receiver: the average of the line, bits, delay and *)
(* data_read_reg, and data_save_reg with its bit that says a byte is there.*)
Rx(Delays) ==
    [value : 0 .. Filter, bits : 0 .. Bits + 1, delay : Delays, data : Byte, saved : Byte, avail : BOOLEAN]
RxReset ==
    [value |-> Filter, bits |-> 0, delay |-> 0, data |-> [n \in 1 .. Bits |-> 0],
     saved |-> [n \in 1 .. Bits |-> 0], avail |-> FALSE]

uart_read2(rx) == IF 2 * rx.value > Filter THEN 1 ELSE 0

Average(value, line) ==
    IF line = 1 THEN (IF value = Filter THEN value ELSE value + 1)
    ELSE (IF value = 0 THEN value ELSE value - 1)

(* Half a bit after the start bit is seen its middle is read, and the      *)
(* middle of every bit of the byte a bit later each.                       *)
half(divisor) == divisor \div 2
Sampled(rx, divisor) ==
    IF rx.delay # 0 THEN [rx EXCEPT !.delay = @ - 1]
    ELSE IF rx.bits # 0
    THEN [rx EXCEPT !.delay = divisor, !.bits = @ - 1, !.data = Append(Tail(@), uart_read2(rx))]
    ELSE IF uart_read2(rx) = 0
    THEN [rx EXCEPT !.delay = half(divisor), !.bits = Bits + 1]
    ELSE rx

(* A byte is saved in the cycle after its last bit was read, over one that *)
(* is still there.                                                         *)
saves(rx, divisor) == rx.bits = 0 /\ rx.delay = divisor

RxNext(rx, divisor, line, enable_read) ==
    [Sampled(rx, divisor) EXCEPT
        !.value = Average(rx.value, line),
        !.saved = IF saves(rx, divisor) THEN rx.data ELSE @,
        !.avail = saves(rx, divisor) \/ (@ /\ ~ enable_read)]
=============================================================================
