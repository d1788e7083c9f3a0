------------------------------- MODULE Upload -------------------------------
(***************************************************************************)
(* The upload command of the boot monitor over UART0: monitor.c and the    *)
(* polled console of libc.c, the registers of basic_soc.vhd, the UART and  *)
(* a host with a UART of its own.  A step is a clock cycle; the software   *)
(* makes an access to a register in some of them.                          *)
(***************************************************************************)
EXTENDS Uart

CONSTANTS
    Divisor,            \* CPU_SPEED / 57600
    HostDivisors,       \* what the bit of the host may last
    Latency,            \* bound: cycles the software lets pass between two accesses
    MaxGap,             \* bound: cycles the host lets pass between two bytes
    Timeout,            \* polls before the monitor gives up, CPU_SPEED / 100 in the code
    Echo,               \* bytes to a '#', 0x400 in the code
    Total               \* bytes the host sends

ASSUME DivisorAssumption == Divisor \in Nat \ {0} /\ HostDivisors \subseteq Nat \ {0}
ASSUME UploadAssumption == {Latency, Timeout, Echo, Total} \subseteq Nat \ {0} /\ MaxGap \in Nat

VARIABLES
    uart0_divisor, uart0_enable_r, uart0_enable_w, uart0_data_write,    \* registers of the SoC
    tx, rx,             \* its UART
    at, since,          \* the next access of the software, cycles since its last
    ch, k, j,           \* the variables of boot_loop; k counts to Total
    host, host_divisor, \* the transmitter of the host
    gap, prompted,      \* cycles it has been idle; it has seen the prompt
    sent,               \* bytes it has begun to send
    queue, received     \* history: those the monitor has not read; reads of a byte

soc == <<uart0_divisor, uart0_enable_r, uart0_enable_w, uart0_data_write, tx, rx>>
software == <<at, since, ch, k, j>>
environment == <<host, host_divisor, gap, prompted, sent, queue, received>>
vars == <<soc, software, environment>>

Zero == [n \in 1 .. Bits |-> 0]
Printed == [n \in 1 .. Bits |-> 1]     \* what the monitor prints

Writes == {"irq_div", "irq_zero", "div", "zero", "prompt", "hash"}
Polls == {"prompt_busy", "first", "poll", "getchar", "hash_busy"}
Reads == {"first_read", "read"}
Labels == Writes \cup Polls \cup Reads \cup {"done"}

Init ==
    /\ uart0_divisor = 0
    /\ uart0_enable_r = FALSE /\ uart0_enable_w = FALSE /\ uart0_data_write = Zero
    /\ tx = TxReset /\ rx = RxReset
    /\ at = "irq_div" /\ since = 0
    /\ ch = Zero /\ k = 0 /\ j = 0
    /\ host = TxReset /\ host_divisor \in HostDivisors
    /\ gap = 0 /\ prompted = FALSE
    /\ sent = 0 /\ queue = <<>> /\ received = 0
-----------------------------------------------------------------------------
(* The address decoder of the SoC.  An access to UART0 takes the byte the  *)
(* receiver holds, a write too; the UART sees it in the next cycle.        *)
uart0 == {"irq_zero", "zero", "prompt", "hash", "first_read", "read"}

BadEnableRead(access) == uart0_enable_r' = (access /\ at \in Reads)
EnableRead(access) == uart0_enable_r' = (access /\ at \in uart0)

EnableWrite(access) ==
    /\ uart0_enable_w' = (access /\ at \in Writes \cap uart0)
    /\ uart0_data_write' = IF ~ (access /\ at \in Writes \cap uart0) THEN uart0_data_write
                           ELSE IF at \in {"irq_zero", "zero"} THEN Zero ELSE Printed
    /\ uart0_divisor' = IF access /\ at \in {"irq_div", "div"} THEN Divisor ELSE uart0_divisor

Line(line) ==
    /\ tx' = TxNext(tx, uart0_divisor, uart0_enable_w, uart0_data_write)
    /\ rx' = RxNext(rx, uart0_divisor, line, uart0_enable_r)
-----------------------------------------------------------------------------
(* The software: one access, and where the code goes with what it reads.   *)
(* irq_enable() of the start-up sets the UART up, setup_uart() once more;  *)
(* the last character of the prompt stands for all.                        *)
Goto(label) == at' = label /\ UNCHANGED <<ch, k, j>>

Setup ==
    \/ at = "irq_div" /\ Goto("irq_zero")
    \/ at = "irq_zero" /\ Goto("div")
    \/ at = "div" /\ Goto("zero")
    \/ at = "zero" /\ Goto("prompt_busy")

(* ch goes to memory, and the loop for the next byte begins. *)
Stored == at' = "poll" /\ j' = 0

(* putchar(), for the prompt and for a '#'. *)
BadPutchar ==
    \/ at = "prompt_busy" /\ Goto("prompt")
    \/ at = "prompt" /\ Goto("first")
    \/ at = "hash_busy" /\ Goto("hash")
    \/ at = "hash" /\ Stored /\ k' = k + 1 /\ UNCHANGED ch
Putchar ==
    \/ at = "prompt_busy" /\ Goto(IF busy(tx) THEN at ELSE "prompt")
    \/ at = "prompt" /\ Goto("first")
    \/ at = "hash_busy" /\ Goto(IF busy(tx) THEN at ELSE "hash")
    \/ at = "hash" /\ Stored /\ k' = k + 1 /\ UNCHANGED ch

(* getchar(), for the first byte and in the loop. *)
BadGetchar ==
    \/ at = "first" /\ Goto("first_read")
    \/ at = "first_read" /\ ch' = rx.saved /\ Stored /\ UNCHANGED k
    \/ at = "getchar" /\ Goto("read")
    \/ at = "read" /\ ch' = rx.saved
       /\ IF k % Echo = 0 THEN at' = "hash_busy" /\ UNCHANGED <<k, j>> ELSE Stored /\ k' = k + 1
Getchar ==
    \/ at = "first" /\ Goto(IF rx.avail THEN "first_read" ELSE at)
    \/ at = "first_read" /\ ch' = rx.saved /\ Stored /\ UNCHANGED k
    \/ at = "getchar" /\ Goto(IF rx.avail THEN "read" ELSE at)
    \/ at = "read" /\ ch' = rx.saved
       /\ IF k % Echo = 0 THEN at' = "hash_busy" /\ UNCHANGED <<k, j>> ELSE Stored /\ k' = k + 1

(* The loop that waits for the next byte. *)
BadPoll ==
    /\ at = "poll"
    /\ at' = IF rx.avail THEN "getchar" ELSE IF k + 1 = Timeout THEN "done" ELSE at
    /\ j' = IF rx.avail THEN j ELSE j + 1
    /\ UNCHANGED <<ch, k>>
Poll ==
    /\ at = "poll"
    /\ at' = IF rx.avail THEN "getchar" ELSE IF j + 1 = Timeout THEN "done" ELSE at
    /\ j' = IF rx.avail THEN j ELSE j + 1
    /\ UNCHANGED <<ch, k>>

Access == since' = 0 /\ (Setup \/ Putchar \/ Getchar \/ Poll)
Compute == since' = (IF at = "done" THEN 0 ELSE since + 1) /\ UNCHANGED <<at, ch, k, j>>

(* The UART sees a cycle without an access between two. *)
Software(access) ==
    IF access THEN since > 0 /\ at # "done" /\ Access
    ELSE (at = "done" \/ since < Latency) /\ Compute
-----------------------------------------------------------------------------
(* The host sends after the prompt, byte after byte. *)
unprompted == {"irq_div", "irq_zero", "div", "zero", "prompt_busy", "prompt"}
MaySend == prompted /\ ~ busy(host) /\ sent < Total

Host(starts) ==
    /\ starts => MaySend
    /\ MaySend /\ gap = MaxGap => starts
    /\ gap' = IF MaySend /\ ~ starts THEN gap + 1 ELSE 0
    /\ sent' = IF starts THEN sent + 1 ELSE sent
    /\ prompted' = (prompted \/ (at \notin unprompted /\ ~ uart0_enable_w /\ ~ busy(tx)))
    /\ UNCHANGED host_divisor

History(reads, bytes) ==
    /\ received' = IF reads THEN received + 1 ELSE received
    /\ queue' = (IF reads /\ queue # <<>> THEN Tail(queue) ELSE queue) \o bytes

Sending(starts, reads) ==
    \E byte \in IF starts THEN Byte ELSE {Zero} :
        /\ host' = TxNext(host, host_divisor, starts, byte)
        /\ History(reads, IF starts THEN <<byte>> ELSE <<>>)

(* Between two bytes the line may be disturbed for a cycle. *)
Cycle(access, starts, noise) ==
    /\ noise => rx.value = Filter /\ ~ busy(host)
    /\ EnableRead(access) /\ EnableWrite(access)
    /\ Line(IF noise THEN 0 ELSE uart_write(host))
    /\ Software(access)
    /\ Host(starts) /\ Sending(starts, access /\ at \in Reads)

Next == \E access, starts, noise \in BOOLEAN : Cycle(access, starts, noise)

Spec == Init /\ [][Next]_vars
FairSpec == Spec /\ WF_vars(Next)
-----------------------------------------------------------------------------
Periods == 0 .. Divisor
HostPeriods == UNION {0 .. d : d \in HostDivisors}

(* Every register and variable has its type; j never passes the timeout.   *)
UploadTypeOK ==
    /\ uart0_divisor \in {0, Divisor}
    /\ uart0_enable_r \in BOOLEAN /\ uart0_enable_w \in BOOLEAN
    /\ uart0_data_write \in Byte
    /\ tx \in Tx(Periods) /\ rx \in Rx(Periods)
    /\ at \in Labels /\ since \in 0 .. Latency
    /\ ch \in Byte /\ k \in Nat /\ j \in 0 .. Timeout
    /\ host \in Tx(HostPeriods) /\ host_divisor \in HostDivisors
    /\ gap \in 0 .. MaxGap /\ prompted \in BOOLEAN
    /\ sent \in 0 .. Total
    /\ queue \in Seq(Byte) /\ received \in Nat

(* The UART ignores what is written while it sends: putchar() polls        *)
(* WRITEBUSY, and no character it prints is lost, although the flag comes  *)
(* up only two cycles after the write.                                     *)
PutcharAccepted == uart0_enable_w /\ uart0_data_write = Printed => ~ busy(tx)

(* getchar() polls DATAAVAIL, and the byte it saw is there when it reads:  *)
(* nothing has taken it, and the flag has gone down since the last read.   *)
GetcharFinds == at \in Reads => rx.avail

(* The monitor reads the bytes the host sends, each once and in order:     *)
(* none is taken by the write of a '#', none is overwritten, and what the  *)
(* receiver holds after reset is none of them.                             *)
Serial == INSTANCE Link WITH last <- ch
ImplementsLink == Serial!Spec

(* What the receiver tolerates of a host whose bit lasts h + 1 cycles.     *)
(* The average sees an edge of the line Crossing cycles late; counted from *)
(* the edge of the start bit, bit m is sampled at Middle(m) or a cycle     *)
(* later.  By then the average has to have settled on the bit, and the     *)
(* next edge must not be in it yet; and the receiver has to listen again   *)
(* when the host may send the next byte.                                   *)
Crossing == (Filter + 1) \div 2
Middle(m) == half(Divisor) + (m - 1) * (Divisor + 1) + Crossing

Tolerates(h) ==
    /\ 3 <= Filter /\ Filter <= h + 1
    /\ \A m \in 1 .. Bits + 1 : 2 * (Middle(m) + 1) < 2 * (m * (h + 1)) + Filter
    /\ \A m \in 1 .. Bits + 2 : 2 * ((m - 1) * (h + 1)) + Filter < 2 * Middle(m)
    /\ Middle(Bits + 2) <= (Bits + 2) * (h + 1) + Crossing

(* The five accesses from a byte to its '#' are made, and a bit is left,   *)
(* before the next byte is saved; no two '#' follow each other.            *)
InTime == Echo >= 2 /\ 5 * (Latency + 1) + Divisor + 1 <= (Bits + 1) * (Divisor + 1) + 2 * half(Divisor)

(* The upload ends, with every byte of the host: it does not time out      *)
(* while the host still sends, and no poll waits for ever.                 *)
UploadComplete == <>(at = "done" /\ sent = Total /\ queue = <<>>)
=============================================================================
