---------------------------- MODULE UploadProofs ----------------------------
(***************************************************************************)
(* Upload for bytes of any length, any divisor on either side and any      *)
(* pace of software and host: nothing the monitor prints is written to a   *)
(* busy transmitter, and it never reads a byte that is not there.          *)
(* For a host the receiver tolerates and software that keeps the pace of   *)
(* the line, it reads every byte of the host once and in order.            *)
(***************************************************************************)
EXTENDS Upload, SequenceTheorems, TLAPS

(* The SoC takes an access in the cycle after it, and the software makes   *)
(* none in that cycle.                                                     *)
Paced == since > 0 => ~ uart0_enable_w /\ ~ uart0_enable_r

(* Once putchar() has seen the transmitter idle it stays so up to the      *)
(* write, and once getchar() has seen a byte it stays up to the read.      *)
Idle == at \in {"prompt", "hash"} => ~ busy(tx) /\ ~ uart0_enable_w
Found == at \in Reads => rx.avail /\ ~ uart0_enable_r

(* A delay ends at the divisor, which only grows; j is below the timeout   *)
(* while the monitor waits.                                                *)
Counters ==
    /\ tx.delay <= uart0_divisor /\ host.delay <= host_divisor
    /\ at # "done" => j < Timeout

IInv == UploadTypeOK /\ Paced /\ Idle /\ Found /\ Counters /\ PutcharAccepted
-----------------------------------------------------------------------------
(* A sequence of n elements of S, as the registers have it.                *)
LEMMA Bounded ==
    ASSUME NEW S, NEW n \in Nat
    PROVE  /\ \A seq \in Seq(S) : Len(seq) = n => seq \in [1 .. n -> S]
           /\ \A seq \in [1 .. n -> S] : seq \in Seq(S) /\ Len(seq) = n
<1>1. \A seq \in Seq(S) : Len(seq) = n => seq \in [1 .. n -> S]
    BY LenProperties
<1>2. \A seq \in [1 .. n -> S] : seq \in Seq(S) /\ Len(seq) = n
    <2> TAKE seq \in [1 .. n -> S]
    <2>1. seq \in Seq(S)
        BY SeqDef
    <2>2. DOMAIN seq = 1 .. Len(seq) /\ Len(seq) \in Nat
        BY <2>1, LenProperties
    <2> QED
        BY <2>1, <2>2
<1> QED
    BY <1>1, <1>2

(* What the functions of uart.vhd return: a byte behind its start bit ...  *)
LEMMA LoadedType ==
    ASSUME NEW byte \in Byte
    PROVE  <<0>> \o byte \in [1 .. Bits + 1 -> {0, 1}]
<1>1. byte \in Seq({0, 1}) /\ Len(byte) = Bits
    BY Bounded, BitsAssumption DEF Byte
<1>2. ASSUME NEW start \in Seq({0, 1}), Len(start) = 1
      PROVE  start \o byte \in [1 .. Bits + 1 -> {0, 1}]
    <2>1. start \o byte \in Seq({0, 1}) /\ Len(start \o byte) = Len(start) + Len(byte)
        BY <1>1, ConcatProperties
    <2>2. Len(start \o byte) = Bits + 1
        BY <1>1, <1>2, <2>1, BitsAssumption
    <2>3. Bits + 1 \in Nat
        BY BitsAssumption
    <2> QED
        BY <2>1, <2>2, <2>3, Bounded
<1>3. <<0>> \in Seq({0, 1})
    OBVIOUS
<1>4. Len(<<0>>) = 1
    OBVIOUS
<1> QED
    BY <1>2, <1>3, <1>4

(* ... and a register shifted by a bit.                                    *)
LEMMA ShiftType ==
    ASSUME NEW n \in Nat \ {0}, NEW data \in [1 .. n -> {0, 1}], NEW bit \in {0, 1}
    PROVE  Append(Tail(data), bit) \in [1 .. n -> {0, 1}]
<1>1. data \in Seq({0, 1}) /\ Len(data) = n
    BY Bounded
<1>2. Tail(data) \in Seq({0, 1}) /\ Len(Tail(data)) = n - 1
    BY <1>1, HeadTailProperties, EmptySeq
<1>3. Append(Tail(data), bit) \in Seq({0, 1}) /\ Len(Append(Tail(data), bit)) = n
    BY <1>2, AppendProperties
<1> QED
    BY <1>3, Bounded

LEMMA ByteTypes == Zero \in Byte /\ Printed \in Byte /\ Zero # Printed
<1>1. Zero \in Byte /\ Printed \in Byte
    BY DEF Zero, Printed, Byte
<1>2. 1 \in 1 .. Bits
    BY BitsAssumption
<1>3. Zero[1] = 0 /\ Printed[1] = 1
    BY <1>2 DEF Zero, Printed
<1> QED
    BY <1>1, <1>3

(* A transmitter keeps its types, and its delay does not pass the divisor. *)
LEMMA TxType ==
    ASSUME NEW top \in Nat, NEW tx0 \in Tx(0 .. top), NEW divisor \in 0 .. top,
           tx0.delay <= divisor, NEW enable \in BOOLEAN, NEW byte \in Byte
    PROVE  /\ TxNext(tx0, divisor, enable, byte) \in Tx(0 .. top)
           /\ TxNext(tx0, divisor, enable, byte).delay <= divisor
<1>1. Loaded(byte) \in Tx(0 .. top) /\ Loaded(byte).delay = 0
    BY LoadedType, BitsAssumption DEF Loaded, Tx
<1>2. tx0.bits \in 0 .. Bits + 2 /\ tx0.delay \in 0 .. top /\ tx0.data \in [1 .. Bits + 1 -> {0, 1}]
    BY DEF Tx
<1>3. Append(Tail(tx0.data), 1) \in [1 .. Bits + 1 -> {0, 1}]
    BY <1>2, ShiftType, BitsAssumption
<1>4. busy(tx0) => Shifted(tx0) \in Tx(0 .. top) /\ Shifted(tx0).delay = 0
    BY <1>2, <1>3, BitsAssumption DEF Shifted, Tx, busy
<1>5. tx0.delay # divisor =>
        LET later == [tx0 EXCEPT !.delay = @ + 1]
        IN  later \in Tx(0 .. top) /\ later.delay <= divisor
    BY <1>2 DEF Tx
<1> QED
    BY <1>1, <1>2, <1>4, <1>5 DEF TxNext

(* A receiver keeps its types as it samples the line ...                   *)
LEMMA SampledType ==
    ASSUME NEW top \in Nat, NEW rx0 \in Rx(0 .. top), NEW divisor \in 0 .. top
    PROVE  Sampled(rx0, divisor) \in Rx(0 .. top)
<1>1. /\ rx0.bits \in 0 .. Bits + 1 /\ rx0.delay \in 0 .. top /\ rx0.data \in Byte
    BY DEF Rx
<1>2. uart_read2(rx0) \in {0, 1}
    BY DEF uart_read2
<1>3. Append(Tail(rx0.data), uart_read2(rx0)) \in Byte
    BY <1>1, <1>2, ShiftType, BitsAssumption DEF Byte
<1>4. half(divisor) \in 0 .. top
    BY DEF half
<1>5. \A r \in Rx(0 .. top), delay \in 0 .. top : [r EXCEPT !.delay = delay] \in Rx(0 .. top)
    BY DEF Rx
<1>6. \A r \in Rx(0 .. top), bits \in 0 .. Bits + 1 : [r EXCEPT !.bits = bits] \in Rx(0 .. top)
    BY DEF Rx
<1>7. \A r \in Rx(0 .. top), data \in Byte : [r EXCEPT !.data = data] \in Rx(0 .. top)
    BY DEF Rx
<1>8. rx0.delay # 0 => [rx0 EXCEPT !.delay = rx0.delay - 1] \in Rx(0 .. top)
    BY <1>1, <1>5
<1> DEFINE waiting(delay) == [rx0 EXCEPT !.delay = delay]
<1>9. waiting(divisor) \in Rx(0 .. top) /\ waiting(half(divisor)) \in Rx(0 .. top)
    BY <1>4, <1>5
<1> DEFINE counted == [waiting(divisor) EXCEPT !.bits = rx0.bits - 1]
<1> HIDE DEF waiting
<1>10. rx0.bits # 0 => rx0.bits - 1 \in 0 .. Bits + 1
    BY <1>1, BitsAssumption
<1>11. rx0.bits # 0 => counted \in Rx(0 .. top)
    BY <1>6, <1>9, <1>10
<1> HIDE DEF counted
<1>12. rx0.bits # 0 =>
        [counted EXCEPT !.data = Append(Tail(rx0.data), uart_read2(rx0))] \in Rx(0 .. top)
    BY <1>3, <1>7, <1>11
<1>13. [waiting(half(divisor)) EXCEPT !.bits = Bits + 1] \in Rx(0 .. top)
    BY <1>6, <1>9, BitsAssumption
<1> USE DEF waiting, counted
<1> QED
    BY <1>1, <1>8, <1>12, <1>13 DEF Sampled

(* ... and the byte it holds stays until it is taken.                      *)
LEMMA RxType ==
    ASSUME NEW top \in Nat, NEW rx0 \in Rx(0 .. top), NEW divisor \in 0 .. top,
           NEW line, NEW enable \in BOOLEAN
    PROVE  /\ RxNext(rx0, divisor, line, enable) \in Rx(0 .. top)
           /\ rx0.avail /\ ~ enable => RxNext(rx0, divisor, line, enable).avail
<1>1. rx0.value \in 0 .. Filter /\ rx0.data \in Byte /\ rx0.avail \in BOOLEAN
    BY DEF Rx
<1>2. Average(rx0.value, line) \in 0 .. Filter
    BY <1>1, FilterAssumption DEF Average
<1>3. Sampled(rx0, divisor) \in Rx(0 .. top)
    BY SampledType
<1>4. saves(rx0, divisor) \in BOOLEAN
    BY DEF saves
<1>5. RxNext(rx0, divisor, line, enable) \in Rx(0 .. top)
    BY <1>1, <1>2, <1>3, <1>4 DEF RxNext, Rx
<1>6. RxNext(rx0, divisor, line, enable).avail = (saves(rx0, divisor) \/ (rx0.avail /\ ~ enable))
    <2> DEFINE s == Sampled(rx0, divisor)
    <2>1. s.avail = rx0.avail
        BY DEF Sampled, Rx
    <2> HIDE DEF s
    <2>2. \A value, saved, avail : [s EXCEPT !.value = value, !.saved = saved, !.avail = avail].avail = avail
        BY <1>3 DEF s, Rx
    <2> QED
        BY <2>1, <2>2 DEF RxNext, s
<1> QED
    BY <1>5, <1>6
-----------------------------------------------------------------------------
LEMMA InvInit == Init => IInv
<1> SUFFICES ASSUME Init PROVE IInv
    OBVIOUS
<1>1. TxReset \in Tx(Periods) /\ TxReset \in Tx(HostPeriods) /\ RxReset \in Rx(Periods)
    <2>1. \A top \in Nat : TxReset \in Tx(0 .. top) /\ RxReset \in Rx(0 .. top)
        BY BitsAssumption, FilterAssumption DEF TxReset, RxReset, Tx, Rx, Byte
    <2>2. PICK d \in HostDivisors : d \in Nat /\ 0 .. d \subseteq HostPeriods
        BY DivisorAssumption DEF Init, HostPeriods
    <2> QED
        BY <2>1, <2>2, DivisorAssumption DEF Periods, Tx
<1>2. UploadTypeOK
    <2>1. <<>> \in Seq(Byte)
        OBVIOUS
    <2>2. /\ since \in 0 .. Latency /\ j \in 0 .. Timeout /\ gap \in 0 .. MaxGap /\ sent \in 0 .. Total
          /\ k \in Nat /\ received \in Nat
        BY UploadAssumption DEF Init
    <2>3. /\ uart0_divisor \in {0, Divisor} /\ uart0_data_write \in Byte /\ ch \in Byte
          /\ tx \in Tx(Periods) /\ rx \in Rx(Periods) /\ host \in Tx(HostPeriods)
        BY <1>1, ByteTypes DEF Init
    <2>4. at \in Labels
        BY DEF Init, Labels, Writes
    <2> QED
        BY <2>1, <2>2, <2>3, <2>4 DEF Init, UploadTypeOK
<1>3. Paced /\ Idle /\ Found /\ PutcharAccepted
    BY DEF Init, Paced, Idle, Found, PutcharAccepted, Reads
<1>4. Counters
    BY DivisorAssumption, UploadAssumption DEF Init, Counters, TxReset
<1> QED
    BY <1>2, <1>3, <1>4 DEF IInv

(* The UART keeps its types.                                               *)
LEMMA LineStep ==
    ASSUME IInv, NEW access, NEW line, EnableWrite(access), Line(line)
    PROVE  /\ uart0_divisor' \in {0, Divisor} /\ uart0_divisor <= uart0_divisor'
           /\ uart0_data_write' \in Byte
           /\ tx' \in Tx(Periods) /\ tx'.delay <= uart0_divisor' /\ rx' \in Rx(Periods)
<1>1. /\ uart0_divisor \in {0, Divisor} /\ Divisor \in Nat /\ uart0_divisor \in 0 .. Divisor
      /\ uart0_enable_r \in BOOLEAN /\ uart0_enable_w \in BOOLEAN /\ uart0_data_write \in Byte
      /\ tx \in Tx(0 .. Divisor) /\ rx \in Rx(0 .. Divisor) /\ tx.delay <= uart0_divisor
    BY DivisorAssumption DEF IInv, UploadTypeOK, Counters, Periods
<1>2. uart0_divisor' \in {0, Divisor} /\ uart0_divisor <= uart0_divisor'
    BY <1>1 DEF EnableWrite
<1>3. uart0_data_write' \in Byte
    BY <1>1, ByteTypes DEF EnableWrite
<1>4. tx' \in Tx(0 .. Divisor) /\ tx'.delay <= uart0_divisor
    BY <1>1, TxType DEF Line
<1>5. rx' \in Rx(0 .. Divisor)
    BY <1>1, RxType DEF Line
<1>6. tx'.delay <= uart0_divisor'
    BY <1>1, <1>2, <1>4 DEF Tx
<1> QED
    BY <1>2, <1>3, <1>4, <1>5, <1>6 DEF Periods

(* So does the software.                                                   *)
LEMMA SoftwareStep ==
    ASSUME IInv, NEW access \in BOOLEAN, Software(access)
    PROVE  /\ at' \in Labels /\ since' \in 0 .. Latency
           /\ ch' \in Byte /\ k' \in Nat /\ j' \in 0 .. Timeout
           /\ at' # "done" => j' < Timeout
<1> USE DEF IInv, UploadTypeOK, Counters
<1>1. rx.saved \in Byte
    BY DEF Rx
<1>2. CASE access
    <2>1. since' = 0 /\ at \in Labels /\ at # "done" /\ j < Timeout /\ Access
        BY <1>2 DEF Software, Access
    <2>2. CASE Setup
        BY <2>1, <2>2, UploadAssumption DEF Setup, Goto, Labels, Writes, Polls
    <2>3. CASE Putchar
        BY <2>1, <2>3, UploadAssumption DEF Putchar, Goto, Stored, Labels, Writes, Polls
    <2>4. CASE Getchar
        BY <1>1, <2>1, <2>4, UploadAssumption
           DEF Getchar, Goto, Stored, Labels, Writes, Polls, Reads
    <2>5. CASE Poll
        BY <2>1, <2>5, UploadAssumption DEF Poll, Labels, Writes, Polls
    <2> QED
        BY <2>1, <2>2, <2>3, <2>4, <2>5 DEF Access
<1>3. CASE ~ access
    BY <1>3, UploadAssumption DEF Software, Compute
<1> QED
    BY <1>2, <1>3

(* So does the host, and what is remembered of both.                       *)
LEMMA HostStep ==
    ASSUME IInv, NEW starts \in BOOLEAN, NEW reads \in BOOLEAN,
           Host(starts), Sending(starts, reads)
    PROVE  /\ host' \in Tx(HostPeriods) /\ host_divisor' = host_divisor
           /\ host'.delay <= host_divisor
           /\ gap' \in 0 .. MaxGap /\ prompted' \in BOOLEAN /\ sent' \in 0 .. Total
           /\ queue' \in Seq(Byte) /\ received' \in Nat
<1>1. /\ host \in Tx(HostPeriods) /\ host.delay <= host_divisor /\ host_divisor \in HostDivisors
      /\ gap \in 0 .. MaxGap /\ sent \in 0 .. Total /\ queue \in Seq(Byte) /\ received \in Nat
      /\ prompted \in BOOLEAN /\ host_divisor \in Nat
    BY DivisorAssumption DEF IInv, UploadTypeOK, Counters
<1>2. gap' \in 0 .. MaxGap /\ sent' \in 0 .. Total /\ host_divisor' = host_divisor
    BY <1>1, UploadAssumption DEF Host, MaySend
<1>3. prompted' \in BOOLEAN
    BY <1>1 DEF Host
<1>4. PICK byte \in Byte : /\ host' = TxNext(host, host_divisor, starts, byte)
                          /\ History(reads, IF starts THEN <<byte>> ELSE <<>>)
    BY ByteTypes DEF Sending
<1>5. host' \in Tx(HostPeriods) /\ host'.delay <= host_divisor
    <2>1. host \in Tx(0 .. host_divisor)
        BY <1>1 DEF Tx, HostPeriods
    <2>2. host' \in Tx(0 .. host_divisor) /\ host'.delay <= host_divisor
        BY <1>1, <1>4, <2>1, TxType
    <2> QED
        BY <1>1, <2>2 DEF Tx, HostPeriods
<1>6. queue' \in Seq(Byte) /\ received' \in Nat
    <2>1. \A bytes \in Seq(Byte) : queue \o bytes \in Seq(Byte)
        BY <1>1, ConcatProperties
    <2>2. queue # <<>> => \A bytes \in Seq(Byte) : Tail(queue) \o bytes \in Seq(Byte)
        BY <1>1, HeadTailProperties, ConcatProperties
    <2>3. (IF starts THEN <<byte>> ELSE <<>>) \in Seq(Byte)
        OBVIOUS
    <2> QED
        BY <1>1, <1>4, <2>1, <2>2, <2>3 DEF History
<1> QED
    BY <1>2, <1>3, <1>5, <1>6
-----------------------------------------------------------------------------
(* What a cycle does to the two enables and to an idle UART.               *)
LEMMA EnableStep ==
    ASSUME IInv, NEW access \in BOOLEAN, EnableRead(access), EnableWrite(access)
    PROVE  /\ uart0_enable_r' \in BOOLEAN /\ uart0_enable_w' \in BOOLEAN
           /\ uart0_enable_r' => access /\ at \in uart0
           /\ uart0_enable_w' => access /\ at \in Writes
           /\ uart0_enable_w' /\ uart0_data_write' = Printed => at \in {"prompt", "hash"}
<1>1. uart0_enable_r' \in BOOLEAN /\ (uart0_enable_r' => access /\ at \in uart0)
    BY DEF EnableRead
<1>2. uart0_enable_w' \in BOOLEAN /\ (uart0_enable_w' => access /\ at \in Writes)
    BY DEF EnableWrite
<1>3. uart0_enable_w' /\ uart0_data_write' = Printed => at \in {"prompt", "hash"}
    BY ByteTypes DEF EnableWrite, uart0, Writes
<1> QED
    BY <1>1, <1>2, <1>3

LEMMA IdleTx ==
    ASSUME NEW line, Line(line), ~ busy(tx), ~ uart0_enable_w
    PROVE  tx' = tx
BY DEF Line, TxNext

LEMMA HeldRx ==
    ASSUME IInv, NEW line, Line(line), rx.avail, ~ uart0_enable_r
    PROVE  rx'.avail
<1>1. /\ uart0_divisor \in 0 .. Divisor /\ rx \in Rx(0 .. Divisor) /\ Divisor \in Nat
      /\ uart0_enable_r \in BOOLEAN
    BY DivisorAssumption DEF IInv, UploadTypeOK, Periods
<1> QED
    BY <1>1, RxType DEF Line

(* Where an access leads that the next one depends on.                     *)
LEMMA Destinations ==
    ASSUME IInv, Access
    PROVE  /\ at' \in {"prompt", "hash"} => ~ busy(tx) /\ at \notin Writes
           /\ at' \in Reads => rx.avail /\ at \notin uart0
<1> USE DEF Goto, Reads, Writes, uart0
<1>1. CASE Setup
    BY <1>1 DEF Setup
<1>2. CASE Putchar
    BY <1>2 DEF Putchar, Stored
<1>3. CASE Getchar
    BY <1>3 DEF Getchar, Stored
<1>4. CASE Poll
    BY <1>4 DEF Poll
<1> QED
    BY <1>1, <1>2, <1>3, <1>4 DEF Access

LEMMA InvCycle ==
    ASSUME IInv, NEW access \in BOOLEAN, NEW starts \in BOOLEAN, NEW noise \in BOOLEAN,
           Cycle(access, starts, noise)
    PROVE  IInv'
<1> DEFINE line == IF noise THEN 0 ELSE uart_write(host)
           reads == access /\ at \in Reads
<1>1. /\ EnableRead(access) /\ EnableWrite(access) /\ Line(line) /\ Software(access)
      /\ Host(starts) /\ Sending(starts, reads) /\ reads \in BOOLEAN
    BY DEF Cycle
<1> HIDE DEF line, reads
<1>2. (UploadTypeOK /\ Counters)'
    <2>1. /\ uart0_enable_r' \in BOOLEAN /\ uart0_enable_w' \in BOOLEAN
          /\ uart0_divisor' \in {0, Divisor} /\ uart0_data_write' \in Byte
          /\ tx' \in Tx(Periods) /\ tx'.delay <= uart0_divisor' /\ rx' \in Rx(Periods)
        BY <1>1, EnableStep, LineStep
    <2>2. /\ at' \in Labels /\ since' \in 0 .. Latency
          /\ ch' \in Byte /\ k' \in Nat /\ j' \in 0 .. Timeout
          /\ at' # "done" => j' < Timeout
        BY <1>1, SoftwareStep
    <2>3. /\ host' \in Tx(HostPeriods) /\ host_divisor' = host_divisor
          /\ host'.delay <= host_divisor
          /\ gap' \in 0 .. MaxGap /\ prompted' \in BOOLEAN /\ sent' \in 0 .. Total
          /\ queue' \in Seq(Byte) /\ received' \in Nat
        BY <1>1, HostStep
    <2>4. host_divisor \in HostDivisors
        BY DEF IInv, UploadTypeOK
    <2> QED
        BY <2>1, <2>2, <2>3, <2>4 DEF UploadTypeOK, Counters
<1>3. /\ uart0_enable_r' => access /\ at \in uart0
      /\ uart0_enable_w' => access /\ at \in Writes
      /\ uart0_enable_w' /\ uart0_data_write' = Printed => at \in {"prompt", "hash"}
    BY <1>1, EnableStep
<1>4. CASE access
    <2>1. since' = 0 /\ Access /\ ~ uart0_enable_w /\ ~ uart0_enable_r
        BY <1>1, <1>4 DEF Software, Access, IInv, Paced, UploadTypeOK
    <2>2. Paced'
        BY <2>1 DEF Paced
    <2>3. /\ at' \in {"prompt", "hash"} => ~ busy(tx) /\ at \notin Writes
          /\ at' \in Reads => rx.avail /\ at \notin uart0
        BY <2>1, Destinations
    <2>4. Idle'
        BY <1>1, <1>3, <2>1, <2>3, IdleTx DEF Idle, busy
    <2>5. Found'
        BY <1>1, <1>3, <2>1, <2>3, HeldRx DEF Found
    <2>6. PutcharAccepted'
        <3>1. at \in {"prompt", "hash"} => tx' = tx /\ ~ busy(tx)
            BY <1>1, <2>1, IdleTx DEF IInv, Idle
        <3> QED
            BY <1>3, <3>1 DEF PutcharAccepted, busy
    <2> QED
        BY <1>2, <2>2, <2>4, <2>5, <2>6 DEF IInv
<1>5. CASE ~ access
    <2>1. ~ uart0_enable_w' /\ ~ uart0_enable_r' /\ at' = at
        BY <1>1, <1>3, <1>5 DEF Software, Compute
    <2>2. Paced' /\ PutcharAccepted'
        BY <2>1 DEF Paced, PutcharAccepted
    <2>3. Idle'
        BY <1>1, <2>1, IdleTx DEF IInv, Idle, busy
    <2>4. Found'
        BY <1>1, <2>1, HeldRx DEF IInv, Found, Reads
    <2> QED
        BY <1>2, <2>2, <2>3, <2>4 DEF IInv
<1> QED
    BY <1>4, <1>5

LEMMA InvStep == IInv /\ [Next]_vars => IInv'
<1> SUFFICES ASSUME IInv, [Next]_vars PROVE IInv'
    OBVIOUS
<1>1. CASE Next
    BY <1>1, InvCycle DEF Next
<1>2. CASE UNCHANGED vars
    BY <1>2 DEF vars, soc, software, environment, IInv, UploadTypeOK, Paced, Idle, Found, Counters,
                PutcharAccepted, busy
<1> QED
    BY <1>1, <1>2

(* The invariant, whose parts the theorems below take from it.             *)
THEOREM UploadInvariant == Spec => []IInv
BY InvInit, InvStep, PTL DEF Spec

(* Every register and variable keeps its type, and the monitor never polls *)
(* longer than its timeout, with UART and host of any speed.               *)
THEOREM UploadTypes == Spec => []UploadTypeOK
<1>1. IInv => UploadTypeOK
    BY DEF IInv
<1> QED
    BY <1>1, UploadInvariant, PTL

(* No character that putchar() writes meets a busy transmitter.            *)
THEOREM PutcharIsAccepted == Spec => []PutcharAccepted
<1>1. IInv => PutcharAccepted
    BY DEF IInv
<1> QED
    BY <1>1, UploadInvariant, PTL

(* What getchar() reads is the byte it polled for.                         *)
THEOREM GetcharAlwaysFinds == Spec => []GetcharFinds
<1>1. IInv => GetcharFinds
    BY DEF IInv, Found, GetcharFinds
<1> QED
    BY <1>1, UploadInvariant, PTL
-----------------------------------------------------------------------------
(* The frame of a byte on the line: start bit, byte, stop bit.             *)
Frame(b, m) == IF m <= 1 THEN 0 ELSE IF m <= Bits + 1 THEN b[m - 1] ELSE 1

(* The bit of the frame the host sends and the one the receiver samples    *)
(* next; the cycles since the start bit began and where the receiver       *)
(* believes to be.                                                         *)
Index == Bits + 3 - host.bits
HostPos == (Index - 1) * (host_divisor + 1) + host.delay
NextBit == Bits + 2 - rx.bits
RxPos == Middle(NextBit) - rx.delay

(* A start bit not seen yet, a byte in its last cycle before it is saved,  *)
(* and a byte saved and not taken.                                         *)
Fresh == rx.bits = 0 /\ host.bits = Bits + 2
Saving == rx.bits = 0 /\ rx.delay = Divisor
InFlight == Fresh \/ rx.bits # 0 \/ Saving
Unread == rx.avail /\ ~ uart0_enable_r

(* The receiver keeps step with the host to a cycle.                       *)
Lockstep ==
    /\ ~ busy(host) => rx.bits = 0 /\ rx.delay <= Crossing + 1
    /\ Fresh => host.delay + rx.delay <= Crossing
    /\ ~ busy(host) \/ Fresh => rx.delay # Divisor
    /\ busy(host) /\ ~ Fresh =>
        /\ RxPos <= HostPos
        /\ rx.bits # 0 \/ rx.delay # 0 => HostPos <= RxPos + 1

(* The host sends b, ...                                                   *)
Sends(b) ==
    IF busy(host) THEN \A x \in 1 .. Bits + 1 : host.data[x] = Frame(b, x + Index - 1)
    ELSE host.data[1] = 1

(* ... the average follows the line, ...                                   *)
Settled(b) ==
    IF busy(host)
    THEN /\ Frame(b, Index) = 1 => host.delay <= rx.value \/ rx.value = Filter
         /\ Frame(b, Index) = 0 => rx.value + host.delay <= Filter \/ rx.value = 0
         /\ Index = 1 => Filter <= rx.value + host.delay + 1
         /\ Index > 1 /\ Frame(b, Index - 1) = 1 => Filter <= rx.value + host.delay
         /\ Index > 1 /\ Frame(b, Index - 1) = 0 => rx.value <= host.delay
    ELSE Filter - 1 <= rx.value

(* ... the receiver has the bits of b it has sampled ...                   *)
Taken(b) ==
    rx.bits # 0 \/ Saving =>
        \A x \in 1 .. Bits : rx.bits <= x => rx.data[x] = Frame(b, x - rx.bits + 1)

(* ... and what the monitor has not read is the byte saved and b.          *)
Flying(b) == IF InFlight THEN <<b>> ELSE <<>>
Queued(b) == queue = IF Unread THEN <<rx.saved>> \o Flying(b) ELSE Flying(b)

(* The cycles to the next byte saved, at least; the accesses the software  *)
(* still makes for the last one, which leave a bit of them.                *)
SaveIn == IF rx.bits # 0 THEN rx.delay + 1 + (rx.bits - 1) * (Divisor + 1)
          ELSE IF Saving THEN 0 ELSE rx.delay + 2 + half(Divisor) + Bits * (Divisor + 1)
Work == CASE at = "poll" -> 5 [] at = "getchar" -> 4 [] at = "read" -> 3
          [] at \in {"hash_busy", "first"} -> 2 [] OTHER -> 1
Serving == Unread \/ at \in {"getchar", "read", "first_read", "hash_busy", "hash"}
Due(n, t) == n * (Latency + 1) - t + Divisor + 1 - half(Divisor)
OnTime == Serving => Due(Work, since) <= SaveIn

(* The cycles a '#' still needs, and those before the next.                *)
Frames(n) == n * (Divisor + 1) + half(Divisor)
TxLeft == IF busy(tx) THEN (tx.bits - 1) * (Divisor + 1) + Divisor - tx.delay + 1
          ELSE IF uart0_enable_w THEN (Bits + 2) * (Divisor + 1) + 1 ELSE 0
Horizon == IF k % Echo = 0 THEN (IF Serving THEN 0 ELSE SaveIn)
           ELSE (IF Serving THEN SaveIn ELSE SaveIn + Frames(Bits + 1) + 1)
Echoes == TxLeft <= Horizon

(* What the software has polled for; a '#' follows every Echo bytes.       *)
Held ==
    /\ at \notin unprompted
    /\ at \in {"getchar", "read", "first_read"} => Unread
    /\ at \in {"hash_busy", "hash"} => ~ Unread /\ k % Echo = 0

Booting ==
    /\ ~ prompted /\ at \in unprompted \cup {"first"}
    /\ uart0_divisor = IF at = "irq_div" THEN 0 ELSE Divisor
    /\ ~ busy(host) /\ host.data[1] = 1 /\ Filter - 1 <= rx.value
    /\ rx.bits = 0 /\ rx.delay = 0 /\ queue = <<>>
    /\ rx.avail => at \in {"irq_div", "irq_zero"} \/ uart0_enable_r

Receiving(b) ==
    /\ prompted /\ uart0_divisor = Divisor
    /\ Lockstep /\ Sends(b) /\ Settled(b) /\ Taken(b) /\ Queued(b)
    /\ OnTime /\ Echoes /\ Held

LInv == at = "done" \/ Booting \/ \E b \in Byte : Receiving(b)

(* What is known of the divisions and of the points the receiver samples.  *)
LEMMA Halves ==
    /\ half(Divisor) \in Nat /\ 2 * half(Divisor) <= Divisor /\ half(Divisor) < Divisor
    /\ Crossing \in Nat /\ Filter <= 2 * Crossing /\ 2 * Crossing <= Filter + 1
BY DivisorAssumption, FilterAssumption DEF half, Crossing

LEMMA Middles ==
    ASSUME NEW m \in Int
    PROVE  Middle(m) \in Int /\ Middle(m + 1) = Middle(m) + Divisor + 1
<1>1. (m - 1) * (Divisor + 1) \in Int
    BY DivisorAssumption
<1>2. m * (Divisor + 1) = (m - 1) * (Divisor + 1) + (Divisor + 1)
    BY DivisorAssumption
<1>3. m + 1 - 1 = m
    OBVIOUS
<1> QED
    BY <1>1, <1>2, <1>3, Halves, DivisorAssumption DEF Middle

LEMMA MiddleOrder ==
    ASSUME NEW m \in Int, NEW n \in Int, m <= n
    PROVE  Middle(m) <= Middle(n)
<1> DEFINE before == (m - 1) * (Divisor + 1)
           after == (n - 1) * (Divisor + 1)
<1>1. before \in Int /\ after \in Int
    BY DivisorAssumption
<1>2. (n - m) * (Divisor + 1) >= 0
    BY DivisorAssumption
<1>3. after = before + (n - m) * (Divisor + 1)
    BY DivisorAssumption
<1>4. (n - m) * (Divisor + 1) \in Int
    BY DivisorAssumption
<1>5. Middle(m) = half(Divisor) + before + Crossing /\ Middle(n) = half(Divisor) + after + Crossing
    BY DEF Middle
<1> HIDE DEF before, after
<1> QED
    BY <1>1, <1>2, <1>3, <1>4, <1>5, Halves

(* A position that is half a filter or more behind the edge of bit m, and  *)
(* less than that behind the next, is in bit m or at the start of the next.*)
LEMMA Located ==
    ASSUME NEW h \in Nat \ {0}, NEW i \in Int, NEW m \in Int, NEW w \in 0 .. h, Filter <= h + 1,
           2 * ((m - 1) * (h + 1)) + Filter < 2 * ((i - 1) * (h + 1) + w),
           2 * ((i - 1) * (h + 1) + w) < 2 * (m * (h + 1)) + Filter
    PROVE  \/ i = m /\ 2 * w > Filter
           \/ i = m + 1 /\ 2 * w < Filter
<1> DEFINE edge == (m - 1) * (h + 1)
           base == (i - 1) * (h + 1)
<1>1. edge \in Int /\ base \in Int /\ m * (h + 1) = edge + (h + 1)
    OBVIOUS
<1>2. i < m => base <= edge - (h + 1)
    <2>1. i < m => (m - i - 1) * (h + 1) >= 0
        OBVIOUS
    <2>2. base = edge - (h + 1) - (m - i - 1) * (h + 1)
        OBVIOUS
    <2> QED
        BY <1>1, <2>1, <2>2
<1>3. i > m + 1 => base >= edge + 2 * (h + 1)
    <2>1. i > m + 1 => (i - m - 2) * (h + 1) >= 0
        OBVIOUS
    <2>2. base = edge + 2 * (h + 1) + (i - m - 2) * (h + 1)
        OBVIOUS
    <2> QED
        BY <1>1, <2>1, <2>2
<1>4. (i = m => base = edge) /\ (i = m + 1 => base = edge + (h + 1))
    OBVIOUS
<1>5. 2 * edge + Filter < 2 * (base + w) /\ 2 * (base + w) < 2 * (edge + (h + 1)) + Filter
    BY <1>1
<1>6. i < m \/ i = m \/ i = m + 1 \/ i > m + 1
    OBVIOUS
<1> HIDE DEF edge, base
<1> QED
    BY <1>1, <1>2, <1>3, <1>4, <1>5, <1>6, FilterAssumption

(* What a clock edge makes of a receiver, register by register.            *)
LEMMA RxSteps ==
    ASSUME NEW top \in Nat, NEW rx0 \in Rx(0 .. top), NEW divisor \in 0 .. top,
           NEW line, NEW enable \in BOOLEAN, NEW r, r = RxNext(rx0, divisor, line, enable)
    PROVE  /\ r.value = Average(rx0.value, line)
           /\ r.saved = IF saves(rx0, divisor) THEN rx0.data ELSE rx0.saved
           /\ r.avail = (saves(rx0, divisor) \/ (rx0.avail /\ ~ enable))
           /\ \/ rx0.delay # 0 /\ r.delay = rx0.delay - 1 /\ r.bits = rx0.bits /\ r.data = rx0.data
              \/ /\ rx0.delay = 0 /\ rx0.bits # 0
                 /\ r.delay = divisor /\ r.bits = rx0.bits - 1
                 /\ r.data = Append(Tail(rx0.data), uart_read2(rx0))
              \/ /\ rx0.delay = 0 /\ rx0.bits = 0 /\ uart_read2(rx0) = 0
                 /\ r.delay = half(divisor) /\ r.bits = Bits + 1 /\ r.data = rx0.data
              \/ /\ rx0.delay = 0 /\ rx0.bits = 0 /\ uart_read2(rx0) = 1
                 /\ r.delay = 0 /\ r.bits = 0 /\ r.data = rx0.data
<1> DEFINE s == Sampled(rx0, divisor)
<1>1. s \in Rx(0 .. top)
    BY SampledType
<1>2. s.saved = rx0.saved /\ s.avail = rx0.avail
    BY DEF Sampled, Rx
<1>3. uart_read2(rx0) \in {0, 1}
    BY DEF uart_read2
<1>4. \/ rx0.delay # 0 /\ s.delay = rx0.delay - 1 /\ s.bits = rx0.bits /\ s.data = rx0.data
      \/ /\ rx0.delay = 0 /\ rx0.bits # 0
         /\ s.delay = divisor /\ s.bits = rx0.bits - 1
         /\ s.data = Append(Tail(rx0.data), uart_read2(rx0))
      \/ /\ rx0.delay = 0 /\ rx0.bits = 0 /\ uart_read2(rx0) = 0
         /\ s.delay = half(divisor) /\ s.bits = Bits + 1 /\ s.data = rx0.data
      \/ /\ rx0.delay = 0 /\ rx0.bits = 0 /\ uart_read2(rx0) = 1
         /\ s.delay = 0 /\ s.bits = 0 /\ s.data = rx0.data
    <2>1. CASE rx0.delay # 0
        BY <2>1 DEF Sampled, Rx
    <2>2. CASE rx0.delay = 0 /\ rx0.bits # 0
        BY <2>2 DEF Sampled, Rx
    <2>3. CASE rx0.delay = 0 /\ rx0.bits = 0
        BY <1>3, <2>3 DEF Sampled, Rx
    <2> QED
        BY <2>1, <2>2, <2>3
<1>5. \A value, saved, avail :
        LET q == [s EXCEPT !.value = value, !.saved = saved, !.avail = avail]
        IN  /\ q.value = value /\ q.saved = saved /\ q.avail = avail
            /\ q.bits = s.bits /\ q.delay = s.delay /\ q.data = s.data
    <2> HIDE DEF s
    <2> QED
        BY <1>1 DEF Rx
<1>6. r = [s EXCEPT !.value = Average(rx0.value, line),
                    !.saved = IF saves(rx0, divisor) THEN rx0.data ELSE s.saved,
                    !.avail = saves(rx0, divisor) \/ (s.avail /\ ~ enable)]
    BY DEF RxNext
<1> HIDE DEF s
<1> QED
    BY <1>2, <1>4, <1>5, <1>6

(* The ranges of the registers the link depends on.                        *)
LEMMA Registers ==
    ASSUME IInv
    PROVE  /\ rx.value \in 0 .. Filter /\ rx.bits \in 0 .. Bits + 1 /\ rx.delay \in 0 .. Divisor
           /\ rx.data \in Byte /\ rx.saved \in Byte /\ rx.avail \in BOOLEAN
           /\ host.bits \in 0 .. Bits + 2 /\ host.delay \in 0 .. host_divisor
           /\ host.data \in [1 .. Bits + 1 -> {0, 1}]
           /\ host_divisor \in HostDivisors /\ host_divisor \in Nat \ {0}
           /\ tx.bits \in 0 .. Bits + 2 /\ tx.delay \in 0 .. uart0_divisor
           /\ uart0_enable_r \in BOOLEAN /\ uart0_enable_w \in BOOLEAN /\ uart0_divisor \in 0 .. Divisor
<1>1. /\ tx \in Tx(0 .. Divisor) /\ rx \in Rx(0 .. Divisor) /\ host_divisor \in HostDivisors
      /\ host \in Tx(HostPeriods) /\ host_divisor \in Nat \ {0} /\ uart0_divisor \in 0 .. Divisor
      /\ tx.delay <= uart0_divisor /\ host.delay <= host_divisor
      /\ uart0_enable_r \in BOOLEAN /\ uart0_enable_w \in BOOLEAN
    BY DivisorAssumption DEF IInv, UploadTypeOK, Counters, Periods
<1>2. HostPeriods \subseteq Nat
    BY DivisorAssumption DEF HostPeriods
<1>3. /\ rx.value \in 0 .. Filter /\ rx.bits \in 0 .. Bits + 1 /\ rx.delay \in 0 .. Divisor
      /\ rx.data \in Byte /\ rx.saved \in Byte /\ rx.avail \in BOOLEAN
    BY <1>1 DEF Rx
<1>4. /\ host.bits \in 0 .. Bits + 2 /\ host.delay \in HostPeriods
      /\ host.data \in [1 .. Bits + 1 -> {0, 1}]
    BY <1>1 DEF Tx
<1>5. tx.bits \in 0 .. Bits + 2 /\ tx.delay \in 0 .. Divisor
    BY <1>1 DEF Tx
<1>6. host.delay \in 0 .. host_divisor
    <2>1. host.delay \in Nat /\ host_divisor \in Nat /\ host.delay <= host_divisor
        BY <1>1, <1>2, <1>4
    <2> QED
        BY <2>1
<1>7. tx.delay \in 0 .. uart0_divisor
    <2>1. tx.delay \in Nat /\ uart0_divisor \in Nat /\ tx.delay <= uart0_divisor
        BY <1>1, <1>5, DivisorAssumption
    <2> QED
        BY <2>1
<1> QED
    BY <1>1, <1>3, <1>4, <1>5, <1>6, <1>7

(* What it makes of that of the SoC, ...                                   *)
RxCounts == rx.delay # 0 /\ rx'.delay = rx.delay - 1 /\ rx'.bits = rx.bits /\ rx'.data = rx.data
RxSamples ==
    /\ rx.delay = 0 /\ rx.bits # 0
    /\ rx'.delay = uart0_divisor /\ rx'.bits = rx.bits - 1
    /\ rx'.data = Append(Tail(rx.data), uart_read2(rx))
RxStarts ==
    /\ rx.delay = 0 /\ rx.bits = 0 /\ uart_read2(rx) = 0
    /\ rx'.delay = half(uart0_divisor) /\ rx'.bits = Bits + 1 /\ rx'.data = rx.data
RxRests ==
    /\ rx.delay = 0 /\ rx.bits = 0 /\ uart_read2(rx) = 1
    /\ rx'.delay = 0 /\ rx'.bits = 0 /\ rx'.data = rx.data

LEMMA Receiver ==
    ASSUME IInv, NEW line, Line(line)
    PROVE  /\ rx'.value = Average(rx.value, line)
           /\ rx'.saved = IF saves(rx, uart0_divisor) THEN rx.data ELSE rx.saved
           /\ rx'.avail = (saves(rx, uart0_divisor) \/ (rx.avail /\ ~ uart0_enable_r))
           /\ RxCounts \/ RxSamples \/ RxStarts \/ RxRests
<1>1. /\ Divisor \in Nat /\ uart0_divisor \in 0 .. Divisor /\ rx \in Rx(0 .. Divisor)
      /\ uart0_enable_r \in BOOLEAN
    BY DivisorAssumption DEF IInv, UploadTypeOK, Periods
<1>2. rx' = RxNext(rx, uart0_divisor, line, uart0_enable_r)
    BY DEF Line
<1> QED
    BY <1>1, <1>2, RxSteps DEF RxCounts, RxSamples, RxStarts, RxRests

(* ... and of the transmitter of the host.                                 *)
HostLoads(byte) ==
    /\ ~ busy(host) /\ prompted
    /\ host'.bits = Bits + 2 /\ host'.delay = 0 /\ host'.data = <<0>> \o byte
HostIdles == ~ busy(host) /\ host' = host
HostCounts ==
    /\ busy(host) /\ host.delay # host_divisor
    /\ host'.bits = host.bits /\ host'.delay = host.delay + 1 /\ host'.data = host.data
HostShifts ==
    /\ busy(host) /\ host.delay = host_divisor
    /\ host'.bits = host.bits - 1 /\ host'.delay = 0 /\ host'.data = Append(Tail(host.data), 1)

LEMMA Sender ==
    ASSUME IInv, NEW starts \in BOOLEAN, NEW byte \in Byte, Host(starts),
           host' = TxNext(host, host_divisor, starts, byte)
    PROVE  /\ host_divisor' = host_divisor
           /\ starts => HostLoads(byte)
           /\ ~ starts => HostIdles \/ HostCounts \/ HostShifts
<1>1. host \in Tx(HostPeriods) /\ host_divisor' = host_divisor /\ (starts => ~ busy(host) /\ prompted)
    BY DEF IInv, UploadTypeOK, Host, MaySend
<1>2. CASE starts
    BY <1>1, <1>2 DEF TxNext, Loaded, HostLoads
<1>3. CASE ~ starts
    <2>1. CASE ~ busy(host)
        BY <1>1, <1>3, <2>1 DEF TxNext, HostIdles
    <2>2. CASE busy(host) /\ host.delay # host_divisor
        BY <1>1, <1>3, <2>2 DEF TxNext, HostCounts, Tx
    <2>3. CASE busy(host) /\ host.delay = host_divisor
        BY <1>1, <1>3, <2>3 DEF TxNext, HostShifts, Shifted
    <2> QED
        BY <1>3, <2>1, <2>2, <2>3
<1> QED
    BY <1>1, <1>2, <1>3

(* The monitor receives b from a host it tolerates.                        *)
Linked(b) == IInv /\ Receiving(b) /\ Tolerates(host_divisor) /\ InTime

(* Positions are integers, and that of the host moves by a cycle a cycle.  *)
LEMMA Positions ==
    ASSUME IInv
    PROVE  /\ Index \in 1 .. Bits + 3 /\ NextBit \in 1 .. Bits + 2
           /\ HostPos \in Int /\ RxPos \in Int /\ Middle(NextBit) = RxPos + rx.delay
           /\ HostPos = (Index - 1) * (host_divisor + 1) + host.delay
<1>1. Index \in 1 .. Bits + 3 /\ NextBit \in 1 .. Bits + 2
    <2>1. host.bits \in 0 .. Bits + 2 /\ rx.bits \in 0 .. Bits + 1
        BY Registers
    <2> QED
        BY <2>1, BitsAssumption DEF Index, NextBit
<1>2. (Index - 1) * (host_divisor + 1) \in Int
    BY <1>1, Registers
<1>3. HostPos \in Int /\ HostPos = (Index - 1) * (host_divisor + 1) + host.delay
    BY <1>2, Registers DEF HostPos
<1>4. Middle(NextBit) \in Int
    BY <1>1, Middles
<1>5. RxPos = Middle(NextBit) - rx.delay /\ rx.delay \in Int
    BY Registers DEF RxPos
<1> QED
    BY <1>1, <1>3, <1>4, <1>5

(* The bit sampled is the one the average has settled on.                  *)
LEMMA AverageReads ==
    ASSUME NEW b, Linked(b), busy(host), NEW m \in 1 .. Bits + 2,
           \/ Index = m /\ 2 * host.delay > Filter
           \/ Index = m + 1 /\ 2 * host.delay < Filter,
           Frame(b, m) \in {0, 1}
    PROVE  uart_read2(rx) = Frame(b, m)
<1>1. rx.value \in 0 .. Filter /\ host.delay \in Nat /\ Filter \in Nat \ {0} /\ m >= 1
    BY Registers, FilterAssumption DEF Linked
<1>2. /\ Frame(b, Index) = 1 => host.delay <= rx.value \/ rx.value = Filter
      /\ Frame(b, Index) = 0 => rx.value + host.delay <= Filter \/ rx.value = 0
      /\ Index > 1 /\ Frame(b, Index - 1) = 1 => Filter <= rx.value + host.delay
      /\ Index > 1 /\ Frame(b, Index - 1) = 0 => rx.value <= host.delay
    BY DEF Linked, Receiving, Settled
<1>3. CASE Index = m /\ 2 * host.delay > Filter
    <2>1. /\ Frame(b, m) = 1 => host.delay <= rx.value \/ rx.value = Filter
          /\ Frame(b, m) = 0 => rx.value + host.delay <= Filter \/ rx.value = 0
        BY <1>2, <1>3
    <2> QED
        BY <1>1, <1>3, <2>1 DEF uart_read2
<1>4. CASE Index = m + 1 /\ 2 * host.delay < Filter
    <2>1. Index > 1 /\ Index - 1 = m
        BY <1>1, <1>4
    <2> QED
        BY <1>1, <1>2, <1>4, <2>1 DEF uart_read2
<1> QED
    BY <1>3, <1>4

LEMMA FrameBit ==
    ASSUME NEW b \in Byte, NEW m \in Int
    PROVE  Frame(b, m) \in {0, 1}
<1>1. 1 < m /\ m <= Bits + 1 => m - 1 \in 1 .. Bits
    BY BitsAssumption
<1>2. 1 < m /\ m <= Bits + 1 => b[m - 1] \in {0, 1}
    BY <1>1 DEF Byte
<1> QED
    BY <1>2, BitsAssumption DEF Frame

(* A receiver that counts is a cycle behind the host at the most.          *)
LEMMA InStep ==
    ASSUME NEW b, Linked(b), rx.bits # 0
    PROVE  /\ busy(host) /\ ~ Fresh
           /\ RxPos <= HostPos /\ HostPos <= RxPos + 1
BY DEF Linked, Receiving, Lockstep, Fresh

(* At its sample both are at the same bit of the frame.                    *)
LEMMA Sampling ==
    ASSUME NEW b \in Byte, Linked(b), rx.bits # 0, rx.delay = 0
    PROVE  /\ \/ Index = NextBit /\ 2 * host.delay > Filter
              \/ Index = NextBit + 1 /\ 2 * host.delay < Filter
           /\ uart_read2(rx) = Frame(b, NextBit)
<1>1. /\ Index \in Int /\ NextBit \in 1 .. Bits + 1 /\ HostPos \in Int /\ RxPos \in Int
      /\ RxPos = Middle(NextBit)
      /\ HostPos = (Index - 1) * (host_divisor + 1) + host.delay
    <2>1. NextBit \in 1 .. Bits + 1
        BY Registers, BitsAssumption DEF NextBit, Linked
    <2>2. /\ Index \in Int /\ HostPos \in Int /\ RxPos \in Int /\ Middle(NextBit) = RxPos + rx.delay
          /\ HostPos = (Index - 1) * (host_divisor + 1) + host.delay
        BY Positions DEF Linked
    <2> QED
        BY <2>1, <2>2
<1>2. host_divisor \in Nat \ {0} /\ host.delay \in 0 .. host_divisor /\ Filter <= host_divisor + 1
    BY Registers DEF Linked, Tolerates
<1>3. /\ 2 * (Middle(NextBit) + 1) < 2 * (NextBit * (host_divisor + 1)) + Filter
      /\ 2 * ((NextBit - 1) * (host_divisor + 1)) + Filter < 2 * Middle(NextBit)
    BY <1>1, BitsAssumption DEF Linked, Tolerates
<1>4. Middle(NextBit) <= HostPos /\ HostPos <= Middle(NextBit) + 1
    BY <1>1, InStep
<1>5. \A early, late, at0 \in Int, middle \in Int :
        /\ middle <= at0 /\ at0 <= middle + 1
        /\ 2 * (middle + 1) < 2 * late + Filter /\ 2 * early + Filter < 2 * middle
        => 2 * early + Filter < 2 * at0 /\ 2 * at0 < 2 * late + Filter
    BY FilterAssumption
<1>6. /\ NextBit * (host_divisor + 1) \in Int /\ (NextBit - 1) * (host_divisor + 1) \in Int
      /\ Middle(NextBit) \in Int
    BY <1>1, <1>2
<1>7. /\ 2 * ((NextBit - 1) * (host_divisor + 1)) + Filter < 2 * HostPos
      /\ 2 * HostPos < 2 * (NextBit * (host_divisor + 1)) + Filter
    BY <1>1, <1>3, <1>4, <1>5, <1>6
<1>8. \/ Index = NextBit /\ 2 * host.delay > Filter
      \/ Index = NextBit + 1 /\ 2 * host.delay < Filter
    <2>1. /\ 2 * ((NextBit - 1) * (host_divisor + 1)) + Filter < 2 * ((Index - 1) * (host_divisor + 1) + host.delay)
          /\ 2 * ((Index - 1) * (host_divisor + 1) + host.delay) < 2 * (NextBit * (host_divisor + 1)) + Filter
        BY <1>1, <1>7
    <2>2. NextBit \in Int
        BY <1>1
    <2> HIDE DEF Index, NextBit
    <2> QED
        BY <1>1, <1>2, <2>1, <2>2, Located
<1>9. uart_read2(rx) = Frame(b, NextBit)
    <2>1. NextBit \in 1 .. Bits + 2 /\ NextBit \in Int
        BY <1>1, BitsAssumption
    <2>2. Frame(b, NextBit) \in {0, 1}
        BY <2>1, FrameBit
    <2>3. busy(host)
        BY InStep
    <2> QED
        BY <1>8, <2>1, <2>2, <2>3, AverageReads
<1> QED
    BY <1>8, <1>9

(* An idle line and a stop bit are no start bit ...                        *)
LEMMA IdleSeen ==
    ASSUME NEW b, Linked(b), ~ busy(host)
    PROVE  uart_read2(rx) = 1
<1>1. rx.value \in 0 .. Filter /\ 3 <= Filter /\ Filter - 1 <= rx.value /\ Filter \in Nat
    BY Registers, FilterAssumption DEF Linked, Receiving, Settled, Tolerates
<1> QED
    BY <1>1 DEF uart_read2

LEMMA StopSeen ==
    ASSUME NEW b \in Byte, Linked(b), busy(host), ~ Fresh, rx.bits = 0, rx.delay = 0
    PROVE  Index = Bits + 2 /\ uart_read2(rx) = 1
<1> DEFINE h == host_divisor
           stop == (Bits + 1) * (h + 1)
           next == (Bits + 2) * (h + 1)
           base == (Index - 1) * (h + 1)
<1>1. /\ Index \in 1 .. Bits + 2 /\ HostPos \in Int /\ RxPos \in Int /\ HostPos = base + host.delay
      /\ Middle(Bits + 2) = RxPos
    <2>1. Index \in 1 .. Bits + 2
        <3>1. host.bits \in 1 .. Bits + 2
            BY Registers, BitsAssumption DEF Linked, busy
        <3> QED
            BY <3>1, BitsAssumption DEF Index
    <2>2. NextBit = Bits + 2
        BY BitsAssumption DEF NextBit
    <2>3. /\ HostPos \in Int /\ RxPos \in Int /\ Middle(NextBit) = RxPos + rx.delay
          /\ HostPos = base + host.delay
        BY Positions DEF Linked
    <2> QED
        BY <2>1, <2>2, <2>3
<1>2. h \in Nat \ {0} /\ host.delay \in 0 .. h /\ Filter <= h + 1
    BY Registers DEF Linked, Tolerates
<1>3. 2 * stop + Filter < 2 * Middle(Bits + 2)
    <2> DEFINE m == Bits + 2
    <2>1. m \in 1 .. Bits + 2 /\ m - 1 = Bits + 1
        BY BitsAssumption
    <2> HIDE DEF m
    <2>2. 2 * ((m - 1) * (h + 1)) + Filter < 2 * Middle(m)
        BY <2>1 DEF Linked, Tolerates
    <2>3. 2 * stop + Filter < 2 * Middle(m)
        BY <2>1, <2>2
    <2> QED
        BY <2>3 DEF m
<1>4. RxPos <= HostPos
    BY DEF Linked, Receiving, Lockstep
<1>5. stop \in Int /\ next \in Int /\ base \in Int /\ next = stop + (h + 1)
    BY <1>1, <1>2, BitsAssumption
<1>6. base <= stop
    <2>1. (Bits + 2 - Index) * (h + 1) >= 0 /\ stop = base + (Bits + 2 - Index) * (h + 1)
        BY <1>1, <1>2, BitsAssumption
    <2>2. (Bits + 2 - Index) * (h + 1) \in Int
        BY <1>1, <1>2, BitsAssumption
    <2> HIDE DEF base, stop
    <2> QED
        BY <1>5, <2>1, <2>2
<1>7. 2 * stop + Filter < 2 * (base + host.delay) /\ 2 * (base + host.delay) < 2 * next + Filter
    <2> HIDE DEF base, stop, next
    <2> QED
        BY <1>1, <1>2, <1>3, <1>4, <1>5, <1>6, FilterAssumption
<1>8. \/ Index = Bits + 2 /\ 2 * host.delay > Filter
      \/ Index = Bits + 2 + 1 /\ 2 * host.delay < Filter
    <2> DEFINE m == Bits + 2
    <2>1. m \in Int /\ m - 1 = Bits + 1 /\ Index \in Int
        BY <1>1, BitsAssumption
    <2>2. 2 * ((m - 1) * (h + 1)) + Filter < 2 * ((Index - 1) * (h + 1) + host.delay)
        BY <1>7, <2>1
    <2>3. 2 * ((Index - 1) * (h + 1) + host.delay) < 2 * (m * (h + 1)) + Filter
        BY <1>7
    <2> HIDE DEF m, h
    <2>4. \/ Index = m /\ 2 * host.delay > Filter
          \/ Index = m + 1 /\ 2 * host.delay < Filter
        BY <1>2, <2>1, <2>2, <2>3, Located
    <2> QED
        BY <2>4 DEF m
<1>9. Index = Bits + 2 /\ 2 * host.delay > Filter
    BY <1>1, <1>8, BitsAssumption
<1>10. Frame(b, Bits + 2) = 1 /\ Bits + 2 \in 1 .. Bits + 2
    BY BitsAssumption DEF Frame
<1>11. uart_read2(rx) = 1
    BY <1>9, <1>10, AverageReads
<1> QED
    BY <1>9, <1>11

(* ... and the start bit is seen once the average has crossed the middle.  *)
LEMMA FreshSeen ==
    ASSUME NEW b \in Byte, Linked(b), Fresh
    PROVE  /\ busy(host) /\ Index = 1
           /\ host.delay + rx.delay <= Crossing /\ Crossing <= host_divisor
           /\ rx.delay = 0 /\ uart_read2(rx) = 0 => Crossing <= host.delay + 1
           /\ rx.delay = 0 /\ uart_read2(rx) = 1 => host.delay < Crossing
<1>1. busy(host) /\ Index = 1
    BY BitsAssumption DEF Fresh, busy, Index
<1>2. /\ rx.value \in 0 .. Filter /\ rx.delay \in Nat /\ host.delay \in Nat
      /\ host_divisor \in Nat /\ Filter \in Nat
    BY Registers, FilterAssumption DEF Linked
<1>3. host.delay + rx.delay <= Crossing
    BY DEF Linked, Receiving, Lockstep
<1>4. Crossing <= host_divisor
    <2>1. 3 <= Filter /\ Filter <= host_divisor + 1
        BY DEF Linked, Tolerates
    <2> QED
        BY <1>2, <2>1, Halves
<1>5. /\ rx.value + host.delay <= Filter \/ rx.value = 0
      /\ Filter <= rx.value + host.delay + 1
    <2>1. Frame(b, Index) = 0
        BY <1>1 DEF Frame
    <2> QED
        BY <1>1, <2>1 DEF Linked, Receiving, Settled
<1>6. uart_read2(rx) = 0 => Crossing <= host.delay + 1
    <2>1. uart_read2(rx) = 0 => 2 * rx.value <= Filter
        BY <1>2 DEF uart_read2
    <2> QED
        BY <1>2, <1>5, <2>1, Halves
<1>7. rx.delay = 0 /\ uart_read2(rx) = 1 => host.delay < Crossing
    <2>1. uart_read2(rx) = 1 => 2 * rx.value > Filter
        BY <1>2 DEF uart_read2
    <2> QED
        BY <1>2, <1>3, <1>5, <2>1, Halves
<1> QED
    BY <1>1, <1>3, <1>4, <1>6, <1>7

(* The host does not stop before the receiver has its last bit.            *)
LEMMA StillSending ==
    ASSUME NEW b \in Byte, Linked(b), rx.bits # 0
    PROVE  ~ (host.bits = 1 /\ host.delay = host_divisor)
<1> SUFFICES ASSUME host.bits = 1, host.delay = host_divisor
             PROVE  FALSE
    OBVIOUS
<1> DEFINE h == host_divisor
           stop == (Bits + 1) * (h + 1)
<1>1. h \in Nat \ {0} /\ 3 <= Filter /\ Filter <= h + 1 /\ rx.delay \in Nat /\ stop \in Int
    <2>1. h \in Nat \ {0} /\ rx.delay \in Nat
        BY Registers DEF Linked
    <2>2. stop \in Int
        BY <2>1, BitsAssumption
    <2> QED
        BY <2>1, <2>2 DEF Linked, Tolerates
<1>2. HostPos \in Int /\ RxPos \in Int /\ Middle(NextBit) = RxPos + rx.delay /\ HostPos = stop + h
    <2>1. Index - 1 = Bits + 1
        BY BitsAssumption DEF Index
    <2> QED
        BY <2>1, Positions DEF Linked
<1>3. HostPos <= RxPos + 1
    BY InStep
<1>4. Middle(NextBit) <= Middle(Bits + 1) /\ Middle(Bits + 1) \in Int
    <2>1. NextBit \in Int /\ Bits + 1 \in Int /\ NextBit <= Bits + 1
        BY Registers, BitsAssumption DEF NextBit, Linked
    <2> QED
        BY <2>1, MiddleOrder, Middles
<1>5. 2 * (Middle(Bits + 1) + 1) < 2 * stop + Filter
    <2>1. Bits + 1 \in 1 .. Bits + 1
        BY BitsAssumption
    <2> QED
        BY <2>1 DEF Linked, Tolerates
<1> HIDE DEF stop
<1>6. 2 * (stop + h) < 2 * stop + Filter
    BY <1>1, <1>2, <1>3, <1>4, <1>5, FilterAssumption
<1> QED
    BY <1>1, <1>6, FilterAssumption

-----------------------------------------------------------------------------
(* A cycle as both ends of the line see it while the monitor receives b.   *)
Ticks(b, starts, byte, line) ==
    /\ Linked(b)
    /\ RxCounts \/ RxSamples \/ RxStarts \/ RxRests
    /\ rx'.value = Average(rx.value, line)
    /\ rx'.saved = IF Saving THEN rx.data ELSE rx.saved
    /\ rx'.avail = (Saving \/ (rx.avail /\ ~ uart0_enable_r))
    /\ line = uart_write(host) \/ (line = 0 /\ rx.value = Filter /\ ~ busy(host))
    /\ host_divisor' = host_divisor
    /\ IF starts THEN HostLoads(byte) ELSE HostIdles \/ HostCounts \/ HostShifts

LEMMA HostMoves ==
    ASSUME IInv, host_divisor' = host_divisor, HostCounts \/ HostShifts
    PROVE  HostPos' = HostPos + 1
<1>1. Index \in 1 .. Bits + 3 /\ HostPos = (Index - 1) * (host_divisor + 1) + host.delay
    BY Positions
<1>2. host_divisor \in Nat \ {0} /\ host.delay \in 0 .. host_divisor /\ host.bits \in 0 .. Bits + 2
    BY Registers
<1>3. CASE HostCounts
    <2>1. Index' = Index /\ host'.delay = host.delay + 1
        BY <1>3 DEF HostCounts, Index
    <2>2. HostPos' = (Index - 1) * (host_divisor + 1) + (host.delay + 1)
        BY <2>1 DEF HostPos
    <2>3. (Index - 1) * (host_divisor + 1) \in Int
        BY <1>1, <1>2
    <2> QED
        BY <1>1, <1>2, <2>2, <2>3
<1>4. CASE HostShifts
    <2>1. Index' = Index + 1 /\ host'.delay = 0 /\ host.delay = host_divisor
        BY <1>2, <1>4, BitsAssumption DEF HostShifts, Index
    <2>2. HostPos' = (Index' - 1) * (host_divisor + 1) + 0
        BY <2>1 DEF HostPos
    <2>3. Index' - 1 = Index
        BY <1>1, <2>1
    <2>4. Index * (host_divisor + 1) = (Index - 1) * (host_divisor + 1) + host_divisor + 1
        BY <1>1, <1>2
    <2>5. (Index - 1) * (host_divisor + 1) \in Int
        BY <1>1, <1>2
    <2> QED
        BY <1>1, <1>2, <2>1, <2>2, <2>3, <2>4, <2>5
<1> QED
    BY <1>3, <1>4

LEMMA ReceiverMoves ==
    ASSUME IInv, uart0_divisor = Divisor, RxCounts \/ RxSamples
    PROVE  RxPos' = RxPos + 1
<1>1. NextBit \in 1 .. Bits + 2 /\ Middle(NextBit) \in Int /\ RxPos = Middle(NextBit) - rx.delay
    BY Positions, Middles DEF RxPos
<1>2. rx.delay \in 0 .. Divisor /\ rx.bits \in 0 .. Bits + 1 /\ Divisor \in Nat
    BY Registers, DivisorAssumption
<1>3. CASE RxCounts
    <2>1. NextBit' = NextBit /\ rx'.delay = rx.delay - 1
        BY <1>3 DEF RxCounts, NextBit
    <2>2. RxPos' = Middle(NextBit) - (rx.delay - 1)
        BY <2>1 DEF RxPos
    <2> QED
        BY <1>1, <1>2, <2>2
<1>4. CASE RxSamples
    <2>1. NextBit' = NextBit + 1 /\ rx'.delay = Divisor /\ rx.delay = 0
        BY <1>2, <1>4, BitsAssumption DEF RxSamples, NextBit
    <2>2. RxPos' = Middle(NextBit + 1) - Divisor
        BY <2>1 DEF RxPos
    <2>3. Middle(NextBit + 1) = Middle(NextBit) + Divisor + 1
        BY <1>1, Middles
    <2> QED
        BY <1>1, <1>2, <2>1, <2>2, <2>3
<1> QED
    BY <1>3, <1>4

(* The ends of the line keep in step: while it is idle, ...                *)
LEMMA IdleStep ==
    ASSUME NEW b \in Byte, NEW starts, NEW byte, NEW line, Ticks(b, starts, byte, line), ~ busy(host)
    PROVE  /\ rx'.bits = 0 /\ rx'.delay <= Crossing /\ rx'.delay # Divisor
           /\ starts => Fresh' /\ host'.delay = 0
           /\ ~ starts => host' = host
           /\ Lockstep'
<1>1. rx.bits = 0 /\ rx.delay \in 0 .. Divisor /\ rx.delay <= Crossing + 1 /\ uart_read2(rx) = 1
    BY IdleSeen, Registers DEF Ticks, Linked, Receiving, Lockstep
<1>2. rx'.bits = 0 /\ rx'.delay <= Crossing /\ rx'.delay # Divisor /\ rx'.delay \in Int
    BY <1>1, Halves, DivisorAssumption DEF Ticks, RxCounts, RxSamples, RxStarts, RxRests
<1>3. starts => Fresh' /\ host'.delay = 0 /\ host'.bits = Bits + 2
    BY <1>2 DEF Ticks, HostLoads, Fresh
<1>4. ~ starts => host' = host
    BY DEF Ticks, HostIdles, HostCounts, HostShifts
<1>5. Lockstep'
    <2>1. CASE starts
        BY <1>2, <1>3, <2>1, BitsAssumption, Halves DEF Lockstep, Fresh, busy
    <2>2. CASE ~ starts
        <3>1. ~ busy(host)' /\ ~ Fresh'
            BY <1>4, <2>2, BitsAssumption DEF Fresh, busy
        <3> QED
            BY <1>2, <3>1, Halves DEF Lockstep
    <2> QED
        BY <2>1, <2>2
<1> QED
    BY <1>2, <1>3, <1>4, <1>5

(* ... from the edge of the start bit to where it is seen, ...             *)
LEMMA FreshStep ==
    ASSUME NEW b \in Byte, NEW starts, NEW byte, NEW line, Ticks(b, starts, byte, line), Fresh
    PROVE  /\ ~ starts /\ (HostCounts \/ HostShifts)
           /\ rx.delay # Divisor
           /\ Fresh' \/ (rx'.bits # 0 /\ ~ Fresh')
           /\ Lockstep'
<1>1. /\ busy(host) /\ Index = 1
      /\ host.delay + rx.delay <= Crossing /\ Crossing <= host_divisor
      /\ rx.delay = 0 /\ uart_read2(rx) = 0 => Crossing <= host.delay + 1
      /\ rx.delay = 0 /\ uart_read2(rx) = 1 => host.delay < Crossing
    BY FreshSeen DEF Ticks
<1>2. ~ starts /\ (HostCounts \/ HostShifts) /\ host_divisor' = host_divisor
    BY <1>1 DEF Ticks, HostLoads, HostIdles
<1>3. /\ rx.delay \in 0 .. Divisor /\ host.delay \in 0 .. host_divisor /\ host_divisor \in Nat \ {0}
      /\ rx.bits = 0 /\ host.bits = Bits + 2 /\ uart0_divisor = Divisor
      /\ rx.delay # Divisor
    BY Registers DEF Ticks, Linked, Receiving, Lockstep, Fresh
<1>4. CASE RxCounts
    <2>1. rx'.bits = 0 /\ rx'.delay = rx.delay - 1 /\ rx.delay >= 1
        BY <1>3, <1>4 DEF RxCounts
    <2>2. HostCounts
        BY <1>1, <1>2, <1>3, <2>1, Halves DEF HostShifts
    <2>3. host'.bits = Bits + 2 /\ host'.delay = host.delay + 1
        BY <1>3, <2>2 DEF HostCounts
    <2>4. Fresh' /\ busy(host)'
        BY <1>3, <2>1, <2>3, BitsAssumption DEF Fresh, busy
    <2>5. host'.delay + rx'.delay <= Crossing /\ rx'.delay # Divisor
        BY <1>1, <1>3, <2>1, <2>3, DivisorAssumption, Halves
    <2>6. Lockstep'
        BY <2>4, <2>5 DEF Lockstep
    <2> QED
        BY <1>2, <1>3, <2>4, <2>6
<1>5. CASE RxRests
    <2>1. rx'.bits = 0 /\ rx'.delay = 0 /\ host.delay < Crossing
        BY <1>1, <1>5 DEF RxRests
    <2>2. HostCounts
        BY <1>1, <1>2, <1>3, <2>1, Halves DEF HostShifts
    <2>3. host'.bits = Bits + 2 /\ host'.delay = host.delay + 1
        BY <1>3, <2>2 DEF HostCounts
    <2>4. Fresh' /\ busy(host)'
        BY <1>3, <2>1, <2>3, BitsAssumption DEF Fresh, busy
    <2>5. host'.delay + rx'.delay <= Crossing /\ rx'.delay # Divisor
        BY <1>1, <1>3, <2>1, <2>3, DivisorAssumption, Halves
    <2>6. Lockstep'
        BY <2>4, <2>5 DEF Lockstep
    <2> QED
        BY <1>2, <1>3, <2>4, <2>6
<1>6. CASE RxStarts
    <2>1. rx'.bits = Bits + 1 /\ rx'.delay = half(Divisor) /\ rx.delay = 0 /\ Crossing <= host.delay + 1
        BY <1>1, <1>3, <1>6 DEF RxStarts
    <2>2. rx'.bits # 0 /\ ~ Fresh'
        BY <2>1, BitsAssumption DEF Fresh
    <2>3. busy(host)'
        BY <1>2, <1>3, BitsAssumption DEF busy, HostCounts, HostShifts
    <2>4. HostPos' = host.delay + 1
        <3>1. HostPos' = HostPos + 1 /\ HostPos = (Index - 1) * (host_divisor + 1) + host.delay
            BY <1>2, HostMoves, Positions DEF Ticks, Linked
        <3>2. (Index - 1) * (host_divisor + 1) = 0
            BY <1>1, <1>3
        <3> QED
            BY <1>3, <3>1, <3>2
    <2>5. RxPos' = Crossing
        <3>1. NextBit' = 1
            BY <2>1, BitsAssumption DEF NextBit
        <3>2. RxPos' = Middle(1) - half(Divisor)
            BY <2>1, <3>1 DEF RxPos
        <3>3. Middle(1) = half(Divisor) + Crossing
            <4>1. (1 - 1) * (Divisor + 1) = 0
                BY DivisorAssumption
            <4> QED
                BY <4>1, Halves DEF Middle
        <3> QED
            BY <3>2, <3>3, Halves
    <2>6. RxPos' <= HostPos' /\ HostPos' <= RxPos' + 1
        BY <1>1, <1>3, <2>1, <2>4, <2>5, Halves
    <2>7. Lockstep'
        BY <2>2, <2>3, <2>6 DEF Lockstep
    <2> QED
        BY <1>2, <1>3, <2>2, <2>7
<1>7. ~ RxSamples
    BY <1>3 DEF RxSamples
<1> QED
    BY <1>4, <1>5, <1>6, <1>7 DEF Ticks

(* ... through the byte, ...                                               *)
LEMMA MovingStep ==
    ASSUME NEW b \in Byte, NEW starts, NEW byte, NEW line, Ticks(b, starts, byte, line),
           busy(host), ~ Fresh, rx.bits # 0 \/ rx.delay # 0
    PROVE  /\ ~ starts /\ (HostCounts \/ HostShifts)
           /\ RxCounts \/ RxSamples
           /\ ~ Fresh' /\ (busy(host)' \/ rx'.delay # Divisor)
           /\ Lockstep'
<1>1. ~ starts /\ (HostCounts \/ HostShifts) /\ host_divisor' = host_divisor
    BY DEF Ticks, HostLoads, HostIdles
<1>2. RxCounts \/ RxSamples
    BY DEF Ticks, RxStarts, RxRests
<1>3. /\ rx.delay \in 0 .. Divisor /\ rx.bits \in 0 .. Bits + 1
      /\ host.delay \in 0 .. host_divisor /\ host.bits \in 1 .. Bits + 2
      /\ host_divisor \in Nat \ {0} /\ uart0_divisor = Divisor /\ IInv
    BY Registers, BitsAssumption DEF Ticks, Linked, Receiving, busy
<1>4. /\ HostPos' = HostPos + 1 /\ RxPos' = RxPos + 1 /\ HostPos \in Int /\ RxPos \in Int
      /\ RxPos <= HostPos /\ HostPos <= RxPos + 1
    BY <1>1, <1>2, <1>3, HostMoves, ReceiverMoves, Positions DEF Ticks, Linked, Receiving, Lockstep
<1>5. RxPos' <= HostPos' /\ HostPos' <= RxPos' + 1
    BY <1>4
<1>6. rx.bits = 0 => RxCounts
    BY <1>2 DEF RxSamples
<1>7. ~ Fresh'
    <2>1. CASE RxCounts
        <3>1. rx'.bits = rx.bits /\ (host'.bits = Bits + 2 => host.bits = Bits + 2)
            BY <1>1, <1>3, <2>1, BitsAssumption DEF RxCounts, HostCounts, HostShifts
        <3> QED
            BY <3>1 DEF Fresh
    <2>2. CASE RxSamples /\ rx.bits = 1
        <3>1. Index = NextBit \/ Index = NextBit + 1
            BY <2>2, Sampling DEF Ticks, RxSamples
        <3>2. NextBit = Bits + 1
            BY <2>2, BitsAssumption DEF NextBit
        <3>3. host.bits < Bits + 2
            BY <1>3, <3>1, <3>2, BitsAssumption DEF Index
        <3>4. host'.bits < Bits + 2
            BY <1>1, <1>3, <3>3, BitsAssumption DEF HostCounts, HostShifts
        <3> QED
            BY <3>4, BitsAssumption DEF Fresh
    <2>3. CASE RxSamples /\ rx.bits # 1
        BY <1>3, <2>3, BitsAssumption DEF Fresh, RxSamples
    <2> QED
        BY <1>2, <2>1, <2>2, <2>3
<1>8. CASE busy(host)'
    BY <1>1, <1>2, <1>5, <1>7, <1>8 DEF Lockstep
<1>9. CASE ~ busy(host)'
    <2>1. host.bits = 1 /\ host.delay = host_divisor
        BY <1>1, <1>3, <1>9 DEF HostCounts, HostShifts, busy
    <2>2. rx.bits = 0
        BY <2>1, StillSending DEF Ticks
    <2>3. RxCounts /\ rx'.bits = 0 /\ rx'.delay = rx.delay - 1 /\ rx.delay >= 1
        BY <1>3, <1>6, <2>2 DEF RxCounts
    <2>4. rx.delay <= Crossing + 2
        <3> DEFINE next == (Bits + 2) * (host_divisor + 1)
        <3>1. Index = Bits + 2 /\ NextBit = Bits + 2
            BY <2>1, <2>2, BitsAssumption DEF Index, NextBit
        <3>2. HostPos = next - 1 /\ next \in Int
            <4>1. HostPos = (Index - 1) * (host_divisor + 1) + host_divisor
                BY <1>3, <2>1, Positions
            <4>2. Index - 1 = Bits + 1
                BY <3>1, BitsAssumption
            <4>3. next = (Bits + 1) * (host_divisor + 1) + (host_divisor + 1)
                BY <1>3, BitsAssumption
            <4>4. (Bits + 1) * (host_divisor + 1) \in Int /\ next \in Int
                BY <1>3, BitsAssumption
            <4> HIDE DEF next
            <4> QED
                BY <1>3, <4>1, <4>2, <4>3, <4>4
        <3>3. Middle(Bits + 2) = RxPos + rx.delay
            BY <1>3, <3>1, Positions
        <3>4. Middle(Bits + 2) <= next + Crossing
            BY DEF Ticks, Linked, Tolerates
        <3> HIDE DEF next
        <3> QED
            BY <1>3, <1>4, <3>2, <3>3, <3>4, Halves
    <2>5. rx'.delay <= Crossing + 1 /\ rx'.delay # Divisor
        BY <1>3, <2>3, <2>4, Halves, DivisorAssumption
    <2>6. Lockstep'
        BY <1>7, <1>9, <2>3, <2>5 DEF Lockstep
    <2> QED
        BY <1>1, <1>2, <1>7, <2>5, <2>6
<1> QED
    BY <1>1, <1>2, <1>7, <1>8, <1>9

(* ... and through what is left of its stop bit.                           *)
LEMMA StopStep ==
    ASSUME NEW b \in Byte, NEW starts, NEW byte, NEW line, Ticks(b, starts, byte, line),
           busy(host), ~ Fresh, rx.bits = 0, rx.delay = 0
    PROVE  /\ ~ starts /\ (HostCounts \/ HostShifts)
           /\ rx'.bits = 0 /\ rx'.delay = 0 /\ ~ Fresh'
           /\ Lockstep'
<1>1. ~ starts /\ (HostCounts \/ HostShifts) /\ host_divisor' = host_divisor
    BY DEF Ticks, HostLoads, HostIdles
<1>2. Index = Bits + 2 /\ uart_read2(rx) = 1
    BY StopSeen DEF Ticks
<1>3. host.bits = 1
    <2>1. host.bits \in 0 .. Bits + 2
        BY Registers DEF Ticks, Linked
    <2> QED
        BY <1>2, <2>1, BitsAssumption DEF Index
<1>4. rx'.bits = 0 /\ rx'.delay = 0
    BY <1>2 DEF Ticks, RxCounts, RxSamples, RxStarts, RxRests
<1>5. ~ Fresh'
    BY <1>1, <1>3, BitsAssumption DEF Fresh, HostCounts, HostShifts
<1>6. RxPos' <= HostPos'
    <2>1. HostPos' = HostPos + 1 /\ HostPos \in Int /\ RxPos \in Int /\ RxPos <= HostPos
        BY <1>1, HostMoves, Positions DEF Ticks, Linked, Receiving, Lockstep
    <2>2. NextBit' = NextBit
        BY <1>4 DEF NextBit
    <2>3. RxPos' = RxPos
        BY <1>4, <2>2 DEF RxPos
    <2> QED
        BY <2>1, <2>3
<1>7. Lockstep'
    BY <1>4, <1>5, <1>6, Halves, DivisorAssumption DEF Lockstep
<1> QED
    BY <1>1, <1>4, <1>5, <1>7

LEMMA LockstepStep ==
    ASSUME NEW b \in Byte, NEW starts, NEW byte, NEW line, Ticks(b, starts, byte, line)
    PROVE  Lockstep'
BY IdleStep, FreshStep, MovingStep, StopStep

(* The element a register shifted by a bit, or loaded, has at a place.     *)
LEMMA ShiftedAt ==
    ASSUME NEW n \in Nat \ {0}, NEW data \in [1 .. n -> {0, 1}], NEW bit, NEW x \in 1 .. n
    PROVE  Append(Tail(data), bit)[x] = IF x = n THEN bit ELSE data[x + 1]
OBVIOUS

LEMMA LoadedAt ==
    ASSUME NEW byte \in Byte, NEW x \in 1 .. Bits + 1
    PROVE  (<<0>> \o byte)[x] = Frame(byte, x)
<1>1. <<0>> \in Seq({0, 1}) /\ Len(<<0>>) = 1 /\ <<0>>[1] = 0
    OBVIOUS
<1>2. byte \in Seq({0, 1}) /\ Len(byte) = Bits
    BY Bounded, BitsAssumption DEF Byte
<1>3. ASSUME NEW start \in Seq({0, 1}), Len(start) = 1
      PROVE  (start \o byte)[x] = IF x <= 1 THEN start[x] ELSE byte[x - 1]
    <2>1. x \in 1 .. Len(start) + Len(byte)
        BY <1>2, <1>3, BitsAssumption
    <2>2. (start \o byte)[x] = IF x <= Len(start) THEN start[x] ELSE byte[x - Len(start)]
        BY <1>2, <2>1, ConcatProperties
    <2> QED
        BY <1>3, <2>2
<1>4. (<<0>> \o byte)[x] = IF x <= 1 THEN <<0>>[x] ELSE byte[x - 1]
    BY <1>1, <1>3
<1>5. CASE x = 1
    BY <1>1, <1>4, <1>5 DEF Frame
<1>6. CASE x # 1
    <2>1. ~ x <= 1 /\ x <= Bits + 1
        BY <1>6, BitsAssumption
    <2> QED
        BY <1>4, <2>1 DEF Frame
<1> QED
    BY <1>5, <1>6

(* The transmitter of the host shifts the frame out ...                    *)
LEMMA SendsStep ==
    ASSUME NEW b \in Byte, NEW starts, NEW byte \in Byte, NEW line, Ticks(b, starts, byte, line)
    PROVE  IF starts THEN Sends(byte)' ELSE Sends(b)'
<1>1. /\ host.bits \in 0 .. Bits + 2 /\ host.data \in [1 .. Bits + 1 -> {0, 1}] /\ Sends(b)
    BY Registers DEF Ticks, Linked, Receiving
<1>2. CASE starts
    <2>1. host'.bits = Bits + 2 /\ host'.data = <<0>> \o byte
        BY <1>2 DEF Ticks, HostLoads
    <2>2. Index' = 1 /\ busy(host)'
        BY <2>1, BitsAssumption DEF Index, busy
    <2>3. ASSUME NEW x \in 1 .. Bits + 1
          PROVE  host'.data[x] = Frame(byte, x + Index' - 1)
        <3>1. x + Index' - 1 = x
            BY <2>2, BitsAssumption
        <3>2. host'.data[x] = Frame(byte, x)
            BY <2>1, LoadedAt
        <3> QED
            BY <3>1, <3>2
    <2> QED
        BY <1>2, <2>2, <2>3 DEF Sends
<1>3. CASE ~ starts /\ HostIdles
    BY <1>1, <1>3 DEF HostIdles, Sends, busy
<1>4. CASE ~ starts /\ HostCounts
    <2>1. host'.data = host.data /\ Index' = Index /\ busy(host) /\ busy(host)'
        BY <1>4 DEF HostCounts, Index, busy
    <2> QED
        BY <1>1, <1>4, <2>1 DEF Sends
<1>5. CASE ~ starts /\ HostShifts
    <2>1. /\ busy(host) /\ host.bits \in 1 .. Bits + 2 /\ host'.bits = host.bits - 1
          /\ host'.data = Append(Tail(host.data), 1)
        BY <1>1, <1>5, BitsAssumption DEF HostShifts, busy
    <2>2. Index' = Index + 1 /\ Index \in 1 .. Bits + 2
        BY <2>1, BitsAssumption DEF Index
    <2>3. ASSUME NEW x \in 1 .. Bits + 1
          PROVE  host'.data[x] = Frame(b, x + Index)
        <3>1. host'.data[x] = IF x = Bits + 1 THEN 1 ELSE host.data[x + 1]
            BY <1>1, <2>1, ShiftedAt, BitsAssumption
        <3>2. CASE x = Bits + 1
            <4>1. ~ x + Index <= Bits + 1 /\ ~ x + Index <= 1
                BY <2>2, <3>2, BitsAssumption
            <4> QED
                BY <3>1, <3>2, <4>1 DEF Frame
        <3>3. CASE x # Bits + 1
            <4>1. x + 1 \in 1 .. Bits + 1 /\ (x + 1) + Index - 1 = x + Index
                BY <2>2, <3>3, BitsAssumption
            <4>2. host.data[x + 1] = Frame(b, (x + 1) + Index - 1)
                BY <1>1, <2>1, <4>1 DEF Sends
            <4> QED
                BY <3>1, <3>3, <4>1, <4>2
        <3> QED
            BY <3>2, <3>3
    <2>4. \A x \in 1 .. Bits + 1 : host'.data[x] = Frame(b, x + Index' - 1)
        <3>1. \A x \in 1 .. Bits + 1 : x + Index' - 1 = x + Index
            BY <2>2, BitsAssumption
        <3> QED
            BY <2>3, <3>1
    <2>5. ~ busy(host)' => host'.data[1] = 1
        <3>1. ~ busy(host)' => 1 + Index = Bits + 3
            BY <2>1, BitsAssumption DEF busy, Index
        <3>2. Frame(b, Bits + 3) = 1
            BY BitsAssumption DEF Frame
        <3> QED
            BY <2>3, <3>1, <3>2, BitsAssumption
    <2> QED
        BY <1>5, <2>4, <2>5 DEF Sends
<1> QED
    BY <1>2, <1>3, <1>4, <1>5 DEF Ticks

(* ... and the average follows the line within a bit of it.                *)
LEMMA SettledStep ==
    ASSUME NEW b \in Byte, NEW starts, NEW byte \in Byte, NEW line, Ticks(b, starts, byte, line)
    PROVE  IF starts THEN Settled(byte)' ELSE Settled(b)'
<1>1. /\ rx.value \in 0 .. Filter /\ host.delay \in 0 .. host_divisor /\ host.bits \in 0 .. Bits + 2
      /\ host_divisor \in Nat \ {0} /\ Filter \in Nat \ {0}
      /\ 3 <= Filter /\ Filter <= host_divisor + 1 /\ Sends(b) /\ Settled(b)
    BY Registers, FilterAssumption DEF Ticks, Linked, Tolerates, Receiving
<1>2. /\ rx'.value = Average(rx.value, line)
      /\ line = host.data[1] \/ (line = 0 /\ rx.value = Filter /\ ~ busy(host))
    BY DEF Ticks, uart_write
<1>3. CASE ~ busy(host)
    <2>1. host.data[1] = 1 /\ Filter - 1 <= rx.value
        BY <1>1, <1>3 DEF Sends, Settled
    <2>2. Filter - 1 <= rx'.value /\ rx'.value \in 0 .. Filter
        BY <1>1, <1>2, <2>1 DEF Average
    <2>3. CASE starts
        <3>1. host'.bits = Bits + 2 /\ host'.delay = 0
            BY <2>3 DEF Ticks, HostLoads
        <3>2. Index' = 1 /\ busy(host)'
            BY <3>1, BitsAssumption DEF Index, busy
        <3>3. Frame(byte, Index') = 0
            BY <3>2 DEF Frame
        <3>4. Settled(byte)'
            BY <1>1, <2>2, <3>1, <3>2, <3>3 DEF Settled
        <3> QED
            BY <2>3, <3>4
    <2>4. CASE ~ starts
        <3>1. host' = host
            BY <1>3, <2>4 DEF Ticks, HostIdles, HostCounts, HostShifts
        <3> QED
            BY <1>3, <2>2, <2>4, <3>1 DEF Settled, busy
    <2> QED
        BY <2>3, <2>4
<1>4. CASE busy(host)
    <2>1. ~ starts /\ (HostCounts \/ HostShifts) /\ Index \in 1 .. Bits + 2 /\ line = host.data[1]
        <3>1. host.bits \in 1 .. Bits + 2
            BY <1>1, <1>4, BitsAssumption DEF busy
        <3>2. Index \in 1 .. Bits + 2
            BY <3>1, BitsAssumption DEF Index
        <3> QED
            BY <1>2, <1>4, <3>2 DEF Ticks, HostLoads, HostIdles
    <2>2. /\ Frame(b, Index) = 1 => host.delay <= rx.value \/ rx.value = Filter
          /\ Frame(b, Index) = 0 => rx.value + host.delay <= Filter \/ rx.value = 0
          /\ Index = 1 => Filter <= rx.value + host.delay + 1
          /\ Index > 1 /\ Frame(b, Index - 1) = 1 => Filter <= rx.value + host.delay
          /\ Index > 1 /\ Frame(b, Index - 1) = 0 => rx.value <= host.delay
        BY <1>1, <1>4 DEF Settled
    <2>3. line = Frame(b, Index) /\ line \in {0, 1}
        <3>1. 1 \in 1 .. Bits + 1 /\ 1 + Index - 1 = Index /\ Index \in Int
            BY <2>1, BitsAssumption
        <3>2. host.data[1] = Frame(b, 1 + Index - 1)
            BY <1>1, <1>4, <3>1 DEF Sends
        <3> QED
            BY <2>1, <3>1, <3>2, FrameBit
    <2>4. CASE HostCounts
        <3>1. host'.bits = host.bits /\ host'.delay = host.delay + 1
            BY <2>4 DEF HostCounts
        <3>2. Index' = Index /\ busy(host)'
            BY <1>4, <3>1 DEF Index, busy
        <3>3. /\ line = 1 => host'.delay <= rx'.value \/ rx'.value = Filter
              /\ line = 0 => rx'.value + host'.delay <= Filter \/ rx'.value = 0
              /\ rx'.value \in 0 .. Filter /\ rx'.value <= rx.value + 1 /\ rx.value <= rx'.value + 1
            BY <1>1, <1>2, <2>2, <2>3, <3>1 DEF Average
        <3>4. /\ Index = 1 => Filter <= rx'.value + host'.delay + 1
              /\ Index > 1 /\ Frame(b, Index - 1) = 1 => Filter <= rx'.value + host'.delay
              /\ Index > 1 /\ Frame(b, Index - 1) = 0 => rx'.value <= host'.delay
            BY <1>1, <2>2, <3>1, <3>3
        <3>5. Settled(b)'
            BY <2>3, <3>2, <3>3, <3>4 DEF Settled
        <3> QED
            BY <2>1, <3>5
    <2>5. CASE HostShifts
        <3>1. host'.bits = host.bits - 1 /\ host'.delay = 0 /\ host.delay = host_divisor
            BY <2>5 DEF HostShifts
        <3>2. Index' > 1 /\ Index' - 1 = Index
            BY <1>1, <2>1, <3>1, BitsAssumption DEF Index
        <3>3. /\ line = 1 => rx'.value = Filter
              /\ line = 0 => rx'.value = 0
            BY <1>1, <1>2, <2>2, <2>3, <3>1 DEF Average
        <3>4. CASE busy(host)'
            <4>1. Frame(b, Index' - 1) = line /\ ~ Index' = 1
                BY <2>1, <2>3, <3>2, BitsAssumption
            <4>2. /\ Frame(b, Index') = 1 => host'.delay <= rx'.value \/ rx'.value = Filter
                  /\ Frame(b, Index') = 0 => rx'.value + host'.delay <= Filter \/ rx'.value = 0
                  /\ line = 1 => Filter <= rx'.value + host'.delay
                  /\ line = 0 => rx'.value <= host'.delay
                BY <1>1, <2>3, <3>1, <3>3
            <4>3. Settled(b)'
                BY <3>4, <4>1, <4>2 DEF Settled
            <4> QED
                BY <2>1, <4>3
        <3>5. CASE ~ busy(host)'
            <4>1. Index = Bits + 2
                BY <1>1, <3>1, <3>5, BitsAssumption DEF busy, Index
            <4>2. Frame(b, Bits + 2) = 1
                BY BitsAssumption DEF Frame
            <4>3. rx'.value = Filter
                BY <2>3, <3>3, <4>1, <4>2
            <4>4. Settled(b)'
                BY <1>1, <3>5, <4>3 DEF Settled
            <4> QED
                BY <2>1, <4>4
        <3> QED
            BY <3>4, <3>5
    <2> QED
        BY <2>1, <2>4, <2>5
<1> QED
    BY <1>3, <1>4

(* A byte is in flight from its start to the cycle in which it is saved.   *)
LEMMA FlightStep ==
    ASSUME NEW b \in Byte, NEW starts, NEW byte, NEW line, Ticks(b, starts, byte, line)
    PROVE  /\ Saving => RxCounts /\ ~ starts /\ ~ InFlight'
           /\ ~ Saving => (InFlight' <=> InFlight \/ starts)
           /\ starts => ~ InFlight /\ rx'.bits = 0 /\ ~ Saving'
<1>1. /\ rx.bits \in 0 .. Bits + 1 /\ rx.delay \in 0 .. Divisor /\ Divisor \in Nat \ {0}
      /\ uart0_divisor = Divisor /\ Lockstep
    BY Registers, DivisorAssumption DEF Ticks, Linked, Receiving
<1>2. CASE ~ busy(host)
    <2>1. ~ InFlight /\ ~ Saving
        BY <1>1, <1>2, BitsAssumption DEF Lockstep, InFlight, Saving, Fresh, busy
    <2>2. /\ rx'.bits = 0 /\ rx'.delay # Divisor
          /\ starts => Fresh'
          /\ ~ starts => host' = host
        BY <1>2, IdleStep
    <2>3. ~ Saving'
        BY <2>2 DEF Saving
    <2>4. starts => InFlight'
        BY <2>2 DEF InFlight
    <2>5. ~ starts => ~ InFlight'
        BY <1>2, <2>2, <2>3, BitsAssumption DEF InFlight, Fresh, busy
    <2> QED
        BY <2>1, <2>2, <2>3, <2>4, <2>5
<1>3. CASE Fresh
    <2>1. ~ starts /\ rx.delay # Divisor /\ (Fresh' \/ rx'.bits # 0)
        BY <1>3, FreshStep
    <2>2. ~ Saving /\ InFlight /\ InFlight'
        BY <1>3, <2>1 DEF InFlight, Saving
    <2> QED
        BY <2>1, <2>2
<1>4. CASE busy(host) /\ ~ Fresh /\ (rx.bits # 0 \/ rx.delay # 0)
    <2>1. ~ starts /\ (RxCounts \/ RxSamples) /\ ~ Fresh'
        BY <1>4, MovingStep
    <2>2. CASE rx.bits # 0
        <3>1. ~ Saving /\ InFlight
            BY <2>2 DEF Saving, InFlight
        <3>2. rx'.bits # 0 \/ (rx'.bits = 0 /\ rx'.delay = Divisor)
            BY <1>1, <2>1, <2>2 DEF RxCounts, RxSamples
        <3>3. InFlight'
            BY <3>2 DEF InFlight, Saving
        <3> QED
            BY <2>1, <3>1, <3>3
    <2>3. CASE rx.bits = 0
        <3>1. RxCounts /\ rx'.bits = 0 /\ rx'.delay = rx.delay - 1
            BY <2>1, <2>3 DEF RxCounts, RxSamples
        <3>2. ~ InFlight'
            BY <1>1, <2>1, <3>1 DEF InFlight, Saving
        <3>3. ~ Saving => ~ InFlight
            BY <1>4, <2>3 DEF InFlight
        <3> QED
            BY <2>1, <3>1, <3>2, <3>3
    <2> QED
        BY <2>2, <2>3
<1>5. CASE busy(host) /\ ~ Fresh /\ rx.bits = 0 /\ rx.delay = 0
    <2>1. ~ starts /\ rx'.bits = 0 /\ rx'.delay = 0 /\ ~ Fresh'
        BY <1>5, StopStep
    <2>2. ~ InFlight' /\ ~ InFlight /\ ~ Saving
        BY <1>1, <1>5, <2>1 DEF InFlight, Saving
    <2> QED
        BY <2>1, <2>2
<1> QED
    BY <1>2, <1>3, <1>4, <1>5

(* The receiver takes the bits in their order ...                          *)
LEMMA TakenStep ==
    ASSUME NEW b \in Byte, NEW starts, NEW byte, NEW line, Ticks(b, starts, byte, line)
    PROVE  IF starts THEN Taken(byte)' ELSE Taken(b)'
<1>1. /\ rx.bits \in 0 .. Bits + 1 /\ rx.delay \in 0 .. Divisor /\ Divisor \in Nat \ {0}
      /\ rx.data \in [1 .. Bits -> {0, 1}] /\ uart0_divisor = Divisor /\ Taken(b)
    BY Registers, DivisorAssumption DEF Ticks, Linked, Receiving, Byte
<1>2. CASE starts
    <2>1. rx'.bits = 0 /\ ~ Saving'
        BY <1>2, FlightStep
    <2> QED
        BY <1>2, <2>1 DEF Taken
<1>3. CASE ~ starts /\ RxCounts
    <2>1. rx'.bits = rx.bits /\ rx'.delay = rx.delay - 1 /\ rx'.data = rx.data
        BY <1>3 DEF RxCounts
    <2>2. ~ Saving'
        BY <1>1, <2>1 DEF Saving
    <2> QED
        BY <1>1, <1>3, <2>1, <2>2 DEF Taken
<1>4. CASE ~ starts /\ RxSamples
    <2>1. /\ rx.bits \in 1 .. Bits + 1 /\ rx'.bits = rx.bits - 1
          /\ rx'.data = Append(Tail(rx.data), uart_read2(rx))
          /\ uart_read2(rx) = Frame(b, NextBit)
        BY <1>1, <1>4, Sampling DEF RxSamples, Ticks
    <2>2. ASSUME NEW x \in 1 .. Bits, rx'.bits <= x
          PROVE  rx'.data[x] = Frame(b, x - rx'.bits + 1)
        <3>1. rx'.data[x] = IF x = Bits THEN uart_read2(rx) ELSE rx.data[x + 1]
            BY <1>1, <2>1, ShiftedAt, BitsAssumption
        <3>2. CASE x = Bits
            <4>1. NextBit = x - rx'.bits + 1
                BY <2>1, <3>2, BitsAssumption DEF NextBit
            <4> QED
                BY <2>1, <3>1, <3>2, <4>1
        <3>3. CASE x # Bits
            <4>1. x + 1 \in 1 .. Bits /\ rx.bits <= x + 1 /\ rx.bits # 0
                BY <2>1, <2>2, <3>3, BitsAssumption
            <4>2. rx.data[x + 1] = Frame(b, (x + 1) - rx.bits + 1)
                BY <1>1, <4>1 DEF Taken
            <4>3. (x + 1) - rx.bits + 1 = x - rx'.bits + 1
                BY <2>1, <2>2, BitsAssumption
            <4> QED
                BY <3>1, <3>3, <4>2, <4>3
        <3> QED
            BY <3>2, <3>3
    <2> QED
        BY <1>4, <2>2 DEF Taken
<1>5. CASE ~ starts /\ RxStarts
    <2>1. rx'.bits = Bits + 1
        BY <1>5 DEF RxStarts
    <2>2. \A x \in 1 .. Bits : ~ rx'.bits <= x
        BY <2>1, BitsAssumption
    <2> QED
        BY <1>5, <2>2 DEF Taken
<1>6. CASE ~ starts /\ RxRests
    BY <1>1, <1>6 DEF RxRests, Taken, Saving
<1> QED
    BY <1>2, <1>3, <1>4, <1>5, <1>6 DEF Ticks

(* ... and has all of them when it saves the byte.                         *)
LEMMA SavedByte ==
    ASSUME NEW b \in Byte, Linked(b), Saving
    PROVE  rx.data = b
<1>1. rx.data \in [1 .. Bits -> {0, 1}] /\ b \in [1 .. Bits -> {0, 1}] /\ rx.bits = 0 /\ Taken(b)
    BY Registers DEF Linked, Byte, Saving, Receiving
<1>2. ASSUME NEW x \in 1 .. Bits
      PROVE  rx.data[x] = b[x]
    <2>1. rx.data[x] = Frame(b, x - rx.bits + 1)
        BY <1>1, BitsAssumption DEF Taken
    <2>2. x - rx.bits + 1 = x + 1 /\ ~ x + 1 <= 1 /\ x + 1 <= Bits + 1 /\ (x + 1) - 1 = x
        BY <1>1, BitsAssumption
    <2> QED
        BY <2>1, <2>2 DEF Frame
<1>3. rx.data = [x \in 1 .. Bits |-> rx.data[x]] /\ b = [x \in 1 .. Bits |-> b[x]]
    BY <1>1
<1>4. [x \in 1 .. Bits |-> rx.data[x]] = [x \in 1 .. Bits |-> b[x]]
    BY <1>2, Zenon
<1> QED
    BY <1>3, <1>4

(* The cycles to the next byte saved grow less by one a cycle at most.     *)
LEMMA SaveInType ==
    ASSUME IInv
    PROVE  SaveIn \in Nat /\ (Saving => SaveIn = 0)
<1>1. rx.bits \in 0 .. Bits + 1 /\ rx.delay \in 0 .. Divisor /\ half(Divisor) \in Nat /\ Divisor \in Nat
    BY Registers, Halves, DivisorAssumption
<1>2. rx.bits # 0 => (rx.bits - 1) * (Divisor + 1) \in Nat
    BY <1>1, BitsAssumption
<1>3. Bits * (Divisor + 1) \in Nat
    BY <1>1, BitsAssumption
<1> QED
    BY <1>1, <1>2, <1>3 DEF SaveIn, Saving

LEMMA SaveStep ==
    ASSUME NEW b, NEW starts, NEW byte, NEW line, Ticks(b, starts, byte, line)
    PROVE  /\ SaveIn' \in Nat
           /\ Saving /\ RxCounts => SaveIn' = Frames(Bits + 1)
           /\ ~ Saving => SaveIn <= SaveIn' + 1
<1>1. /\ rx.bits \in 0 .. Bits + 1 /\ rx.delay \in 0 .. Divisor /\ Divisor \in Nat \ {0}
      /\ half(Divisor) \in Nat /\ uart0_divisor = Divisor /\ Bits \in Nat \ {0}
    BY Registers, DivisorAssumption, Halves, BitsAssumption DEF Ticks, Linked, Receiving
<1>2. Bits * (Divisor + 1) \in Nat /\ (Bits + 1) * (Divisor + 1) = Bits * (Divisor + 1) + Divisor + 1
    BY <1>1
<1>3. rx.bits # 0 => (rx.bits - 1) * (Divisor + 1) \in Nat
    BY <1>1
<1>4. CASE RxCounts /\ rx.bits # 0
    <2>1. rx'.bits = rx.bits /\ rx'.delay = rx.delay - 1 /\ rx.delay >= 1
        BY <1>1, <1>4 DEF RxCounts
    <2>2. SaveIn = rx.delay + 1 + (rx.bits - 1) * (Divisor + 1) /\ ~ Saving
        BY <1>4 DEF SaveIn, Saving
    <2>3. SaveIn' = rx.delay - 1 + 1 + (rx.bits - 1) * (Divisor + 1)
        BY <1>4, <2>1 DEF SaveIn
    <2> QED
        BY <1>1, <1>3, <1>4, <2>1, <2>2, <2>3
<1>5. CASE RxCounts /\ rx.bits = 0
    <2>1. rx'.bits = 0 /\ rx'.delay = rx.delay - 1 /\ rx.delay >= 1
        BY <1>1, <1>5 DEF RxCounts
    <2>2. SaveIn = IF Saving THEN 0 ELSE rx.delay + 2 + half(Divisor) + Bits * (Divisor + 1)
        BY <1>5 DEF SaveIn
    <2>3. ~ Saving'
        BY <1>1, <2>1 DEF Saving
    <2>4. SaveIn' = rx.delay - 1 + 2 + half(Divisor) + Bits * (Divisor + 1)
        BY <2>1, <2>3 DEF SaveIn
    <2>5. Saving => SaveIn' = Frames(Bits + 1)
        BY <1>1, <1>2, <2>4 DEF Saving, Frames
    <2> QED
        BY <1>1, <1>2, <2>1, <2>2, <2>4, <2>5
<1>6. CASE RxSamples
    <2>1. rx.delay = 0 /\ rx.bits # 0 /\ rx'.bits = rx.bits - 1 /\ rx'.delay = Divisor
        BY <1>1, <1>6 DEF RxSamples
    <2>2. SaveIn = 0 + 1 + (rx.bits - 1) * (Divisor + 1) /\ ~ Saving
        BY <2>1 DEF SaveIn, Saving
    <2>3. CASE rx.bits = 1
        <3>1. SaveIn' = 0
            BY <1>1, <2>1, <2>3 DEF SaveIn, Saving
        <3>2. (rx.bits - 1) * (Divisor + 1) = 0
            BY <1>1, <2>3
        <3> QED
            BY <2>2, <3>1, <3>2
    <2>4. CASE rx.bits # 1
        <3>1. SaveIn' = Divisor + 1 + (rx'.bits - 1) * (Divisor + 1)
            BY <1>1, <2>1, <2>4 DEF SaveIn
        <3>2. (rx.bits - 1) * (Divisor + 1) = (rx.bits - 2) * (Divisor + 1) + Divisor + 1
            BY <1>1
        <3>3. rx'.bits - 1 = rx.bits - 2 /\ (rx.bits - 2) * (Divisor + 1) \in Nat
            BY <1>1, <2>1, <2>4
        <3> QED
            BY <1>1, <2>2, <3>1, <3>2, <3>3
    <2> QED
        BY <2>3, <2>4
<1>7. CASE RxStarts
    <2>1. rx.delay = 0 /\ rx.bits = 0 /\ rx'.bits = Bits + 1 /\ rx'.delay = half(Divisor) /\ ~ Saving
        BY <1>1, <1>7 DEF RxStarts, Saving
    <2>2. SaveIn = 0 + 2 + half(Divisor) + Bits * (Divisor + 1)
        BY <2>1 DEF SaveIn
    <2>3. SaveIn' = half(Divisor) + 1 + (rx'.bits - 1) * (Divisor + 1)
        BY <1>1, <2>1 DEF SaveIn
    <2>4. rx'.bits - 1 = Bits
        BY <1>1, <2>1
    <2> QED
        BY <1>1, <1>2, <2>1, <2>2, <2>3, <2>4
<1>8. CASE RxRests
    <2>1. SaveIn' = SaveIn /\ ~ Saving
        BY <1>1, <1>8 DEF RxRests, SaveIn, Saving
    <2>2. SaveIn \in Nat
        BY SaveInType DEF Ticks, Linked
    <2> QED
        BY <2>1, <2>2
<1> QED
    BY <1>4, <1>5, <1>6, <1>7, <1>8 DEF Ticks

-----------------------------------------------------------------------------
(* A cycle of the software as well.                                        *)
Serves(b, access, starts, byte, line) ==
    /\ Ticks(b, starts, byte, line)
    /\ at # "done" /\ prompted'
    /\ EnableRead(access) /\ EnableWrite(access) /\ Software(access)
    /\ tx' = TxNext(tx, uart0_divisor, uart0_enable_w, uart0_data_write)
    /\ History(access /\ at \in Reads, IF starts THEN <<byte>> ELSE <<>>)

(* An access counts for Latency + 1 cycles, and five of them leave a bit   *)
(* of the time a byte takes.                                               *)
LEMMA Dues ==
    ASSUME NEW n \in 1 .. 5, NEW t \in 0 .. Latency
    PROVE  /\ Due(n, t) \in Int /\ Divisor + 1 - half(Divisor) < Due(n, t)
           /\ Due(n, t + 1) + 1 <= Due(n, t)
           /\ \A m \in 1 .. 5 : m < n => Due(m, 0) + 1 <= Due(n, t)
           /\ InTime => Due(n, t) <= Frames(Bits + 1)
<1> DEFINE one == Latency + 1
<1>1. one \in Nat /\ t < one /\ half(Divisor) \in Nat /\ Divisor \in Nat
    BY UploadAssumption, DivisorAssumption, Halves
<1>2. n * one \in Nat /\ one <= n * one /\ n * one <= 5 * one
    BY <1>1
<1>3. /\ Due(n, t) = n * one - t + Divisor + 1 - half(Divisor)
      /\ Due(n, t + 1) = n * one - (t + 1) + Divisor + 1 - half(Divisor)
    BY DEF Due
<1>4. (Bits + 1) * (Divisor + 1) \in Nat
    BY <1>1, BitsAssumption
<1>5. InTime => 5 * one + Divisor + 1 <= (Bits + 1) * (Divisor + 1) + 2 * half(Divisor)
    BY DEF InTime
<1>6. ASSUME NEW m \in 1 .. 5, m < n
      PROVE  Due(m, 0) + 1 <= Due(n, t)
    <2>1. Due(m, 0) = m * one - 0 + Divisor + 1 - half(Divisor)
        BY DEF Due
    <2>2. m * one \in Nat /\ m * one + one <= n * one
        BY <1>1, <1>6
    <2> HIDE DEF one
    <2> QED
        BY <1>1, <1>2, <1>3, <2>1, <2>2
<1> HIDE DEF one
<1> QED
    BY <1>1, <1>2, <1>3, <1>4, <1>5, <1>6 DEF Frames

LEMMA Works ==
    /\ Work \in 1 .. 5
    /\ at = "poll" => Work = 5
    /\ at = "getchar" => Work = 4
    /\ at = "read" => Work = 3
    /\ at \in {"hash_busy", "first"} => Work = 2
    /\ at \in {"first_read", "hash"} => Work = 1
BY DEF Work

(* No byte is saved while the software serves the last one.                *)
LEMMA ServingInTime ==
    ASSUME NEW b, Linked(b), Serving
    PROVE  Divisor + 1 - half(Divisor) < SaveIn /\ ~ Saving
<1>1. Due(Work, since) <= SaveIn /\ since \in 0 .. Latency
    BY DEF Linked, Receiving, OnTime, IInv, UploadTypeOK
<1>2. Work \in 1 .. 5
    BY Works
<1>3. Due(Work, since) \in Int /\ Divisor + 1 - half(Divisor) < Due(Work, since)
    BY <1>1, <1>2, Dues
<1>4. SaveIn \in Nat /\ (Saving => SaveIn = 0)
    BY SaveInType DEF Linked
<1>5. half(Divisor) \in Nat /\ half(Divisor) < Divisor /\ Divisor \in Nat
    BY Halves, DivisorAssumption
<1>6. Divisor + 1 - half(Divisor) < SaveIn /\ SaveIn # 0
    BY <1>1, <1>3, <1>4, <1>5
<1> QED
    BY <1>4, <1>6

(* The cycles a '#' needs.                                                 *)
LEMMA TxLeftType ==
    ASSUME IInv, uart0_divisor = Divisor
    PROVE  TxLeft \in Nat /\ (TxLeft <= 0 => ~ busy(tx) /\ ~ uart0_enable_w)
<1>1. /\ tx.bits \in 0 .. Bits + 2 /\ tx.delay \in 0 .. Divisor /\ Divisor \in Nat /\ Bits \in Nat
      /\ uart0_enable_w \in BOOLEAN
    BY Registers, DivisorAssumption, BitsAssumption
<1>2. busy(tx) => (tx.bits - 1) * (Divisor + 1) \in Nat
    BY <1>1 DEF busy
<1>3. (Bits + 2) * (Divisor + 1) \in Nat
    BY <1>1
<1> QED
    BY <1>1, <1>2, <1>3 DEF TxLeft

LEMMA TxLeftStep ==
    ASSUME IInv, uart0_divisor = Divisor,
           tx' = TxNext(tx, uart0_divisor, uart0_enable_w, uart0_data_write), ~ uart0_enable_w'
    PROVE  TxLeft' = 0 \/ (TxLeft' \in Int /\ TxLeft' + 1 = TxLeft)
<1>1. /\ tx.bits \in 0 .. Bits + 2 /\ tx.delay \in 0 .. Divisor /\ Divisor \in Nat /\ Bits \in Nat
      /\ uart0_enable_w \in BOOLEAN /\ tx \in Tx(Periods)
    BY Registers, DivisorAssumption, BitsAssumption DEF IInv, UploadTypeOK
<1>2. CASE ~ busy(tx) /\ ~ uart0_enable_w
    <2>1. tx' = tx
        BY <1>2 DEF TxNext
    <2> QED
        BY <1>2, <2>1 DEF TxLeft, busy
<1>3. CASE ~ busy(tx) /\ uart0_enable_w
    <2>1. tx'.bits = Bits + 2 /\ tx'.delay = 0
        BY <1>3 DEF TxNext, Loaded
    <2>2. TxLeft = (Bits + 2) * (Divisor + 1) + 1
        BY <1>3 DEF TxLeft
    <2>3. TxLeft' = (tx'.bits - 1) * (Divisor + 1) + Divisor - 0 + 1
        BY <1>1, <2>1 DEF TxLeft, busy
    <2>4. (Bits + 2) * (Divisor + 1) = (Bits + 1) * (Divisor + 1) + Divisor + 1
        BY <1>1
    <2>5. tx'.bits - 1 = Bits + 1 /\ (Bits + 1) * (Divisor + 1) \in Nat
        BY <1>1, <2>1
    <2> QED
        BY <1>1, <2>2, <2>3, <2>4, <2>5
<1>4. CASE busy(tx) /\ tx.delay # Divisor
    <2>1. tx'.bits = tx.bits /\ tx'.delay = tx.delay + 1
        BY <1>1, <1>4 DEF TxNext, Tx
    <2>2. TxLeft = (tx.bits - 1) * (Divisor + 1) + Divisor - tx.delay + 1
        BY <1>4 DEF TxLeft
    <2>3. TxLeft' = (tx.bits - 1) * (Divisor + 1) + Divisor - (tx.delay + 1) + 1
        BY <1>4, <2>1 DEF TxLeft, busy
    <2>4. (tx.bits - 1) * (Divisor + 1) \in Int
        BY <1>1
    <2> QED
        BY <1>1, <2>2, <2>3, <2>4
<1>5. CASE busy(tx) /\ tx.delay = Divisor
    <2>1. tx'.bits = tx.bits - 1 /\ tx'.delay = 0
        BY <1>5 DEF TxNext, Shifted
    <2>2. TxLeft = (tx.bits - 1) * (Divisor + 1) + Divisor - Divisor + 1
        BY <1>5 DEF TxLeft
    <2>3. CASE tx.bits = 1
        BY <2>1, <2>3 DEF TxLeft, busy
    <2>4. CASE tx.bits # 1
        <3>1. tx'.bits # 0 /\ tx'.bits - 1 = tx.bits - 2
            BY <1>1, <1>5, <2>1, <2>4 DEF busy
        <3>2. TxLeft' = (tx'.bits - 1) * (Divisor + 1) + Divisor - 0 + 1
            BY <2>1, <3>1 DEF TxLeft, busy
        <3>3. (tx.bits - 1) * (Divisor + 1) = (tx.bits - 2) * (Divisor + 1) + Divisor + 1
            BY <1>1
        <3>4. (tx.bits - 2) * (Divisor + 1) \in Int
            BY <1>1
        <3> QED
            BY <1>1, <2>2, <3>1, <3>2, <3>3, <3>4
    <2> QED
        BY <2>3, <2>4
<1> QED
    BY <1>2, <1>3, <1>4, <1>5

(* What an access does while the monitor receives: every poll finds what   *)
(* it waits for, but that for a byte.                                      *)
LEMMA AccessSteps ==
    ASSUME NEW b, NEW starts, NEW byte, NEW line, Serves(b, TRUE, starts, byte, line)
    PROVE  /\ since' = 0
           /\ \/ at = "first" /\ ~ Unread /\ at' = "first" /\ k' = k
              \/ at = "first" /\ Unread /\ at' = "first_read" /\ k' = k
              \/ at = "first_read" /\ at' = "poll" /\ k' = k
              \/ at = "poll" /\ ~ Unread /\ at' \in {"poll", "done"} /\ k' = k
              \/ at = "poll" /\ Unread /\ at' = "getchar" /\ k' = k
              \/ at = "getchar" /\ at' = "read" /\ k' = k
              \/ at = "read" /\ k % Echo = 0 /\ at' = "hash_busy" /\ k' = k
              \/ at = "read" /\ k % Echo # 0 /\ at' = "poll" /\ k' = k + 1
              \/ at = "hash_busy" /\ at' = "hash" /\ k' = k
              \/ at = "hash" /\ at' = "poll" /\ k' = k + 1
<1>1. since > 0 /\ since' = 0 /\ Access
    BY DEF Serves, Software, Access
<1>2. /\ IInv /\ Held /\ Echoes /\ at \notin unprompted /\ at # "done" /\ uart0_divisor = Divisor
    BY DEF Serves, Ticks, Linked, Receiving, Held
<1>3. ~ uart0_enable_r /\ (Unread <=> rx.avail)
    BY <1>1, <1>2 DEF IInv, Paced, Unread
<1>4. at = "hash_busy" => ~ busy(tx)
    <2> SUFFICES ASSUME at = "hash_busy" PROVE ~ busy(tx)
        OBVIOUS
    <2>1. k % Echo = 0 /\ Serving
        BY <1>2 DEF Held, Serving
    <2>2. TxLeft <= 0
        BY <1>2, <2>1 DEF Echoes, Horizon
    <2> QED
        BY <1>2, <2>2, TxLeftType
<1>5. at = "getchar" => rx.avail
    BY <1>2 DEF Held, Unread
<1>6. CASE Setup
    BY <1>2, <1>6 DEF Setup, unprompted
<1>7. CASE Putchar
    BY <1>1, <1>2, <1>4, <1>7 DEF Putchar, Goto, Stored, unprompted
<1>8. CASE Getchar
    BY <1>1, <1>3, <1>5, <1>8 DEF Getchar, Goto, Stored
<1>9. CASE Poll
    BY <1>1, <1>3, <1>9 DEF Poll
<1> QED
    BY <1>1, <1>6, <1>7, <1>8, <1>9 DEF Access

(* The accesses that find nothing; all others are for a byte.              *)
Waits == at \in {"first", "poll"} /\ ~ Unread

LEMMA WaitingOrServing ==
    ASSUME NEW b, Linked(b), at # "done"
    PROVE  (Waits /\ ~ Serving) \/ (~ Waits /\ Serving /\ ~ Saving)
<1>1. at \in {"first", "first_read", "poll", "getchar", "read", "hash_busy", "hash"}
    BY DEF Linked, Receiving, Held, IInv, UploadTypeOK, Labels, Writes, Polls, Reads, unprompted
<1>2. (Waits /\ ~ Serving) \/ (~ Waits /\ Serving)
    BY <1>1 DEF Waits, Serving
<1> QED
    BY <1>2, ServingInTime

(* The flag of the receiver, as the software will see it.                  *)
LEMMA UnreadStep ==
    ASSUME NEW b, NEW access \in BOOLEAN, NEW starts, NEW byte, NEW line,
           Serves(b, access, starts, byte, line)
    PROVE  /\ uart0_enable_r' <=> access /\ at \in {"hash", "first_read", "read"}
           /\ uart0_enable_w' <=> access /\ at = "hash"
           /\ Unread' <=> (Saving \/ Unread) /\ ~ uart0_enable_r'
           /\ rx'.saved = IF Saving THEN rx.data ELSE rx.saved
<1>1. at \notin unprompted
    BY DEF Serves, Ticks, Linked, Receiving, Held
<1>2. uart0_enable_r' <=> access /\ at \in {"hash", "first_read", "read"}
    BY <1>1 DEF Serves, EnableRead, uart0, unprompted
<1>3. uart0_enable_w' <=> access /\ at = "hash"
    BY <1>1 DEF Serves, EnableWrite, uart0, Writes, unprompted
<1>4. Unread' <=> (Saving \/ Unread) /\ ~ uart0_enable_r'
    BY DEF Serves, Ticks, Unread
<1> QED
    BY <1>2, <1>3, <1>4 DEF Serves, Ticks

(* Where the software is after the cycle, ...                              *)
LEMMA ProgressStep ==
    ASSUME NEW b, NEW access \in BOOLEAN, NEW starts, NEW byte, NEW line,
           Serves(b, access, starts, byte, line), at' # "done"
    PROVE  /\ Waits => /\ ~ uart0_enable_r' /\ ~ uart0_enable_w' /\ at' = at /\ k' = k
                       /\ Saving <=> Serving'
           /\ ~ Waits /\ ~ access => /\ ~ uart0_enable_w' /\ at' = at /\ k' = k
                                     /\ since' = since + 1 /\ Serving' /\ (Unread' <=> Unread)
           /\ ~ Waits /\ access =>
                \/ /\ ~ uart0_enable_w' /\ k' = k /\ since' = 0 /\ Serving'
                   /\ Work' + 1 <= Work
                \/ /\ ~ Serving' /\ (k' = k \/ k' = k + 1)
                   /\ uart0_enable_w' => at = "hash" /\ k' = k + 1
<1>1. /\ uart0_enable_r' <=> access /\ at \in {"hash", "first_read", "read"}
      /\ uart0_enable_w' <=> access /\ at = "hash"
      /\ Unread' <=> (Saving \/ Unread) /\ ~ uart0_enable_r'
    BY UnreadStep
<1>2. ~ access => at' = at /\ k' = k /\ since' = since + 1
    BY DEF Serves, Software, Compute
<1>3. (Waits /\ ~ Serving) \/ (~ Waits /\ Serving /\ ~ Saving)
    BY WaitingOrServing DEF Serves, Ticks
<1>4. Held
    BY DEF Serves, Ticks, Linked, Receiving
<1>5. CASE Waits
    <2>1. ~ uart0_enable_r' /\ ~ uart0_enable_w'
        BY <1>1, <1>5 DEF Waits
    <2>2. at' = at /\ k' = k
        BY <1>2, <1>5, AccessSteps DEF Waits
    <2>3. Saving <=> Serving'
        BY <1>1, <1>5, <2>1, <2>2 DEF Waits, Serving
    <2> QED
        BY <1>5, <2>1, <2>2, <2>3
<1>6. CASE ~ Waits /\ ~ access
    BY <1>1, <1>2, <1>3, <1>6 DEF Serving
<1>7. CASE ~ Waits /\ access
    <2>1. since' = 0 /\ ~ Saving
        BY <1>3, <1>7, AccessSteps
    <2> USE <1>1, <1>4, <1>7, <2>1 DEF Serving
    <2>2. CASE at = "first" /\ Unread /\ at' = "first_read" /\ k' = k
        BY <2>2 DEF Work
    <2>3. CASE at = "first_read" /\ at' = "poll" /\ k' = k
        BY <2>3
    <2>4. CASE at = "poll" /\ Unread /\ at' = "getchar" /\ k' = k
        BY <2>4 DEF Work
    <2>5. CASE at = "getchar" /\ at' = "read" /\ k' = k
        BY <2>5 DEF Work
    <2>6. CASE at = "read" /\ at' = "hash_busy" /\ k' = k
        BY <2>6 DEF Work
    <2>7. CASE at = "read" /\ at' = "poll" /\ k' = k + 1
        BY <2>7
    <2>8. CASE at = "hash_busy" /\ at' = "hash" /\ k' = k
        BY <2>8 DEF Work
    <2>9. CASE at = "hash" /\ at' = "poll" /\ k' = k + 1
        BY <2>9
    <2> QED
        BY <2>2, <2>3, <2>4, <2>5, <2>6, <2>7, <2>8, <2>9, AccessSteps DEF Waits
<1> QED
    BY <1>5, <1>6, <1>7

(* ... that it is in time for the next byte, ...                           *)
LEMMA OnTimeStep ==
    ASSUME NEW b \in Byte, NEW access \in BOOLEAN, NEW starts, NEW byte, NEW line,
           Serves(b, access, starts, byte, line), at' # "done", since' \in 0 .. Latency
    PROVE  OnTime'
<1>1. /\ Ticks(b, starts, byte, line) /\ IInv /\ InTime /\ since \in 0 .. Latency
      /\ Serving => Due(Work, since) <= SaveIn
    BY DEF Serves, Ticks, Linked, Receiving, OnTime, IInv, UploadTypeOK
<1>2. /\ Work \in 1 .. 5 /\ Work' \in 1 .. 5 /\ SaveIn \in Nat /\ SaveIn' \in Nat
      /\ (Saving => SaveIn' = Frames(Bits + 1)) /\ (~ Saving => SaveIn <= SaveIn' + 1)
    <2>1. Work \in 1 .. 5 /\ Work' \in 1 .. 5
        BY Works DEF Work
    <2>2. SaveIn \in Nat
        BY <1>1, SaveInType
    <2>3. Saving => RxCounts
        BY <1>1, FlightStep
    <2> QED
        BY <1>1, <2>1, <2>2, <2>3, SaveStep
<1>3. (Waits /\ ~ Serving) \/ (~ Waits /\ Serving /\ ~ Saving)
    BY <1>1, WaitingOrServing DEF Serves, Ticks
<1>4. CASE Waits
    <2>1. Saving <=> Serving'
        BY <1>4, ProgressStep
    <2>2. Due(Work', since') <= Frames(Bits + 1)
        BY <1>1, <1>2, Dues
    <2> QED
        BY <1>2, <2>1, <2>2 DEF OnTime
<1>5. CASE ~ Waits /\ ~ access
    <2>1. Work' = Work /\ since' = since + 1
        BY <1>5, ProgressStep DEF Work
    <2>2. Due(Work, since + 1) + 1 <= Due(Work, since) /\ Due(Work, since + 1) \in Int
          /\ Due(Work, since) \in Int
        BY <1>1, <1>2, <2>1, Dues
    <2>3. Due(Work, since) <= SaveIn /\ SaveIn <= SaveIn' + 1
        BY <1>1, <1>2, <1>3, <1>5
    <2>4. PICK old \in Nat, s \in Nat : old = SaveIn /\ s = SaveIn'
        BY <1>2
    <2>5. Due(Work, since + 1) <= s
        <3>1. Due(Work, since) <= old /\ old <= s + 1
            BY <2>3, <2>4
        <3> QED
            BY <2>2, <3>1
    <2>6. Due(Work, since)' = Due(Work, since + 1)
        BY <2>1 DEF Due
    <2> QED
        BY <2>4, <2>5, <2>6 DEF OnTime
<1>6. CASE ~ Waits /\ access
    <2>1. CASE ~ Serving'
        BY <2>1 DEF OnTime
    <2>2. CASE Serving'
        <3>1. since' = 0 /\ Work' + 1 <= Work
            BY <1>6, <2>2, ProgressStep
        <3>2. PICK n \in 1 .. 5, m \in 1 .. 5, old \in Nat, s \in Nat :
                n = Work /\ m = Work' /\ old = SaveIn /\ s = SaveIn'
            BY <1>2
        <3>3. m < n
            <4>1. m + 1 <= n
                BY <3>1, <3>2
            <4> QED
                BY <4>1
        <3>4. /\ Due(m, 0) + 1 <= Due(n, since) /\ Due(n, since) \in Int /\ Due(m, 0) \in Int
              /\ Due(n, since) <= s + 1
            <4>1. Due(n, since) <= old /\ old <= s + 1
                BY <1>1, <1>2, <1>3, <1>6, <3>2
            <4>2. 0 \in 0 .. Latency
                BY UploadAssumption
            <4>3. Due(m, 0) + 1 <= Due(n, since) /\ Due(n, since) \in Int /\ Due(m, 0) \in Int
                BY <1>1, <3>3, <4>2, Dues
            <4> QED
                BY <4>1, <4>3
        <3>5. Due(m, 0) <= s
            BY <3>4
        <3>6. Due(Work, since)' = Due(m, 0)
            BY <3>1, <3>2 DEF Due
        <3> QED
            BY <3>2, <3>5, <3>6 DEF OnTime
    <2> QED
        BY <2>1, <2>2
<1> QED
    BY <1>4, <1>5, <1>6

(* ... the transmitter before the next '#', ...                            *)
LEMMA EchoesStep ==
    ASSUME NEW b \in Byte, NEW access \in BOOLEAN, NEW starts, NEW byte, NEW line,
           Serves(b, access, starts, byte, line), at' # "done"
    PROVE  Echoes'
<1>1. /\ Ticks(b, starts, byte, line) /\ IInv /\ Echo >= 2 /\ uart0_divisor = Divisor
      /\ TxLeft <= Horizon /\ Held /\ k \in Nat
    BY DEF Serves, Ticks, Linked, Receiving, Echoes, InTime, IInv, UploadTypeOK
<1>2. PICK old \in Nat, s \in Nat, t \in Nat : old = SaveIn /\ s = SaveIn' /\ t = TxLeft
    BY <1>1, SaveInType, SaveStep, TxLeftType
<1>3. PICK frames \in Nat : frames = Frames(Bits + 1) /\ frames = (Bits + 1) * (Divisor + 1) + half(Divisor)
    <2>1. (Bits + 1) * (Divisor + 1) \in Nat
        BY BitsAssumption, DivisorAssumption
    <2> QED
        BY <2>1, Halves DEF Frames
<1>4. (Saving => old = 0 /\ s = frames) /\ (~ Saving => old <= s + 1)
    <2>1. Saving => RxCounts
        BY <1>1, FlightStep
    <2> QED
        BY <1>1, <1>2, <1>3, <2>1, SaveInType, SaveStep
<1>5. (Waits /\ ~ Serving) \/ (~ Waits /\ Serving /\ ~ Saving)
    BY <1>1, WaitingOrServing DEF Serves, Ticks
<1>6. /\ k % Echo = 0 => IF Serving THEN t <= 0 ELSE t <= old
      /\ k % Echo # 0 => IF Serving THEN t <= old ELSE t <= old + frames + 1
    BY <1>1, <1>2, <1>3 DEF Horizon
<1>7. /\ Horizon' = IF k' % Echo = 0 THEN (IF Serving' THEN 0 ELSE s)
                    ELSE (IF Serving' THEN s ELSE s + frames + 1)
    BY <1>2, <1>3 DEF Horizon, Frames
<1>8. CASE ~ uart0_enable_w'
    <2>1. TxLeft' = 0 \/ (TxLeft' \in Int /\ TxLeft' + 1 = t)
        BY <1>1, <1>2, <1>8, TxLeftStep DEF Serves
    <2>2. PICK u \in Int : u = TxLeft' /\ (u = 0 \/ u + 1 = t)
        BY <2>1
    <2>3. CASE Waits
        <3>1. k' = k /\ (Saving <=> Serving')
            BY <2>3, ProgressStep
        <3>2. Horizon' = IF k % Echo = 0 THEN (IF Saving THEN 0 ELSE s)
                         ELSE (IF Saving THEN s ELSE s + frames + 1)
            BY <1>7, <3>1
        <3>3. PICK h \in Nat : h = Horizon'
            BY <3>2
        <3>4. h = IF k % Echo = 0 THEN (IF Saving THEN 0 ELSE s) ELSE (IF Saving THEN s ELSE s + frames + 1)
            BY <3>2, <3>3
        <3>5. u = 0 \/ u + 1 = t
            BY <2>2
        <3>6. u <= h
            BY <1>4, <1>5, <1>6, <2>3, <3>4, <3>5
        <3> QED
            BY <2>2, <3>3, <3>6 DEF Echoes
    <2>4. CASE ~ Waits
        <3>1. \/ k' = k
              \/ k' = k + 1 /\ ~ Serving' /\ (k % Echo # 0 \/ at = "hash")
            BY <2>4, ProgressStep, AccessSteps DEF Serves
        <3>2. CASE k' = k
            <4>1. Horizon' = IF k % Echo = 0 THEN (IF Serving' THEN 0 ELSE s)
                             ELSE (IF Serving' THEN s ELSE s + frames + 1)
                BY <1>7, <3>2
            <4>2. PICK h \in Nat : h = Horizon' /\ (k % Echo # 0 => s <= h)
                BY <4>1
            <4>3. (u = 0 \/ u + 1 = t) /\ (k % Echo # 0 => s <= h)
                BY <2>2, <4>2
            <4>4. u <= h
                BY <1>4, <1>5, <1>6, <2>4, <4>3
            <4> QED
                BY <2>2, <4>2, <4>4 DEF Echoes
        <3>3. CASE k' = k + 1
            <4>1. ~ Serving' /\ (k % Echo # 0 \/ at = "hash")
                BY <1>1, <3>1, <3>3
            <4>2. PICK h \in Nat : h = Horizon' /\ s <= h
                BY <1>7, <4>1
            <4>3. (u = 0 \/ u + 1 = t) /\ s <= h
                BY <2>2, <4>2
            <4>4. u <= h
                BY <1>4, <1>5, <1>6, <2>4, <4>3
            <4> QED
                BY <2>2, <4>2, <4>4 DEF Echoes
        <3> QED
            BY <3>1, <3>2, <3>3
    <2> QED
        BY <2>3, <2>4
<1>9. CASE uart0_enable_w'
    <2>1. at = "hash" /\ access /\ ~ Waits
        BY <1>9, UnreadStep DEF Waits
    <2>2. k' = k + 1 /\ ~ Serving' /\ k % Echo = 0
        BY <1>1, <1>9, <2>1, ProgressStep, AccessSteps DEF Held
    <2>3. k' % Echo # 0
        <3>1. Echo \in Nat
            BY UploadAssumption
        <3> QED
            BY <1>1, <2>2, <3>1
    <2>4. Divisor + 1 - half(Divisor) < SaveIn /\ ~ Saving
        BY <1>1, <1>5, <2>1, ServingInTime DEF Ticks
    <2>5. TxLeft' = (Bits + 2) * (Divisor + 1) + 1
        <3>1. ~ busy(tx) /\ ~ uart0_enable_w
            BY <1>1, <2>1 DEF IInv, Idle
        <3>2. tx' = tx
            BY <3>1 DEF Serves, TxNext
        <3> QED
            BY <1>9, <3>1, <3>2 DEF TxLeft, busy
    <2>6. (Bits + 2) * (Divisor + 1) = (Bits + 1) * (Divisor + 1) + Divisor + 1
        BY BitsAssumption, DivisorAssumption
    <2>7. (Bits + 1) * (Divisor + 1) \in Nat
        BY BitsAssumption, DivisorAssumption
    <2>8. (Bits + 1) * (Divisor + 1) + Divisor + 1 + 1 <= s + frames + 1
        <3>1. Divisor + 1 - half(Divisor) < old /\ old <= s + 1
            BY <1>2, <1>4, <2>4
        <3>2. Divisor + 1 - half(Divisor) <= s
            BY <3>1, Halves, DivisorAssumption
        <3>3. frames = (Bits + 1) * (Divisor + 1) + half(Divisor)
            BY <1>3
        <3> QED
            BY <2>7, <3>2, <3>3, Halves, DivisorAssumption
    <2>9. TxLeft' <= Horizon'
        BY <1>7, <2>2, <2>3, <2>5, <2>6, <2>8
    <2> QED
        BY <2>9 DEF Echoes
<1> QED
    BY <1>8, <1>9

(* ... and what it has found.                                              *)
LEMMA HeldStep ==
    ASSUME NEW b, NEW access \in BOOLEAN, NEW starts, NEW byte, NEW line,
           Serves(b, access, starts, byte, line), at' # "done"
    PROVE  Held'
<1>1. /\ uart0_enable_r' <=> access /\ at \in {"hash", "first_read", "read"}
      /\ Unread' <=> (Saving \/ Unread) /\ ~ uart0_enable_r'
    BY UnreadStep
<1>2. (Waits /\ ~ Serving) \/ (~ Waits /\ Serving /\ ~ Saving)
    BY WaitingOrServing DEF Serves, Ticks
<1>3. Held
    BY DEF Serves, Ticks, Linked, Receiving
<1>4. CASE ~ access
    <2>1. at' = at /\ k' = k /\ ~ uart0_enable_r'
        BY <1>1, <1>4 DEF Serves, Software, Compute
    <2>2. CASE Waits
        BY <1>3, <2>1, <2>2 DEF Held, Waits
    <2>3. CASE ~ Waits
        BY <1>1, <1>2, <1>3, <2>1, <2>3 DEF Held
    <2> QED
        BY <2>2, <2>3
<1>5. CASE access
    <2> USE <1>1, <1>2, <1>3, <1>5 DEF Held, Waits, unprompted
    <2>1. CASE at = "first" /\ ~ Unread /\ at' = "first"
        BY <2>1
    <2>2. CASE at = "poll" /\ ~ Unread /\ at' = "poll"
        BY <2>2
    <2>3. CASE at = "first" /\ Unread /\ at' = "first_read"
        BY <2>3
    <2>4. CASE at = "poll" /\ Unread /\ at' = "getchar"
        BY <2>4
    <2>5. CASE at = "getchar" /\ at' = "read"
        BY <2>5
    <2>6. CASE at = "read" /\ k % Echo = 0 /\ at' = "hash_busy" /\ k' = k
        BY <2>6
    <2>7. CASE at = "hash_busy" /\ at' = "hash" /\ k' = k
        BY <2>7
    <2>8. CASE at' = "poll"
        BY <2>8
    <2> QED
        BY <2>1, <2>2, <2>3, <2>4, <2>5, <2>6, <2>7, <2>8, AccessSteps
<1> QED
    BY <1>4, <1>5

(* The first element of a sequence, and the rest.                          *)
LEMMA Front ==
    ASSUME NEW S, NEW a \in S, NEW seq \in Seq(S)
    PROVE  <<a>> \o seq # <<>> /\ Head(<<a>> \o seq) = a /\ Tail(<<a>> \o seq) = seq
<1>1. <<a>> \in Seq(S) /\ Len(<<a>>) = 1 /\ <<a>>[1] = a
    OBVIOUS
<1> DEFINE all == <<a>> \o seq
<1>2. /\ all \in Seq(S) /\ Len(all) = 1 + Len(seq)
      /\ \A i \in 1 .. 1 + Len(seq) : all[i] = IF i <= 1 THEN <<a>>[i] ELSE seq[i - 1]
    BY <1>1, ConcatProperties
<1>3. Len(seq) \in Nat
    BY LenProperties
<1> HIDE DEF all
<1>4. all # <<>>
    BY <1>2, <1>3
<1>5. /\ Head(all) = a /\ Tail(all) \in Seq(S) /\ Len(Tail(all)) = Len(seq)
      /\ \A i \in 1 .. Len(seq) : Tail(all)[i] = all[i + 1]
    BY <1>1, <1>2, <1>3, <1>4, HeadTailProperties
<1>6. \A i \in 1 .. Len(seq) : Tail(all)[i] = seq[i]
    BY <1>2, <1>3, <1>5
<1>7. Tail(all) = seq
    BY <1>3, <1>5, <1>6, SeqEqual
<1> QED
    BY <1>4, <1>5, <1>7 DEF all

LEMMA Alone ==
    ASSUME NEW S, NEW a \in S
    PROVE  <<>> \in Seq(S) /\ <<a>> \in Seq(S) /\ <<a>> \o <<>> = <<a>>
OBVIOUS

(* The bytes the monitor has not read are the saved one and the one in     *)
(* flight; a read takes the saved one.                                     *)
LEMMA QueuedStep ==
    ASSUME NEW b \in Byte, NEW access \in BOOLEAN, NEW starts \in BOOLEAN, NEW byte \in Byte, NEW line,
           Serves(b, access, starts, byte, line)
    PROVE  /\ access /\ at \in Reads => queue # <<>> /\ Head(queue) = rx.saved
           /\ IF starts THEN Queued(byte)' ELSE Queued(b)'
<1> DEFINE reads == access /\ at \in Reads
           bytes == IF starts THEN <<byte>> ELSE <<>>
           V == Flying(b)
           new == IF starts THEN byte ELSE b
           W == IF InFlight' THEN <<new>> ELSE <<>>
<1>1. /\ Ticks(b, starts, byte, line) /\ Linked(b) /\ rx.saved \in Byte
      /\ queue = IF Unread THEN <<rx.saved>> \o V ELSE V
      /\ queue \in Seq(Byte) /\ V \in Seq(Byte) /\ bytes \in Seq(Byte)
      /\ queue' = (IF reads /\ queue # <<>> THEN Tail(queue) ELSE queue) \o bytes
    <2>1. Ticks(b, starts, byte, line) /\ Linked(b) /\ IInv /\ Queued(b)
        BY DEF Serves, Ticks, Linked, Receiving
    <2>2. rx.saved \in Byte
        BY <2>1, Registers
    <2>3. V \in Seq(Byte) /\ bytes \in Seq(Byte)
        BY DEF Flying
    <2> QED
        BY <2>1, <2>2, <2>3 DEF Serves, History, Queued, IInv, UploadTypeOK
<1>2. /\ Saving => ~ starts /\ ~ InFlight'
      /\ ~ Saving => (InFlight' <=> InFlight \/ starts)
      /\ starts => ~ InFlight
    BY <1>1, FlightStep
<1>3. /\ uart0_enable_r' <=> access /\ at \in {"hash", "first_read", "read"}
      /\ Unread' <=> (Saving \/ Unread) /\ ~ uart0_enable_r'
      /\ rx'.saved = IF Saving THEN rx.data ELSE rx.saved
    BY UnreadStep
<1>4. (Waits /\ ~ Serving) \/ (~ Waits /\ Serving /\ ~ Saving)
    BY <1>1, WaitingOrServing DEF Serves
<1>5. Held
    BY DEF Serves, Ticks, Linked, Receiving
<1>6. reads => Unread /\ ~ Saving /\ uart0_enable_r'
    BY <1>3, <1>4, <1>5 DEF Held, Reads, Waits
<1>7. ~ reads /\ uart0_enable_r' => ~ Unread /\ ~ Saving
    BY <1>3, <1>4, <1>5 DEF Held, Reads, Waits
<1>8. Saving => ~ Unread
    BY <1>4 DEF Serving
<1>9. Unread => queue # <<>> /\ Head(queue) = rx.saved /\ Tail(queue) = V
    <2> HIDE DEF V, bytes
    <2> QED
        BY <1>1, Front
<1>10. \A seq \in Seq(Byte) : seq \o <<>> = seq
    BY ConcatEmptySeq
<1>11. ~ Saving => V \o bytes = W
    <2>1. CASE starts
        <3>1. \A one \in Seq(Byte) : <<>> \o one = one
            BY ConcatEmptySeq
        <3> QED
            BY <1>1, <1>2, <2>1, <3>1 DEF Flying
    <2>2. CASE ~ starts
        BY <1>1, <1>2, <1>10, <2>2 DEF Flying
    <2> QED
        BY <2>1, <2>2
<1>12. queue' = IF Unread' THEN <<rx'.saved>> \o W ELSE W
    <2>1. CASE Saving
        <3>1. ~ Unread /\ ~ starts /\ ~ InFlight' /\ ~ reads /\ Unread' /\ rx'.saved = b
            BY <1>1, <1>2, <1>3, <1>6, <1>7, <1>8, <2>1, SavedByte
        <3>2. queue = <<b>> /\ bytes = <<>> /\ W = <<>>
            BY <1>1, <2>1, <3>1 DEF Flying, InFlight
        <3>3. queue' = queue \o bytes
            BY <1>1, <3>1
        <3>4. queue' = <<rx'.saved>> \o W
            BY <3>1, <3>2, <3>3
        <3> QED
            BY <3>1, <3>4
    <2>2. CASE ~ Saving /\ reads
        <3>1. ~ Unread' /\ queue' = V \o bytes
            BY <1>1, <1>3, <1>6, <1>9, <2>2
        <3> QED
            BY <1>11, <2>2, <3>1
    <2>3. CASE ~ Saving /\ ~ reads /\ ~ Unread
        <3>1. ~ Unread' /\ queue' = V \o bytes
            BY <1>1, <1>3, <2>3
        <3> QED
            BY <1>11, <2>3, <3>1
    <2>4. CASE ~ Saving /\ ~ reads /\ Unread
        <3>1. Unread' /\ rx'.saved = rx.saved
            BY <1>3, <1>7, <2>4
        <3>2. queue' = (<<rx.saved>> \o V) \o bytes
            BY <1>1, <2>4
        <3>3. (<<rx.saved>> \o V) \o bytes = <<rx.saved>> \o (V \o bytes)
            <4>1. CASE starts
                <5>1. V = <<>> /\ bytes = <<byte>>
                    BY <1>2, <4>1 DEF Flying
                <5>2. <<rx.saved>> \o <<>> = <<rx.saved>> /\ <<>> \o <<byte>> = <<byte>>
                    BY <1>1, Alone, ConcatEmptySeq
                <5> QED
                    BY <5>1, <5>2
            <4>2. CASE ~ starts
                <5>1. bytes = <<>> /\ V \o bytes = V /\ queue \o <<>> = queue
                    BY <1>1, <1>10, <4>2
                <5> QED
                    BY <1>1, <2>4, <5>1
            <4> QED
                BY <4>1, <4>2
        <3>4. V \o bytes = W
            BY <1>11, <2>4
        <3> QED
            BY <3>1, <3>2, <3>3, <3>4
    <2> QED
        BY <2>1, <2>2, <2>3, <2>4
<1>13. IF starts THEN Queued(byte)' ELSE Queued(b)'
    BY <1>12 DEF Queued, Flying
<1> QED
    BY <1>6, <1>9, <1>13

(* The monitor goes on receiving.                                          *)
LEMMA ReceivingStep ==
    ASSUME NEW b \in Byte, NEW access \in BOOLEAN, NEW starts \in BOOLEAN, NEW byte \in Byte, NEW line,
           Serves(b, access, starts, byte, line), at' # "done", since' \in 0 .. Latency
    PROVE  \E new \in Byte : Receiving(new)'
<1>1. Ticks(b, starts, byte, line) /\ prompted'
    BY DEF Serves
<1>2. uart0_divisor' = Divisor
    <2>1. uart0_divisor = Divisor
        BY <1>1 DEF Ticks, Linked, Receiving
    <2> QED
        BY <2>1 DEF Serves, EnableWrite
<1>3. Lockstep' /\ OnTime' /\ Echoes' /\ Held'
    BY <1>1, LockstepStep, OnTimeStep, EchoesStep, HeldStep
<1>4. CASE starts
    <2>1. Sends(byte)' /\ Settled(byte)' /\ Taken(byte)' /\ Queued(byte)'
        BY <1>1, <1>4, SendsStep, SettledStep, TakenStep, QueuedStep
    <2>2. Receiving(byte)'
        BY <1>1, <1>2, <1>3, <2>1 DEF Receiving
    <2> QED
        BY <2>2
<1>5. CASE ~ starts
    <2>1. Sends(b)' /\ Settled(b)' /\ Taken(b)' /\ Queued(b)'
        BY <1>1, <1>5, SendsStep, SettledStep, TakenStep, QueuedStep
    <2>2. Receiving(b)'
        BY <1>1, <1>2, <1>3, <2>1 DEF Receiving
    <2> QED
        BY <2>2
<1> QED
    BY <1>4, <1>5

-----------------------------------------------------------------------------
(* Up to the prompt nothing is sent, and nothing is saved but the byte the *)
(* receiver invents while its divisor is 0.                                *)
LEMMA BootStep ==
    ASSUME IInv, Booting, 3 <= Filter,
           NEW access \in BOOLEAN, NEW starts \in BOOLEAN, NEW noise \in BOOLEAN,
           Cycle(access, starts, noise)
    PROVE  /\ at \notin Reads /\ ~ starts
           /\ Booting' \/ \E b \in Byte : Receiving(b)'
<1> DEFINE line == IF noise THEN 0 ELSE uart_write(host)
<1>1. /\ at \in unprompted \cup {"first"} /\ at \notin Reads /\ at # "done"
      /\ ~ prompted /\ ~ starts /\ ~ busy(host)
    BY DEF Booting, unprompted, Reads, Cycle, Host, MaySend
<1>2. /\ rx.value \in 0 .. Filter /\ Filter \in Nat /\ Filter - 1 <= rx.value
      /\ rx.bits = 0 /\ rx.delay = 0 /\ host.data[1] = 1 /\ queue = <<>>
      /\ uart0_divisor = (IF at = "irq_div" THEN 0 ELSE Divisor)
      /\ rx.avail => at \in {"irq_div", "irq_zero"} \/ uart0_enable_r
    BY Registers, FilterAssumption DEF Booting
<1>3. /\ Line(line) /\ EnableRead(access) /\ EnableWrite(access) /\ Software(access)
      /\ line = 1 \/ (line = 0 /\ rx.value = Filter)
    BY <1>2 DEF Cycle, uart_write
<1>4. host' = host /\ queue' = <<>>
    <2>1. PICK byte \in {Zero} : /\ host' = TxNext(host, host_divisor, starts, byte)
                                /\ History(access /\ at \in Reads, <<>>)
        BY <1>1 DEF Cycle, Sending
    <2> QED
        BY <1>1, <1>2, <2>1 DEF TxNext, History
<1> HIDE DEF line
<1>5. /\ rx'.bits = 0 /\ rx'.delay = 0
      /\ rx'.value = Average(rx.value, line)
      /\ rx'.avail = (saves(rx, uart0_divisor) \/ (rx.avail /\ ~ uart0_enable_r))
    <2>1. uart_read2(rx) = 1
        BY <1>2 DEF uart_read2
    <2> QED
        BY <1>2, <1>3, <2>1, Receiver DEF RxCounts, RxSamples, RxStarts, RxRests
<1>6. Filter - 1 <= rx'.value
    BY <1>2, <1>3, <1>5 DEF Average
<1>7. rx'.avail => at = "irq_div" \/ (at = "irq_zero" /\ ~ uart0_enable_r)
    <2>1. saves(rx, uart0_divisor) => at = "irq_div"
        BY <1>2, DivisorAssumption DEF saves
    <2> QED
        BY <1>2, <1>5, <2>1
<1>8. /\ at' \in unprompted \cup {"first"}
      /\ at = "irq_div" => at' = (IF access THEN "irq_zero" ELSE "irq_div")
      /\ at = "irq_zero" => at' = (IF access THEN "div" ELSE "irq_zero")
      /\ at = "first" => at' = "first"
      /\ at \in {"div", "zero", "prompt_busy", "prompt"} => at' \in {"div", "zero", "prompt_busy", "prompt", "first"}
    <2>1. CASE ~ access
        BY <1>1, <1>3, <2>1 DEF Software, Compute
    <2>2. CASE access
        <3>1. Access /\ since > 0
            BY <1>3, <2>2 DEF Software, Access
        <3>2. at = "first" => ~ rx.avail
            BY <1>2, <3>1 DEF IInv, Paced
        <3>3. CASE Setup
            BY <1>1, <2>2, <3>3 DEF Setup, Goto, unprompted
        <3>4. CASE Putchar
            BY <1>1, <2>2, <3>4 DEF Putchar, Goto, unprompted
        <3>5. CASE Getchar
            BY <1>1, <2>2, <3>2, <3>5 DEF Getchar, Goto, unprompted
        <3>6. CASE Poll
            BY <1>1, <3>6 DEF Poll, unprompted
        <3> QED
            BY <3>1, <3>3, <3>4, <3>5, <3>6 DEF Access
    <2> QED
        BY <2>1, <2>2
<1>9. uart0_divisor' = IF at' = "irq_div" THEN 0 ELSE Divisor
    BY <1>1, <1>2, <1>3, <1>8 DEF EnableWrite, unprompted
<1>10. rx'.avail => at' \in {"irq_div", "irq_zero"} \/ uart0_enable_r'
    BY <1>3, <1>7, <1>8 DEF EnableRead, uart0
<1>11. CASE ~ prompted'
    <2>1. Booting'
        BY <1>1, <1>2, <1>4, <1>5, <1>6, <1>8, <1>9, <1>10, <1>11 DEF Booting, busy
    <2> QED
        BY <1>1, <2>1
<1>12. CASE prompted'
    <2>1. at = "first" /\ ~ uart0_enable_w /\ ~ busy(tx) /\ at' = "first"
        BY <1>1, <1>8, <1>12 DEF Cycle, Host
    <2>2. ~ busy(host)' /\ ~ Fresh' /\ ~ Saving' /\ ~ InFlight' /\ ~ Unread' /\ ~ Serving'
        <3>1. ~ rx'.avail
            BY <1>7, <2>1
        <3> QED
            BY <1>1, <1>4, <1>5, <2>1, <3>1, BitsAssumption, DivisorAssumption
               DEF busy, Fresh, Saving, InFlight, Unread, Serving
    <2>3. Lockstep'
        BY <1>5, <2>2, Halves, DivisorAssumption DEF Lockstep
    <2>4. Sends(Zero)' /\ Settled(Zero)' /\ Taken(Zero)' /\ Queued(Zero)'
        BY <1>2, <1>4, <1>5, <1>6, <2>2 DEF Sends, Settled, Taken, Queued, Flying
    <2>5. OnTime' /\ Held'
        BY <2>1, <2>2 DEF OnTime, Held, unprompted
    <2>6. Echoes'
        <3>1. tx' = tx /\ ~ uart0_enable_w'
            BY <1>3, <2>1 DEF Line, TxNext, EnableWrite, Writes
        <3>2. TxLeft' = 0
            BY <2>1, <3>1 DEF TxLeft, busy
        <3>3. SaveIn' = 0 + 2 + half(Divisor) + Bits * (Divisor + 1)
            BY <1>5, <2>2 DEF SaveIn
        <3>4. Bits * (Divisor + 1) \in Nat /\ (Bits + 1) * (Divisor + 1) \in Nat
            BY BitsAssumption, DivisorAssumption
        <3>5. SaveIn' >= 0 /\ SaveIn' + Frames(Bits + 1) + 1 >= 0
            BY <3>3, <3>4, Halves DEF Frames
        <3>6. Horizon' = IF k' % Echo = 0 THEN SaveIn' ELSE SaveIn' + Frames(Bits + 1) + 1
            BY <2>2 DEF Horizon, Frames
        <3>7. Horizon' >= 0
            BY <3>5, <3>6
        <3> QED
            BY <3>2, <3>7 DEF Echoes
    <2>7. uart0_divisor' = Divisor
        BY <1>9, <2>1
    <2>8. Receiving(Zero)'
        BY <1>12, <2>3, <2>4, <2>5, <2>6, <2>7 DEF Receiving
    <2> QED
        BY <1>1, <2>8, ByteTypes
<1> QED
    BY <1>11, <1>12

-----------------------------------------------------------------------------
(* A cycle of the program is one the lemmas speak of.                      *)
LEMMA ServesCycle ==
    ASSUME IInv, NEW b \in Byte, Receiving(b), Tolerates(host_divisor), InTime, at # "done",
           NEW access \in BOOLEAN, NEW starts \in BOOLEAN, NEW noise \in BOOLEAN,
           Cycle(access, starts, noise)
    PROVE  \E byte \in Byte : Serves(b, access, starts, byte, IF noise THEN 0 ELSE uart_write(host))
<1> DEFINE line == IF noise THEN 0 ELSE uart_write(host)
<1>1. PICK byte \in Byte : /\ host' = TxNext(host, host_divisor, starts, byte)
                          /\ History(access /\ at \in Reads, IF starts THEN <<byte>> ELSE <<>>)
    BY ByteTypes DEF Cycle, Sending
<1>2. /\ EnableRead(access) /\ EnableWrite(access) /\ Line(line) /\ Software(access) /\ Host(starts)
      /\ line = uart_write(host) \/ (line = 0 /\ rx.value = Filter /\ ~ busy(host))
    BY DEF Cycle
<1>3. Linked(b) /\ prompted /\ uart0_divisor = Divisor
    BY DEF Linked, Receiving
<1> HIDE DEF line
<1>4. saves(rx, uart0_divisor) <=> Saving
    BY <1>3 DEF saves, Saving
<1>5. /\ RxCounts \/ RxSamples \/ RxStarts \/ RxRests
      /\ rx'.value = Average(rx.value, line)
      /\ rx'.saved = IF Saving THEN rx.data ELSE rx.saved
      /\ rx'.avail = (Saving \/ (rx.avail /\ ~ uart0_enable_r))
    BY <1>2, <1>4, Receiver
<1>6. /\ host_divisor' = host_divisor
      /\ IF starts THEN HostLoads(byte) ELSE HostIdles \/ HostCounts \/ HostShifts
    BY <1>1, <1>2, Sender
<1>7. Ticks(b, starts, byte, line)
    BY <1>2, <1>3, <1>5, <1>6 DEF Ticks
<1>8. prompted'
    BY <1>2, <1>3 DEF Host
<1>9. tx' = TxNext(tx, uart0_divisor, uart0_enable_w, uart0_data_write)
    BY <1>2 DEF Line
<1>10. Serves(b, access, starts, byte, line)
    BY <1>1, <1>2, <1>3, <1>7, <1>8, <1>9 DEF Serves
<1> QED
    BY <1>10 DEF line

LEMMA LinkInvInit == ASSUME Init, 3 <= Filter PROVE LInv
<1>1. rx.value = Filter /\ rx.bits = 0 /\ rx.delay = 0 /\ ~ rx.avail
    BY DEF Init, RxReset
<1>2. ~ busy(host) /\ host.data[1] = 1
    BY BitsAssumption DEF Init, TxReset, busy
<1>3. Booting
    BY <1>1, <1>2, FilterAssumption DEF Init, Booting, unprompted
<1> QED
    BY <1>3 DEF LInv

(* A cycle keeps the invariant, and is one of the line: a read takes the   *)
(* head of the queue.                                                      *)
LEMMA LinkCycle ==
    ASSUME IInv, IInv', LInv, Tolerates(host_divisor), InTime,
           NEW access \in BOOLEAN, NEW starts \in BOOLEAN, NEW noise \in BOOLEAN,
           Cycle(access, starts, noise)
    PROVE  LInv' /\ (access /\ at \in Reads => queue # <<>> /\ Head(queue) = rx.saved)
<1>1. Software(access) /\ since' \in 0 .. Latency
    BY DEF Cycle, IInv, UploadTypeOK
<1>2. CASE at = "done"
    <2>1. ~ access /\ at' = at
        BY <1>1, <1>2 DEF Software, Compute
    <2> QED
        BY <1>2, <2>1 DEF LInv
<1>3. CASE Booting
    <2>1. 3 <= Filter
        BY DEF Tolerates
    <2> QED
        BY <1>3, <2>1, BootStep DEF LInv
<1>4. ASSUME NEW b \in Byte, Receiving(b), at # "done"
      PROVE  LInv' /\ (access /\ at \in Reads => queue # <<>> /\ Head(queue) = rx.saved)
    <2> DEFINE line == IF noise THEN 0 ELSE uart_write(host)
    <2>1. PICK byte \in Byte : Serves(b, access, starts, byte, line)
        BY <1>4, ServesCycle
    <2> HIDE DEF line
    <2>2. access /\ at \in Reads => queue # <<>> /\ Head(queue) = rx.saved
        BY <2>1, QueuedStep
    <2>3. at' # "done" => \E new \in Byte : Receiving(new)'
        BY <1>1, <2>1, ReceivingStep
    <2>4. LInv'
        BY <2>3 DEF LInv
    <2> QED
        BY <2>2, <2>4
<1> QED
    BY <1>2, <1>3, <1>4 DEF LInv

LEMMA LinkStutter == ASSUME LInv, UNCHANGED vars PROVE LInv'
<1>1. UNCHANGED <<soc, software, environment>>
    BY DEF vars
<1>2. Booting => Booting'
    BY <1>1 DEF soc, software, environment, Booting, busy
<1>3. ASSUME NEW b \in Byte, Receiving(b) PROVE Receiving(b)'
    <2>1. Index' = Index /\ HostPos' = HostPos /\ NextBit' = NextBit /\ RxPos' = RxPos
        BY <1>1 DEF soc, environment, Index, HostPos, NextBit, RxPos
    <2>2. /\ Fresh' = Fresh /\ Saving' = Saving /\ InFlight' = InFlight /\ Unread' = Unread
          /\ busy(host)' = busy(host) /\ busy(tx)' = busy(tx) /\ Serving' = Serving
        BY <1>1 DEF soc, software, environment, Fresh, Saving, InFlight, Unread, busy, Serving
    <2>3. Lockstep'
        BY <1>1, <1>3, <2>1, <2>2 DEF Receiving, Lockstep, soc, environment
    <2>4. Sends(b)' /\ Settled(b)'
        BY <1>1, <1>3, <2>1, <2>2 DEF Receiving, Sends, Settled, soc, environment
    <2>5. Taken(b)' /\ Queued(b)'
        BY <1>1, <1>3, <2>2 DEF Receiving, Taken, Queued, Flying, soc, environment
    <2>6. SaveIn' = SaveIn /\ Work' = Work /\ TxLeft' = TxLeft
        BY <1>1, <2>2 DEF SaveIn, Work, TxLeft, soc, software
    <2>7. Due(Work, since)' = Due(Work, since) /\ Horizon' = Horizon
        BY <1>1, <2>2, <2>6 DEF Due, Horizon, software
    <2>8. OnTime' /\ Echoes' /\ Held'
        BY <1>1, <1>3, <2>2, <2>6, <2>7 DEF Receiving, OnTime, Echoes, Held, software
    <2> QED
        BY <1>1, <1>3, <2>3, <2>4, <2>5, <2>8 DEF Receiving, soc, environment
<1>4. at' = at
    BY <1>1 DEF software
<1> QED
    BY <1>2, <1>3, <1>4 DEF LInv

(* What the monitor and its host do is what Link allows.                   *)
LEMMA LinkRefines ==
    ASSUME IInv, NEW access \in BOOLEAN, NEW starts \in BOOLEAN, NEW noise \in BOOLEAN,
           Cycle(access, starts, noise),
           access /\ at \in Reads => queue # <<>> /\ Head(queue) = rx.saved
    PROVE  Serial!Next
<1> DEFINE reads == access /\ at \in Reads
<1>1. PICK byte \in Byte : History(reads, IF starts THEN <<byte>> ELSE <<>>)
    BY ByteTypes DEF Cycle, Sending
<1> DEFINE sends == IF starts THEN <<byte>> ELSE <<>>
<1>2. sends \in {<<>>} \cup {<<one>> : one \in Byte}
    OBVIOUS
<1>3. Software(access)
    BY DEF Cycle
<1>4. ch' = IF reads THEN rx.saved ELSE ch
    BY <1>3 DEF Software, Access, Compute, Setup, Putchar, Getchar, Poll, Goto, Reads
<1>5. CASE reads
    <2>1. queue' = Tail(queue) \o sends /\ received' = received + 1
        BY <1>1, <1>5 DEF History
    <2>2. Serial!Receive
        BY <1>4, <1>5, <2>1 DEF Serial!Receive
    <2> QED
        BY <1>2, <2>1, <2>2 DEF Serial!Next
<1>6. CASE ~ reads
    <2>1. queue' = queue \o sends /\ received' = received
        BY <1>1, <1>6 DEF History
    <2> QED
        BY <1>2, <1>4, <1>6, <2>1 DEF Serial!Next
<1> QED
    BY <1>5, <1>6

(* The monitor reads the bytes of the host, each once and in order, for    *)
(* bytes of any length, any average and any two divisors, as long as the   *)
(* receiver tolerates every host there may be and the software keeps the   *)
(* pace of the line.                                                       *)
THEOREM LinkImplemented ==
    InTime /\ (\A h \in HostDivisors : Tolerates(h)) => (Spec => ImplementsLink)
<1> SUFFICES ASSUME InTime, \A h \in HostDivisors : Tolerates(h)
             PROVE  Spec => ImplementsLink
    OBVIOUS
<1>1. Init => LInv /\ Serial!Init
    <2> SUFFICES ASSUME Init PROVE LInv /\ Serial!Init
        OBVIOUS
    <2>1. 3 <= Filter
        BY DEF Init, Tolerates
    <2> QED
        BY <2>1, LinkInvInit DEF Init, Serial!Init
<1>2. IInv /\ IInv' /\ LInv /\ [Next]_vars => LInv' /\ [Serial!Next]_(Serial!vars)
    <2> SUFFICES ASSUME IInv, IInv', LInv, [Next]_vars PROVE LInv' /\ [Serial!Next]_(Serial!vars)
        OBVIOUS
    <2>1. Tolerates(host_divisor)
        BY DEF IInv, UploadTypeOK
    <2>2. ASSUME NEW access \in BOOLEAN, NEW starts \in BOOLEAN, NEW noise \in BOOLEAN,
                 Cycle(access, starts, noise)
          PROVE  LInv' /\ Serial!Next
        BY <2>1, <2>2, LinkCycle, LinkRefines
    <2>3. CASE UNCHANGED vars
        BY <2>3, LinkStutter DEF vars, environment, software, Serial!vars
    <2> QED
        BY <2>2, <2>3 DEF Next
<1> QED
    BY <1>1, <1>2, UploadInvariant, PTL DEF Spec, ImplementsLink, Serial!Spec
=============================================================================
