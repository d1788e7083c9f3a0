# HF-RISC and its real-time kernel: TLA+ specifications and proofs

HF-RISC is a small RISC-V (and MIPS) processor with peripherals, a C library,
a simulator and, under `tp1/`, a real-time kernel written for it. This
directory keeps a formal model of the parts whose state is hard to get right:
TLA+ modules, TLC configurations and proofs checked by TLAPS. Paths are
relative to the repository; `PROJECT.json` maps each definition that models
code to its lines.

## The parts of the system

| Part | State it keeps | Operations | Who it talks to |
|---|---|---|---|
| Real-time kernel, `tp1/app/rt.c` | task list, fields of each task, running task, `rt_time`, the contexts `rt_jmp` | `rt_create`, `rt_add_task`, `rt_del_task`, `rt_start`, `rt_context_switch` and getters | called by `main`, by tasks and by the timer interrupt; calls list, `malloc`, `setjmp`/`longjmp` |
| Application, `tp1/app/scheduler.c` | none that matters | adds tasks, starts the kernel; a task saves itself with `setjmp` and spins | kernel |
| List, `tp1/lib/list.c` | singly linked cells with a dummy head | append, insert, remove, get, set, count | `malloc` |
| Heap, `tp1/lib/malloc.c` | chain of block headers, `last_free` | `heap_init`, `malloc`, `free` | everyone |
| Interrupt dispatch, `tp1/lib/riscv/crt0.s`, `tp1/lib/interrupt.c` | a frame on the stack of what was interrupted | `_isr`, `irq0_handler`, `_restore`, `_exception`, `longjmp` | processor and timer below, handlers above |
| Simulator, `tools/sim/hf_riscv_sim` | processor, interrupt, timer and GPIO registers | one instruction and one tick of the peripherals per cycle | runs all of the above |
| Cache simulator, `cache.c` | a line per set, counters | read, write | simulator |
| Core, `core_rv32i/datapath.vhd` and its parts | program counters, decoded instruction, delay registers, register file | a clock cycle | memory, interrupt controller |
| Interrupt controller, `int_control.vhd` | IRQ_STATUS, IRQ_EPC, a state machine | a clock cycle | core, peripherals |
| UART, `uart.vhd` and its registers in `basic_soc.vhd` | shift registers, delays, a byte received | a clock cycle; read, write, divisor | core, serial line |
| Console, `libc.c`, and monitor, `tp1/boot` | upload in progress | `putchar`, `kbhit`, `getchar`; command loop | UART, host |
| Drivers: `spi.c`, `25lcxx.c`, `mcp23s17.c` | pins of PORTA | transfers bit by bit | SPI slaves |
| SPI and XTEA controllers, larger SoCs | registers | clocked processes | core |
| Library: rest of `libc.c`, `math.c`, `fixed.h` | almost none | arithmetic, strings | everyone |

What is hard here: the timer interrupt runs the scheduler, and the scheduler
never returns, it leaves through `longjmp`, so whatever it interrupted is
abandoned; counters compared with `==` only; causes that toggle, so that two
events cancel; a service routine that enables interrupts two instructions
before it is out; a heap whose blocks merge lazily; a pipeline that has to drop
the right words and name the right address when an interrupt meets a jump, a
load or a wait state; and a serial line whose two ends have clocks of their own.
What makes the parts correct:

* kernel: the tick goes to the shortest period that can run, no task exceeds
  its budget, every accepted task meets its deadlines and keeps running, every
  `longjmp` goes to a context that was saved;
* heap: the blocks tile the pool, areas in use do not overlap, a refusal is
  justified, every call returns;
* interrupts: no event is absorbed or invented, no tick is lost if handlers
  are shorter than a period, the way out of `_isr` is not interrupted;
* core: every instruction takes effect once and in order, an interrupted program
  is resumed where it was, a request is taken in the end;
* upload: the monitor reads what the host sends, each byte once, and comes to
  an end.

## The modules

    RateMonotonic      Allocator                 Isa     Link     what is promised
         ^                 ^                      ^        ^
    RtRefinement         Heap                    Core    Upload   the components
         |                                        |        |
      RtKernel <- RtTiming   TimerIrq LinkedList  IntControl, Uart
                                                  Rv32i           their parts
    RtKernelProofs, RtRefinementProofs, RtTimingProofs, HeapProofs,
    LinkedListProofs, TimerIrqProofs, CoreProofs, UploadProofs    proofs
    MCRtRefinement, MCRtTiming, MCTimerIrq, MCLinkedList, MCCore, MCUpload,
    RtDocumented

**RtKernel** is `rt.c`. `AddTask`, `DelTask` are the calls of the application;
`StartInit`, `StartSlot`, `StartClock` cut `rt_start` at its jumps through slot
0, as each pass is a task function that saves itself and jumps back;
`ContextSwitch` is a tick, the whole of `rt_context_switch`. `Elected` states
the outcome of the election loop, and `Scan` is the loop as written: `Visit` is
its body, `scan[i]` what it holds after `i` cells of the list; the
property `ScanAgrees` says they are the same on every step. An entry of
`rt_jmp` is the name of the code whose context it holds, "unset" if nobody
saved one there; `cpu` is where the last `longjmp` went.

Two remarks on its grain. A tick is one action because the interrupt runs with
interrupts off up to the `longjmp` that ends it (`TimerIrq` looks at the few
instructions where that is not so). A call of a task is one action although a
tick may abandon it: `rt_add_task` links the finished cell by one store at its
end (`list.c:31`) and then increments `rt_running_id`, which the abandoning tick
overwrites anyway without having read it; `list_remove` has one store to the
list. Abandoned before that store, a call leaves no trace but lost memory;
after it, it is complete. `LinkedList` checks this argument, and `Heap` that an
abandoned `malloc` or `free` does no harm either, but for the three stores of
`malloc.c:42-46`: see below.

The idle task's `executed` is left out: nothing but a comparison with its
capacity -1 reads it. Deadlines and names do not take part in scheduling, and
the kernel's allocations are taken to succeed.

**RateMonotonic** is the scheduler the kernel promises: fixed priorities by
period, a budget of ticks refilled at multiples of the period once it is used
up. **RtRefinement** instantiates it with the budget as what is left of the
capacity; list order, task states and contexts disappear.

**RtTiming** adds two history variables to RtKernel: the ticks a task got in its
present window and the ticks since its last release. Its properties speak of
time: bandwidth, deadlines by response-time analysis, recurrence.

**RtDocumented** states what the comments of `rt.c` and `sys.h` say and the code
does not do.

**Heap** is `malloc.c`, with an action per turn of malloc's three loops and
sizes in words. Only headers on the chain are kept. The caller frees what
`malloc` returned, once. `Rest` gets the size the code really computes, from a
field it has just overwritten: -8 bytes, -2 words here. `AbandonFree` and
`AbandonMalloc` are ticks that end a call for good: `free` with `last_free` not
yet reset, `malloc` between two turns, between the two stores of a merge, or
with `last_free` set and nothing cut yet. Left out are the stores of lines 42
to 46: there `p->next` leads to a header not yet written, what a search finds
behind it depends on the bytes of the pool, and nothing in the kernel keeps a
tick away. **Allocator** is the promise.

**LinkedList** is `list.c` at the grain of its loads and stores: cells with
`next` and `elem`, one call at a time, and `Abandon`, a tick that ends the call
anywhere, after which the kernel reads the list as it is. `malloc` may refuse
and returns cells with their old contents; `free` is whole. `order` and `lost`
are history: the cells put on the list, and those that an abandoned call held.
`Whole` says that the pointers always spell `order`, `Accounted` that no cell is
in two places, `Positional` that what a call does by following pointers is what
its position says by counting. The last is what RtKernel's `Append` and
`RemoveAt` rest on; it also shows that `list_insert` appends at positions 0 and
below. `Limit` bounds `i`; no list of the cells there are reaches it.

**TimerIrq** is the path of a tick: an action is a cycle of the simulator, an
instruction followed by the peripherals (`Clock`). The software is cut into
segments, each with a number of plain instructions (`Plain`, of a length given
by the constant `Length`) and one that touches a modelled register: the read
of the cause by `_isr`, the reads and the acknowledging store of
`irq0_handler`, the two stores that enable interrupts, the jump back. The
delay line of IRQ_STATUS is kept in full. `raised` is history: events less
calls of their handler. It is the processor as the simulator has it; Core below
is the one of the hardware, and the two differ around interrupts (see Findings).

**IntControl** is `int_control.vhd`, an operator for each clocked process. The
state machine is two registers deep, as the next state is a register in the
code, so a state is left two cycles after its condition holds. **Rv32i** has the
instructions as the core tells them apart: the outputs of `control.vhd` by class
of opcode. Opcodes that differ only in the operation of the ALU or the width of
the data are one class, whose operation is an addition and whose data are words.
**Core** is `datapath.vhd` with them and with the memory of the test benches: a
step is a clock cycle, every combinational signal is an operator with its name
in the code, every clocked process an operator on primes.

`stall` is what `spi_sram_ctrl` does. It sees addresses, not what they are for:
`rd` and `wr` come from the address on the bus alone
(`spartan3e_nexys2_standard_soc_ext_sram.vhd:87-88`, the same in
`hf-riscv_basic_standard_soc_ext_sram_tb.vhd:79-80`), so an instruction fetched
from the memory behind it (`External`) stalls the core as an access to data
does. `requested` is `rd` or `wr`; while it holds, and until the controller has
the word, which takes any number of cycles, the core is stalled (`MayBe`). In
the cycle in which a stall ended `stall_dly2` still holds back `rd` and `wr`, and
what is addressed there is lost (`ignored`): a store is dropped and a load gets
the word that is on the bus. The proofs show that this never happens, as the
core never has two addresses of `External` in a row. The bus is
that of the board (line 89); the test bench leaves `stall_dly2` out of the choice
of the word it returns.

Four variables are history: `arch` and `next` say where the instruction to
complete next is, of the machine and of the program without `_isr`; `valid` tells
a word fetched from a bubble; `inside` says that no instruction has been fetched
from `External` yet, and `stays` that this holds after the cycle, too. What the
core does behind such a fetch is not what the instruction set says (Findings,
`doc_external`), so the properties that compare the two are about a program up to
then. `InstructionAddressed` is about all of it.

**Isa** is the processor software sees, from `cycle()` of the simulator: an
instruction after the other, an interrupt between two. Core is shown to
implement it twice. `ImplementsMachine` has the whole machine, `_isr` included;
`ImplementsUser` has only the program, its registers and its data, and no
interrupts: what `_isr` does and where it goes back to does not show. `Isr` is
`_isr` reduced to what it does with IRQ_EPC, its frame and IRQ_STATUS
(`crt0.s:43-99`); `Software` and `Serves` are what the hardware asks of the code
in memory. **MCCore** has the programs and the start-up sequence, and an ASSUME
that they are as asked.

**Uart** is `uart.vhd`, the transmitter and the receiver as functions from
registers to registers. **Upload** composes it with the registers of
`basic_soc.vhd`, the polled console of `libc.c`, the command `u` of
`monitor.c` and a host. A step is a clock cycle of the SoC, in which the
software may make its next access (`at`); the cycles in between are bounded by
`Latency`. The host has a transmitter of the same kind with a divisor of its
own, waits for the prompt and sends `Total` bytes; between two of them the line
may be disturbed for one cycle, which the averaging of the receiver is there to
absorb. Two details matter and are kept: any access to UART0 takes the byte that
was received, a write too; and the receiver, whose divisor is 0 after reset,
invents a byte then, which the `UART0 = 0` of `irq_enable` and `setup_uart`
discards by the same rule. `queue` and `received` are history. **Link** is what
a serial line promises: a queue. `Tolerates` and `InTime` say of the constants
how far the clock of the host may be off and how fast the software has to be for
that; **MCUpload** has an ASSUME that those of the run are within both.

## The runs

| Run | What it asks | Bounds |
|---|---|---|
| `rt_refinement` | types, budgets, bandwidth, priority, preemption, loop against outcome, implementation of RateMonotonic; tasks added and deleted at any time | 3 tasks, periods 0, 2, 3 and capacities 0, 1, 2, so that refused tasks and coprime periods occur; wrap at 3, which is inside a window of 3 |
| `rt_deadlines` | deadlines of every task set the analysis accepts, recurrence of its jobs, release spacing, dispatch slots | 3 tasks in every order, periods 0, 2, 3, 4, 6, so that refused, coprime and harmonic ones and one longer than the idle period of 5 occur; 12 values of `rt_time`, a multiple of every period. `MCRtTiming` has the objects allocated in their order, which is a symmetry |
| `heap` | chain, areas, refusals, termination, Allocator, whatever calls ticks abandon | pool of 14 words, up to six blocks, requests of 0, 1, 3 |
| `list` | the list is whole at every store, cells are accounted for, positions mean what they count, calls return | 3 cells, 2 items, positions -1 to 3: before, in and past every list |
| `tick_fast` | no tick lost or left, interrupts only tasks that ran, exceptions only by ecall | period of 54 cycles, path of about 40 with handlers of 3 to 14 |
| `tick_slow` | parity of the cause, way out of `_isr` | period of 18 cycles, handlers of 4 to 22 that switch or return; 3 nested frames, 4 events counted |
| `core` | types, exact IRQ_EPC, the instruction set with and without `_isr` in view, the address of the instruction executed, `_isr` not interrupted, requests taken | every program of three instructions of nine kinds, an addition and a jump back; two of them jump to the external memory and to the word before it; interrupts at any cycle, stalls of two cycles or more for data and instructions; words 0 .. 31 |
| `upload` | types, console protocol, the line as a queue, the upload complete | 3 bytes of 2 bits; a bit of 8, 9 or 10 cycles on one side and 9 on the other; up to 3 cycles between accesses, 2 between bytes |
| `doc_saved_jump` | every jump goes to a saved context | 3 tasks, one deleted before `rt_start` |
| `doc_disable` | clearing IRQ_STATUS disables interrupts | `core` with that store in the programs |
| `doc_isr_window` | `_isr` is not interrupted | `core` with system calls in the programs |
| `doc_external` | a program goes on in external memory when it jumps there | additions and the jump of `core` into that memory |

Three tasks are the fewest for which a third one's preemption can disturb the
order of two others; longer lists only repeat that. A count of events above
`Cap` is reduced by two, which the parity of a toggled cause cannot tell from
the full count. The segments of `MCTimerIrq` are shorter than the code and the
period with them: what matters is the order of an event and an instruction,
and the lengths of the handlers, which vary from tick to tick, and the moment of
an ecall shift the phase of one against the other. `Bits` is 4 instead of 32, above the timer's bit 2.
`CHECK_DEADLOCK FALSE` is set where a jump to an unsaved context has no defined
continuation, and in the slow timer run, where `MaxDepth` stops the nesting.

In `core` the jump called `edge` goes to a word with `External` behind it, so
that a fetch is stalled while nothing but `stall_reg` drops the word before it. No
board has memory there; elsewhere a fetch from `External` comes from a jump, and
`bds` drops the word, too.

Three instructions and a loop around them put every class next to every other,
behind and in front of a jump, and let a branch skip one; that is the depth of
the pipeline. `_isr` is longer than that, so that the next request can come at
any of its words. In `upload` two bits are the fewest whose order can be wrong,
and three bytes the fewest with a '#' between two (`Echo` 2) and one that arrives
while it is printed; the host is off by a tenth, which the sampling in the middle
of a bit just tolerates over a byte as short as this. `Timeout` is longer than
what a byte and a gap take, as in the code, where it is a hundredth of a second
of polls or more. In the code the software needs tens of cycles
from poll to poll and a bit takes hundreds; the ratio is the same.

In `rt_deadlines` 12 is a multiple of every eligible period. With the 2^32
values of the code, periods that do not divide 2^32 see one short window at
the wrap, after 248 days of 10 ms ticks. Up to then the theorems below cover
them too.

### Findings

* `doc_saved_jump`: a deletion before `rt_start` makes the last id exceed the
  slots allocated; its first dispatch jumps through memory nobody wrote.
* `doc_disable`: the controller looks at IRQ_STATUS before it starts a request
  and the core does not look at it again, so the store of `_di()` may be followed
  by one interrupt. Without such a store it does not happen: the theorem
  `AcknowledgedEnabled` has it so for every program without system calls.
* `doc_external`: a jump into the memory behind `spi_sram_ctrl` does not get far.
  The fetch stalls; in the cycle in which it ends `stall_reg` is set, and `pc` is
  loaded from `pc_last` (`datapath.vhd:73`), the word fetched before the stalled
  one, which is one behind the jump. One word of the external memory is executed,
  the pipeline then goes on behind the jump. The repository runs programs
  there: `hf-risc_spi.ld:8` puts `.text` at 0x30000000,
  `bootloader_sim.c:12-18` copies a program to `EXT_SRAM` and calls it, and the
  commands `e` and `b` of the monitor do (`monitor.c:70-73`, `103-105`).
* `doc_isr_window`: a system call clears IRQ_STATUS, but a request that was
  already on its way is raised while `_isr` runs for the call. It is taken in
  the first words of `_isr` and overwrites IRQ_EPC; the program is not resumed. A
  request can likewise come between the store with which `_isr` enables
  interrupts after a call and its jump back (`crt0.s:97-99`): after an interrupt
  the state machine has to leave `irq_done` first, which takes as long, but after
  a call it starts from `irq_idle`.
  Without system calls `ServiceUninterrupted` holds.

Other divergences need no run:

* `element` is read from the head of the list on each pass of `rt_start`
  (`rt.c:127`), so every slot resumes the first task's function, where
  `latex/main.tex:69` has each its own; the example application passes the same
  function to all. `function` and `StartSlot` of RtKernel have it so.
* `rt_del_task` takes a position of the list where an id is documented, a
  preempted task keeps the state RUNNING, and a task added after `rt_start` takes
  the id of the running one.
* A second CTC event between an interrupt and the reading of its cause brings
  the cause to zero, and `_isr` (`crt0.s:74`) takes it for a system call. It
  needs handlers of about a period: `ExceptionIsEcall` holds in `tick_fast`.
* An ecall of the simulator in the cycle a tick becomes pending enters `_isr`
  once, as the tick, and is not served (`hf_riscv_sim.c:252`, `README.md:70`).
* In the pipeline the instruction behind an ecall has been fetched and the call
  does not wait for a request being acknowledged (`datapath.vhd:272`). The
  theorems about the core are about software without system calls, which is
  what the real-time applications are.
* A host that does not wait for the prompt can lose a byte: a '>' or a '#'
  written while one waits takes it (`basic_soc.vhd:188`).

### Fairness

`JobsRecur` assumes that `rt_start`'s steps are taken and that the timer keeps
ticking: it is a counter of the hardware, and `TicksHandled` shows that each of
its events gets to the handler. `MallocReturns` assumes that a call that began
goes on: `malloc` waits for nobody; `CallsReturn` assumes the same of a call of
`list.c` that no tick abandons. `TicksHandled` assumes that the processor
does not stop, which is what a cycle is. `RequestTaken` assumes that the clock
runs and that a stall ends, of data or of an instruction: the controller counts
the bits of a transfer. `UploadComplete`
assumes the clock only; that software and host go on is a bound of theirs
(`Latency`, `MaxGap`), as both poll and wait for nothing else.

## The proofs

All theorems are about arbitrary constants, under the ASSUMEs of the modules.

* **RtKernelProofs** (`KernelTypes`, `KernelBudgets`): the invariant is TypeOK,
  BudgetInv and `Setup`: what the checks of `rt_add_task` left true of every
  task (period at least capacity, both positive), zeroed memory of objects not
  yet allocated, the idle task as `rt_start` set it up. Without `Setup` a tick
  could elect an object whose budget was never set. `SwitchFacts` says what a
  tick does to each task, and is what the other proofs cite.
  `KernelPriority`, `KernelPreemption` are action properties from the same
  invariant. `KernelDispatch` assumes `StaticTasks` (no additions after and no
  deletions before `rt_start`; `doc_saved_jump` shows that it is needed) and
  adds `SlotInv`: ids are 0 .. count - 1, slots are filled in order.
* **RtRefinementProofs** (`KernelRefines`): each action of the kernel is an
  action of RateMonotonic or leaves its variables unchanged.
  `KernelScan` (`ScanAgrees`) is about lists of any length: `Least` says that a
  set of numbers that is not empty has a least element, so if `scan` were wrong
  somewhere there would be a first cell at which it is (`ScanSteps`,
  `ScanKeeps`). `ElectedOnce` has the order of the list break ties.
* **RtTimingProofs** (`TaskBandwidth`): in a window a task has used at most
  `executed`, as a release happens only at the start of one. `ReleasesSpaced`
  (`ReleaseSpacing`): a count of ticks since a release is a multiple of the
  period whenever `rt_time` is (`SInv`), so the next release is a period later
  at least. It assumes that tasks are added before `rt_start`, as an object of a
  task added later has no release behind it, and `Steady`: `rt_time` has not
  wrapped yet, or every period divides the number of its values
  (`WrapsAtPeriods`), in which case the wraps do not show. For other periods
  the code does not have it at the wrap. `rt_deadlines` meets both.

  `FeasibleDeadlines` (`DeadlinesMet`) is response-time analysis, proved: if
  within some `r` ticks, no more than a period, `t` and the tasks of no longer
  period can be given all they may ask for (`Demand(t, r) <= r`), `t` is never
  short of its budget at a release. It assumes `Steady` and that tasks are
  neither added nor deleted once the timer runs. The argument is an account of
  the present busy time (`Busy`): the last `a` ticks all went to the level of
  `t` (`Level`), `got[u]` of them to `u`, which had `jobs[u]` releases in them,
  and before them the level was owed nothing. It is kept by every tick: while
  somebody of the level is owed ticks the level gets the next
  one (`LevelGetsTick`), a release and a tick are entered in the account
  (`DueTick`, `OwedTick`, `AccountTick`), and when `a` reaches `r` the demand is
  spent, so that nothing is owed and the account starts again (`Saturated`).
  Hence a busy time never lasts `r` ticks; at a multiple of the period of `t` it
  began after the last one, and has no release of `t` in it, so `t` is owed
  nothing. The sum over the level is a fold of the library, of which
  nothing is known but its definition: `SumExists` shows that the recursive
  function it chooses exists, `SumFacts` and `SumBound` compare sums by the
  smallest subset on which they would differ (`LeastSubset`).
* **HeapProofs** (`HeapTypes`, `HeapChained`, `HeapRefusal`, `HeapRefines`): the
  invariant adds to the chain where malloc is in its search: all rows of free
  blocks before `q` are known too small (`Seen`), a row is not cut at `q`
  (`Boundary`), and the blocks from `q` to `p` are free. It asks nothing of the
  sizes of free blocks and of where `last_free` is but for being a header, which
  is why a call may be abandoned.
* **LinkedListProofs** (`ListTypes`, `ListWhole`, `ListAccounted`,
  `ListPositional`): `Spells` says that the pointers spell a sequence. Three
  lemmas say what a store does to what they spell: to a cell aside nothing
  (`StoreAside`), behind a cell it inserts (`StoreHook`), around one it removes
  (`StoreUnlink`). The invariant adds how far each call has counted (`Linking`,
  `Finding`): after `i` turns `t2` is the `i`-th cell and `pos` is none of the
  positions passed. Each store takes it from one list to another, so it does not
  matter behind which of them a tick ends the call.
* **TimerIrqProofs**: for `IrqTypes`, `Parity`, `LeavesAtomically` the invariant is
  that interrupts are off, with an empty delay line, from the entry to the
  store of `_restore`, and stay off for the two instructions that follow. That
  rests on `LeaveAssumption`, the two instructions of `crt0.s:98`; from it follows
  that only tasks and `longjmp` are ever interrupted, hence every service
  routine has its frame. `ClockKeeps` carries the parity over a cycle.
  `NoTicksLost`, `ExceptionsAreEcalls` and `TasksInterrupted` assume
  `ShortHandlers`: the longest way of an event, with the longest handler and the
  system call it may wait for, takes no more than a period. `tick_fast` meets it
  (`LengthsAssumption`); `tick_slow` does not, and loses events. Their
  invariant `DInv` bounds by `Remaining` the cycles from any point of the way to
  the call of the handler, counting `Wait`, the rest of the delay line, and
  `OnTime` says that they are over before TIMER1 is back at CTC. Each cycle takes
  one off both, so there is never a second event unhandled, `_isr` never reads a
  cause that is gone, and the way back of `longjmp` ends before the next event.
* **CoreProofs** (`CoreTypes`, `InstructionsAddressed`, `EpcIsExact`,
  `MachineImplemented`, `AcknowledgedEnabled`, `ServicesUninterrupted`,
  `UserImplemented`): the first two are about every program, wherever it is
  fetched from. `FetchInv` has the argument for `InstructionAddressed`: never two
  words in a row are fetched from `External`, because a stalled fetch goes back to
  the one before it, and in the cycle after a stall there is a bubble to execute.
  The word in the execute stage was hence on the bus when `pc_last` was its
  address, and was not lost while `stall_dly2` kept the controller from answering.

  The others are about a program up to its first fetch from `External`: `Near` is
  a cycle that has none, and `InsideNear` gets it from `FetchInv` and `inside`.
  In such a cycle only an access to data stalls. They assume `Software`: no system calls, and that the first words of the
  program and of `_isr` may be executed twice, since they are (`crt0.s` says
  "this must be a NOP" of the latter). The invariant puts the pipeline in one of seven phases:
  after a jump (`Jumped`), with a request taken and still up (`Answered`),
  fetching a first word again (`Entering`), executing it for the first time
  (`Entered`), with a bubble, with an instruction, and in the second cycle of an
  access to data (`Accessed`). In each it says where `arch` is with respect to
  the three program counters. `PulseInv` ties the request to the two registers
  of the state machine. From the phases it follows that a step completes the
  instruction at `arch`, or takes the interrupt, or shows nothing; nothing is
  assumed of when requests come and how long stalls take. `AcknowledgedEnabled` also assumes
  that stores to IRQ_STATUS set it (`KeepsEnabled`); `doc_disable` shows that it
  has to.

  The last two are about the program alone, of any length and at any place. They
  assume `Serves`: `_isr` is the eight words of `Isr`, its frame is in memory
  without wait states and the program does not use `s10` and `s11`
  (`-ffixed-s10 -ffixed-s11`); and `Behaved`, of what the program computes: it
  jumps within itself and does not store in the frame, and the start-up in front
  of it runs straight on and enables interrupts with its last instruction.
  `UserImplemented` adds `Unseen`: the start-up does not touch what the program
  sees. The programs of `core` keep to all of it but for the two jumps to
  and before `External`. The invariant `UInv` adds
  where `_isr` has the address to go back to after each of its words
  (`Returning`), and a race (`Timed`): up to its store to IRQ_STATUS the
  controller does not move past `irq_done` (`Quiet`); from then on it is at
  least `Far` cycles from a request, five, and `_isr` at most `Window` cycles
  from its jump being executed, when no interrupt is taken any more. Each cycle
  takes one off both, and `Far` is never the smaller. One wait state in
  the load of the frame and `Window` would stand still: that is why it must not
  be in the external memory. Where interrupts come in the program, and
  whether it stores to IRQ_STATUS itself, does not matter.
* **UploadProofs** (`UploadTypes`, `PutcharIsAccepted`, `GetcharAlwaysFinds`),
  for bytes of any length, any divisors and any pace: between two accesses the
  SoC has taken the first (`Paced`); once seen idle the transmitter stays idle up
  to the write (`Idle`), once seen a byte stays up to the read (`Found`).
  That the flags lag two cycles behind is harmless as the next poll is two cycles
  away at least.

  `LinkImplemented` (`ImplementsLink`) assumes two things of the constants.
  `Tolerates(h)`, of each divisor `h` a host may have: the receiver sees an edge
  `Crossing` cycles late and samples bit `m` at `Middle(m)` or a cycle later, and
  that is when the average has settled on the bit and the next edge is not in it
  yet, for every bit up to the stop bit. With the 8 bits, the filter of 255 and
  the divisor of 434 of the code (25 MHz) the host may have any from 413 to 458,
  5% either way; in `upload` it is 7, 8 and 9, exactly those of the run. `InTime`:
  the five accesses from a byte to its '#' are over a bit before the next byte is
  saved, 781 cycles for each at 434, and `Echo` is 2 at least. The line may
  still be disturbed between bytes, and the host may pause as it likes.

  The invariant `LInv` has three cases: the monitor is done; it is starting
  (`Booting`, up to the prompt, with the byte the receiver invents while its
  divisor is 0 and the access that takes it); or it is receiving some byte `b`.
  Then the receiver counts the cycles since the start bit as the host does, to
  one (`Lockstep`), and anew with every byte, so that the drift is that of one byte
  and what `Tolerates` says of it is enough; what is left in the shift register of the host is the rest of `b`
  (`Sends`); the average is where it got to since the last edge (`Settled`); what
  the receiver has sampled is the beginning of `b` (`Taken`); and `queue` is the
  byte saved, if it is not read, and `b`, if it is on its way (`Queued`).
  Two races keep a byte from being saved over another: `OnTime` bounds the
  accesses the software still has to make by the cycles left before the next byte
  is saved, and `Echoes` says that a '#' is out before the next one, so that
  `putchar()` never waits. The left side of each loses a cycle in a cycle, the right side no more.
  `ReceivingStep` and `BootStep` put the parts together.

Only model-checked: liveness (`JobsRecur`, `MallocReturns`, `CallsReturn`,
`TicksHandled`, `RequestTaken`, `UploadComplete`), which TLAPS has no rules for
here. Every other property of a passing run is a theorem.

## Not modelled

* The pool of the kernel: every tick allocates a task it never frees and uses
  the result of no allocation checked; the kernel and the heap are separate.
* A tick between the three stores with which `malloc` cuts a block
  (`malloc.c:42-46`), and hence what the kernel does on a heap left there.
* Of `spi_sram_ctrl`, how it gets a word: the SPI transfer, bursts and the
  EEPROM; Core has when it stalls and when it does not listen.
* Negative periods and capacities, which no caller passes (`NumbersAssumption`).
* `rt_context_switch_circular` and `rt_setjmp`, which nothing calls.
* Memory contents: the stacks of the tasks, which all start at one frame of
  `rt_start`, and the registers in a frame.
* GPIO interrupts, whose loop in `irq0_handler` (`interrupt.c:206`) has four
  vectors for 32 causes and relies on the mask, and the other timer causes.
* In the core: the operations of the ALU and the shifter, bytes and half words,
  the multiplier of `core_rv32im_nodiv`; masks of the interrupt lines.
* The commands of the monitor other than the upload, and the boot from EEPROM;
  a second UART and the interrupts of the UART.
* `libc.c` but for the console, `math.c`: functions without state. XTEA: a data
  path.
* MIPS, FPGA platforms, benchmarks, riscv-tests: ported, vendored or board
  specific. They are most of the repository's lines: copies of the library for
  other targets, a MIPS disassembler and third-party benchmarks.

## Plan

1. Heap with the words of the pool as memory, to have the ticks between the
   stores of `malloc.c:42-46` and what a search finds in unwritten headers.
2. The kernel on LinkedList and a finite Heap (pool exhaustion).
3. GPIO causes of `irq0_handler`, and the kernel's tick on Core's interrupt
   timing instead of the simulator's.
4. `SpiMaster` with the slave and the bit-banged driver.
5. `CacheSim`: penalties and counters of `cache.c` against a cache with contents.

## Running

    tlc -workers 2 -config RtRefinement.cfg MCRtRefinement
    tlapm RtKernelProofs.tla

and likewise for the other pairs of `PROJECT.json`, "runs" and "theorems".
