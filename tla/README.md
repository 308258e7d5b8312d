# QEMU PALcode: a TLA+ model, its checks and its proofs

The repository is the firmware QEMU loads for its Alpha machines ("clipper").
It has two halves. **PALcode** (`src/pal.S`) is the layer between the processor
and an OSF/1 kernel: it takes traps and interrupts, gives each process its
kernel stack, switches processes, and offers the `CALL_PAL` instructions
(`src/osf.h` is the interface). **The console** (`src/init.c`, `src/console.c`
and the drivers) boots the machine, starts the kernel, holds the secondary CPUs
until the kernel asks for them, and is a small command line when there is no
kernel.

## Inventory

| Component | State | Operations | Interacts with |
|---|---|---|---|
| PALcode, traps (`pal.S`) | PS, kernel stack memory, `usp`, `ptKsp`, entry points, MCES, logout frame | reset and eight hardware entries, trapping CALL_PALs, `rti`, `retsys`, `swpipl`, `wrent`, `wrkgp`, `wrusp`, `wrmces`, `halt` | the guest (user programs, kernel); the Cchip |
| PALcode, processes (`pal.S`) | `ptPcbb`, PCBs, cycle counter and offset, FEN, page table base, unique value, TLB | `swpctx`, `swppal`, `wrfen`, `wrunique`, `tbi`, `UpdatePCB` | traps (stack pointers); the console (`swppal`) |
| Secondary CPUs (`init.c`, `util.c`, `pal.S`) | HWRPB: RXRDY, restart, restart data, IPC buffers, PCS flags; the Cchip's MISC register; QEMU's alarm | `do_start_wait`, `ndelay`, `Ndelay`, `wripir`, acknowledgements | the kernel on CPU 0; every other CPU |
| Serial console (`console.c`, `console-low.S`, `uart.c`, `crb.c`) | the line buffer, the UART, the alarm | `do_console`, `getline`, `uart_getchar`, `entInt`, the console callbacks | PALcode (`wtint`, clock interrupt, `rti`) |
| Boot (`pal.S`, `sys-clipper.S`, `init.c`) | stacks, page table, HWRPB, i8259 | `__start`, `Sys_Setup`, `do_start` and what it calls | every driver; ends in `swppal` |
| PS/2 port (`ps2port.c`) | the controller's mode, `ebda.ps2ctr` | `i8042_command`, `ps2_command`, `keyboard_init` | the i8042; QEMU's clocks |
| PCI (`pci.c`) | configuration space, next free addresses | `pci_next`, `pci_setup_device` | the PCI bus |
| VGA (`vgaio.c`, tables) | the adapter's registers, font and palette; saved registers | `vgahw_init`, the mode set, save and restore, some thirty register functions | the VGA adapter |
| Library (`memset.c`, `memcpy.c`, `strlen.S`, `printf.c`) | memory; the text written | each routine | every caller; `printf` the UART |

What is hard here: one CPU's code is sequential inside PALmode, but interrupts
arrive between any two instructions of the guest and of the console; the kernel
stack, `ptKsp` and the PCBs hold one process's state in three places depending
on the mode; process switches happen with traps in progress; and the CPUs share
the HWRPB and one interrupt register without locks. What makes each part
correct:

- *Traps*: what a return resumes is exactly what the trap interrupted; the
  kernel starts with the entry, IPL and arguments of the cause; stacks stay
  within themselves; user programs are always interruptible.
- *Processes*: a process's registers, time and stacks are its own; nothing
  saved is older than what the process last did; no stale translations.
- *Secondary CPUs*: each starts once asked, with its own restart values; no
  interprocessor interrupt is lost.
- *Console*: it wakes up; it reads what is typed; an interrupt is invisible to
  the code it interrupts.
- *Boot*: the CPUs' stacks are disjoint; the page table maps what the kernel
  expects and nothing else; the memory map hides it from the kernel's allocator.
- *PS/2*: initialisation ends; success means a working keyboard; a command that
  fails anywhere leaves the controller as it was; no byte is taken for another.
- *PCI*: every function is set up once; addresses are aligned and disjoint.
- *VGA*: a function changes the registers its name says and no others, after
  any calls: a value never lands in the index, a mode's values are not lost to
  the CRTC's protection; the CRTC answers where the mode set says; the font is
  loaded whole and text can be written after it. (The CRTC's address is where
  the code fails: see the findings.)
- *Library*: routines that work in words give what loops over bytes would, and
  make no access that traps; every character of a message is written once.

## Modules

| Module | Models |
|---|---|
| `PalState` | the state of one CPU's PALcode; the frame (`STACK_FRAME`), PS and PCB helpers |
| `PalTrap` | entries into the kernel and returns from it; machine checks; halts |
| `PalContext` | `swpctx`, `swppal` and the calls on per-process state |
| `PalCode` | both together with a guest; invariants; refinement of `Contexts` |
| `Contexts` | the abstract specification: a stack of contexts per process, no memory, no frames |
| `MCPalCode` | small instances |
| `PalCodeProofs` | type correctness, stack discipline, PCB and TLB; virtual time, and the refinement of `Contexts` |
| `Cchip` | the interrupt bits of the Cchip's MISC register |
| `SmpStart`, `MCSmpStart`, `SmpStartProofs` | the start of secondary CPUs and interprocessor interrupts |
| `Console`, `MCConsole`, `ConsoleProofs` | the serial console and its clock interrupt |
| `MCInput` | `Console` and `Ps2Port` for TLC |
| `VgaTables` | the ports, the register values of every mode (`vgatables.c`), the list of modes, the palettes |
| `VgaAdapter` | the adapter, external: what a byte to or from each port does |
| `VgaRegisters` | the abstract specification: registers without ports, indices or flip-flop |
| `Vga`, `VgaProofs` | every function of `vgaio.c` over the adapter; refinement of `VgaRegisters`; text mode stays usable |
| `MemRoutines`, `MemProofs` | `memset`, `memcpy`, `strlen`, one memory access a step |
| `Printf`, `PrintfProofs` | `printf`'s conversions; proofs about them and about `Serial` |
| `Serial` | what is written to the serial port: `printf` and the console callbacks over the UART |
| `MCLibrary` | `Vga`, `MemRoutines` and `Serial` for TLC |
| `Ps2Port`, `Ps2Proofs` | the PS/2 driver, with the controller, the keyboard, the mouse and the user |
| `Pci` | the walk over the PCI bus, base addresses, interrupt lines; the search for a VGA |
| `Boot`, `MCBoot`, `BootProofs` | reset to kernel: `Pci` composed with the stacks, the page table and the HWRPB |

### PALcode

PALmode is not interruptible, so every entry point is one action, named after
its label. Frames are values in the map `mem` from kernel addresses; one slot
is one frame (or as much kernel data), one unit of pc is one instruction, the
three argument registers are one triple. The kernel stack pointer of a process
is in `sp` (kernel mode), `ptKsp` (user mode) or its PCB (not running): `Ksp`
in `PalCode` says which, and that is the heart of the proofs.

The guest is external. A user program does anything its mode allows. The kernel
is assumed to register its entry points and global pointer before anything
traps (`KernelReady`), to return with `sp` at the frame it was entered on
(`AtFrame`), to use `retsys`, which does not look at the frame's PS, on a frame
that a user program's trap left (`UserFrame`), to pop only what it pushed, to
pass `swpctx` PCBs in memory, and to `swppal` into another kernel only before it
has set itself up (a kernel that replaces itself; the new one starts over with
the old one's registers; one that has run processes would have to make their
PCBs and stacks anew first, which is not modelled). A guest that breaks these
breaks itself on real hardware too. `swppal` to a variant of PALcode other than
OSF's, at any time, goes on with the next instruction and an error code
(`CallPal_SwpPalUnknown`).

`Contexts` is what this promises a kernel: a trap sets the running context
aside, whole; a return resumes the one set aside last, user contexts at IPL 0;
another process's contexts are untouched. `ImplementsContexts` checks that
`PalCode` implements it: each process's stack of contexts is read off its
kernel stack's frames, with a user context's stack pointer taken from wherever
it is at the time.

### Secondary CPUs

`do_start_wait` is cut at each access to the HWRPB. `ndelay` is two actions:
`Ndelay` starts to wait, `Woken` ends the wait and sees how much time is left,
possibly less than none. The kernel on CPU 0 is external and posts one request
at a time, as the kernels do that run on this firmware: it writes restart,
restart data and message, sets RXRDY, and waits for the bit to clear. This
matters: `rxrdy = 0` clears every CPU's bit, and with two requests in flight
one could be lost. Memory is sequentially consistent; the code has no barrier
between the test of RXRDY and the reads after it.

### Console

`do_console` is cut where an interrupt makes a difference: each CALL_PAL, the
test of the line status, the wait, the handling of a character. `entInt` is
save, handle and restore, between which nothing else runs on this CPU (it is
at IPL 5) but time passes and characters arrive. `r8`, `r19`, `r28` are the
registers whose save slots are wrong (see the findings); `slot9` and `framePs`
are the words they are saved in. `$28` may hold anything, also a value whose
bit of user mode is set: `rti` then installs it as the processor status, the
console goes on as a user program and its next privileged call has no handler,
so the model calls it lost. `InputIsRead` says that this is the only way in
which a character typed is not read: whether the console is usable depends on
what the compiler keeps in `$28`.

### PS/2

The driver is one thread of straight-line code, so its control state is the
list of steps it has still to do, `todo`, which the functions of the code build
(`Ps2Command`, `SendByte`, `Wctr`). A step is a wait and the port access it
ends in; between any two polls the hardware, the keyboard and the user may do
anything. `saved` says whether an error now goes to the label `fail`, and which
mode is written there. A timeout of `i8042_wait_read` or `i8042_wait_write` is
a number of polls, one of `ps2_recvbyte` an event (`Deadline`), since it is a
time. Controller and keyboard are external: they obey, refuse, fail or ignore
each byte. A byte carries, as an auxiliary field, which byte it answers.

### PCI and boot

A function is a record of what its configuration space says; what is present
is the domain of `bus`, so a single-function device that answers for other
functions of its slot is one with more of the domain than it should have. A
register is its kind and its size; `SetRegister` is the body of the loop,
modulo 2^32. `fits` is auxiliary: no address so far has wrapped.

In `Boot` memory is pages of table entries; `Alloc`, `Descend` and `SetPte` are
functions from memory to memory, as the C functions are called inside one
another. Memory above `_end` starts with old data in it. The CPUs start in any
order. `do_start`'s steps that touch nothing modelled (`init_i8259`,
`uart_init`) are left out, and `ps2port_setup` is `Ps2Port`.

### VGA

A function of `vgaio.c` is an operator from adapters to adapters, with the port
accesses of the C code in their order; nothing else in the firmware touches the
adapter, so a call is one action. `VgaAdapter` has what makes the order matter:
the attribute controller's port takes an index and a value by turns until a read
of the status port resets its flip-flop, and an index without bit 5 blanks the
screen; the CRTC answers at the colour or the monochrome address and protects
its registers 0 to 7; the DAC takes three bytes an entry; the processor's window
to display memory depends on sequencer and graphics registers. `vgahw_init` is
called first, on an adapter that some earlier use left in any of eight states,
then a caller makes any calls. `VgaRegisters` says what each call promises in
terms of register contents alone.

`get_crtc` is 0: it returns `BDA.crtc_address`, a field of a static structure
that starts at zero and that nothing stores into. So the cursor, page, scan line
and vertical display functions write and read the ports 0 and 1, where there is
no adapter, and `vgahw_save_state` takes 0 for the address that
`vgahw_restore_state` goes by: a restored state leaves the adapter in monochrome
whatever the mode (`VgaCrtcAddress`). `VgaRegisters` says exactly what is left
of each promise then. The attribute functions reset the flip-flop at 0x3da, which
answers in colour only, so in monochrome nothing is said of the attribute
registers and the screen; a mode set writes the CRTC before the miscellaneous
register selects its address, so a change between mode 7 and a colour mode, or a
mode set after a restore, loses the CRTC's values; a restored state brings back
the sequencer, the graphics and the attribute registers, not the CRTC's.
Only five of the functions are called by the firmware (by `vgahw_init`), the
others are the library it was taken from.

Also modelled as it is: `vgahw_save_state` leaves the color select register
(0x14) out; `vgahw_init` turns the screen off with the value of the next
sequencer register (`sequ_regs[1]` is register 2's), which the second mode set
undoes. The emulated adapter does not enforce the palette address source bit.

### Memory routines

A step of `MemRoutines` is one memory access or one decision of the code;
`load` and `store` are the addresses and widths of the step's accesses. The
Alpha traps on unaligned accesses and the firmware has no handler for that, so
`AccessesLegal` is as important as `Result`. A byte is the set of its bits: the
sums and masks of `memset`, `ldq_u`, `extql`, `extqh` and `cmpbge` become unions
and comparisons. Requests are those C allows: blocks in memory, no overlap
(the downward copies of `memcpy.c` are never called), a terminated string.

### Serial port and printf

`Serial` is a character's way to the line: `uart_putchar_raw` waits for THR, the
UART sends when it likes, and `uart_init_line`, which `crb_reset_term` calls
while a character may still be in THR, turns the data port into the divisor
for three writes. `printf` and `PUTS` are steps between which the UART runs.
`Printf` has the conversions: `print_buf_pad` with a buffer smaller than the
field, signs, padding, and both widths of an integer. A callback's registers are
named by whose value they hold; `crb_dispatch` keeps what VMS code expects and
C code does not.

Modelled as they are: a negative `%ld` writes a minus sign that the count leaves
out, unlike `%d`; the sign comes before the padding; the character of
an unknown conversion is dropped; the least int may be extended with its sign;
what was received is lost when the line is set up again; `VMStoUNIX` does not
keep `$29`. A format that ends in a percent sign would be read past its end:
none of the firmware's does. The divisors of 300 and 150 baud do not fit the
one byte that is written, but only 9600 is asked for.

## Runs

| Run | Question | Instance |
|---|---|---|
| `PalExceptions` | every exception and trapping call sets aside and resumes whole contexts | 1 process, depth 2 |
| `PalInterrupts` | so do interrupts nested at every level, and spurious ones | 1 process, depth 3 |
| `PalSwitch` | stacks and contexts stay apart when processes are switched between system calls, clock interrupts and machine checks | 2 processes, depth 1 |
| `PalProcess` | FEN, page table, TLB, unique value and usp belong to the process, and its virtual time runs exactly while it does | 2 processes, depth 1, counter modulo 4 |
| `SmpStart` | right restart values, no lost interrupt | CPUs 0, 1, 2 |
| `SmpStartLive` | every START answered, every request and interrupt taken | CPUs 0, 2 |
| `Input` | the console: always a tick to come, input read unless the save area loses the console, line and terminal agree; the keyboard: initialisation ends, success means ready, failure restores, no byte is mistaken | buffer of 3, any `$28`; 2 polls, 2 keys |
| `Boot` | stacks, page table, memory map, PCI addresses and lines are right | 2 CPUs, 1024 buses, 2 ends of the firmware |
| `Library` | VGA calls change the registers they name, text mode stays usable; memory routines are right and never trap; output is complete and callbacks answer right | all 16 modes, 3 calls after `vgahw_init`; every alignment, 20 bytes; 8-bit ints, 12-bit longs |

Three further runs find what the code does against what it says:

| Run | Finding |
|---|---|
| `PalMchkReason` | the logout frame's code is MCES, not the reason of the machine check, which overwrites the interrupted program's `t0` |
| `ConsoleSaveArea` | `entInt` saves `$8` and `$19` in one slot, and `$28` over the PS in PALcode's frame |
| `VgaCrtcAddress` | "select crtc base address" in `vgahw_restore_state` selects the monochrome address for a colour mode: the address it goes by is never stored |

A fourth disagreement needs no run: `Pal_Mchk` tests MCES<MIP> ("Check for double
mchk"), but no code sets that bit, so `MchkDouble` is unreachable.

**Bounds.** `Depth` is the number of frames a kernel stack holds. Two are
enough for a trap inside a trap and for a full stack; three let a second
interrupt arrive while a first has interrupted a system call. Two processes are
enough for any confusion of one process with another, one of them may be
switched to itself. Each run raises the causes its question is about
(`Causes`): the trap handlers share their code, and the product of all causes
with processes and interrupts checks nothing more. `CcMod` 4 lets the counter
wrap between and during switches. `PalProcess` follows the counter only where
FEN and the unique values stay as they were (`TimeApart`): no code reads both,
and their product is out of reach. `Cpus` {0, 2} in `SmpStartLive` uses a CPU
number with a bit above the lowest, for the shift in `wripir`; two secondaries
in `SmpStart` let one CPU's request overwrite the other's restart values.
`BufSize` 3 has an empty, a partly filled and a full line. `AnyAtValues` has a
`$28` whose low bits say kernel mode at either IPL the console runs at, and one
that says user mode. `Input` runs the console or the keyboard's driver, since
they share no state; the other part has ended. `Tries` 2 has a poll that is
followed by another and the last one; the key 85 is also the controller's test
result and the mouse's byte is an acknowledgement by its value. In `Boot`, PCI
addresses have 6 bits, so that sizes of 2 to 16 leave gaps, fill the space or
pass its end, and a 64-bit register of size 64 is one of 4 GiB; three slots
have a first device, a second function of the same slot that is real or not,
and a device in the last slot, each with one of four sets of registers, all of
which satisfy `RegisterAssumption`. Pages have four units and tables three
entries; of the two ends of the firmware one is not on a page boundary. CPU 3
has both bits that `Sys_Setup` looks at.

`Library` runs the three parts one at a time, since they share no state: `part`
says which. `MaxCalls` 3 lets one call save, a second change and a third
restore, or one open the font memory and two others follow; every function is
called, in every mode of the list, monochrome ones included. The DAC has 6
entries and all 6 are set from the palette; the font has 2 glyphs: loops over
more do the same again. All alignments of both blocks and up to 20 bytes pass
through every branch of the memory routines. Ints of 8 bits and longs of 12
keep both widths, their signs and edges apart, and a buffer of 8 is smaller
than the widest field; `printf` takes two items at most.

**Deadlock** is checked, except in the PAL runs, where a halted CPU has no step,
in `VgaCrtcAddress`, whose calls end, and in `Boot`, where the code modelled ends.
In `Library` and `Input` only the end may be stuttered in (`Finished`,
`Returned`): a `memset`, a `printf` or a `keyboard_init` that stops half-way, or a
console that stops and is not lost, would be found.

**Fairness** (`SmpStart`'s `Fairness`, `ConsoleFairness`, `Ps2Port`'s
`Fairness`). Each CPU's own code is weakly fair: the processor executes
instructions. `CallPal_WrIpir` and the console's own steps are strongly fair,
because an interrupt handler keeps disabling them for a moment, and no stream
of interrupts is dense enough to starve the interrupted code: ticks are 10 ms
apart. Alarms expire. The kernel finishes a request it began and its handler
returns. Nothing is assumed of the user or of when a kernel sends messages and
interrupts. In the keyboard's part of `Input` the CPU runs and its clock goes
on (weak fairness of `Driver` and `Deadline`); nothing is assumed of the
controller, the keyboard, the mouse and the user.

## Proofs

All theorems hold for every value of the constants that satisfies the
assumptions `PalStateAssumption`, `PalCodeAssumption`, `CchipAssumption`,
`SmpAssumption`, `ConsoleAssumption`, `PciAssumption`, `RegisterAssumption` (sizes
of registers are powers of two, and what follows a 64-bit register is its high
half), `BootAssumption`, `MemAssumption`, `PrintfAssumption` (the
multiplier, and a buffer that holds the digits of any long), `SerialAssumption` (what
`printf` and `PUTS` may be called with), `Ps2Assumption` and `VgaAssumption`
(modes are those of the list), which TLC evaluates in the runs. The guest's
discipline is part of the specification `PalCode`, not an assumption (see
PALcode above).

- `TypeCorrect`: `TypeOK` is inductive; one step per action.
- `StackInvHolds`: `StacksWellFormed` is not inductive alone. A trap from user
  mode writes at `ptKsp`, so one must know that `ptKsp` is the top of the
  running process's own stack (`UserStackEmpty`). `ptKsp` gets this value from
  `rti` or `retsys`, which set it to one above the frame they pop; that is the
  top because a frame with a user PS lies only in the topmost slot, which is
  `StacksWellFormed`. The two need each other, `swpctx` needs the PCB of a
  process that is not running to hold its stack pointer, and `BootReady`
  makes it true from the start: until a kernel is set up nothing is on any stack,
  whoever `swppal` starts. With `UserAtIplZero` and `PcbCurrent` this is
  `StackInv`. From it follow `StacksSafe`, `UserStacksEmpty`,
  `UserInterruptible`, `PcbIsCurrent`, `UserTrapsFindSlot` (so a halt out of
  PALmode only ever comes from the kernel's own stack overflow), and
  `TlbIsCurrent`.
- `ContextsImplemented`: `PalCode` implements `Contexts`. `StackOf` lists the
  contexts of a process's frames in the order of their addresses, the i-th being
  the one of rank i; ranks are cardinalities of finite sets, so that a push below
  all frames puts one context in front (`ListedPushed`) and a pop takes it off
  (`StackPopped`) without induction. On top of `StackInv` only the entry points
  are needed (`EntOk`: `wrent` stores the handler of its selector). Then one
  lemma per kind of step: an entry pushes the interrupted context, whole
  (`EntryIsTrap`, by cause in `ExceptionIsTrap` and `InterruptIsTrap`); `rti` and
  `retsys` resume the topmost (`PopIsReturn`); `wrusp` moves the stack pointer of
  the last context, the user's (`WrUspStep`); `swpctx` moves no stack
  (`SwitchStep`), for what the left process had in `sp` and `usp` is what its PCB
  gets; everything else is the program's own work (`StillIsWork`).
- `ProcessStateIsKept`, `VirtualTimeIsKept`: action properties, by the kinds of
  step that touch a PCB or the counter (`ProcessStep`). The second is arithmetic
  modulo `CcMod`: remainders may be taken early (`SumReduced`), so the offset
  `swpctx` computes continues the counter from the PCB's value
  (`CounterContinues`) if that value is a remainder itself (`PccReduced`).
- `SecondariesStartAsAsked`, `InterruptsNotLost`: `StartsAsAsked` needs to know
  that between the kernel's post and the clearing of RXRDY the HWRPB holds the
  target's request (`OneRequest`), that a CPU past its test of RXRDY is the
  target (`Taking`), and that what it has read is what was written (`Taken`).
- `ConsoleNeverSleepsForEver`: `AlwaysATick` is inductive with the fact that
  the console is set up before it enables interrupts.
- `LineStaysInBuffer`, `TerminalShowsLine`: the terminal's line and the buffer
  agree at every place of `getline` but between the two halves of a character's
  handling; `LineInv` says where they may differ and by what (`CharHeld`), and
  that the position stays below the buffer's last byte.
- `PciAddressesGivenOnce`: `RegionsDisjoint` is inductive with the fact that
  every address given lies below the next free one (`PciInv`); the step is
  `AlignUpBounds`, which holds for any alignment, not only powers of two.
- `PciFunctionsOnce`: `WalkInv` says which functions are enabled (those before
  `bdf`) and where the walk may stand: at function 1 only of a multi-function
  device, at a later one only of a slot whose function 0 is there. It needs the
  arithmetic of slots (`Slots`) and that no function is passed over
  (`NothingSkipped`).
- `EnabledDevicesUsable`: `DeviceInv` says that in the device being set up all
  registers before `region` have addresses, and in the enabled ones all. That
  addresses are aligned also when they wrap needs `WrapsAligned`: a multiple of
  a size modulo 2^32 is still a multiple of it, because the size divides 2^32.
- `CpusStartApart`: each CPU's stack pointer and register are what its number
  makes them, also when CPU 0 enters the kernel with the PCB's stack pointer
  (`CpuInv`); two numbers are at least a stack apart.
- `KernelAddressSpace`, `MemoryDividedUp`: `MemoryInv` says what memory is before
  `init_page_table` (any old data after the firmware) and what the three tables
  are after it (`BootTables`); that `set_pte` builds them is followed through its
  two allocations (`TablesBuilt`), which needs that pages are in the order of
  their addresses (`PageOrder`) and that an allocation after a whole page is the
  next page (`WholePages`).
- `KernelFindsScreen`: what `vgahw_init`'s walk has passed is no adapter
  (`VgaWalkInv`), by the same `NothingSkipped`.
- `MemAccessesLegal`, `MemResult`: for any memory, addresses, lengths and
  contents. `MemInv` is the loop invariant of the three routines. `memset` and
  `memcpy`: the bytes before `d` are done and no other has changed (`Progress`);
  at each place `d` is aligned to what the code has tested (`SetInv`); while the
  source is unaligned the word kept holds the source's bytes from `s` to the end
  of its quadword (`CopyInv`), which with the next quadword `extql` and `extqh`
  make the eight bytes from `s` (`Extracted`). `strlen`: no zero byte before the
  quadword held, in which the bytes before the string are masked (`LenInv`); the
  search by masks finds the lowest (`SearchLowest`).
- `DriverCorrect` and the five theorems that follow from it (`BytesReach`,
  `ModeIsRestored`, `RepliesPolled`, `SuccessIsReady`, `AnswersAreMatched`):
  `keyboard_init` is a sequence of 46 steps (`Program`), so the invariant
  `Ps2Inv` says what holds at each position in it, for any number of polls, keys
  and mouse bytes. Its parts: `Control` (`todo` is the rest from there, perhaps
  behind the two writes that restore the mode; which mode is to be restored;
  whether a byte was sent), `Controller` (the mode the controller has or will
  have, without the keyboard's interrupt while a command runs), `Pairing` (each
  mode follows its command), and `Keyboard` (the output buffer and the keyboard's
  queue as one row of slots). The last carries `AnswersMatch`: where an answer
  is awaited, an answer in a slot is the one to the last byte sent, and nothing
  behind it would pass for the next one (`Answered`). That needs to know that
  the keyboard is given one byte at a time and that what follows the answer to
  `RESET_BAT` is the self-test's result, not a key (`FirstIsResult`). `Failed` is
  the way to the end after an error, from which the mode is still restored.
- `Div10IsExact`, `NumbersArePrinted`: the multiplication by 0xcccccccccccccccd and
  the shift divide every unsigned long by ten exactly, for every width for which
  the multiplier is that fraction of it. So `print_decimal` and `print_hex` write the
  digits of every unsigned long: a numeral (`IsNumeral`) and the next digit are one
  (`AppendDigit`, with `DivideTwice`), and each number has only one
  (`NumeralIsDigits`).
- `SerialInvariant`, `OutputIsComplete`, `AnswersAreRight`: for every format and
  buffer. The formats are recursive functions; that such a function exists and is what
  its equation says is proved once for those that ascend (`RecursionExists`) and once
  for those that descend (`DescentExists`), by well-founded induction about a set.
  `FlagsAre` says what `Flag`, a character at a time, makes of a directive: the l's, the
  last number and the zero that `Starts` and `Numeral` define at once. `PaddingIs`
  joins the two pieces of a field wider than the buffer. With them `OutputsAre`: what an
  item gives is its text and the count of its characters, but for the least int and the
  sign of a long. `SerialInv` then needs that only the running function leaves characters
  to be written and that DLAB is clear when it does (`Phases`), that the count and what is
  left of the format make the whole (`Counting`), and which registers `VMStoUNIX` has
  saved (`SavedRegisters`); a format's text is that of its first item and of the rest
  (`TextTail`), or grows by a last one (`TextAppend`, for `PUTS`). Widths and counts are
  unbounded in the model: a width or a length that an int does not hold is undefined in C.

- `TextModeReadyHolds`: for any calls after `vgahw_init`, in any order, with any
  bytes, any modes of the list and a font of any size. Text mode depends on the
  miscellaneous, sequencer and graphics registers and on display memory; that the
  other functions leave these alone (`Same`) is proved access by access
  (`OutElsewhere`, `AfterInSame`) and, for the loops, by induction over their passes
  (`SameChain`). A loop is a recursive function; one lemma each (`WriteAllChain` to
  `LoadFontChain`) says that it exists and is what its equations say. `SequFilled`
  and `GrdcFilled` say what the loops over registers write, `SetMode` and `Restored`
  what a mode set and a restore leave, `FontLoads` that with the registers
  `vgahw_init` selects (`Linear`) byte k of the font reaches its cell of plane 2 and
  no other byte changes. The property is not inductive: `release_font_access`
  chooses the window by a bit of the miscellaneous register that a mode set
  writes and a restore clears, and a restore brings back what a save took, perhaps
  while the font memory was open. `VgaInv` therefore says which mode's registers
  the adapter holds apart from where the window is (`Ready`, `TextRegisters`):
  unless the font memory is open it is where the list says, or at 0xb0000 in
  monochrome (`Shown`, `InPlace`, which `PlaceKept` carries over every call that
  touches neither), and that the saved registers are fit for the mode they were
  saved in. The table's rows for colour text
  are looked up in `ParamTable` and `ModeList`. The functions take the adapter
  through `Outb` and `Inb`, which no proof expands, so that nested calls stay small.

Only model-checked: `ImplementsRegisters`, which compares whole register files,
element by element, after loops over tables; and all liveness properties, since
fairness and ENABLED are out of the prover's reach.

## What is not modelled, and the plan

Left out because nothing in it can go wrong that a state machine would show:
the HWRPB's identity fields and its checksum, and the fixed writes of
`init_i8259` (straight-line data); the bytes of the fonts (named, not listed);
PCI identifiers and board headers; `rdps` and the other calls that only return
a register; `cserve`'s physical loads and stores; the PS/2 mouse commands,
`uart_putchar`, `uart_puts` and the downward copies of `memcpy.c`, which
nothing calls; `crb_fixup`, which returns 0. The rounding of `pal_pages` in
`init_hwrpb` shows no behaviour: the last allocation before it is a whole page.
The weak memory order of a real Alpha is not modelled.

What is left is a proof of `ImplementsRegisters`, for which the contents of every
register must be followed through each loop, as `SequFilled` and `GrdcFilled` do for
two of the register files.
