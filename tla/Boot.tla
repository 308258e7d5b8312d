--------------------------------- MODULE Boot ----------------------------------
(***************************************************************************)
(* The start of the machine: every CPU runs __start (src/pal.S) and        *)
(* Sys_Setup (src/sys-clipper.S); CPU 0 then runs do_start (src/init.c),   *)
(* which builds a page table and the HWRPB and sets up PCI (module Pci),   *)
(* and enters the kernel; the others wait for it (module SmpStart).        *)
(* The PS/2 port's part of do_start is module Ps2Port.                     *)
(*                                                                         *)
(* Memory is pages of page table entries; an entry is the number of the    *)
(* page it maps, or NoPte for zero. Addresses are physical.                *)
(***************************************************************************)
EXTENDS Pci

CONSTANTS
    Cpus,
    PageSize,   \* PAGE_SIZE
    Entries,    \* entries of a page table, 1024
    MemSize,    \* memsize: bytes of memory
    Ends,       \* where the firmware may end, _end
    StackSize, Stack,       \* STACK_SIZE; the address of stack
    DirPage, HwrpbPage,     \* the pages of page_dir and hwrpb
    InitHwrpb, Vptptr,      \* INIT_HWRPB, VPTPTR
    Dir0                    \* the address of TYPHOON_CCHIP_DIR0

NoPte == -1
Pages == 0 .. (MemSize \div PageSize - 1)
Index == 0 .. (Entries - 1)
Stale == [i \in Index |-> 0]        \* a page that was not cleared
Zero == [i \in Index |-> NoPte]

\* pt_index: an entry of a level spans this much.
Span(level) == PageSize * <<1, Entries, Entries * Entries>>[level + 1]
PtIndex(addr, level) == (addr \div Span(level)) % Entries
Self == PtIndex(Vptptr, 2)

ASSUME BootAssumption ==
    /\ Cpus \subseteq 0 .. 3 /\ 0 \in Cpus
    /\ PageSize \in Nat \ {0} /\ Entries \in Nat \ {0} /\ MemSize \in Nat
    /\ StackSize = PageSize /\ Stack \in Nat /\ Dir0 \in Nat
    /\ DirPage \in Nat /\ HwrpbPage \in Nat
    /\ InitHwrpb \in Nat /\ Vptptr \in Nat /\ Ends \subseteq Nat
    /\ PtIndex(InitHwrpb, 2) # Self
    /\ \A e \in Ends :
        /\ (DirPage + 1) * PageSize <= e /\ (HwrpbPage + 1) * PageSize <= e
        /\ Stack + 4 * StackSize <= e /\ e + 3 * PageSize <= MemSize

VARIABLES
    at,         \* what each CPU runs
    sp,         \* its stack pointer
    cpuDir,     \* ptCpuDIR
    mem,        \* memory: its tables, and last_alloc
    pcb,        \* ksp and ptbr of CPU 0's PCB
    ptbr,       \* CPU 0's page table base
    hwrpb,      \* memory clusters and console terminal, once they are written
    nographics  \* CONFIG_NOGRAPHICS

bootVars == <<at, sp, cpuDir, mem, pcb, ptbr, hwrpb, nographics>>
vars == <<pciVars, bootVars>>

BootInit ==
    /\ Init
    /\ at = [c \in Cpus |-> "__start"]
    /\ sp = [c \in Cpus |-> 0] /\ cpuDir = [c \in Cpus |-> 0]
    /\ \E end \in Ends :
        mem = [last |-> end,
               tables |-> [p \in Pages |->
                            IF p * PageSize < end THEN Zero ELSE Stale]]
    /\ pcb = [ksp |-> 0, ptbr |-> NoPte] /\ ptbr = NoPte
    /\ hwrpb = <<>>
    /\ nographics \in BOOLEAN

-----------------------------------------------------------------------------
(* __start and Sys_Setup, on every CPU.                                    *)
\* A bug: CPU 0's stack would end where the stacks begin.
StackTopBelow(cpu) == Stack + cpu * StackSize
StackTop(cpu) == Stack + (cpu + 1) * StackSize

DirAddress(cpu) == Dir0 + (cpu \div 2) * 1024 + (cpu % 2) * 64

Start(c) ==
    /\ at[c] = "__start"
    /\ at' = [at EXCEPT ![c] =
                IF c = 0 THEN "init_page_table" ELSE "do_start_wait"]
    /\ sp' = [sp EXCEPT ![c] = StackTop(c)]
    /\ cpuDir' = [cpuDir EXCEPT ![c] = DirAddress(c)]
    /\ UNCHANGED <<mem, pcb, ptbr, hwrpb, nographics, pciVars>>

-----------------------------------------------------------------------------
(* do_start, on CPU 0.                                                     *)
Goes(from, to) == at[0] = from /\ at' = [at EXCEPT ![0] = to]

\* alloc(PAGE_SIZE, PAGE_SIZE): the page, and memory with it cleared.
\* Bugs: without the memset; without the new last_alloc.
AllocStale(m) ==
    LET p == AlignUp(m.last, PageSize) \div PageSize
    IN  [page |-> p, mem |-> [m EXCEPT !.last = (p + 1) * PageSize]]
AllocAgain(m) ==
    LET p == AlignUp(m.last, PageSize) \div PageSize
    IN  [page |-> p, mem |-> [m EXCEPT !.tables[p] = Zero]]
Alloc(m) ==
    LET p == AlignUp(m.last, PageSize) \div PageSize
    IN  [page |-> p,
         mem |-> [last |-> (p + 1) * PageSize,
                  tables |-> [m.tables EXCEPT ![p] = Zero]]]

\* The table that entry i of table pt leads to, allocated if there is none.
Descend(m, pt, i) ==
    IF m.tables[pt][i] # NoPte
    THEN [page |-> m.tables[pt][i], mem |-> m]
    ELSE LET a == Alloc(m)
         IN  [a EXCEPT !.mem.tables[pt][i] = a.page]

SetPte(m, addr, page) ==
    LET l1 == Descend(m, DirPage, PtIndex(addr, 2))
        l0 == Descend(l1.mem, l1.page, PtIndex(addr, 1))
    IN  [l0.mem EXCEPT !.tables[l0.page][PtIndex(addr, 0)] = page]

InitPageTable ==
    /\ Goes("init_page_table", "init_pcb")
    /\ mem' = SetPte([mem EXCEPT !.tables[DirPage][Self] = DirPage],
                     InitHwrpb, HwrpbPage)
    /\ UNCHANGED <<sp, cpuDir, pcb, ptbr, hwrpb, nographics, pciVars>>

InitPcb ==
    /\ Goes("init_pcb", "pci_setup")
    /\ pcb' = [ksp |-> Stack + PageSize, ptbr |-> DirPage]
    /\ UNCHANGED <<sp, cpuDir, mem, ptbr, hwrpb, nographics, pciVars>>

\* pci_setup and vgahw_init.
PciStep == at[0] = "pci_setup" /\ PciNext /\ UNCHANGED bootVars

PalPages(last) == (last + PageSize - 1) \div PageSize

\* A bug: does not ask whether there is an adapter.
GraphicsWanted == ~nographics
Graphics == vga # -1 /\ ~nographics

InitHwrpbStruct ==
    /\ walk = "done" /\ Goes("pci_setup", "swppal")
    /\ LET pages == PalPages(mem.last)
       IN  hwrpb' = <<[used |-> [start |-> 0, num |-> pages],
                       free |-> [start |-> pages,
                                 num |-> MemSize \div PageSize - pages],
                       graphics |-> Graphics,
                       slot |-> IF Graphics THEN vga \div 8 ELSE 0]>>
    /\ UNCHANGED <<sp, cpuDir, mem, pcb, ptbr, nographics, pciVars>>

SwpPal ==
    /\ Goes("swppal", "kernel")
    /\ sp' = [sp EXCEPT ![0] = pcb.ksp] /\ ptbr' = pcb.ptbr
    /\ UNCHANGED <<cpuDir, mem, pcb, hwrpb, nographics, pciVars>>

Next ==
    \/ \E c \in Cpus : Start(c)
    \/ InitPageTable \/ InitPcb \/ PciStep \/ InitHwrpbStruct \/ SwpPal

Spec == BootInit /\ [][Next]_vars

-----------------------------------------------------------------------------
(* Properties.                                                             *)
Places == {"__start", "do_start_wait", "init_page_table", "init_pcb",
           "pci_setup", "swppal", "kernel"}

Running == at[0] = "kernel"

\* Each CPU runs on a stack of its own, inside the space for stacks, and
\* reads the interrupts of its own DIR register (__start, Sys_Setup).
Dirs == [c \in 0 .. 3 |-> Dir0 + <<0, 64, 1024, 1088>>[c + 1]]

CpusApart ==
    \A c \in Cpus : at[c] # "__start" =>
        /\ cpuDir[c] = Dirs[c]
        /\ sp[c] - StackSize >= Stack /\ sp[c] <= Stack + 4 * StackSize
        /\ \A d \in Cpus \ {c} : at[d] # "__start" =>
            sp[c] <= sp[d] - StackSize \/ sp[d] <= sp[c] - StackSize

\* What the kernel's first page table maps.
Entry(pt, i) == IF pt = NoPte THEN NoPte ELSE mem.tables[pt][i]
Translate(va) == Entry(Entry(Entry(ptbr, va[1]), va[2]), va[3])
VaOf(addr) == <<PtIndex(addr, 2), PtIndex(addr, 1), PtIndex(addr, 0)>>

\* The kernel finds the HWRPB at INIT_HWRPB; through the self-reference, at
\* VPTPTR, the page that holds any address's entry, as the TLB miss handler
\* expects; and nothing else is mapped.
AddressSpace ==
    Running =>
        /\ Translate(VaOf(InitHwrpb)) = HwrpbPage
        /\ \A i, j \in Index :
            Translate(<<Self, i, j>>) = Entry(Entry(ptbr, i), j)
        /\ \A va \in (Index \ {Self}) \X Index \X Index :
            Translate(va) # NoPte => va = VaOf(InitHwrpb)

\* The memory clusters: together they are the memory, the kernel may use all of
\* the second, and nothing the firmware still uses is in it, the pages that
\* were allocated last among them.
PagesOf(cluster) == cluster.start .. (cluster.start + cluster.num - 1)

FirmwarePages ==
    ({p \in Pages : p * PageSize < mem.last}
        \cup {ptbr} \cup {Entry(ptbr, i) : i \in Index}
        \cup {Entry(Entry(ptbr, i), j) : i, j \in Index}) \ {NoPte}

MemoryClusters ==
    Running =>
        LET used == PagesOf(hwrpb[1].used)
            free == PagesOf(hwrpb[1].free)
        IN  /\ used \cup free = Pages /\ used \cap free = {}
            /\ FirmwarePages \subseteq used

\* The kernel is told to use the screen exactly if it may and there is an
\* adapter; it is the first one of the bus that the kernel will find too.
ConsoleTerminal ==
    Running =>
        LET adapters == {b \in RealFunctions : bus[b].vga}
        IN  /\ hwrpb[1].graphics = (adapters # {} /\ ~nographics)
            /\ hwrpb[1].graphics =>
                \E b \in adapters : /\ \A c \in adapters : b <= c
                                    /\ hwrpb[1].slot = b \div 8
=============================================================================
