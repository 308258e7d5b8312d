---------------------------------- MODULE Pci ----------------------------------
(***************************************************************************)
(* PCI setup (src/pci.c): pci_setup walks the functions of the bus and     *)
(* gives each base address register an address; vgahw_init (src/vgaio.c)   *)
(* walks them again for a VGA adapter. The bus is external: any functions  *)
(* in any slots, any registers, and devices that answer for all functions  *)
(* of their slot though they have only one.                                *)
(*                                                                         *)
(* A register is a record of what it decodes and how much; a register of   *)
(* 64 bits is a "mem64" one with a "high" one after it.                    *)
(***************************************************************************)
EXTENDS Integers

CONSTANTS
    Word,       \* 2^32
    Max,        \* 0x0100: the functions of one bus
    Regions,    \* PCI_REGION_ROM, the number of base address registers
    FirstIo, FirstMem,  \* where pci_setup starts
    Buses       \* the buses that may be there

Spaces == {"io", "mem"}
RegisterKinds == {"none", "io", "mem", "mem64", "high"}
Registers == [kind : RegisterKinds, size : Nat]
Functions ==
    [multi : BOOLEAN, vga : BOOLEAN, isa : BOOLEAN, pin : 0 .. 4,
     regs : [0 .. Regions - 1 -> Registers]]

\* Sizes are powers of two, and what follows a 64-bit register is its high half.
WellFormed(regs) ==
    \A i \in 0 .. Regions - 1 :
        /\ regs[i].size % Word # 0 => Word % (regs[i].size % Word) = 0
        /\ regs[i].kind = "mem64" /\ i + 1 < Regions => regs[i + 1].kind = "high"

ASSUME PciAssumption ==
    /\ Word \in Nat \ {0} /\ Max \in 0 .. 256 /\ Regions \in Nat
    /\ FirstIo \in 0 .. (Word - 1) /\ FirstMem \in 0 .. (Word - 1)
    /\ \A b \in Buses : /\ DOMAIN b \subseteq 0 .. (Max - 1)
                       /\ b \in [DOMAIN b -> Functions]

ASSUME RegisterAssumption ==
    \A b \in Buses : \A f \in DOMAIN b : WellFormed(b[f].regs)

VARIABLES
    bus,        \* the functions that answer
    walk,       \* the caller whose loop over the bus runs, or "done"
    bdf,        \* bus, device, function: where the loop is
    region,     \* -1 in pci_next, else the register pci_setup_device is at
    base,       \* *p_io_base and *p_mem_base
    assigned,   \* the addresses written to registers
    line,       \* interrupt line registers, -1 until the device is enabled
    vga,        \* the adapter found, or -1
    fits        \* auxiliary: no address so far overflowed

pciVars == <<bus, walk, bdf, region, base, assigned, line, vga, fits>>

-----------------------------------------------------------------------------
(* pci_next.                                                               *)
Func(b) == b % 8                \* PCI_FUNC
FirstOf(b) == b - Func(b)

\* A bug: looks at every function.
SkipNone(b) == b
\* Where pci_next starts to look: past the slot of a single-function device.
Skip(b) == IF Func(b) = 1 /\ ~bus[b - 1].multi THEN b + 7 ELSE b

\* A vendor number that is not read as 0x0000 or 0xffff.
Present(b) == b \in DOMAIN bus

Init ==
    /\ bus \in Buses
    /\ walk = "pci_setup" /\ bdf = 0 /\ region = -1
    /\ base = [s \in Spaces |-> IF s = "io" THEN FirstIo ELSE FirstMem]
    /\ assigned = {} /\ line = [b \in 0 .. Max - 1 |-> -1]
    /\ vga = -1 /\ fits = TRUE

InPciNext(w) == walk = w /\ region = -1

NoFunction ==
    /\ InPciNext("pci_setup") \/ InPciNext("vgahw_init")
    /\ bdf < Max /\ ~Present(bdf)
    /\ bdf' = bdf + (IF Func(bdf) = 0 THEN 8 ELSE 1)
    /\ UNCHANGED <<bus, walk, region, base, assigned, line, vga, fits>>

EndOfBus ==
    /\ InPciNext("pci_setup") \/ InPciNext("vgahw_init")
    /\ bdf >= Max /\ bdf' = 0
    /\ walk' = IF walk = "pci_setup" THEN "vgahw_init" ELSE "done"
    /\ UNCHANGED <<bus, region, base, assigned, line, vga, fits>>

-----------------------------------------------------------------------------
(* pci_setup_device.                                                       *)
Reg == bus[bdf].regs[region]
SpaceOf(kind) == IF kind = "io" THEN "io" ELSE "mem"

\* A bug: rounds down.
AlignDown(b, align) == (b \div align) * align
\* (b + align - 1) & ~(align - 1), for a power of two.
AlignUp(b, align) == ((b + align - 1) \div align) * align

\* A bug: takes every memory register for one of 64 bits.
WidthOfMem(kind) == IF kind \in {"mem", "mem64"} THEN 2 ELSE 1
Width(kind) == IF kind = "mem64" THEN 2 ELSE 1

FoundDevice ==
    /\ InPciNext("pci_setup") /\ bdf < Max /\ Present(bdf)
    /\ region' = 0
    /\ UNCHANGED <<bus, walk, bdf, base, assigned, line, vga, fits>>

NoRegister ==
    /\ region \in 0 .. (Regions - 1) /\ Reg.kind = "none"
    /\ region' = region + 1
    /\ UNCHANGED <<bus, walk, bdf, base, assigned, line, vga, fits>>

\* The high half of a 64-bit address is zero. A size of 2^32 is a size of 0
\* to this code: the address, and the next one, is 0.
SetRegister ==
    /\ region \in 0 .. (Regions - 1) /\ Reg.kind # "none"
    /\ LET space == SpaceOf(Reg.kind)
           size == Reg.size % Word
           up == AlignUp(base[space], size)
           addr == IF size = 0 THEN 0 ELSE up % Word
       IN  /\ base' = [base EXCEPT ![space] = (addr + size) % Word]
           /\ assigned' = assigned \cup
                {[bdf |-> bdf, region |-> region, space |-> space,
                  addr |-> addr, size |-> size]}
           /\ fits' = (fits /\ size = Reg.size /\ size # 0
                            /\ up + size < Word)
    /\ region' = region + Width(Reg.kind)
    /\ UNCHANGED <<bus, walk, bdf, line, vga>>

\* MAP_PCI_INTERRUPT of src/sys-clipper.h: 0xff is no interrupt.
MapPciInterrupt(slot, f) ==
    IF ~f.isa /\ f.pin # 0 THEN (slot + 1) * 4 + (f.pin - 1) ELSE 255

EnableDevice ==
    /\ walk = "pci_setup" /\ region >= Regions
    /\ line' = [line EXCEPT ![bdf] = MapPciInterrupt(bdf \div 8, bus[bdf])]
    /\ bdf' = Skip(bdf + 1) /\ region' = -1
    /\ UNCHANGED <<bus, walk, base, assigned, vga, fits>>

-----------------------------------------------------------------------------
(* vgahw_init.                                                             *)
FoundVga ==
    /\ InPciNext("vgahw_init") /\ bdf < Max /\ Present(bdf) /\ bus[bdf].vga
    /\ vga' = bdf /\ walk' = "done"
    /\ UNCHANGED <<bus, bdf, region, base, assigned, line, fits>>

NotVga ==
    /\ InPciNext("vgahw_init") /\ bdf < Max /\ Present(bdf) /\ ~bus[bdf].vga
    /\ bdf' = Skip(bdf + 1)
    /\ UNCHANGED <<bus, walk, region, base, assigned, line, vga, fits>>

PciNext ==
    \/ NoFunction \/ EndOfBus
    \/ FoundDevice \/ NoRegister \/ SetRegister \/ EnableDevice
    \/ FoundVga \/ NotVga

PciSpec == Init /\ [][PciNext]_pciVars

-----------------------------------------------------------------------------
(* Types and properties.                                                   *)
Assignments ==
    [bdf : 0 .. Max - 1, region : 0 .. Regions - 1, space : Spaces,
     addr : 0 .. (Word - 1), size : 0 .. (Word - 1)]

PciTypeOK ==
    /\ DOMAIN bus \subseteq 0 .. (Max - 1)
    /\ bus \in [DOMAIN bus -> Functions]
    /\ walk \in {"pci_setup", "vgahw_init", "done"}
    /\ bdf \in Nat
    /\ region \in -1 .. (Regions + 1)
    /\ region # -1 => walk = "pci_setup" /\ Present(bdf)
    /\ base \in [Spaces -> 0 .. (Word - 1)]
    /\ assigned \subseteq Assignments
    /\ line \in [0 .. Max - 1 -> -1 .. 255]
    /\ vga \in -1 .. (Max - 1)
    /\ fits \in BOOLEAN

Apart(r, s) == r.addr + r.size <= s.addr \/ s.addr + s.size <= r.addr

\* No two registers decode the same address, if the bus fits below 2^32: the
\* addresses pci_setup_device hands out never overlap.
RegionsDisjoint ==
    fits => \A r, s \in assigned : r # s /\ r.space = s.space => Apart(r, s)

\* The functions there are, as PCI defines them: function 0, and the others of
\* a slot whose function 0 says so.
Enabled == {b \in 0 .. Max - 1 : line[b] # -1}

RealFunctions ==
    {b \in DOMAIN bus :
        /\ Present(FirstOf(b))
        /\ Func(b) = 0 \/ bus[FirstOf(b)].multi}

\* pci_next finds every function, and none twice or where there is none; each
\* has been given all its addresses before its decoding is switched on.
EachFunctionOnce ==
    /\ Enabled \subseteq RealFunctions
    /\ region # -1 => bdf \in RealFunctions \ Enabled
    /\ walk # "pci_setup" => Enabled = RealFunctions

RegionsAligned ==
    \A r \in assigned : r.size > 0 => r.addr % r.size = 0

RegistersSet ==
    \A b \in Enabled : \A i \in 0 .. Regions - 1 :
        bus[b].regs[i].kind \in {"io", "mem", "mem64"} =>
            \E r \in assigned : r.bdf = b /\ r.region = i

LinesDistinct ==
    \A b, c \in Enabled :
        line[b] = line[c] /\ line[b] # 255 =>
            b \div 8 = c \div 8 /\ bus[b].pin = bus[c].pin

\* A driver of the kernel can use any device pci_setup_device has enabled.
\* Each of its registers was given an address, also one that follows a 64-bit
\* register; the address is a multiple of its size, of which the register
\* decodes only the bits above, though the register before may have been
\* smaller; and only the same pin of the same slot shares its interrupt line,
\* from which the kernel finds out whose handler to run.
DevicesUsable == RegionsAligned /\ RegistersSet /\ LinesDistinct
=============================================================================
