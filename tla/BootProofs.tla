------------------------------ MODULE BootProofs -------------------------------
(***************************************************************************)
(* Proofs, for any bus and any machine: pci_setup gives out each address   *)
(* once and leaves every device usable, the CPUs start apart, the kernel   *)
(* starts with the page table, memory map and console terminal it is       *)
(* meant to.                                                               *)
(***************************************************************************)
EXTENDS Boot, TLAPS

(***************************************************************************)
(* PCI addresses.                                                          *)
(***************************************************************************)

\* Rounding up to a multiple gives no lower address.
LEMMA AlignUpBounds ==
    ASSUME NEW b \in Nat, NEW align \in Nat \ {0}
    PROVE  AlignUp(b, align) \in Nat /\ AlignUp(b, align) >= b
  <1> DEFINE q == (b + align - 1) \div align
  <1>1. q \in Nat /\ b + align - 1 = align * q + ((b + align - 1) % align)
    OBVIOUS
  <1>2. (b + align - 1) % align \in 0 .. (align - 1)
    OBVIOUS
  <1>3. align * q \in Nat /\ align * q = q * align
    BY <1>1
  <1> HIDE DEF q
  <1>4. align * q >= b
    BY <1>1, <1>2, <1>3
  <1>5. AlignUp(b, align) = q * align
    BY DEF AlignUp, q
  <1> QED
    BY <1>3, <1>4, <1>5

\* Registers of the bus are registers.
LEMMA RegTypes ==
    ASSUME PciTypeOK, region \in 0 .. (Regions - 1)
    PROVE  Reg.kind \in RegisterKinds /\ Reg.size \in Nat
  <1>1. Present(bdf) /\ bdf \in 0 .. Max - 1
    BY PciAssumption DEF PciTypeOK, Present
  <1>2. bus[bdf] \in Functions
    BY <1>1 DEF PciTypeOK, Present
  <1> QED
    BY <1>2 DEF Functions, Registers, Reg

\* What setting a register does: the address is one that was not given out,
\* and the next free address is above it, unless something overflowed.
LEMMA SetRegisterEffect ==
    ASSUME PciTypeOK, SetRegister
    PROVE  \E space \in Spaces,
              addr \in 0 .. (Word - 1), size \in 0 .. (Word - 1) :
            /\ base' = [base EXCEPT ![space] = (addr + size) % Word]
            /\ assigned' = assigned \cup
                {[bdf |-> bdf, region |-> region, space |-> space,
                  addr |-> addr, size |-> size]}
            /\ fits' => /\ fits
                        /\ addr >= base[space]
                        /\ (addr + size) % Word = addr + size
  <1> DEFINE space == SpaceOf(Reg.kind)
             size == Reg.size % Word
             up == AlignUp(base[space], size)
             addr == IF size = 0 THEN 0 ELSE up % Word
  <1>1. region \in 0 .. (Regions - 1) /\ Reg.size \in Nat
    BY RegTypes DEF SetRegister
  <1>2. space \in Spaces
    BY DEF SpaceOf, Spaces
  <1>3. size \in 0 .. (Word - 1)
    BY <1>1, PciAssumption
  <1>4. base[space] \in Nat
    BY <1>2 DEF PciTypeOK
  <1>5. size # 0 => up \in Nat /\ up >= base[space]
    BY <1>3, <1>4, AlignUpBounds
  <1>6. addr \in 0 .. (Word - 1)
    BY <1>5, PciAssumption
  <1>7. /\ base' = [base EXCEPT ![space] = (addr + size) % Word]
        /\ assigned' = assigned \cup
                {[bdf |-> bdf, region |-> region, space |-> space,
                  addr |-> addr, size |-> size]}
        /\ fits' = (fits /\ size = Reg.size /\ size # 0 /\ up + size < Word)
    BY DEF SetRegister
  <1>8. ASSUME fits'
        PROVE  addr >= base[space] /\ (addr + size) % Word = addr + size
    <2>1. size # 0 /\ up + size < Word
      BY <1>7, <1>8
    <2> HIDE DEF size, up, space
    <2>2. up % Word = up
      BY <2>1, <1>3, <1>5, PciAssumption
    <2>3. addr = up
      BY <2>1, <2>2
    <2> HIDE DEF addr
    <2> QED
      BY <2>1, <2>3, <1>3, <1>5, <1>6, PciAssumption
  <1> HIDE DEF space, size, up, addr
  <1> QED
    BY <1>2, <1>3, <1>6, <1>7, <1>8

\* pci_next goes on at the next function or after the slot.
LEMMA SkipForward ==
    ASSUME NEW b \in Nat
    PROVE  Skip(b) \in {b, b + 7} /\ Skip(b) \in Nat
  BY DEF Skip

\* An interrupt line fits its register.
LEMMA LineTypes ==
    ASSUME NEW b \in 0 .. (Max - 1), NEW f \in Functions
    PROVE  MapPciInterrupt(b \div 8, f) \in -1 .. 255
  <1>1. b \div 8 \in 0 .. 31
    BY PciAssumption
  <1>2. f.pin \in 0 .. 4
    BY DEF Functions
  <1> DEFINE slot == b \div 8
  <1> HIDE DEF slot
  <1>3. MapPciInterrupt(slot, f) \in -1 .. 255
    BY <1>1, <1>2 DEF MapPciInterrupt, slot
  <1> QED
    BY <1>3 DEF slot

\* The walk and the registers keep their types.
LEMMA PciTypes ==
    ASSUME PciTypeOK, PciNext
    PROVE  PciTypeOK'
  <1> USE PciAssumption
  <1>1. CASE NoFunction
    BY <1>1 DEF NoFunction, InPciNext, PciTypeOK, Present, Func
  <1>2. CASE EndOfBus
    BY <1>2 DEF EndOfBus, InPciNext, PciTypeOK, Present
  <1>3. CASE FoundDevice
    BY <1>3 DEF FoundDevice, InPciNext, PciTypeOK, Present
  <1>4. CASE NoRegister
    BY <1>4 DEF NoRegister, PciTypeOK, Present
  <1>5. CASE SetRegister
    <2>1. region \in 0 .. (Regions - 1) /\ region' \in {region + 1, region + 2}
      BY <1>5 DEF SetRegister, Width, PciTypeOK
    <2>2. bdf \in 0 .. (Max - 1)
      BY <2>1 DEF PciTypeOK, Present
    <2>3. PICK space \in Spaces,
               addr \in 0 .. (Word - 1), size \in 0 .. (Word - 1) :
            /\ base' = [base EXCEPT ![space] = (addr + size) % Word]
            /\ assigned' = assigned \cup
                {[bdf |-> bdf, region |-> region, space |-> space,
                  addr |-> addr, size |-> size]}
      BY <1>5, SetRegisterEffect
    <2>4. base' \in [Spaces -> 0 .. (Word - 1)]
      <3>1. (addr + size) % Word \in 0 .. (Word - 1)
        OBVIOUS
      <3> QED
        BY <2>3, <3>1 DEF PciTypeOK
    <2>5. assigned' \subseteq Assignments
      <3>1. [bdf |-> bdf, region |-> region, space |-> space,
             addr |-> addr, size |-> size] \in Assignments
        BY <2>1, <2>2 DEF Assignments
      <3> QED
        BY <2>3, <3>1 DEF PciTypeOK
    <2>6. fits' \in BOOLEAN
      BY <1>5 DEF SetRegister
    <2>7. UNCHANGED <<bus, walk, bdf, line, vga>>
      BY <1>5 DEF SetRegister
    <2>8. region' \in -1 .. (Regions + 1)
      BY <2>1
    <2>9. walk = "pci_setup" /\ Present(bdf)
      BY <2>1 DEF PciTypeOK
    <2> QED
      BY <2>4, <2>5, <2>6, <2>7, <2>8, <2>9 DEF PciTypeOK, Present
  <1>6. CASE EnableDevice
    <2>1. bdf \in 0 .. (Max - 1) /\ Present(bdf)
      BY <1>6 DEF EnableDevice, PciTypeOK, Present
    <2>2. Skip(bdf + 1) \in Nat
      BY <2>1, SkipForward
    <2>3. MapPciInterrupt(bdf \div 8, bus[bdf]) \in -1 .. 255
      BY <2>1, LineTypes DEF PciTypeOK, Present
    <2> QED
      BY <1>6, <2>1, <2>2, <2>3 DEF EnableDevice, PciTypeOK, Present
  <1>7. CASE FoundVga
    BY <1>7 DEF FoundVga, InPciNext, PciTypeOK, Present
  <1>8. CASE NotVga
    <2>1. bdf + 1 \in Nat
      BY DEF PciTypeOK
    <2>2. Skip(bdf + 1) \in Nat
      BY <2>1, SkipForward
    <2> QED
      BY <1>8, <2>2 DEF NotVga, InPciNext, PciTypeOK, Present
  <1> QED
    BY <1>1, <1>2, <1>3, <1>4, <1>5, <1>6, <1>7, <1>8 DEF PciNext

\* Every address given out is below the next one, and no two overlap.
AddressesBelow == \A r \in assigned : r.addr + r.size <= base[r.space]
PciInv == PciTypeOK /\ (fits => AddressesBelow) /\ RegionsDisjoint

LEMMA PciInvInit == ASSUME Init PROVE PciInv
  <1>1. PciTypeOK
    <2>1. /\ DOMAIN bus \subseteq 0 .. (Max - 1)
          /\ bus \in [DOMAIN bus -> Functions]
      BY PciAssumption DEF Init
    <2>2. base \in [Spaces -> 0 .. (Word - 1)]
      BY PciAssumption DEF Init
    <2>3. line \in [0 .. Max - 1 -> -1 .. 255]
      BY DEF Init
    <2>4. bdf = 0 /\ region = -1 /\ vga = -1 /\ walk = "pci_setup"
      BY DEF Init
    <2>5. -1 \in -1 .. (Regions + 1) /\ -1 \in -1 .. (Max - 1)
      BY PciAssumption
    <2>6. assigned \subseteq Assignments /\ fits \in BOOLEAN
      BY DEF Init
    <2> QED
      BY <2>1, <2>2, <2>3, <2>4, <2>5, <2>6 DEF PciTypeOK
  <1>2. AddressesBelow /\ RegionsDisjoint
    BY DEF Init, AddressesBelow, RegionsDisjoint
  <1> QED
    BY <1>1, <1>2 DEF PciInv

LEMMA PciInvStep ==
    ASSUME PciInv, [PciNext]_pciVars
    PROVE  PciInv'
  <1>1. CASE UNCHANGED pciVars
    BY <1>1 DEF pciVars, PciInv, PciTypeOK, AddressesBelow, RegionsDisjoint,
                Present
  <1>2. CASE PciNext /\ UNCHANGED <<base, assigned, fits>>
    <2>1. PciTypeOK'
      BY <1>2, PciTypes DEF PciInv
    <2> QED
      BY <1>2, <2>1 DEF PciInv, AddressesBelow, RegionsDisjoint
  <1>3. CASE SetRegister
    <2>1. PciTypeOK'
      BY <1>3, PciTypes DEF PciInv, PciNext
    <2>2. PICK space \in Spaces,
               addr \in 0 .. (Word - 1), size \in 0 .. (Word - 1) :
            /\ base' = [base EXCEPT ![space] = (addr + size) % Word]
            /\ assigned' = assigned \cup
                {[bdf |-> bdf, region |-> region, space |-> space,
                  addr |-> addr, size |-> size]}
            /\ fits' => /\ fits
                        /\ addr >= base[space]
                        /\ (addr + size) % Word = addr + size
      BY <1>3, SetRegisterEffect DEF PciInv
    <2> DEFINE new == [bdf |-> bdf, region |-> region, space |-> space,
                       addr |-> addr, size |-> size]
    <2>3. SUFFICES ASSUME fits'
                   PROVE  AddressesBelow' /\ RegionsDisjoint'
      BY <2>1 DEF PciInv, RegionsDisjoint
    <2>4. /\ fits /\ addr >= base[space]
          /\ base' = [base EXCEPT ![space] = addr + size]
      BY <2>2, <2>3
    <2>5. base \in [Spaces -> 0 .. (Word - 1)] /\ assigned \subseteq Assignments
      BY DEF PciInv, PciTypeOK
    <2>6. \A r \in assigned : /\ r.space \in Spaces
                              /\ r.addr \in Nat /\ r.size \in Nat
                              /\ base[r.space] \in Nat
                              /\ r.addr + r.size <= base[r.space]
      BY <2>4, <2>5, PciAssumption DEF PciInv, AddressesBelow, Assignments
    <2>7. addr \in Nat /\ size \in Nat
      BY <2>2, PciAssumption
    <2>8. \A r \in assigned : r.addr + r.size <= base'[r.space]
      BY <2>4, <2>5, <2>6, <2>7
    <2>9. new.addr + new.size <= base'[new.space]
      BY <2>2, <2>4, <2>5, <2>7
    <2>10. AddressesBelow'
      BY <2>2, <2>8, <2>9 DEF AddressesBelow
    <2>11. \A r \in assigned : r.space = space => Apart(r, new) /\ Apart(new, r)
      BY <2>4, <2>6, <2>7 DEF Apart
    <2>12. \A r, s \in assigned : r # s /\ r.space = s.space => Apart(r, s)
      BY <2>4 DEF PciInv, RegionsDisjoint
    <2>13. RegionsDisjoint'
      BY <2>2, <2>11, <2>12 DEF RegionsDisjoint
    <2> QED
      BY <2>10, <2>13
  <1> QED
    BY <1>1, <1>2, <1>3
    DEF PciNext, NoFunction, EndOfBus, FoundDevice, NoRegister, EnableDevice,
        FoundVga, NotVga

\* On any bus that fits below 2^32, no two registers decode one address.
THEOREM PciAddressesGivenOnce == Spec => []RegionsDisjoint
  <1>1. BootInit => PciInv
    BY PciInvInit DEF BootInit
  <1>2. PciInv /\ [Next]_vars => PciInv'
    <2> SUFFICES ASSUME PciInv, [Next]_vars PROVE PciInv'
      OBVIOUS
    <2>1. [PciNext]_pciVars
      BY DEF Next, vars, Start, InitPageTable, InitPcb, PciStep,
             InitHwrpbStruct, SwpPal
    <2> QED
      BY <2>1, PciInvStep
  <1>3. PciInv => RegionsDisjoint
    BY DEF PciInv
  <1> QED
    BY <1>1, <1>2, <1>3, PTL DEF Spec

(***************************************************************************)
(* The walk over the bus.                                                  *)
(***************************************************************************)

\* The slots: the functions of one are eight numbers in a row.
LEMMA Slots ==
    ASSUME NEW b \in Nat
    PROVE  /\ Func(b) \in 0 .. 7 /\ FirstOf(b) \in Nat
           /\ Func(b) = 0 => /\ FirstOf(b) = b
                             /\ Func(b + 8) = 0
                             /\ \A c \in (b + 1) .. (b + 7) :
                                  Func(c) # 0 /\ FirstOf(c) = b
           /\ Func(b) # 0 => /\ Func(b + 1) # 1
                             /\ \/ Func(b + 1) = 0
                                \/ FirstOf(b + 1) = FirstOf(b)
           /\ Func(b + 1) = 1 => Func(b) = 0
  BY DEF Func, FirstOf

\* What pci_next has passed: everything below bdf is done, and it looks at
\* other functions than the first only in slots that have some.
InMultiSlot(b) ==
    Func(b) = 0 \/ (Present(FirstOf(b)) /\ bus[FirstOf(b)].multi)

WalkInv ==
    /\ walk = "pci_setup" =>
        /\ Enabled = {b \in RealFunctions : b < bdf}
        /\ bdf < Max => InMultiSlot(bdf)
    /\ walk # "pci_setup" => Enabled = RealFunctions
    /\ region # -1 => bdf \in RealFunctions

\* No real function lies between bdf and where the walk goes on.
LEMMA NothingSkipped ==
    ASSUME PciTypeOK, bdf < Max, InMultiSlot(bdf),
           NEW next \in Nat,
           \/ ~Present(bdf) /\ next = bdf + (IF Func(bdf) = 0 THEN 8 ELSE 1)
           \/ Present(bdf) /\ next = Skip(bdf + 1)
    PROVE  /\ \A b \in RealFunctions : b < next => b <= bdf
           /\ bdf < next /\ InMultiSlot(next)
  <1>1. bdf \in Nat /\ RealFunctions \subseteq Nat
    BY PciAssumption DEF PciTypeOK, RealFunctions
  <1>2. \A b \in RealFunctions :
          /\ Present(b) /\ Present(FirstOf(b))
          /\ Func(b) = 0 \/ bus[FirstOf(b)].multi
    BY DEF RealFunctions, Present
  <1>3. InMultiSlot(bdf)
    OBVIOUS
  <1>4. CASE Func(bdf) = 0 /\ ~Present(bdf)
    <2>1. next = bdf + 8 /\ Func(next) = 0
      BY <1>1, <1>4, Slots
    <2>2. \A b \in (bdf + 1) .. (bdf + 7) : b \notin RealFunctions
      BY <1>1, <1>2, <1>4, Slots
    <2> QED
      BY <1>1, <2>1, <2>2 DEF InMultiSlot
  <1>5. CASE Func(bdf) # 0 /\ ~Present(bdf)
    <2>1. next = bdf + 1
      BY <1>5
    <2> QED
      BY <1>1, <1>3, <1>5, <2>1, Slots DEF InMultiSlot
  <1>6. CASE Present(bdf) /\ Func(bdf + 1) = 1 /\ ~bus[bdf].multi
    <2>1. next = bdf + 8 /\ Func(bdf) = 0
      BY <1>1, <1>6, Slots DEF Skip
    <2>2. Func(next) = 0
      BY <1>1, <2>1, Slots
    <2>3. \A b \in (bdf + 1) .. (bdf + 7) : b \notin RealFunctions
      BY <1>1, <1>2, <1>6, <2>1, Slots
    <2> QED
      BY <1>1, <2>1, <2>2, <2>3 DEF InMultiSlot
  <1>7. CASE Present(bdf) /\ Func(bdf + 1) = 1 /\ bus[bdf].multi
    <2>1. next = bdf + 1 /\ Func(bdf) = 0
      BY <1>1, <1>7, Slots DEF Skip
    <2>2. FirstOf(next) = bdf
      BY <1>1, <2>1, Slots
    <2> QED
      BY <1>1, <1>7, <2>1, <2>2 DEF InMultiSlot
  <1>8. CASE Present(bdf) /\ Func(bdf + 1) # 1
    <2>1. next = bdf + 1
      BY <1>1, <1>8 DEF Skip
    <2>2. Func(bdf) # 0
      BY <1>1, <1>8 DEF Func
    <2> QED
      BY <1>1, <1>3, <2>1, <2>2, Slots DEF InMultiSlot
  <1> QED
    BY <1>4, <1>5, <1>6, <1>7, <1>8

LEMMA WalkInvInit == ASSUME Init PROVE WalkInv
  <1>1. Enabled = {}
    BY DEF Init, Enabled
  <1>2. \A b \in RealFunctions : ~(b < 0)
    BY PciInvInit, PciAssumption DEF PciInv, PciTypeOK, RealFunctions
  <1>3. Func(0) = 0
    BY DEF Func
  <1> QED
    BY <1>1, <1>2, <1>3 DEF Init, WalkInv, InMultiSlot

LEMMA WalkInvStep ==
    ASSUME PciTypeOK, WalkInv, [PciNext]_pciVars
    PROVE  WalkInv'
  <1> USE DEF Present
  <1>1. RealFunctions' = RealFunctions /\ bus' = bus
    BY DEF RealFunctions, PciNext, NoFunction, EndOfBus, FoundDevice,
           NoRegister, SetRegister, EnableDevice, FoundVga, NotVga, pciVars
  <1>2. CASE UNCHANGED <<walk, bdf, line>> /\ (region' # -1 => region # -1)
    BY <1>1, <1>2 DEF WalkInv, Enabled, InMultiSlot
  <1>3. CASE NoFunction
    <2>1. CASE walk = "pci_setup"
      <3>1. bdf' \in Nat
        BY <1>3, PciTypes DEF PciNext, PciTypeOK
      <3>2. /\ \A b \in RealFunctions : b < bdf' => b <= bdf
            /\ bdf < bdf' /\ InMultiSlot(bdf')
        <4>1. bdf < Max /\ InMultiSlot(bdf)
          BY <1>3, <2>1 DEF NoFunction, WalkInv
        <4> QED
          BY <1>3, <3>1, <4>1, NothingSkipped DEF NoFunction
      <3>3. bdf \notin RealFunctions /\ bdf \in Nat
        BY <1>3 DEF NoFunction, RealFunctions, PciTypeOK
      <3>4. \A b \in RealFunctions : b \in Nat
        BY PciAssumption DEF RealFunctions, PciTypeOK
      <3>5. \A b \in RealFunctions : b < bdf' <=> b < bdf
        BY <3>1, <3>2, <3>3, <3>4
      <3>6. {b \in RealFunctions : b < bdf'} = {b \in RealFunctions : b < bdf}
        BY <3>5
      <3> QED
        BY <1>1, <1>3, <2>1, <3>2, <3>6
        DEF NoFunction, InPciNext, WalkInv, Enabled, InMultiSlot
    <2>2. CASE walk # "pci_setup"
      BY <1>1, <1>3, <2>2 DEF NoFunction, InPciNext, WalkInv, Enabled
    <2> QED
      BY <2>1, <2>2
  <1>4. CASE EndOfBus
    <2>1. \A b \in RealFunctions : b \in 0 .. (Max - 1)
      BY DEF RealFunctions, PciTypeOK
    <2>2. bdf >= Max /\ bdf \in Nat
      BY <1>4 DEF EndOfBus, PciTypeOK
    <2>3. \A b \in RealFunctions : b < bdf
      BY <2>1, <2>2, PciAssumption
    <2>4. {b \in RealFunctions : b < bdf} = RealFunctions
      BY <2>3
    <2> QED
      BY <1>1, <1>4, <2>4 DEF EndOfBus, InPciNext, WalkInv, Enabled
  <1>5. CASE FoundDevice
    <2>1. InMultiSlot(bdf)
      BY <1>5 DEF FoundDevice, InPciNext, WalkInv
    <2>2. bdf \in Nat /\ (Func(bdf) = 0 => FirstOf(bdf) = bdf)
      BY Slots DEF PciTypeOK
    <2>3. bdf \in RealFunctions
      BY <1>5, <2>1, <2>2 DEF FoundDevice, InMultiSlot, RealFunctions
    <2> QED
      BY <1>1, <1>5, <2>3
      DEF FoundDevice, InPciNext, WalkInv, Enabled, InMultiSlot
  <1>6. CASE EnableDevice
    <2>1. bdf' = Skip(bdf + 1) /\ bdf' \in Nat /\ region' = -1
      BY <1>6, PciTypes DEF PciNext, PciTypeOK, EnableDevice
    <2>2. /\ region # -1 /\ bdf \in RealFunctions /\ Present(bdf)
          /\ bdf \in 0 .. (Max - 1) /\ bdf < Max
      <3>1. region # -1
        BY <1>6, PciAssumption DEF EnableDevice
      <3>2. bdf \in RealFunctions
        BY <3>1 DEF WalkInv
      <3>3. bdf \in DOMAIN bus
        BY <3>2 DEF RealFunctions
      <3>4. bdf \in 0 .. (Max - 1)
        BY <3>3 DEF PciTypeOK
      <3> QED
        BY <3>1, <3>2, <3>3, <3>4, PciAssumption
    <2>3. /\ \A b \in RealFunctions : b < bdf' => b <= bdf
          /\ bdf < bdf' /\ InMultiSlot(bdf')
      <3>1. InMultiSlot(bdf)
        BY <1>6, <2>2 DEF EnableDevice, WalkInv
      <3> QED
        BY <1>6, <2>1, <2>2, <3>1, NothingSkipped DEF EnableDevice
    <2>4. Enabled' = Enabled \cup {bdf}
      <3>1. MapPciInterrupt(bdf \div 8, bus[bdf]) # -1
        <4> DEFINE slot == bdf \div 8
        <4>1. slot \in Nat /\ bus[bdf].pin \in 0 .. 4
          BY <2>2 DEF PciTypeOK, Functions
        <4> HIDE DEF slot
        <4>2. MapPciInterrupt(slot, bus[bdf]) # -1
          BY <4>1 DEF MapPciInterrupt
        <4> QED
          BY <4>2 DEF slot
      <3> QED
        BY <1>6, <2>2, <3>1 DEF EnableDevice, Enabled, PciTypeOK
    <2>5. RealFunctions \subseteq Nat
      BY PciAssumption DEF RealFunctions, PciTypeOK
    <2>6. Enabled' = {b \in RealFunctions : b < bdf'}
      BY <1>6, <2>1, <2>2, <2>3, <2>4, <2>5 DEF EnableDevice, WalkInv
    <2> QED
      BY <1>1, <1>6, <2>1, <2>3, <2>6 DEF EnableDevice, WalkInv, InMultiSlot
  <1>7. CASE FoundVga \/ NotVga
    BY <1>1, <1>7 DEF FoundVga, NotVga, InPciNext, WalkInv, Enabled
  <1>8. CASE NoRegister \/ SetRegister
    <2>1. region # -1
      BY <1>8, PciAssumption DEF NoRegister, SetRegister
    <2> QED
      BY <1>2, <1>8, <2>1 DEF NoRegister, SetRegister
  <1>9. CASE UNCHANGED pciVars
    BY <1>2, <1>9 DEF pciVars
  <1> QED
    BY <1>3, <1>4, <1>5, <1>6, <1>7, <1>8, <1>9 DEF PciNext

\* pci_setup gives addresses to every function of the bus, and to each once.
THEOREM PciFunctionsOnce == Spec => []EachFunctionOnce
  <1>1. BootInit => PciInv /\ WalkInv
    BY PciInvInit, WalkInvInit DEF BootInit
  <1>2. PciInv /\ WalkInv /\ [Next]_vars => (PciInv /\ WalkInv)'
    <2> SUFFICES ASSUME PciInv, WalkInv, [Next]_vars PROVE PciInv' /\ WalkInv'
      OBVIOUS
    <2>1. [PciNext]_pciVars
      BY DEF Next, vars, Start, InitPageTable, InitPcb, PciStep,
             InitHwrpbStruct, SwpPal
    <2> QED
      BY <2>1, PciInvStep, WalkInvStep DEF PciInv
  <1>3. PciInv /\ WalkInv => EachFunctionOnce
    BY DEF PciInv, PciTypeOK, WalkInv, EachFunctionOnce
  <1> QED
    BY <1>1, <1>2, <1>3, PTL DEF Spec

(***************************************************************************)
(* Devices.                                                                *)
(***************************************************************************)

\* A multiple leaves nothing over.
LEMMA MultipleLeavesNothing ==
    ASSUME NEW n \in Nat, NEW d \in Nat \ {0}, NEW x \in Int, n = d * x
    PROVE  n % d = 0
  <1> DEFINE q == n \div d
             m == n % d
  <1>1. q \in Int /\ m \in 0 .. (d - 1) /\ n = d * q + m
    OBVIOUS
  <1> HIDE DEF q, m
  <1>2. d * (x - q) = m
    BY <1>1
  <1>3. CASE x >= q + 1
    <2>1. d * (x - q) >= d
      BY <1>1, <1>3
    <2> QED
      BY <1>1, <1>2, <2>1
  <1>4. CASE x <= q - 1
    <2>1. d * (q - x) >= d
      BY <1>1, <1>4
    <2>2. d * (q - x) = -m
      BY <1>1
    <2> QED
      BY <1>1, <2>1, <2>2
  <1>5. CASE x = q
    BY <1>1, <1>5 DEF m
  <1> QED
    BY <1>1, <1>3, <1>4, <1>5

\* A multiple of a power of two stays one when it wraps at a larger one.
LEMMA WrapsAligned ==
    ASSUME NEW size \in Nat \ {0}, NEW w \in Nat \ {0}, w % size = 0, NEW q \in Nat
    PROVE  ((q * size) % w) % size = 0
  <1> DEFINE k == w \div size
             t == (q * size) \div w
             m == (q * size) % w
  <1>1. k \in Nat /\ w = size * k
    OBVIOUS
  <1>2. q * size \in Nat
    OBVIOUS
  <1> DEFINE product == q * size
  <1>3. product \in Nat /\ product = w * t + m /\ t \in Int /\ m \in Nat
    <2> HIDE DEF product
    <2>1. product = w * (product \div w) + (product % w)
          /\ product \div w \in Int /\ product % w \in Nat
      BY <1>2 DEF product
    <2> QED
      BY <1>2, <2>1 DEF product
  <1> HIDE DEF k, t, m, product
  <1>4. m = size * (q - k * t)
    <2>1. w * t = size * (k * t)
      BY <1>1, <1>3
    <2>2. product = size * q
      BY DEF product
    <2>3. k * t \in Int
      BY <1>1, <1>3
    <2> DEFINE kt == k * t
    <2> HIDE DEF kt
    <2>4. m = size * q - size * kt
      BY <1>3, <2>1, <2>2 DEF kt
    <2>5. m = size * (q - kt)
      BY <2>3, <2>4 DEF kt
    <2> QED
      BY <2>5 DEF kt
  <1>5. m % size = 0
    <2>1. q - k * t \in Int
      BY <1>1, <1>3
    <2> QED
      BY <1>3, <1>4, <2>1, MultipleLeavesNothing
  <1> QED
    BY <1>5 DEF m

\* The registers of function b below n have addresses.
RegsSet(b, n) ==
    \A i \in 0 .. Regions - 1 :
        i < n /\ bus[b].regs[i].kind \in {"io", "mem", "mem64"} =>
            \E r \in assigned : r.bdf = b /\ r.region = i

DeviceInv ==
    /\ bus \in Buses
    /\ RegionsAligned
    /\ \A b \in Enabled : /\ b \in DOMAIN bus /\ RegsSet(b, Regions)
                          /\ line[b] = MapPciInterrupt(b \div 8, bus[b])
    /\ region # -1 => RegsSet(bdf, region)

\* Every register the loop comes to is given an aligned address, and the one it
\* passes over has none of its own.
LEMMA SetRegisterForDevice ==
    ASSUME PciTypeOK, DeviceInv, SetRegister
    PROVE  RegionsAligned' /\ RegsSet(bdf, region)'
  <1> DEFINE space == SpaceOf(Reg.kind)
             size == Reg.size % Word
             up == AlignUp(base[space], size)
             addr == IF size = 0 THEN 0 ELSE up % Word
             new == [bdf |-> bdf, region |-> region, space |-> space,
                     addr |-> addr, size |-> size]
  <1>1. /\ assigned' = assigned \cup {new} /\ bdf' = bdf /\ bus' = bus
        /\ region \in 0 .. (Regions - 1) /\ region' = region + Width(Reg.kind)
    BY DEF SetRegister
  <1>2. bdf \in DOMAIN bus /\ WellFormed(bus[bdf].regs) /\ Reg.size \in Nat
    <2>1. bdf \in DOMAIN bus /\ region # -1
      BY <1>1, PciAssumption DEF PciTypeOK, Present
    <2>2. bus \in Buses
      BY DEF DeviceInv
    <2>3. WellFormed(bus[bdf].regs)
      BY <2>1, <2>2, RegisterAssumption
    <2>4. Reg.size \in Nat
      BY <1>1, RegTypes
    <2> QED
      BY <2>1, <2>3, <2>4
  <1>3. size \in Nat /\ (size # 0 => Word % size = 0) /\ Word \in Nat \ {0}
    BY <1>1, <1>2, PciAssumption DEF WellFormed, Reg
  <1>4. base[space] \in Nat
    BY DEF SpaceOf, Spaces, PciTypeOK
  <1>5. ASSUME size > 0
        PROVE  addr % size = 0
    <2> DEFINE q == (base[space] + size - 1) \div size
    <2>1. q \in Nat
      <3> HIDE DEF size, space
      <3> QED
        BY <1>3, <1>4, <1>5
    <2>2. addr = (q * size) % Word
      BY <1>5 DEF AlignUp
    <2>3. size \in Nat \ {0} /\ Word % size = 0
      <3> HIDE DEF size
      <3> QED
        BY <1>3, <1>5
    <2> HIDE DEF q, size, addr
    <2>4. ((q * size) % Word) % size = 0
      BY <1>3, <2>1, <2>3, WrapsAligned
    <2> QED
      BY <2>2, <2>4
  <1>6. RegionsAligned'
    <2> HIDE DEF addr, size, space
    <2>1. \A r \in assigned : r.size > 0 => r.addr % r.size = 0
      BY DEF DeviceInv, RegionsAligned
    <2>2. new.size = size /\ new.addr = addr
      OBVIOUS
    <2> HIDE DEF new
    <2> QED
      BY <1>1, <1>5, <2>1, <2>2 DEF RegionsAligned
  <1>7. ASSUME NEW i \in 0 .. Regions - 1, i < region',
               bus[bdf].regs[i].kind \in {"io", "mem", "mem64"}
        PROVE  \E r \in assigned' : r.bdf = bdf /\ r.region = i
    <2>1. CASE i = region
      <3>1. new.bdf = bdf /\ new.region = i
        BY <2>1
      <3> QED
        BY <1>1, <3>1
    <2>2. CASE i < region
      BY <1>1, <1>7, <2>2, PciAssumption DEF DeviceInv, RegsSet
    <2>3. CASE i > region
      <3>1. Reg.kind = "mem64" /\ i = region + 1
        BY <1>1, <1>7, <2>3 DEF Width
      <3>2. bus[bdf].regs[i].kind = "high"
        <4>1. bus[bdf].regs[region].kind = "mem64"
          BY <3>1 DEF Reg
        <4>2. region + 1 < Regions /\ region \in 0 .. Regions - 1
          BY <1>1, <3>1, PciAssumption
        <4>3. bus[bdf].regs[region + 1].kind = "high"
          BY <1>2, <4>1, <4>2 DEF WellFormed
        <4> QED
          BY <3>1, <4>3
      <3> QED
        BY <1>7, <3>2
    <2> QED
      BY <1>1, <2>1, <2>2, <2>3
  <1> QED
    BY <1>1, <1>6, <1>7 DEF RegsSet

\* Addresses once given stay given.
LEMMA RegsSetKept ==
    ASSUME bus' = bus, assigned \subseteq assigned'
    PROVE  \A b, n : RegsSet(b, n) => RegsSet(b, n)'
  BY DEF RegsSet

LEMMA DeviceInvStep ==
    ASSUME PciTypeOK, DeviceInv, [PciNext]_pciVars
    PROVE  DeviceInv'
  <1>1. bus' = bus /\ assigned \subseteq assigned'
    BY DEF PciNext, NoFunction, EndOfBus, FoundDevice, NoRegister, SetRegister,
           EnableDevice, FoundVga, NotVga, pciVars
  <1>2. \A b \in Enabled : RegsSet(b, Regions)'
    BY <1>1, RegsSetKept DEF DeviceInv
  <1>3. CASE UNCHANGED <<line, assigned>> /\ (region' = -1 \/ UNCHANGED <<bdf, region>>)
    <2>1. Enabled' = Enabled /\ RegionsAligned'
      BY <1>3 DEF Enabled, DeviceInv, RegionsAligned
    <2>2. region' # -1 => RegsSet(bdf, region)'
      BY <1>1, <1>3 DEF RegsSet, DeviceInv
    <2> QED
      BY <1>1, <1>2, <1>3, <2>1, <2>2 DEF DeviceInv
  <1>4. CASE FoundDevice
    <2>1. Enabled' = Enabled /\ RegionsAligned' /\ region' = 0 /\ line' = line
      BY <1>4 DEF FoundDevice, Enabled, DeviceInv, RegionsAligned
    <2>2. RegsSet(bdf, region)'
      BY <2>1 DEF RegsSet
    <2> QED
      BY <1>1, <1>2, <2>1, <2>2 DEF DeviceInv
  <1>5. CASE NoRegister
    <2>1. /\ region \in 0 .. Regions - 1 /\ region' = region + 1 /\ Reg.kind = "none"
          /\ UNCHANGED <<bus, bdf, assigned, line>>
      BY <1>5 DEF NoRegister
    <2>2. Enabled' = Enabled /\ RegionsAligned'
      BY <2>1 DEF Enabled, DeviceInv, RegionsAligned
    <2>3. RegsSet(bdf, region) /\ Regions \in Nat
      BY <2>1, PciAssumption DEF DeviceInv
    <2>4. RegsSet(bdf, region)'
      <3>1. \A i \in 0 .. Regions - 1 : i < region + 1 => i < region \/ i = region
        BY <2>1, <2>3
      <3> QED
        BY <2>1, <2>3, <3>1 DEF RegsSet, Reg
    <2> QED
      BY <1>1, <1>2, <2>1, <2>2, <2>4 DEF DeviceInv
  <1>6. CASE SetRegister
    <2>1. RegionsAligned' /\ RegsSet(bdf, region)' /\ line' = line
      BY <1>6, SetRegisterForDevice DEF SetRegister
    <2>2. Enabled' = Enabled
      BY <2>1 DEF Enabled
    <2> QED
      BY <1>1, <1>2, <2>1, <2>2 DEF DeviceInv
  <1>7. CASE EnableDevice
    <2>1. /\ walk = "pci_setup" /\ region >= Regions /\ region' = -1
          /\ line' = [line EXCEPT ![bdf] = MapPciInterrupt(bdf \div 8, bus[bdf])]
          /\ assigned' = assigned
      BY <1>7 DEF EnableDevice
    <2>2. region # -1 /\ region \in Int /\ Regions \in Nat
      BY <2>1, PciAssumption DEF PciTypeOK
    <2>3. bdf \in 0 .. Max - 1 /\ line \in [0 .. Max - 1 -> -1 .. 255]
      BY <2>2 DEF PciTypeOK, Present
    <2>4. Enabled' \subseteq Enabled \cup {bdf}
      BY <2>1, <2>3 DEF Enabled
    <2>5. ASSUME NEW b, b = bdf PROVE RegsSet(b, Regions)'
      <3>1. RegsSet(b, region)
        BY <2>2, <2>5 DEF DeviceInv
      <3>2. RegsSet(b, Regions)
        <4>1. \A i \in 0 .. Regions - 1 : i < region
          BY <2>1, <2>2
        <4> QED
          BY <3>1, <4>1 DEF RegsSet
      <3> QED
        BY <1>1, <3>2, RegsSetKept
    <2>6. \A b \in Enabled' : /\ b \in DOMAIN bus /\ RegsSet(b, Regions)'
                              /\ line'[b] = MapPciInterrupt(b \div 8, bus[b])
      <3> SUFFICES ASSUME NEW b \in Enabled'
                   PROVE  /\ b \in DOMAIN bus /\ RegsSet(b, Regions)'
                          /\ line'[b] = MapPciInterrupt(b \div 8, bus[b])
        OBVIOUS
      <3>1. CASE b = bdf
        <4>1. line'[bdf] = MapPciInterrupt(bdf \div 8, bus[bdf])
          BY <2>1, <2>3
        <4>2. RegsSet(b, Regions)'
          BY <2>5, <3>1
        <4> QED
          BY <2>2, <3>1, <4>1, <4>2 DEF PciTypeOK, Present
      <3>2. CASE b # bdf
        <4>1. b \in Enabled /\ b \in 0 .. Max - 1
          BY <2>4, <3>2 DEF Enabled
        <4>2. line'[b] = line[b]
          BY <2>1, <2>3, <3>2, <4>1
        <4> QED
          BY <1>2, <4>1, <4>2 DEF DeviceInv
      <3> QED
        BY <3>1, <3>2
    <2>7. RegionsAligned'
      BY <2>1 DEF DeviceInv, RegionsAligned
    <2> QED
      BY <1>1, <2>1, <2>6, <2>7 DEF DeviceInv
  <1>8. CASE NoFunction \/ EndOfBus \/ FoundVga \/ NotVga
    BY <1>3, <1>8 DEF NoFunction, EndOfBus, FoundVga, NotVga, InPciNext
  <1>9. CASE UNCHANGED pciVars
    BY <1>3, <1>9 DEF pciVars
  <1> QED
    BY <1>4, <1>5, <1>6, <1>7, <1>8, <1>9 DEF PciNext

\* Every enabled device can be used: its registers have aligned addresses, none
\* is left out, and its interrupt line is that of its slot and pin alone.
THEOREM EnabledDevicesUsable == Spec => []DevicesUsable
  <1>1. BootInit => PciInv /\ DeviceInv
    <2> SUFFICES ASSUME BootInit PROVE PciInv /\ DeviceInv
      OBVIOUS
    <2>1. PciInv
      BY PciInvInit DEF BootInit
    <2>2. Enabled = {}
      BY DEF BootInit, Init, Enabled
    <2> QED
      BY <2>1, <2>2 DEF BootInit, Init, DeviceInv, RegionsAligned
  <1>2. PciInv /\ DeviceInv /\ [Next]_vars => (PciInv /\ DeviceInv)'
    <2> SUFFICES ASSUME PciInv, DeviceInv, [Next]_vars PROVE PciInv' /\ DeviceInv'
      OBVIOUS
    <2>1. [PciNext]_pciVars
      BY DEF Next, vars, Start, InitPageTable, InitPcb, PciStep,
             InitHwrpbStruct, SwpPal
    <2> QED
      BY <2>1, PciInvStep, DeviceInvStep DEF PciInv
  <1>3. PciInv /\ DeviceInv => DevicesUsable
    <2> SUFFICES ASSUME PciInv, DeviceInv PROVE DevicesUsable
      OBVIOUS
    <2>1. RegistersSet
      <3>1. Regions \in Nat
        BY PciAssumption
      <3> QED
        BY <3>1 DEF DeviceInv, RegsSet, RegistersSet
    <2>2. LinesDistinct
      <3> SUFFICES ASSUME NEW b \in Enabled, NEW c \in Enabled,
                          line[b] = line[c], line[b] # 255
                   PROVE  b \div 8 = c \div 8 /\ bus[b].pin = bus[c].pin
        BY DEF LinesDistinct
      <3>1. /\ line[b] = MapPciInterrupt(b \div 8, bus[b])
            /\ line[c] = MapPciInterrupt(c \div 8, bus[c])
        BY DEF DeviceInv
      <3>2. /\ b \in 0 .. Max - 1 /\ c \in 0 .. Max - 1 /\ Max \in 0 .. 256
        BY PciAssumption DEF Enabled
      <3>3. bus[b].pin \in 0 .. 4 /\ bus[c].pin \in 0 .. 4
        <4>1. bus[b] \in Functions /\ bus[c] \in Functions
          BY DEF DeviceInv, PciInv, PciTypeOK
        <4> QED
          BY <4>1 DEF Functions
      <3> DEFINE x == b \div 8
                 y == c \div 8
                 p == bus[b].pin
                 r == bus[c].pin
      <3>4. x \in 0 .. 31 /\ y \in 0 .. 31
        BY <3>2
      <3>5. p # 0 /\ line[b] = (x + 1) * 4 + (p - 1)
        BY <3>1 DEF MapPciInterrupt
      <3>6. r # 0 /\ line[c] = (y + 1) * 4 + (r - 1)
        BY <3>1 DEF MapPciInterrupt
      <3>7. p \in 1 .. 4 /\ r \in 1 .. 4
        <4>1. p \in 0 .. 4 /\ r \in 0 .. 4
          BY <3>3
        <4> HIDE DEF p, r
        <4> QED
          BY <4>1, <3>5, <3>6
      <3> HIDE DEF x, y, p, r
      <3>8. (x + 1) * 4 + (p - 1) = (y + 1) * 4 + (r - 1)
        BY <3>5, <3>6
      <3>9. x = y /\ p = r
        BY ONLY <3>4, <3>7, <3>8
      <3> QED
        BY <3>9 DEF x, y, p, r
    <2> QED
      BY <2>1, <2>2 DEF DeviceInv, DevicesUsable
  <1> QED
    BY <1>1, <1>2, <1>3, PTL DEF Spec

(***************************************************************************)
(* The CPUs.                                                               *)
(***************************************************************************)

\* Where the CPUs are; CPU 0 leaves do_start's stack for the top of the same.
CpuInv ==
    /\ at \in [Cpus -> Places]
    /\ sp \in [Cpus -> Int] /\ cpuDir \in [Cpus -> Int]
    /\ \A c \in Cpus : at[c] # "__start" =>
        sp[c] = StackTop(c) /\ cpuDir[c] = DirAddress(c)
    /\ at[0] \in {"pci_setup", "swppal"} => pcb.ksp = StackTop(0)

LEMMA CpuInvStep ==
    ASSUME CpuInv, [Next]_vars
    PROVE  CpuInv'
  <1> USE BootAssumption
  <1>1. CASE UNCHANGED vars
    BY <1>1 DEF vars, bootVars, CpuInv
  <1>2. ASSUME NEW c \in Cpus, Start(c) PROVE CpuInv'
    <2>1. StackTop(c) \in Int /\ DirAddress(c) \in Int
      BY DEF StackTop, DirAddress
    <2> QED
      BY <1>2, <2>1 DEF Start, CpuInv, Places
  <1>3. CASE InitPageTable
    BY <1>3 DEF InitPageTable, Goes, CpuInv, Places
  <1>4. CASE InitPcb
    BY <1>4 DEF InitPcb, Goes, CpuInv, Places, StackTop
  <1>5. CASE PciStep
    BY <1>5 DEF PciStep, bootVars, CpuInv
  <1>6. CASE InitHwrpbStruct
    BY <1>6 DEF InitHwrpbStruct, Goes, CpuInv, Places
  <1>7. CASE SwpPal
    <2>1. StackTop(0) \in Int
      BY DEF StackTop
    <2> QED
      BY <1>7, <2>1 DEF SwpPal, Goes, CpuInv, Places
  <1> QED
    BY <1>1, <1>2, <1>3, <1>4, <1>5, <1>6, <1>7 DEF Next

\* Every CPU runs on its own stack and reads its own interrupts, whenever it
\* starts and wherever the others are.
THEOREM CpusStartApart == Spec => []CpusApart
  <1>1. BootInit => CpuInv
    BY BootAssumption DEF BootInit, CpuInv, Places
  <1>2. CpuInv /\ [Next]_vars => CpuInv'
    BY CpuInvStep
  <1>3. CpuInv => CpusApart
    <2> SUFFICES ASSUME CpuInv, NEW c \in Cpus, at[c] # "__start"
                 PROVE  /\ cpuDir[c] = Dirs[c]
                        /\ sp[c] - StackSize >= Stack
                        /\ sp[c] <= Stack + 4 * StackSize
                        /\ \A d \in Cpus \ {c} : at[d] # "__start" =>
                            \/ sp[c] <= sp[d] - StackSize
                            \/ sp[d] <= sp[c] - StackSize
      BY DEF CpusApart
    <2>1. \A d \in Cpus : at[d] # "__start" =>
            sp[d] = Stack + (d + 1) * StackSize
      BY DEF CpuInv, StackTop
    <2>2. cpuDir[c] = DirAddress(c)
      BY DEF CpuInv
    <2>3. DirAddress(c) = Dirs[c]
      BY BootAssumption DEF DirAddress, Dirs
    <2>4. \A d \in Cpus : d \in {0, 1, 2, 3}
      BY BootAssumption
    <2>5. StackSize \in Nat /\ Stack \in Nat
      BY BootAssumption
    <2>6. \A d \in Cpus \ {c} : at[d] # "__start" =>
            sp[c] <= sp[d] - StackSize \/ sp[d] <= sp[c] - StackSize
      BY <2>1, <2>4, <2>5
    <2>7. sp[c] - StackSize >= Stack /\ sp[c] <= Stack + 4 * StackSize
      BY <2>1, <2>4, <2>5
    <2> QED
      BY <2>2, <2>3, <2>6, <2>7
  <1> QED
    BY <1>1, <1>2, <1>3, PTL DEF Spec

(***************************************************************************)
(* Memory.                                                                 *)
(***************************************************************************)

\* The number of pages that n bytes reach into.
PagesUp(n) == (n + PageSize - 1) \div PageSize

\* Rounding up to pages.
LEMMA PagesUpBounds ==
    ASSUME NEW n \in Nat
    PROVE  /\ PagesUp(n) \in Nat
           /\ n <= PagesUp(n) * PageSize /\ PagesUp(n) * PageSize < n + PageSize
  <1> DEFINE q == PagesUp(n)
             r == (n + PageSize - 1) % PageSize
  <1>1. PageSize \in Nat \ {0}
    BY BootAssumption
  <1>2. /\ q \in Nat /\ r \in 0 .. (PageSize - 1)
        /\ n + PageSize - 1 = PageSize * q + r
    BY <1>1 DEF PagesUp
  <1> HIDE DEF q, r
  <1>3. PageSize * q \in Nat /\ PageSize * q = q * PageSize
    BY <1>1, <1>2
  <1>4. n <= q * PageSize /\ q * PageSize < n + PageSize
    BY <1>1, <1>2, <1>3
  <1> QED
    BY <1>2, <1>4 DEF q

\* Pages are in the order of their addresses.
LEMMA PageOrder ==
    ASSUME NEW a \in Int, NEW b \in Int, a * PageSize < b * PageSize
    PROVE  a < b
  <1>1. PageSize \in Nat \ {0}
    BY BootAssumption
  <1>2. CASE a >= b
    <2>1. PICK k \in Nat : a = b + k
      BY <1>2
    <2>2. a * PageSize = b * PageSize + k * PageSize
      BY <1>1, <2>1
    <2>3. k * PageSize >= 0
      BY <1>1
    <2>4. a * PageSize \in Int /\ b * PageSize \in Int /\ k * PageSize \in Int
      BY <1>1
    <2> QED
      BY <2>2, <2>3, <2>4
  <1> QED
    BY <1>2

\* A whole number of pages is that many.
LEMMA WholePages ==
    ASSUME NEW q \in Nat
    PROVE  PagesUp(q * PageSize) = q
  <1>1. PageSize \in Nat \ {0}
    BY BootAssumption
  <1> DEFINE n == q * PageSize
             u == PagesUp(n)
  <1>2. n \in Nat
    BY <1>1
  <1>3. u \in Nat /\ n <= u * PageSize /\ u * PageSize < n + PageSize
    BY <1>2, PagesUpBounds
  <1> HIDE DEF u
  <1>4. u < q + 1
    <2>1. (q + 1) * PageSize = n + PageSize
      BY <1>1
    <2> QED
      BY <1>3, <2>1, PageOrder
  <1>5. q < u + 1
    <2>1. (u + 1) * PageSize = u * PageSize + PageSize /\ u * PageSize \in Int
      BY <1>1, <1>3
    <2>2. n < (u + 1) * PageSize
      BY <1>1, <1>2, <1>3, <2>1
    <2> QED
      BY <1>3, <2>2, PageOrder
  <1>6. u = q
    BY <1>3, <1>4, <1>5
  <1> QED
    BY <1>6 DEF u

\* The page that alloc returns.
LEMMA AllocatedPage ==
    ASSUME NEW n \in Nat
    PROVE  AlignUp(n, PageSize) \div PageSize = PagesUp(n)
  <1> DEFINE q == PagesUp(n)
  <1>1. PageSize \in Nat \ {0}
    BY BootAssumption
  <1>2. AlignUp(n, PageSize) = q * PageSize
    BY DEF AlignUp, PagesUp
  <1>3. q \in Nat
    BY PagesUpBounds
  <1> HIDE DEF q
  <1>4. (q * PageSize) \div PageSize = q
    <2>1. PageSize * q \in Nat /\ PageSize * q = q * PageSize
      BY <1>1, <1>3
    <2>2. (PageSize * q) \div PageSize = q
      BY <1>1, <1>3
    <2> QED
      BY <2>1, <2>2
  <1> QED
    BY <1>2, <1>4 DEF q

\* Indices into page tables.
LEMMA IndexTypes ==
    ASSUME NEW addr \in Nat, NEW level \in 0 .. 2
    PROVE  PtIndex(addr, level) \in Index
  <1>1. Entries \in Nat \ {0} /\ PageSize \in Nat \ {0}
    BY BootAssumption
  <1>2. Span(level) \in Nat \ {0}
    <2>1. Entries * Entries \in Nat \ {0}
      BY <1>1
    <2> DEFINE f == <<1, Entries, Entries * Entries>>[level + 1]
    <2>2. f \in Nat \ {0}
      BY <1>1, <2>1
    <2> HIDE DEF f
    <2>3. PageSize * f \in Nat \ {0}
      BY <1>1, <2>2
    <2> QED
      BY <2>3 DEF Span, f
  <1> DEFINE k == addr \div Span(level)
  <1>3. k \in Nat
    BY <1>2
  <1> HIDE DEF k
  <1>4. k % Entries \in 0 .. (Entries - 1)
    BY <1>1, <1>3
  <1> QED
    BY <1>4 DEF PtIndex, Index, k

\* The first page that init_page_table allocates: the first one after _end.
\* It and the next one are within memory and not the firmware's own.
LEMMA FirstPage ==
    ASSUME NEW end \in Ends
    PROVE  LET p == PagesUp(end)
           IN  /\ p \in Nat /\ end \in Nat /\ p + 2 <= MemSize \div PageSize
               /\ DirPage < p /\ HwrpbPage < p
  <1> DEFINE p == PagesUp(end)
             all == MemSize \div PageSize
  <1>1. /\ PageSize \in Nat \ {0} /\ MemSize \in Nat /\ end \in Nat
        /\ DirPage \in Nat /\ HwrpbPage \in Nat
        /\ (DirPage + 1) * PageSize <= end /\ (HwrpbPage + 1) * PageSize <= end
        /\ end + 3 * PageSize <= MemSize
    BY BootAssumption
  <1>2. p \in Nat /\ end <= p * PageSize /\ p * PageSize < end + PageSize
    BY <1>1, PagesUpBounds
  <1>3. /\ all \in Nat /\ MemSize < (all + 1) * PageSize
    <2> DEFINE r == MemSize % PageSize
    <2>1. all \in Nat /\ r \in 0 .. (PageSize - 1) /\ MemSize = PageSize * all + r
      BY <1>1
    <2> HIDE DEF all, r
    <2>2. (all + 1) * PageSize = PageSize * all + PageSize /\ PageSize * all \in Nat
      BY <1>1, <2>1
    <2> QED
      BY <1>1, <2>1, <2>2
  <1> HIDE DEF p, all
  <1>4. p * PageSize \in Nat /\ (p + 2) * PageSize = p * PageSize + 2 * PageSize
    BY <1>1, <1>2
  <1>5. (p + 2) * PageSize < (all + 1) * PageSize
    <2>1. (all + 1) * PageSize \in Int
      BY <1>1, <1>3
    <2> QED
      BY <1>1, <1>2, <1>3, <1>4, <2>1
  <1>6. p + 2 < all + 1
    BY <1>2, <1>3, <1>5, PageOrder
  <1>7. ASSUME NEW q \in Nat, (q + 1) * PageSize <= end
        PROVE  q < p
    <2>1. (q + 1) * PageSize = q * PageSize + PageSize /\ q * PageSize \in Int
      BY <1>1
    <2>2. q * PageSize < p * PageSize
      BY <1>1, <1>2, <1>4, <1>7, <2>1
    <2> QED
      BY <1>2, <2>2, PageOrder
  <1> QED
    BY <1>1, <1>2, <1>3, <1>6, <1>7 DEF p, all

\* A table with one entry changed, and the tables with one in table pt.
With(t, i, e) == [t EXCEPT ![i] = e]
Put(T, pt, i, e) == [T EXCEPT ![pt][i] = e]
PutPte(m, pt, i, e) == [m EXCEPT !.tables[pt][i] = e]

\* A new table at p, empty but for what it is: entry i of pt leads to it.
Linked(T, p, pt, i) == Put([T EXCEPT ![p] = Zero], pt, i, p)

\* What Descend makes of memory where there is no table.
LEMMA Descended ==
    ASSUME NEW l \in Nat, NEW T, NEW pt, NEW i, T[pt][i] = NoPte
    PROVE  Descend([last |-> l, tables |-> T], pt, i) =
             [page |-> PagesUp(l),
              mem |-> [last |-> (PagesUp(l) + 1) * PageSize,
                       tables |-> Linked(T, PagesUp(l), pt, i)]]
  <1> DEFINE m == [last |-> l, tables |-> T]
             p == PagesUp(l)
  <1>1. Alloc(m) = [page |-> p, mem |-> [last |-> (p + 1) * PageSize,
                                         tables |-> [T EXCEPT ![p] = Zero]]]
    BY AllocatedPage DEF Alloc
  <1> HIDE DEF p
  <1>2. m.tables[pt][i] = NoPte
    OBVIOUS
  <1>3. Descend(m, pt, i) = [Alloc(m) EXCEPT !.mem.tables[pt][i] = Alloc(m).page]
    BY <1>2 DEF Descend
  <1> QED
    BY <1>1, <1>3 DEF p, Linked, Put

\* An entry is put into its table and no other.
LEMMA PutEntry ==
    ASSUME NEW T \in [Pages -> [Index -> Int]],
           NEW pt \in Pages, NEW i \in Index, NEW e \in Int
    PROVE  LET U == Put(T, pt, i, e)
           IN  /\ U \in [Pages -> [Index -> Int]]
               /\ U[pt] = With(T[pt], i, e)
               /\ \A q \in Pages : q # pt => U[q] = T[q]
  <1>1. T[pt] \in [Index -> Int]
    OBVIOUS
  <1> DEFINE t == [T[pt] EXCEPT ![i] = e]
  <1>2. t \in [Index -> Int]
    BY <1>1
  <1>3. Put(T, pt, i, e) = [T EXCEPT ![pt] = t]
    BY DEF Put
  <1> HIDE DEF t
  <1>4. LET U == [T EXCEPT ![pt] = t]
        IN  /\ U \in [Pages -> [Index -> Int]] /\ U[pt] = t
            /\ \A q \in Pages : q # pt => U[q] = T[q]
    BY <1>2
  <1> QED
    BY <1>3, <1>4 DEF t, With

LEMMA LinkedTables ==
    ASSUME NEW T \in [Pages -> [Index -> Int]],
           NEW p \in Pages, NEW pt \in Pages, NEW i \in Index, pt # p
    PROVE  /\ Linked(T, p, pt, i) \in [Pages -> [Index -> Int]]
           /\ Linked(T, p, pt, i)[p] = Zero
           /\ Linked(T, p, pt, i)[pt] = With(T[pt], i, p)
           /\ \A q \in Pages : q # p /\ q # pt => Linked(T, p, pt, i)[q] = T[q]
  <1> DEFINE A == [T EXCEPT ![p] = Zero]
  <1>1. Zero \in [Index -> Int]
    BY DEF Zero, NoPte
  <1>2. /\ A \in [Pages -> [Index -> Int]] /\ A[p] = Zero
        /\ \A q \in Pages : q # p => A[q] = T[q]
    BY <1>1
  <1>3. p \in Int
    BY BootAssumption DEF Pages
  <1> HIDE DEF A
  <1>4. LET U == Put(A, pt, i, p)
        IN  /\ U \in [Pages -> [Index -> Int]]
            /\ U[pt] = With(A[pt], i, p)
            /\ \A q \in Pages : q # pt => U[q] = A[q]
    BY <1>2, <1>3, PutEntry
  <1>5. A[pt] = T[pt]
    BY <1>2
  <1>6. Linked(T, p, pt, i) = Put(A, pt, i, p)
    BY DEF Linked, A
  <1> QED
    BY <1>2, <1>4, <1>5, <1>6

I(level) == PtIndex(InitHwrpb, level)

LEMMA SetPteIs ==
    ASSUME NEW m
    PROVE  SetPte(m, InitHwrpb, HwrpbPage) =
             LET l1 == Descend(m, DirPage, I(2))
                 l0 == Descend(l1.mem, l1.page, I(1))
             IN  PutPte(l0.mem, l0.page, I(0), HwrpbPage)
  BY DEF SetPte, PutPte, I

\* The boot page table: three levels, from the directory to the HWRPB's page,
\* and the directory's entry for itself; nothing else is in them.
BootTables(p, m) ==
    /\ p \in Nat /\ DirPage < p /\ HwrpbPage < p /\ p + 2 <= MemSize \div PageSize
    /\ m.last = (p + 2) * PageSize
    /\ m.tables[DirPage] = With(With(Zero, Self, DirPage), I(2), p)
    /\ m.tables[p] = With(Zero, I(1), p + 1)
    /\ m.tables[p + 1] = With(Zero, I(0), HwrpbPage)

\* init_page_table builds it, wherever the firmware ends and whatever was in
\* the memory after that.
LEMMA TablesBuilt ==
    ASSUME NEW end \in Ends, NEW T \in [Pages -> [Index -> Int]],
           T[DirPage] = Zero
    PROVE  BootTables(PagesUp(end),
                SetPte([[last |-> end, tables |-> T]
                            EXCEPT !.tables[DirPage][Self] = DirPage],
                       InitHwrpb, HwrpbPage))
  <1> DEFINE p == PagesUp(end)
  <1>1. /\ p \in Nat /\ end \in Nat /\ p + 2 <= MemSize \div PageSize
        /\ DirPage < p /\ HwrpbPage < p /\ DirPage \in Nat /\ HwrpbPage \in Nat
    BY FirstPage, BootAssumption
  <1>2. /\ I(0) \in Index /\ I(1) \in Index /\ I(2) \in Index /\ Self \in Index
        /\ I(2) # Self
    BY IndexTypes, BootAssumption DEF I, Self
  <1>3. p \in Pages /\ p + 1 \in Pages /\ DirPage \in Pages
    <2>1. MemSize \div PageSize \in Int
      BY BootAssumption
    <2> HIDE DEF p
    <2> QED
      BY <1>1, <2>1 DEF Pages
  <1>4. PagesUp((p + 1) * PageSize) = p + 1 /\ (p + 1) * PageSize \in Nat
    <2>1. p + 1 \in Nat /\ PageSize \in Nat
      BY <1>1, BootAssumption
    <2> HIDE DEF p
    <2> QED
      BY <2>1, WholePages
  <1> HIDE DEF p
  <1> DEFINE d0 == With(Zero, Self, DirPage)
             T0 == [T EXCEPT ![DirPage] = d0]
             T1 == Linked(T0, p, DirPage, I(2))
             T2 == Linked(T1, p + 1, p, I(1))
             T3 == Put(T2, p + 1, I(0), HwrpbPage)
             last1 == (p + 1) * PageSize
             last2 == (p + 1 + 1) * PageSize
  <1>5. Zero \in [Index -> Int] /\ \A i \in Index : Zero[i] = NoPte
    BY DEF Zero, NoPte
  <1>6. d0 \in [Index -> Int] /\ d0[I(2)] = NoPte
    BY <1>1, <1>2, <1>5 DEF With
  <1>7. T0 \in [Pages -> [Index -> Int]] /\ T0[DirPage] = d0
    BY <1>3, <1>6
  <1>8. [[last |-> end, tables |-> T] EXCEPT !.tables[DirPage][Self] = DirPage]
          = [last |-> end, tables |-> T0]
    <2>1. [T EXCEPT ![DirPage][Self] = DirPage] = T0
      BY <1>3 DEF With, d0, T0
    <2> QED
      BY <2>1
  <1> HIDE DEF d0, T0
  <1>9. Descend([last |-> end, tables |-> T0], DirPage, I(2))
          = [page |-> p, mem |-> [last |-> last1, tables |-> T1]]
    BY <1>1, <1>6, <1>7, Descended DEF p
  <1>10. /\ T1 \in [Pages -> [Index -> Int]] /\ T1[p] = Zero
         /\ T1[DirPage] = With(d0, I(2), p)
    <2>1. DirPage # p
      BY <1>1
    <2>2. /\ T1 \in [Pages -> [Index -> Int]] /\ T1[p] = Zero
          /\ T1[DirPage] = With(T0[DirPage], I(2), p)
      BY <1>2, <1>3, <1>7, <2>1, LinkedTables
    <2> HIDE DEF T1
    <2> QED
      BY <1>7, <2>2
  <1> HIDE DEF T1
  <1>11. Descend([last |-> last1, tables |-> T1], p, I(1))
           = [page |-> p + 1, mem |-> [last |-> last2, tables |-> T2]]
    <2>1. T1[p][I(1)] = NoPte
      BY <1>2, <1>5, <1>10
    <2> HIDE DEF last1
    <2>2. last1 \in Nat /\ PagesUp(last1) = p + 1
      BY <1>4 DEF last1
    <2> QED
      BY <2>1, <2>2, Descended
  <1>12. /\ T2 \in [Pages -> [Index -> Int]] /\ T2[p + 1] = Zero
         /\ T2[DirPage] = With(d0, I(2), p)
         /\ T2[p] = With(Zero, I(1), p + 1)
    <2>1. DirPage # p /\ DirPage # p + 1 /\ p # p + 1
      BY <1>1
    <2> QED
      <3>1. /\ T2 \in [Pages -> [Index -> Int]] /\ T2[p + 1] = Zero
            /\ T2[p] = With(T1[p], I(1), p + 1)
        BY <1>2, <1>3, <1>10, <2>1, LinkedTables
      <3>2. T2[DirPage] = T1[DirPage]
        BY <1>2, <1>3, <1>10, <2>1, LinkedTables
      <3> HIDE DEF T2
      <3> QED
        BY <1>10, <3>1, <3>2
  <1> HIDE DEF T2
  <1>13. /\ T3[p + 1] = With(Zero, I(0), HwrpbPage)
         /\ T3[DirPage] = With(d0, I(2), p)
         /\ T3[p] = With(Zero, I(1), p + 1)
    <2>1. DirPage # p + 1 /\ p # p + 1 /\ HwrpbPage \in Int
      BY <1>1
    <2>2. ASSUME NEW pt \in Pages
          PROVE  /\ Put(T2, pt, I(0), HwrpbPage)[pt] = With(T2[pt], I(0), HwrpbPage)
                 /\ \A q \in Pages : q # pt =>
                      Put(T2, pt, I(0), HwrpbPage)[q] = T2[q]
      <3> HIDE DEF T3
      <3> DEFINE k == I(0)
      <3>1. T2 \in [Pages -> [Index -> Int]] /\ k \in Index /\ HwrpbPage \in Int
        BY <1>2, <1>12, <2>1
      <3> HIDE DEF k
      <3>2. LET U == Put(T2, pt, k, HwrpbPage)
            IN  /\ U[pt] = With(T2[pt], k, HwrpbPage)
                /\ \A q \in Pages : q # pt => U[q] = T2[q]
        BY <3>1, PutEntry
      <3> QED
        BY <3>2 DEF k
    <2>3. /\ T3[p + 1] = With(T2[p + 1], I(0), HwrpbPage)
          /\ \A q \in Pages : q # p + 1 => T3[q] = T2[q]
      BY <1>3, <2>2
    <2> HIDE DEF T3
    <2> QED
      BY <1>3, <1>12, <2>1, <2>3
  <1>14. SetPte([last |-> end, tables |-> T0], InitHwrpb, HwrpbPage)
           = [last |-> last2, tables |-> T3]
    <2> HIDE DEF last1, last2
    <2>1. SetPte([last |-> end, tables |-> T0], InitHwrpb, HwrpbPage)
            = PutPte([last |-> last2, tables |-> T2], p + 1, I(0), HwrpbPage)
      BY <1>9, <1>11, SetPteIs
    <2> QED
      BY <2>1 DEF PutPte, Put
  <1>15. last2 = (p + 2) * PageSize
    BY <1>1
  <1> HIDE DEF T3, last1, last2
  <1> QED
    BY <1>1, <1>8, <1>13, <1>14, <1>15 DEF BootTables, p, d0

\* Memory as CPU 0 finds it and leaves it, and what the kernel is told.
Built == at[0] \in {"init_pcb", "pci_setup", "swppal", "kernel"}
MemoryInv ==
    /\ at[0] \in Places
    /\ ~Built => \E end \in Ends :
          mem = [last |-> end,
                 tables |-> [p \in Pages |-> IF p * PageSize < end THEN Zero ELSE Stale]]
    /\ Built => \E p \in Nat : BootTables(p, mem)
    /\ at[0] \in {"pci_setup", "swppal", "kernel"} => pcb.ptbr = DirPage
    /\ at[0] \in {"swppal", "kernel"} =>
          /\ hwrpb[1].used = [start |-> 0, num |-> PagesUp(mem.last)]
          /\ hwrpb[1].free = [start |-> PagesUp(mem.last),
                              num |-> MemSize \div PageSize - PagesUp(mem.last)]
    /\ Running => ptbr = DirPage

LEMMA MemoryInvStep ==
    ASSUME CpuInv, MemoryInv, [Next]_vars
    PROVE  MemoryInv'
  <1>0. at \in [Cpus -> Places]
    BY DEF CpuInv
  <1> USE <1>0, BootAssumption DEF Places, Running, Built
  <1>1. CASE UNCHANGED vars
    BY <1>1 DEF vars, bootVars, MemoryInv, BootTables
  <1>2. ASSUME NEW c \in Cpus, Start(c) PROVE MemoryInv'
    BY <1>2 DEF Start, MemoryInv, BootTables
  <1>3. CASE InitPageTable
    <2>1. PICK end \in Ends :
            mem = [last |-> end,
                   tables |-> [p \in Pages |-> IF p * PageSize < end THEN Zero ELSE Stale]]
      BY <1>3 DEF MemoryInv, InitPageTable, Goes
    <2> DEFINE T == [p \in Pages |-> IF p * PageSize < end THEN Zero ELSE Stale]
    <2>2. T \in [Pages -> [Index -> Int]]
      BY DEF Zero, Stale, NoPte
    <2>3. T[DirPage] = Zero
      <3>1. DirPage \in Pages
        <4>1. MemSize \div PageSize \in Int
          OBVIOUS
        <4> QED
          BY <4>1, FirstPage DEF Pages
      <3>2. DirPage * PageSize < end
        <4>1. (DirPage + 1) * PageSize = DirPage * PageSize + PageSize
              /\ DirPage * PageSize \in Int /\ end \in Nat
          OBVIOUS
        <4>2. (DirPage + 1) * PageSize <= end
          OBVIOUS
        <4> QED
          BY <4>1, <4>2
      <3> QED
        BY <3>1, <3>2
    <2>4. BootTables(PagesUp(end), mem') /\ PagesUp(end) \in Nat
      <3> HIDE DEF T
      <3>1. mem = [last |-> end, tables |-> T]
        BY <2>1 DEF T
      <3> QED
        BY <1>3, <2>2, <2>3, <3>1, TablesBuilt DEF InitPageTable, BootTables
    <2>5. at'[0] = "init_pcb"
      BY <1>3 DEF InitPageTable, Goes
    <2> QED
      BY <2>4, <2>5 DEF MemoryInv, BootTables
  <1>4. CASE InitPcb
    BY <1>4 DEF InitPcb, Goes, MemoryInv, BootTables
  <1>5. CASE PciStep
    BY <1>5 DEF PciStep, bootVars, MemoryInv, BootTables
  <1>6. CASE InitHwrpbStruct
    BY <1>6 DEF InitHwrpbStruct, Goes, MemoryInv, BootTables, PagesUp, PalPages
  <1>7. CASE SwpPal
    BY <1>7 DEF SwpPal, Goes, MemoryInv, BootTables
  <1> QED
    BY <1>1, <1>2, <1>3, <1>4, <1>5, <1>6, <1>7 DEF Next

\* What is in the tables when the kernel starts.
LEMMA BootEntries ==
    ASSUME NEW p, BootTables(p, mem)
    PROVE  /\ \A i \in Index : Entry(DirPage, i) =
                IF i = Self THEN DirPage ELSE IF i = I(2) THEN p ELSE NoPte
           /\ \A i \in Index : Entry(p, i) = IF i = I(1) THEN p + 1 ELSE NoPte
           /\ \A i \in Index : Entry(p + 1, i) = IF i = I(0) THEN HwrpbPage ELSE NoPte
           /\ \A i : Entry(NoPte, i) = NoPte
  <1>1. I(2) # Self /\ I(2) \in Index /\ Self \in Index /\ DirPage \in Nat
    BY IndexTypes, BootAssumption DEF I, Self
  <1>2. p \in Nat /\ DirPage # NoPte /\ p # NoPte /\ p + 1 # NoPte
    BY <1>1 DEF BootTables, NoPte
  <1>3. ASSUME NEW i \in Index
        PROVE  Entry(DirPage, i) =
                 IF i = Self THEN DirPage ELSE IF i = I(2) THEN p ELSE NoPte
    BY <1>1, <1>2 DEF Entry, BootTables, With, Zero
  <1>4. ASSUME NEW i \in Index
        PROVE  Entry(p, i) = IF i = I(1) THEN p + 1 ELSE NoPte
    BY <1>2 DEF Entry, BootTables, With, Zero
  <1>5. ASSUME NEW i \in Index
        PROVE  Entry(p + 1, i) = IF i = I(0) THEN HwrpbPage ELSE NoPte
    BY <1>2 DEF Entry, BootTables, With, Zero
  <1> QED
    BY <1>3, <1>4, <1>5 DEF Entry

LEMMA MemoryInvHolds == Spec => []MemoryInv
  <1>1. BootInit => CpuInv /\ MemoryInv
    BY BootAssumption DEF BootInit, CpuInv, MemoryInv, Built, Running, Places
  <1>2. CpuInv /\ MemoryInv /\ [Next]_vars => (CpuInv /\ MemoryInv)'
    BY CpuInvStep, MemoryInvStep
  <1> QED
    BY <1>1, <1>2, PTL DEF Spec

\* Whatever was in memory, the kernel starts with the page table the code means:
\* the HWRPB at INIT_HWRPB, the tables at VPTPTR, and nothing else
\* (set_pte, init_page_table).
THEOREM KernelAddressSpace == Spec => []AddressSpace
  <1>1. MemoryInv => AddressSpace
    <2> SUFFICES ASSUME MemoryInv, Running PROVE
            /\ Translate(VaOf(InitHwrpb)) = HwrpbPage
            /\ \A i, j \in Index :
                Translate(<<Self, i, j>>) = Entry(Entry(ptbr, i), j)
            /\ \A va \in (Index \ {Self}) \X Index \X Index :
                Translate(va) # NoPte => va = VaOf(InitHwrpb)
      BY DEF AddressSpace
    <2>1. PICK p \in Nat : BootTables(p, mem)
      BY DEF MemoryInv, Running, Built
    <2>2. ptbr = DirPage
      BY DEF MemoryInv
    <2>3. /\ I(2) # Self /\ I(0) \in Index /\ I(1) \in Index /\ I(2) \in Index
          /\ Self \in Index /\ DirPage \in Nat
      BY IndexTypes, BootAssumption DEF I, Self
    <2>4. VaOf(InitHwrpb) = <<I(2), I(1), I(0)>>
      BY DEF VaOf, I
    <2>5. Translate(VaOf(InitHwrpb)) = HwrpbPage
      BY <2>1, <2>2, <2>3, <2>4, BootEntries DEF Translate
    <2>6. ASSUME NEW i \in Index, NEW j \in Index
          PROVE  Translate(<<Self, i, j>>) = Entry(Entry(ptbr, i), j)
      BY <2>1, <2>2, <2>3, BootEntries DEF Translate
    <2>7. ASSUME NEW a \in Index \ {Self}, NEW b \in Index, NEW c \in Index,
                 Translate(<<a, b, c>>) # NoPte
          PROVE  a = I(2) /\ b = I(1) /\ c = I(0)
      BY <2>1, <2>2, <2>3, <2>7, BootEntries DEF Translate
    <2> QED
      BY <2>4, <2>5, <2>6, <2>7
  <1> QED
    BY <1>1, MemoryInvHolds, PTL

\* The clusters are the whole of memory, and nothing the firmware still uses is
\* in the one that the kernel may take, wherever the firmware ends (init_hwrpb).
THEOREM MemoryDividedUp == Spec => []MemoryClusters
  <1>1. MemoryInv => MemoryClusters
    <2> SUFFICES ASSUME MemoryInv, Running PROVE
            LET used == PagesOf(hwrpb[1].used)
                free == PagesOf(hwrpb[1].free)
            IN  /\ used \cup free = Pages /\ used \cap free = {}
                /\ FirmwarePages \subseteq used
      BY DEF MemoryClusters
    <2> DEFINE all == MemSize \div PageSize
    <2>1. PICK p \in Nat : BootTables(p, mem)
      BY DEF MemoryInv, Running, Built
    <2>2. /\ p \in Nat /\ p + 2 <= all /\ mem.last = (p + 2) * PageSize
          /\ DirPage < p /\ HwrpbPage < p /\ all \in Int /\ DirPage \in Nat
      BY <2>1, BootAssumption DEF BootTables
    <2>3. ptbr = DirPage
      BY DEF MemoryInv
    <2>4. PagesUp(mem.last) = p + 2
      BY <2>2, WholePages
    <2>5. /\ hwrpb[1].used = [start |-> 0, num |-> p + 2]
          /\ hwrpb[1].free = [start |-> p + 2, num |-> all - (p + 2)]
      BY <2>4 DEF MemoryInv, Running
    <2>6. Pages = 0 .. (all - 1)
      BY DEF Pages
    <2> HIDE DEF all
    <2>7. /\ PagesOf(hwrpb[1].used) = 0 .. (p + 1)
          /\ PagesOf(hwrpb[1].free) = (p + 2) .. (all - 1)
      BY <2>2, <2>5 DEF PagesOf
    <2>8. ASSUME NEW x \in FirmwarePages
          PROVE  x \in 0 .. (p + 1)
      <3>1. CASE x \in Pages /\ x * PageSize < mem.last
        <4>1. x < p + 2 /\ x \in Nat
          BY <2>2, <2>6, <3>1, PageOrder
        <4> QED
          BY <2>2, <4>1
      <3>2. CASE x = ptbr
        BY <2>2, <2>3, <3>2
      <3>3. ASSUME NEW i \in Index, x = Entry(ptbr, i), x # NoPte
            PROVE  x \in {DirPage, p}
        BY <2>1, <2>3, <3>3, BootEntries
      <3>4. ASSUME NEW i \in Index, NEW j \in Index,
                   x = Entry(Entry(ptbr, i), j), x # NoPte
            PROVE  x \in {DirPage, p, p + 1}
        BY <2>1, <2>3, <3>4, BootEntries
      <3>5. x # NoPte
        BY DEF FirmwarePages
      <3> QED
        BY <2>2, <3>1, <3>2, <3>3, <3>4, <3>5 DEF FirmwarePages
    <2> QED
      BY <2>2, <2>6, <2>7, <2>8
  <1> QED
    BY <1>1, MemoryInvHolds, PTL

(***************************************************************************)
(* The console terminal.                                                   *)
(***************************************************************************)

IsVga(b) == b \in RealFunctions /\ bus[b].vga
FirstVga ==
    IF vga = -1 THEN \A b \in RealFunctions : ~bus[b].vga
                ELSE IsVga(vga) /\ \A b \in RealFunctions : bus[b].vga => vga <= b

\* What vgahw_init has passed is no adapter.
VgaWalkInv ==
    /\ walk # "done" => vga = -1
    /\ walk = "vgahw_init" =>
         /\ bdf < Max => InMultiSlot(bdf)
         /\ \A b \in RealFunctions : b < bdf => ~bus[b].vga
    /\ walk = "done" => FirstVga

LEMMA VgaWalkStep ==
    ASSUME PciTypeOK, VgaWalkInv, [PciNext]_pciVars
    PROVE  VgaWalkInv'
  <1> USE DEF Present
  <1>1. RealFunctions' = RealFunctions /\ bus' = bus
    BY DEF RealFunctions, PciNext, NoFunction, EndOfBus, FoundDevice,
           NoRegister, SetRegister, EnableDevice, FoundVga, NotVga, pciVars
  <1>2. /\ \A b \in RealFunctions : b \in 0 .. (Max - 1)
        /\ Max \in Nat /\ bdf \in Nat
    <2>1. RealFunctions \subseteq DOMAIN bus
      BY DEF RealFunctions
    <2>2. DOMAIN bus \subseteq 0 .. (Max - 1) /\ bdf \in Nat
      BY DEF PciTypeOK
    <2>3. Max \in Nat
      BY PciAssumption
    <2> QED
      BY <2>1, <2>2, <2>3
  <1>3. CASE walk # "vgahw_init" /\ walk' = walk /\ vga' = vga
    BY <1>1, <1>3 DEF VgaWalkInv, FirstVga, IsVga
  <1>4. CASE EndOfBus /\ walk = "pci_setup"
    <2>1. /\ walk' = "vgahw_init" /\ bdf' = 0 /\ vga' = -1
      BY <1>4 DEF EndOfBus, VgaWalkInv
    <2>2. Func(0) = 0
      BY DEF Func
    <2> QED
      BY <1>1, <1>2, <2>1, <2>2 DEF VgaWalkInv, InMultiSlot
  <1>5. CASE EndOfBus /\ walk = "vgahw_init"
    <2>1. walk' = "done" /\ vga' = -1 /\ bdf >= Max
      BY <1>5 DEF EndOfBus, VgaWalkInv
    <2>2. \A b \in RealFunctions : ~bus[b].vga
      BY <1>2, <1>5, <2>1 DEF VgaWalkInv
    <2> QED
      BY <1>1, <2>1, <2>2 DEF VgaWalkInv, FirstVga
  <1>6. CASE (NoFunction /\ walk = "vgahw_init") \/ NotVga
    <2>1. /\ walk = "vgahw_init" /\ walk' = walk /\ vga' = vga /\ bdf < Max
          /\ bdf \in RealFunctions => ~bus[bdf].vga
          /\ InMultiSlot(bdf)
      BY <1>6 DEF NoFunction, NotVga, InPciNext, VgaWalkInv, RealFunctions
    <2>2. bdf' \in Nat
      BY <1>6, PciTypes DEF PciNext, PciTypeOK
    <2>3. \/ ~Present(bdf) /\ bdf' = bdf + (IF Func(bdf) = 0 THEN 8 ELSE 1)
          \/ Present(bdf) /\ bdf' = Skip(bdf + 1)
      BY <1>6 DEF NoFunction, NotVga
    <2>4. /\ \A b \in RealFunctions : b < bdf' => b <= bdf
          /\ InMultiSlot(bdf')
      BY <2>1, <2>2, <2>3, NothingSkipped
    <2>5. ASSUME NEW b \in RealFunctions, b < bdf'
          PROVE  ~bus[b].vga
      <3>1. b < bdf \/ b = bdf
        BY <1>2, <2>4, <2>5
      <3> QED
        BY <2>1, <3>1 DEF VgaWalkInv
    <2> QED
      BY <1>1, <2>1, <2>4, <2>5 DEF VgaWalkInv, InMultiSlot
  <1>7. CASE FoundVga
    <2>1. /\ walk = "vgahw_init" /\ walk' = "done" /\ vga' = bdf /\ bdf < Max
          /\ Present(bdf) /\ bus[bdf].vga
      BY <1>7 DEF FoundVga, InPciNext
    <2>2. InMultiSlot(bdf)
      BY <2>1 DEF VgaWalkInv
    <2>3. bdf \in RealFunctions
      BY <1>2, <2>1, <2>2, Slots DEF InMultiSlot, RealFunctions
    <2>4. \A b \in RealFunctions : bus[b].vga => bdf <= b
      BY <1>2, <2>1 DEF VgaWalkInv
    <2>5. bdf # -1
      BY <1>2
    <2> QED
      BY <1>1, <2>1, <2>3, <2>4, <2>5 DEF VgaWalkInv, FirstVga, IsVga
  <1>8. CASE FoundDevice \/ NoRegister \/ SetRegister \/ EnableDevice
    <2>1. walk = "pci_setup"
      BY <1>8, PciAssumption
      DEF FoundDevice, NoRegister, SetRegister, EnableDevice, InPciNext, PciTypeOK
    <2> QED
      BY <1>3, <1>8, <2>1 DEF FoundDevice, NoRegister, SetRegister, EnableDevice
  <1>9. CASE NoFunction /\ walk # "vgahw_init"
    BY <1>3, <1>9 DEF NoFunction
  <1>10. CASE UNCHANGED pciVars
    BY <1>1, <1>10 DEF pciVars, VgaWalkInv, FirstVga, IsVga, InMultiSlot
  <1>11. EndOfBus => walk \in {"pci_setup", "vgahw_init"}
    BY DEF EndOfBus, InPciNext
  <1> QED
    BY <1>4, <1>5, <1>6, <1>7, <1>8, <1>9, <1>10, <1>11 DEF PciNext

\* The terminal block says what the walk found.
TerminalInv ==
    /\ VgaWalkInv
    /\ at[0] \in {"swppal", "kernel"} =>
         /\ walk = "done" /\ hwrpb[1].graphics = Graphics
         /\ Graphics => hwrpb[1].slot = vga \div 8

LEMMA TerminalInvStep ==
    ASSUME PciTypeOK, CpuInv, TerminalInv, [Next]_vars
    PROVE  TerminalInv'
  <1> USE DEF Graphics, Goes
  <1>0. at \in [Cpus -> Places] /\ 0 \in Cpus
    BY BootAssumption DEF CpuInv
  <1>1. VgaWalkInv'
    <2>1. [PciNext]_pciVars
      BY DEF Next, vars, Start, InitPageTable, InitPcb, PciStep,
             InitHwrpbStruct, SwpPal
    <2> QED
      BY <2>1, VgaWalkStep DEF TerminalInv
  <1>2. CASE UNCHANGED vars
    BY <1>1, <1>2 DEF vars, bootVars, pciVars, TerminalInv
  <1>3. ASSUME NEW c \in Cpus, Start(c) PROVE TerminalInv'
    BY <1>0, <1>1, <1>3 DEF Start, pciVars, TerminalInv
  <1>4. CASE InitPageTable
    BY <1>0, <1>1, <1>4 DEF InitPageTable, TerminalInv
  <1>5. CASE InitPcb
    BY <1>0, <1>1, <1>5 DEF InitPcb, TerminalInv
  <1>6. CASE PciStep
    BY <1>1, <1>6 DEF PciStep, bootVars, TerminalInv
  <1>7. CASE InitHwrpbStruct
    BY <1>0, <1>1, <1>7 DEF InitHwrpbStruct, pciVars, TerminalInv
  <1>8. CASE SwpPal
    BY <1>0, <1>1, <1>8 DEF SwpPal, pciVars, TerminalInv
  <1> QED
    BY <1>2, <1>3, <1>4, <1>5, <1>6, <1>7, <1>8 DEF Next

\* Whatever is on the bus, the kernel is told to use the screen exactly if it
\* may and there is an adapter, and which slot the first one is in
\* (vgahw_init, init_hwrpb).
THEOREM KernelFindsScreen == Spec => []ConsoleTerminal
  <1>1. BootInit => PciInv /\ CpuInv /\ TerminalInv
    <2> SUFFICES ASSUME BootInit PROVE PciInv /\ CpuInv /\ TerminalInv
      OBVIOUS
    <2>1. PciInv
      BY PciInvInit DEF BootInit
    <2>2. at[0] = "__start" /\ walk = "pci_setup" /\ vga = -1
      BY BootAssumption DEF BootInit, Init
    <2> QED
      BY <2>1, <2>2, BootAssumption
      DEF BootInit, CpuInv, Places, TerminalInv, VgaWalkInv
  <1>2. PciInv /\ CpuInv /\ TerminalInv /\ [Next]_vars
          => (PciInv /\ CpuInv /\ TerminalInv)'
    <2> SUFFICES ASSUME PciInv, CpuInv, TerminalInv, [Next]_vars
                 PROVE  PciInv' /\ CpuInv' /\ TerminalInv'
      OBVIOUS
    <2>1. [PciNext]_pciVars
      BY DEF Next, vars, Start, InitPageTable, InitPcb, PciStep,
             InitHwrpbStruct, SwpPal
    <2> QED
      BY <2>1, PciInvStep, CpuInvStep, TerminalInvStep DEF PciInv
  <1>3. TerminalInv => ConsoleTerminal
    BY DEF TerminalInv, VgaWalkInv, FirstVga, IsVga, ConsoleTerminal, Running, Graphics
  <1> QED
    BY <1>1, <1>2, <1>3, PTL DEF Spec
=============================================================================
