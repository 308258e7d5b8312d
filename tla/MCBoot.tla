-------------------------------- MODULE MCBoot ---------------------------------
(* Small machines: three slots of eight functions, 6-bit PCI addresses.    *)
EXTENDS Boot

Register(kind, size) == [kind |-> kind, size |-> size]
None == Register("none", 0)

MCRegisters ==
    {<<None, None, None>>,
     <<Register("mem", 4), Register("io", 2), Register("mem", 8)>>,
     <<None, Register("mem64", 16), Register("high", 0)>>,
     <<Register("mem64", 64), Register("high", 0), Register("io", 8)>>}

Device(regs, multi, isVga, pin) ==
    [multi |-> multi, vga |-> isVga, isa |-> FALSE, pin |-> pin,
     regs |-> [i \in 0 .. 2 |-> regs[i + 1]]]

\* A first function, another that answers in its slot whether there is one or
\* not, and a device in the last slot, which has no interrupt or is a VGA.
MCBuses ==
    {[b \in {first, first + other, 16} |->
        CASE b = first -> Device(r, multi, FALSE, 1)
          [] b = first + other -> Device(s, multi, v, 2)
          [] b = 16 -> [Device(t, FALSE, ~i, 1) EXCEPT !.isa = i]] :
        first \in {0, 8}, other \in {1, 7}, multi \in BOOLEAN,
        r \in MCRegisters, s \in MCRegisters, t \in MCRegisters,
        v \in BOOLEAN, i \in BOOLEAN}
=============================================================================
