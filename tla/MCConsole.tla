------------------------------- MODULE MCConsole -------------------------------
(* Small instances of Console. *)
EXTENDS Console

\* $28 as it is at reset, with bits that raise the IPL, or with the bit of user
\* mode: the code that a tick interrupts may hold any of them.
AnyAtValues == {KernelPs(0), KernelPs(7), [cm |-> 1, ipl |-> 0]}
=============================================================================
