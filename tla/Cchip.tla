--------------------------------- MODULE Cchip ---------------------------------
(***************************************************************************)
(* The interrupt part of the Cchip's MISC register, as the SYS_ macros of  *)
(* src/core-typhoon.h use it: a write of ones to IPREQ<15:12> requests     *)
(* interprocessor interrupts, a write of ones to IPINTR<11:8> or           *)
(* ITINTR<7:4> clears the interrupts of the CPUs with those numbers.  The  *)
(* register is shared by all CPUs and each access to it is one step.       *)
(***************************************************************************)
EXTENDS Integers

CONSTANT Cpus               \* CPU numbers

VARIABLES ipintr, itintr    \* CPUs with an interprocessor, a clock interrupt

cchipVars == <<ipintr, itintr>>

ASSUME CchipAssumption == Cpus \subseteq 0..3 /\ 0 \in Cpus

\* Write MISC with these bits set.
MiscWrite(bits) ==
    /\ ipintr' = {c \in Cpus : c + 12 \in bits \/ (c \in ipintr /\ c + 8 \notin bits)}
    /\ itintr' = {c \in itintr : c + 4 \notin bits}

\* A bug: every CPU's interrupt is cleared, as by a write of what was read.
SYS_ACK_SMPAll(cpu) == MiscWrite({c + 8 : c \in ipintr})

SYS_ACK_SMP(cpu) == MiscWrite({cpu + 8})
SYS_ACK_CLK(cpu) == MiscWrite({cpu + 4})

\* A bug: no interrupt is requested of a CPU whose number is not masked right.
SYS_WRIPIRMask1(target) == MiscWrite({(target % 2) + 12})

SYS_WRIPIR(target) == MiscWrite({(target % 4) + 12})
=============================================================================
