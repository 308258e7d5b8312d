------------------------------- MODULE MCPalCode -------------------------------
(* Small instances of PalCode. *)
EXTENDS PalCode

\* Two kernel stacks, with an unmapped slot below each.
MCKTop == [p \in Procs |-> 10 * p]
MCPtbr == [p \in Procs |-> p]
MCHandler == [s \in 0..5 |-> 10 + 2 * s]
MCPcs == {0, 1, 10, 12, 14, 16, 18, 20}
MCGuestArgs == {<<21, 22, 23>>}
MCHwArgs == {<<31, 32, 33>>}
MCUserSps == {0, 1}
MCDirs == {{}, {5, 55}}
MCTbis == {-2, 3}
MCMcesBits == {{"MIP", "DPC"}, {}}

\* The causes a run raises.
ExceptionCauses == {"MMFault", "Unalign", "Arith", "OpcDec", "Fen", "Bpt",
                    "BugChk", "GenTrap", "CallOpcDec", "CallSys"}
InterruptCauses == {"CallSys", "Smp", "Clk", "Dev"}
SwitchCauses == {"CallSys", "Clk", "KernelCallSys", "Mchk"}
ProcessCauses == {"CallSys", "Halt"}
MchkCauses == {"Mchk"}

\* PalProcess explores the cycle counter only where FEN and the unique values
\* stay as they were: nothing reads both, and their product is out of reach.
ClockStopped == cc = 0 /\ pccOfs = 0 /\ \A p \in Procs : pcb[p].pcc = 0
ClockAlone == unique = 0 /\ \A p \in Procs : pcb[p].fen = 1 /\ pcb[p].unique = 0
TimeApart == ClockStopped \/ ClockAlone
=============================================================================
