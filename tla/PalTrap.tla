-------------------------------- MODULE PalTrap --------------------------------
(***************************************************************************)
(* Entries into the kernel and returns from it (src/pal.S): exceptions,    *)
(* interrupts, machine checks, the CALL_PALs that trap, retsys and rti.    *)
(* Each builds or pops one frame of the kernel stack; PALmode is not       *)
(* interruptible, so each is one step.                                     *)
(*                                                                         *)
(* Two halts are not actions.  A trap out of PALmode itself (MchkFromPal)  *)
(* needs a PCB outside memory, which the guest does not pass; MchkDouble   *)
(* needs MCES<MIP>, which no code sets.                                    *)
(***************************************************************************)
EXTENDS PalState

CONSTANTS
    Causes,     \* the causes of traps a run raises (a bound of the model)
    HwArgs,     \* values of qemu_trap_arg0..2
    Dirs,       \* sets of device interrupts the Cchip's DIR may show
    IsaIrqs     \* what an IACK cycle may return

INT_K_IP   == 0
INT_K_CLK  == 1
INT_K_MCHK == 2
INT_K_DEV  == 3

IF_K_BPT     == 0
IF_K_BUGCHK  == 1
IF_K_GENTRAP == 2
IF_K_FEN     == 3
IF_K_OPCDEC  == 4

MCHK_K_OS_BUGCHECK == 144
MCHK_K_SYS_NOMEM   == 519

\* The kernel address of mchk_logout, passed in a2.
LogoutPtr == -1

\* ptMces as a number.
McesValue == (IF "MIP" \in mces THEN 1 ELSE 0) + (IF "SCE" \in mces THEN 2 ELSE 0)
           + (IF "PCE" \in mces THEN 4 ELSE 0) + (IF "DPC" \in mces THEN 8 ELSE 0)
           + (IF "DSC" \in mces THEN 16 ELSE 0)

-----------------------------------------------------------------------------
(* What every entry does: push a frame, take a new PS, load the kernel's   *)
(* global pointer and continue at the entry point e.                       *)
Enter(savedPc, newPs, e, newArgs) ==
    /\ KernelReady
    /\ savedPc \in Pcs
    /\ StackFrame(savedPc)
    /\ ps' = newPs
    /\ pc' = ent[e]
    /\ gp' = ptKgp
    /\ args' = newArgs
    /\ UNCHANGED <<cpu, ptKsp, ptKgp, ent, procVars>>

\* Exceptions keep the kernel's IPL; from user mode the IPL is 0.
ExceptionPs == IF UserMode THEN KernelPs(0) ELSE ps

Exception(savedPc, e, newArgs) ==
    /\ Enter(savedPc, ExceptionPs, e, newArgs)
    /\ UNCHANGED <<t0, mchkVars>>

Pal_MMFault ==
    /\ "MMFault" \in Causes
    /\ \E a \in HwArgs : Exception(pc, "MM", a)

\* A bug: the emulated instruction is run again.
Pal_UnalignNoSkip ==
    /\ "Unalign" \in Causes
    /\ \E a \in HwArgs : Exception(pc, "Una", a)

\* The faulting instruction is skipped: the kernel emulates it.
Pal_Unalign ==
    /\ "Unalign" \in Causes
    /\ \E a \in HwArgs : Exception(pc + 1, "Una", a)

Pal_Arith ==
    /\ "Arith" \in Causes
    /\ \E a \in HwArgs : Exception(pc, "Arith", <<a[1], a[2], args[3]>>)

Pal_OpcDec ==
    /\ "OpcDec" \in Causes
    /\ Exception(pc, "IF", [args EXCEPT ![1] = IF_K_OPCDEC])

\* A floating point instruction while FEN is clear.
Pal_Fen ==
    /\ "Fen" \in Causes
    /\ fen = 0
    /\ Exception(pc, "IF", [args EXCEPT ![1] = IF_K_FEN])

\* bpt, bugchk, gentrap and the unassigned function codes.
CallPal_Trap(code) ==
    Exception(pc + 1, "IF", [args EXCEPT ![1] = code])

CallPal_Bpt     == "Bpt" \in Causes /\ CallPal_Trap(IF_K_BPT)
CallPal_BugChk  == "BugChk" \in Causes /\ CallPal_Trap(IF_K_BUGCHK)
CallPal_GenTrap == "GenTrap" \in Causes /\ CallPal_Trap(IF_K_GENTRAP)
CallPal_OpcDec  == "CallOpcDec" \in Causes /\ CallPal_Trap(IF_K_OPCDEC)

CallPal_CallSys ==
    /\ "CallSys" \in Causes
    /\ UserMode
    /\ Exception(pc + 1, "Sys", args)

-----------------------------------------------------------------------------
(* Interrupts: taken below their level, they raise the IPL to it.          *)
Interrupt(level, code, vector) ==
    /\ ps.ipl < level
    /\ Enter(pc, KernelPs(level), "Int", <<code, vector, 0>>)
    /\ UNCHANGED <<t0, mchkVars>>

Pal_Smp_Interrupt ==
    "Smp" \in Causes /\ Interrupt(IPL_K_IP, INT_K_IP, 0)

\* A bug: the clock interrupt leaves the IPL at the device level.
Pal_Clk_InterruptLow ==
    "Clk" \in Causes /\ Interrupt(IPL_K_DEV1, INT_K_CLK, 0)

Pal_Clk_Interrupt ==
    "Clk" \in Causes /\ Interrupt(IPL_K_CLK, INT_K_CLK, 0)

\* PCI interrupts are numbered from 16, ISA ones (behind 55) from 0.
Sys_Dev_Vector(irq, isa) == 2048 + 16 * (IF irq = 55 THEN isa ELSE irq + 16)

\* cttz finds the first asserted interrupt.
Pal_Dev_Interrupt ==
    /\ "Dev" \in Causes
    /\ \E dir \in Dirs, isa \in IsaIrqs : \E irq \in dir :
         /\ \A other \in dir : irq <= other
         /\ Interrupt(IPL_K_DEV1, INT_K_DEV, Sys_Dev_Vector(irq, isa))

\* No interrupt is asserted any more: Sys_Dev_Vector branches to CallPal_Rti,
\* which pops the frame just pushed.
Pal_Dev_Spurious ==
    /\ "Dev" \in Causes
    /\ {} \in Dirs
    /\ KernelReady
    /\ ps.ipl < IPL_K_DEV1
    /\ FrameSp \in KAddr
    /\ mem' = [mem EXCEPT ![FrameSp] = Data]
    /\ ps' = RtiPs(Frame(pc))
    /\ usp' = IF UserMode THEN sp ELSE usp
    /\ sp' = IF UserMode THEN usp' ELSE FrameSp + 1
    /\ ptKsp' = IF UserMode THEN FrameSp + 1 ELSE ptKsp
    /\ UNCHANGED <<cpu, pc, gp, args, t0, ptKgp, ent, mchkVars, procVars>>

-----------------------------------------------------------------------------
\* A bug: the frame resumes at the instruction that caused the machine check.
MchkLogOutRetry(code, excAddr) ==
    /\ Enter(excAddr, KernelPs(IPL_K_MCHK), "Int", <<INT_K_MCHK, 0, LogoutPtr>>)
    /\ logout' = [code |-> code, excAddr |-> excAddr]
    /\ UNCHANGED mces

(* Machine checks.  The instruction that caused one is skipped.            *)
MchkLogOut(code, excAddr) ==
    /\ Enter(excAddr + 1, KernelPs(IPL_K_MCHK), "Int",
             <<INT_K_MCHK, 0, LogoutPtr>>)
    /\ logout' = [code |-> code, excAddr |-> excAddr]
    /\ UNCHANGED mces

\* An access to memory that does not exist.  The reason is loaded into the
\* guest's t0, and p0 still holds ptMces when MchkLogOut stores it.
Pal_Mchk ==
    /\ "Mchk" \in Causes
    /\ "MIP" \notin mces
    /\ MchkLogOut(McesValue, pc)
    /\ t0' = MCHK_K_SYS_NOMEM

\* callsys in kernel mode is a bug of the kernel.
CallPal_CallSys_Kernel ==
    /\ "KernelCallSys" \in Causes
    /\ ~UserMode
    /\ MchkLogOut(MCHK_K_OS_BUGCHECK, pc)
    /\ UNCHANGED t0

\* A trap in kernel mode finds no mapped slot: the store of the frame faults in
\* PALmode, and MchkBugCheck saves the kernel stack pointer, already lowered,
\* and enters the console.
MchkBugCheck ==
    /\ KernelReady
    /\ Causes # {}
    /\ ~UserMode
    /\ FrameSp \notin KAddr
    /\ cpu' = "MCHK_FROM_PAL"
    /\ sp' = FrameSp
    /\ UpdatePCB(FrameSp)
    /\ UNCHANGED <<ps, pc, gp, args, t0, usp, ptKgp, ent, mem, mchkVars,
                   ptPcbb, cc, pccOfs, unique, fen, ptbr, tlb>>

CallPal_Halt ==
    /\ "Halt" \in Causes
    /\ KernelReady
    /\ ~UserMode
    /\ cpu' = "SW_HALT"
    /\ UpdatePCB(sp)
    /\ UNCHANGED <<ps, pc, gp, args, t0, sp, usp, ptKgp, ent, mem, mchkVars,
                   ptPcbb, cc, pccOfs, unique, fen, ptbr, tlb>>

-----------------------------------------------------------------------------
(* Returns.  The kernel calls them with sp at the frame it was entered on. *)
(* A popped slot is not read again: the model forgets what it holds.       *)
AtFrame == KernelReady /\ ~UserMode /\ sp \in KAddr /\ IsFrame(sp)

CallPal_Rti ==
    /\ AtFrame
    /\ LET f == mem[sp] IN
         /\ ps' = RtiPs(f)
         /\ pc' = f.pc
         /\ gp' = f.gp
         /\ args' = f.args
         /\ ptKsp' = IF f.ps.cm = 1 THEN sp + 1 ELSE ptKsp
         /\ sp' = IF f.ps.cm = 1 THEN usp ELSE sp + 1
    /\ mem' = [mem EXCEPT ![sp] = Data]
    /\ UNCHANGED <<cpu, t0, usp, ptKgp, ent, mchkVars, procVars>>

\* A bug: the frame is left on the kernel stack.
CallPal_RetSysNoPop ==
    /\ AtFrame
    /\ ps' = UserPs
    /\ pc' = mem[sp].pc
    /\ gp' = mem[sp].gp
    /\ ptKsp' = sp
    /\ sp' = usp
    /\ mem' = [mem EXCEPT ![sp] = Data]
    /\ UNCHANGED <<cpu, args, t0, usp, ptKgp, ent, mchkVars, procVars>>

\* Return from a system call: always to user mode, whatever PS the frame holds,
\* and a0..a2 are not restored.
CallPal_RetSys ==
    /\ AtFrame
    /\ ps' = UserPs
    /\ pc' = mem[sp].pc
    /\ gp' = mem[sp].gp
    /\ ptKsp' = sp + 1
    /\ sp' = usp
    /\ mem' = [mem EXCEPT ![sp] = Data]
    /\ UNCHANGED <<cpu, args, t0, usp, ptKgp, ent, mchkVars, procVars>>

-----------------------------------------------------------------------------
(* The kernel's calls on this state.                                       *)
CallPal_SwpIpl(ipl) ==
    /\ KernelReady /\ ~UserMode
    /\ pc + 1 \in Pcs
    /\ ps' = KernelPs(ipl)
    /\ pc' = pc + 1
    /\ UNCHANGED <<cpu, gp, args, t0, sp, usp, ptKsp, ptKgp, ent, mem,
                   mchkVars, procVars>>

\* A bug: a1 is stored for a0.
CallPal_WrEntSelector(va, selector) ==
    /\ cpu = "running" /\ ~UserMode
    /\ ent' = IF selector < 6
              THEN [ent EXCEPT ![WrEnt_Table[selector + 1]] = selector]
              ELSE ent
    /\ UNCHANGED <<cpu, ps, pc, gp, args, t0, sp, usp, ptKsp, ptKgp, mem,
                   mchkVars, procVars>>

CallPal_WrEnt(va, selector) ==
    /\ cpu = "running" /\ ~UserMode
    /\ ent' = IF selector < 6
              THEN [ent EXCEPT ![WrEnt_Table[selector + 1]] = va]
              ELSE ent
    /\ UNCHANGED <<cpu, ps, pc, gp, args, t0, sp, usp, ptKsp, ptKgp, mem,
                   mchkVars, procVars>>

CallPal_WrKgp(kgp) ==
    /\ cpu = "running" /\ ~UserMode
    /\ ptKgp' = kgp
    /\ UNCHANGED <<cpu, ps, pc, gp, args, t0, sp, usp, ptKsp, ent, mem,
                   mchkVars, procVars>>

CallPal_WrUsp(s) ==
    /\ KernelReady /\ ~UserMode
    /\ pc + 1 \in Pcs
    /\ usp' = s
    /\ pc' = pc + 1
    /\ UNCHANGED <<cpu, ps, gp, args, t0, sp, ptKsp, ptKgp, ent, mem,
                   mchkVars, procVars>>

\* MIP, SCE and PCE are cleared by writing 1; DPC and DSC are copied.
CallPal_WrMces(bits) ==
    /\ KernelReady /\ ~UserMode
    /\ pc + 1 \in Pcs
    /\ mces' = ((mces \ (bits \cap {"MIP", "SCE", "PCE"})) \ {"DPC", "DSC"})
               \cup (bits \cap {"DPC", "DSC"})
    /\ pc' = pc + 1
    /\ UNCHANGED <<cpu, ps, gp, args, t0, sp, usp, ptKsp, ptKgp, ent, mem,
                   logout, procVars>>
=============================================================================
