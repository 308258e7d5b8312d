------------------------------- MODULE PalState -------------------------------
(***************************************************************************)
(* The state one CPU's PALcode keeps (src/pal.S), and the helpers every    *)
(* entry point is built from: the processor status, the kernel stack frame *)
(* and the process control block (PCB).                                    *)
(*                                                                         *)
(* Abstractions.  One slot of kernel stack memory holds one frame          *)
(* (FRM_K_SIZE bytes) or kernel data of that size; one unit of pc is one   *)
(* instruction, so "addq pc, 4" is pc + 1 and clearing PC<1:0> does        *)
(* nothing; the registers a0..a2 are the triple args.  A PCB is named by   *)
(* its process.  Result values (v0) and the shadow registers p0..p7 are    *)
(* not kept; sysval and vptptr, which nothing else reads, are left out.    *)
(***************************************************************************)
EXTENDS Integers

CONSTANTS
    Procs,      \* processes, each with a PCB and a kernel stack
    NoProc,     \* ptPcbb before the console has swapped to a kernel
    KTop,       \* KTop[p]: the address just above p's kernel stack
    Depth,      \* mapped slots of each kernel stack
    UserSps,    \* stack pointers of user programs
    Ptbr,       \* Ptbr[p]: the page table base in p's PCB
    Data,       \* a stack slot that holds kernel data, not a frame
    NoPc, NoGp, \* an entry point, a global pointer the kernel has not set
    Pcs,        \* instruction addresses (a bound of the model)
    CcMod       \* the cycle counter counts modulo CcMod (2^32 in the code)

VARIABLES
    cpu,        \* "console" until SwpPal, "running", or a HLT_K_ reason
    ps,         \* qemu_ps
    pc, gp, args, t0, sp,   \* guest registers
    usp,        \* qemu_usp, the user stack pointer while in kernel mode
    ptKsp,      \* the kernel stack pointer while in user mode
    ptKgp, ent, \* the kernel's global pointer and entry points
    mem,        \* kernel stack memory
    mces,       \* the set of bits that are set in ptMces
    logout,     \* this CPU's machine check logout frame
    ptPcbb, pcb,            \* the running process, and all PCBs
    cc, pccOfs,             \* cycle counter, and its offset for this process
    unique, fen, ptbr,      \* per-process registers
    tlb         \* page tables whose translations the TLB holds

vars == <<cpu, ps, pc, gp, args, t0, sp, usp, ptKsp, ptKgp, ent, mem, mces,
          logout, ptPcbb, pcb, cc, pccOfs, unique, fen, ptbr, tlb>>
procVars == <<ptPcbb, pcb, cc, pccOfs, unique, fen, ptbr, tlb>>
mchkVars == <<mces, logout>>

Slots(p) == (KTop[p] - Depth) .. (KTop[p] - 1)
KAddr == UNION {Slots(p) : p \in Procs}

\* Every stack has a slot, and an unmapped slot lies below each.
ASSUME PalStateAssumption ==
    /\ Depth \in Nat \ {0} /\ CcMod \in Nat \ {0}
    /\ KTop \in [Procs -> Int]
    /\ \A p, q \in Procs : p # q => KTop[p] - Depth > KTop[q]
                                    \/ KTop[q] - Depth > KTop[p]
    /\ UserSps # {} /\ UserSps \subseteq Int
    /\ NoProc \notin Procs

-----------------------------------------------------------------------------
(* The processor status: <3> current mode, <2:0> IPL.                      *)
PS == [cm : {0, 1}, ipl : 0..7]
KernelPs(ipl) == [cm |-> 0, ipl |-> ipl]
UserPs == [cm |-> 1, ipl |-> 0]
UserMode == ps.cm = 1

IPL_K_DEV1 == 4
IPL_K_CLK  == 5
IPL_K_IP   == 6
IPL_K_MCHK == 7

\* Selectors of wrent, in the order of WrEnt_Table.
WrEnt_Table == <<"Int", "Arith", "MM", "IF", "Una", "Sys">>
EntryPoints == {"Int", "Arith", "MM", "IF", "Una", "Sys"}

\* A kernel runs and has set itself up: it registers its entry points and its
\* global pointer before it does anything that can trap.
KernelReady == /\ cpu = "running"
               /\ ptKgp # NoGp
               /\ \A e \in EntryPoints : ent[e] # NoPc

-----------------------------------------------------------------------------
(* The kernel stack frame.                                                 *)
IsFrame(a) == mem[a] # Data

\* A bug: every trap starts at the top of the kernel stack.
FrameSpFromKsp == ptKsp - 1

\* Where the next frame goes: below the kernel stack pointer, which is in
\* ptKsp while a user program runs.
FrameSp == (IF UserMode THEN ptKsp ELSE sp) - 1

Frame(savedPc) == [ps |-> ps, pc |-> savedPc, gp |-> gp, args |-> args]

\* A bug: the user stack pointer is not kept.
StackFrameNoUsp(savedPc) ==
    /\ FrameSp \in KAddr
    /\ sp' = FrameSp
    /\ usp' = usp
    /\ mem' = [mem EXCEPT ![FrameSp] = Frame(savedPc)]

\* STACK_FRAME and CallPal_Stack_Frame.
StackFrame(savedPc) ==
    /\ FrameSp \in KAddr
    /\ sp' = FrameSp
    /\ usp' = IF UserMode THEN sp ELSE usp
    /\ mem' = [mem EXCEPT ![FrameSp] = Frame(savedPc)]

\* A bug: the frame's PS is installed as it is.
RtiPsWhole(f) == f.ps

\* The PS a return from trap installs: a user frame's IPL is dropped.
RtiPs(f) == IF f.ps.cm = 1 THEN UserPs ELSE KernelPs(f.ps.ipl)

-----------------------------------------------------------------------------
(* Process control blocks.                                                 *)

\* The running process's virtual cycle counter, PCC<31:0> + PCC<63:32>.
VirtualCc == (cc + pccOfs) % CcMod

\* A bug: the operands of the subtraction are swapped.
CcOffsetSwapped(v) == (cc - v) % CcMod

\* The offset that makes the counter continue from the value v.
CcOffset(v) == (v - cc) % CcMod

\* UpdatePCB in kernel mode, with the stack pointer s.  (It is never reached
\* from user mode: see UserStackEmpty in PalCode.)
UpdatePCB(s) ==
    /\ ptKsp' = s
    /\ pcb' = [pcb EXCEPT ![ptPcbb] =
                 [ksp |-> s, usp |-> pcb[ptPcbb].usp, pcc |-> VirtualCc,
                  unique |-> unique, fen |-> pcb[ptPcbb].fen,
                  ptbr |-> pcb[ptPcbb].ptbr]]
=============================================================================
