-------------------------------- MODULE PalCode --------------------------------
(***************************************************************************)
(* One CPU's PALcode: traps (PalTrap) and processes (PalContext) together, *)
(* driven by a guest.  The guest is not part of the repository: a user     *)
(* program does anything its mode allows; the kernel keeps the discipline  *)
(* every OSF/1 kernel keeps: it registers its entry points first, and      *)
(* swaps PALcode, if at all, before that; it returns with the stack        *)
(* pointer at the frame it was entered on, by retsys only from a system    *)
(* call's (UserFrame); and it pops the data it pushed.                     *)
(***************************************************************************)
EXTENDS PalTrap, PalContext, Sequences, FiniteSets

CONSTANTS
    CodePcs,    \* addresses the guest's code is at
    Handler,    \* Handler[s]: the kernel's entry point for selector s
    GuestArgs, GuestGps, Kgp,   \* register values the guest uses
    Ipls,       \* IPLs the kernel asks for
    McesBits,   \* sets of MCES bits the kernel writes
    Tbis,       \* selectors of tbi the kernel uses
    Fens,       \* values the kernel writes to FEN
    Uniques     \* unique values

Init ==
    /\ cpu = "console"
    /\ ps = KernelPs(7)
    /\ pc = 0 /\ gp = Kgp /\ t0 = 0
    /\ args \in GuestArgs
    /\ sp = 0 /\ usp = 0 /\ ptKsp = 0
    /\ ptKgp = NoGp
    /\ ent = [e \in EntryPoints |-> NoPc]
    /\ mem = [a \in KAddr |-> Data]
    /\ mces = {}
    /\ logout = [code |-> 0, excAddr |-> 0]
    /\ ptPcbb = NoProc
    /\ pcb = [p \in Procs |-> [ksp |-> KTop[p], usp |-> 0, pcc |-> 0,
                               unique |-> 0, fen |-> 1, ptbr |-> Ptbr[p]]]
    /\ cc = 0 /\ pccOfs = 0 /\ unique = 0 /\ fen = 0 /\ ptbr = 0
    /\ tlb = {}

-----------------------------------------------------------------------------
(* The guest's own steps.                                                  *)

\* Some instructions of the program that runs; they fill the TLB.
GuestStep ==
    /\ KernelReady
    /\ pc' \in CodePcs
    /\ gp' \in GuestGps
    /\ args' \in GuestArgs
    /\ t0' = 0
    /\ sp' \in IF UserMode THEN UserSps ELSE {sp}
    /\ tlb' = tlb \cup {ptbr}
    /\ UNCHANGED <<cpu, ps, usp, ptKsp, ptKgp, ent, mem, mchkVars, ptPcbb, pcb,
                   cc, pccOfs, unique, fen, ptbr>>

KernelUnchanged ==
    UNCHANGED <<cpu, ps, pc, gp, args, t0, usp, ptKsp, ptKgp, ent, mchkVars,
                procVars>>

KernelPush ==
    /\ KernelReady /\ ~UserMode /\ sp - 1 \in KAddr
    /\ sp' = sp - 1
    /\ mem' = [mem EXCEPT ![sp - 1] = Data]
    /\ KernelUnchanged

KernelPop ==
    /\ KernelReady /\ ~UserMode /\ sp \in KAddr /\ ~IsFrame(sp)
    /\ sp' = sp + 1
    /\ UNCHANGED mem
    /\ KernelUnchanged

\* A process's first user context: a frame the kernel builds by hand, with any
\* IPL in its PS.
KernelMakeFrame(ipl) ==
    /\ KernelReady /\ ~UserMode /\ sp = KTop[ptPcbb]
    /\ sp' = sp - 1
    /\ \E savedPc \in CodePcs, savedGp \in GuestGps, savedArgs \in GuestArgs :
         mem' = [mem EXCEPT ![sp - 1] =
                   [ps |-> [cm |-> 1, ipl |-> ipl], pc |-> savedPc,
                    gp |-> savedGp, args |-> savedArgs]]
    /\ KernelUnchanged

Tick ==
    /\ KernelReady /\ CcMod > 1
    /\ cc' = (cc + 1) % CcMod
    /\ UNCHANGED <<cpu, ps, pc, gp, args, t0, sp, usp, ptKsp, ptKgp, ent, mem,
                   mchkVars, ptPcbb, pcb, pccOfs, unique, fen, ptbr, tlb>>

-----------------------------------------------------------------------------
\* Entries into the kernel.
TrapIn ==
    \/ Pal_MMFault \/ Pal_Unalign \/ Pal_Arith \/ Pal_OpcDec \/ Pal_Fen
    \/ CallPal_Bpt \/ CallPal_BugChk \/ CallPal_GenTrap \/ CallPal_OpcDec
    \/ CallPal_CallSys
    \/ Pal_Smp_Interrupt \/ Pal_Clk_Interrupt \/ Pal_Dev_Interrupt
    \/ Pal_Mchk \/ CallPal_CallSys_Kernel

\* The frame was pushed in user mode: retsys does not look, and would leave
\* the kernel's context for the user's mode.
UserFrame == mem[sp].ps.cm = 1

\* Returns from it, and a spurious interrupt, which is both.
TrapOut == CallPal_Rti \/ (CallPal_RetSys /\ UserFrame) \/ Pal_Dev_Spurious

Halting == MchkBugCheck \/ CallPal_Halt

\* The kernel's calls on its own state.
KernelCalls ==
    \/ \E ipl \in Ipls : CallPal_SwpIpl(ipl)
    \/ \E s \in 0..5 : CallPal_WrEnt(Handler[s], s)
    \/ CallPal_WrKgp(Kgp)
    \/ \E s \in UserSps : CallPal_WrUsp(s)
    \/ \E bits \in McesBits : CallPal_WrMces(bits)

ContextNext ==
    \/ \E p \in Procs : CallPal_SwpCtx(p)
    \/ ~KernelReady /\ \E p \in Procs, newPc \in CodePcs : CallPal_SwpPal(newPc, p)
    \/ CallPal_SwpPalUnknown
    \/ \E f \in Fens : CallPal_WrFen(f)
    \/ \E u \in Uniques : CallPal_WrUnique(u)
    \/ \E s \in Tbis : CallPal_Tbi(s)

GuestNext ==
    \/ GuestStep \/ KernelPush \/ KernelPop \/ Tick
    \/ \E ipl \in Ipls : KernelMakeFrame(ipl)

Next == TrapIn \/ TrapOut \/ Halting \/ KernelCalls \/ ContextNext \/ GuestNext

Spec == Init /\ [][Next]_vars

-----------------------------------------------------------------------------
(* Types.                                                                  *)
Gps == GuestGps \cup {Kgp}
Args == [1..3 -> Int]
Frames == [ps : PS, pc : Pcs, gp : Gps, args : Args]
Pcb == [ksp : Int, usp : Int, pcc : Int, unique : Int, fen : {0, 1}, ptbr : Int]

ASSUME PalCodeAssumption ==
    /\ 0 \in CodePcs /\ CodePcs \subseteq Pcs /\ Pcs \subseteq Int
    /\ Handler \in [0..5 -> Pcs]
    /\ GuestArgs \subseteq Args /\ HwArgs \subseteq Args
    /\ Ipls \subseteq 0..7
    /\ \A bits \in McesBits : bits \subseteq {"MIP", "SCE", "PCE", "DPC", "DSC"}
    /\ Uniques \subseteq Int /\ Fens \subseteq {0, 1} /\ Tbis \subseteq Int
    /\ Ptbr \in [Procs -> Int]
    /\ \A dir \in Dirs : dir \subseteq 0..63
    /\ IsaIrqs \subseteq 0..15
    /\ Data \notin Frames /\ NoPc \notin Pcs /\ NoGp \notin Gps

\* Every register and memory slot holds a value of its kind.
TypeOK ==
    /\ cpu \in {"console", "running", "SW_HALT", "MCHK_FROM_PAL"}
    /\ ps \in PS /\ pc \in Pcs /\ gp \in Gps /\ args \in Args /\ t0 \in Int
    /\ sp \in Int /\ usp \in Int /\ ptKsp \in Int
    /\ ptKgp \in Gps \cup {NoGp}
    /\ ent \in [EntryPoints -> Pcs \cup {NoPc}]
    /\ mem \in [KAddr -> Frames \cup {Data}]
    /\ mces \subseteq {"MIP", "SCE", "PCE", "DPC", "DSC"}
    /\ logout \in [code : Int, excAddr : Int]
    /\ ptPcbb \in Procs \cup {NoProc} /\ pcb \in [Procs -> Pcb]
    /\ cc \in Int /\ pccOfs \in Int /\ unique \in Int /\ fen \in {0, 1}
    /\ ptbr \in Int /\ tlb \subseteq Int
    /\ cpu # "console" => ptPcbb \in Procs

-----------------------------------------------------------------------------
(* Safety.                                                                 *)

\* The top of p's kernel stack in use, wherever the code keeps it now.
Ksp(p) == IF p # ptPcbb THEN pcb[p].ksp ELSE IF UserMode THEN ptKsp ELSE sp

\* Every process's kernel stack pointer stays within its own stack, and a
\* frame saved from user mode lies only in the topmost slot: a process enters
\* its kernel from user mode on an empty stack, at every nesting of traps and
\* after any number of context switches.  (STACK_FRAME, retsys, rti, swpctx.)
StacksWellFormed ==
    cpu = "running" =>
      \A p \in Procs :
        /\ Ksp(p) \in (KTop[p] - Depth) .. KTop[p]
        /\ \A a \in Ksp(p) .. (KTop[p] - 1) :
             IsFrame(a) /\ mem[a].ps.cm = 1 => a = KTop[p] - 1

\* While a user program runs, ptKsp is the top of the running process's own
\* kernel stack, although ptKsp is no part of a PCB and swpctx does not set it;
\* so a trap from user mode always finds a mapped slot, and UpdatePCB is never
\* reached from user mode.
UserStackEmpty ==
    cpu = "running" /\ UserMode => ptKsp = KTop[ptPcbb]

\* A user program runs at IPL 0, whatever IPL the kernel left at or put in the
\* frame: no interrupt is ever shut out by user mode.  (rti, retsys.)
UserAtIplZero == UserMode => ps.ipl = 0

\* FEN and the page table are those of the running process's PCB: swpctx saves
\* neither, so wrfen must write through.
PcbCurrent ==
    cpu = "running" => fen = pcb[ptPcbb].fen /\ ptbr = pcb[ptPcbb].ptbr

\* The TLB holds no translation of another process's page table: there are no
\* address space numbers.  (tbia in swpctx and swppal.)
TlbCurrent == tlb \subseteq {ptbr}

\* A process's virtual time, unique value and user stack pointer, wherever the
\* code keeps them now.
VirtualTime(p) == IF p = ptPcbb THEN VirtualCc ELSE pcb[p].pcc
UniqueOf(p) == IF p = ptPcbb THEN unique ELSE pcb[p].unique
UspOf(p) == IF p # ptPcbb THEN pcb[p].usp ELSE IF UserMode THEN sp ELSE usp

\* A process's virtual cycle counter runs exactly while the process does, also
\* across the wraparound of the counter and a switch to itself.  (swpctx's
\* arithmetic on PCC<31:0> and PCC<63:32>.)
VirtualTimeIsContinuous ==
    [][cpu = "running" =>
         \A p \in Procs :
           VirtualTime(p)' = (VirtualTime(p)
                              + IF p = ptPcbb THEN cc' - cc ELSE 0) % CcMod]_vars

\* No step changes another process's unique value or user stack pointer, and a
\* step that writes a PCB changes nobody's: not a switch to another process, not
\* a switch to itself, not a halt.  (The order of swpctx's stores and loads.)
ProcessStateKept ==
    [][cpu = "running" =>
         \A p \in Procs :
           p # ptPcbb \/ pcb' # pcb =>
             UniqueOf(p)' = UniqueOf(p) /\ UspOf(p)' = UspOf(p)]_vars

-----------------------------------------------------------------------------
(* PalCode implements Contexts.                                            *)

\* The slots of p's kernel stack that hold frames, and the one of them (of S)
\* that is the i-th from below.
FramesOf(p) == {a \in Ksp(p) .. (KTop[p] - 1) : IsFrame(a)}
Rank(S, a) == Cardinality({b \in S : b <= a})
Nth(S, i) == CHOOSE a \in S : Rank(S, a) = i

\* The context a frame of p holds; a user context's stack pointer is not in it.
ContextAt(p, a) ==
    [ps |-> mem[a].ps, pc |-> mem[a].pc, gp |-> mem[a].gp,
     args |-> mem[a].args,
     sp |-> IF mem[a].ps.cm = 0 THEN a + 1
            ELSE IF p = ptPcbb THEN usp ELSE pcb[p].usp]

\* The contexts set aside on p's kernel stack, the one set aside last first.
StackOf(p) ==
    [i \in 1 .. Cardinality(FramesOf(p)) |-> ContextAt(p, Nth(FramesOf(p), i))]

AbsMode == IF KernelReady THEN "on"
           ELSE IF cpu \in {"console", "running"} THEN "off" ELSE "stopped"
AbsRun == [ps |-> ps, pc |-> pc, gp |-> gp, args |-> args, sp |-> sp]
AbsStack == [p \in Procs |-> IF cpu = "running" THEN StackOf(p) ELSE <<>>]
AbsParked == [p \in Procs |-> IF p = ptPcbb THEN 0 ELSE pcb[p].ksp]

Abs == INSTANCE Contexts WITH
    mode <- AbsMode, cur <- ptPcbb, run <- AbsRun, stack <- AbsStack,
    parked <- AbsParked

\* Traps and context switches resume exactly the contexts they interrupted.
ImplementsContexts == Abs!Spec

-----------------------------------------------------------------------------
(* What the comments of the code say and the code does not do.             *)

\* pal.S: MchkLogOut's input p0 is the "Machine check reason", and its output
\* registers are a0, a1 and a2; so the logout frame names the reason, and the
\* interrupted program keeps its t0.
LogoutNamesReason ==
    [][logout' # logout =>
         logout'.code \in {MCHK_K_SYS_NOMEM, MCHK_K_OS_BUGCHECK} /\ t0' = t0]_vars
=============================================================================
