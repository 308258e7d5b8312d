----------------------------- MODULE PalCodeProofs -----------------------------
(***************************************************************************)
(* Proofs, for all values of the constants, that PALcode keeps every       *)
(* process's kernel stack well formed and what follows from it; and of     *)
(* what it keeps of a process: its registers while others run, its         *)
(* virtual time, and the contexts on its kernel stack, which is the        *)
(* refinement of Contexts.                                                 *)
(***************************************************************************)
EXTENDS PalCode, FiniteSetTheorems, SequenceTheorems, TLAPS

(***************************************************************************)
(* Types.                                                                  *)
(***************************************************************************)

\* The offset of the cycle counter and its value are integers.
LEMMA CcTypes ==
    ASSUME TypeOK
    PROVE  /\ VirtualCc \in Int
           /\ \A v \in Int : CcOffset(v) \in Int
  BY PalStateAssumption DEF TypeOK, VirtualCc, CcOffset

\* What a kernel that is ready has registered.
LEMMA ReadyTypes ==
    ASSUME TypeOK, KernelReady
    PROVE  /\ ptKgp \in Gps /\ ptPcbb \in Procs
           /\ \A e \in EntryPoints : ent[e] \in Pcs
  BY DEF TypeOK, KernelReady

\* The value an entry passes in its argument registers is a triple.
LEMMA Triples ==
    ASSUME NEW a \in Int, NEW b \in Int, NEW c \in Int
    PROVE  <<a, b, c>> \in Args
  BY DEF Args

\* Entering the kernel keeps the types.
LEMMA EnterTypes ==
    ASSUME TypeOK, NEW savedPc \in Int, NEW newPs \in PS, NEW e \in EntryPoints,
           NEW newArgs \in Args, Enter(savedPc, newPs, e, newArgs),
           t0' \in Int, mces' = mces, logout' \in [code : Int, excAddr : Int]
    PROVE  TypeOK'
  <1>1. Frame(savedPc) \in Frames
    BY DEF TypeOK, Enter, Frame, Frames
  <1>2. mem' \in [KAddr -> Frames \cup {Data}] /\ sp' \in Int /\ usp' \in Int
    BY <1>1 DEF TypeOK, Enter, StackFrame, FrameSp
  <1>3. ps' \in PS /\ pc' \in Pcs /\ gp' \in Gps /\ args' \in Args
    BY ReadyTypes DEF Enter
  <1> QED
    BY <1>2, <1>3 DEF TypeOK, Enter, procVars, Pcb

\* Exceptions, with their entry points and arguments.
LEMMA ExceptionTypes ==
    ASSUME TypeOK, NEW savedPc \in Int, NEW e \in EntryPoints,
           NEW newArgs \in Args, Exception(savedPc, e, newArgs)
    PROVE  TypeOK'
  <1>1. ExceptionPs \in PS
    BY DEF TypeOK, ExceptionPs, PS, KernelPs
  <1>2. t0' \in Int /\ mces' = mces /\ logout' \in [code : Int, excAddr : Int]
    BY DEF TypeOK, Exception, mchkVars
  <1> QED
    BY <1>1, <1>2, EnterTypes DEF Exception

LEMMA InterruptTypes ==
    ASSUME TypeOK, NEW level \in 0..7, NEW code \in Int, NEW vector \in Int,
           Interrupt(level, code, vector)
    PROVE  TypeOK'
  <1>1. KernelPs(level) \in PS
    BY DEF PS, KernelPs
  <1>2. <<code, vector, 0>> \in Args
    BY Triples
  <1>3. t0' \in Int /\ mces' = mces /\ logout' \in [code : Int, excAddr : Int]
    BY DEF TypeOK, Interrupt, mchkVars
  <1>4. pc \in Int
    BY PalCodeAssumption DEF TypeOK
  <1> QED
    BY <1>1, <1>2, <1>3, <1>4, EnterTypes DEF Interrupt, EntryPoints

LEMMA MchkTypes ==
    ASSUME TypeOK, NEW code \in Int, MchkLogOut(code, pc), t0' \in Int
    PROVE  TypeOK'
  <1>1. KernelPs(IPL_K_MCHK) \in PS
    BY DEF PS, KernelPs, IPL_K_MCHK
  <1>2. <<INT_K_MCHK, 0, LogoutPtr>> \in Args
    BY Triples DEF INT_K_MCHK, LogoutPtr
  <1>3. pc \in Int /\ pc + 1 \in Int
    BY PalCodeAssumption DEF TypeOK
  <1>4. mces' = mces /\ logout' \in [code : Int, excAddr : Int]
    BY <1>3 DEF MchkLogOut
  <1> QED
    BY <1>1, <1>2, <1>3, <1>4, EnterTypes DEF MchkLogOut, EntryPoints

\* Traps into the kernel keep the types.
LEMMA TrapTypes ==
    ASSUME TypeOK, TrapIn
    PROVE  TypeOK'
  <1> USE PalCodeAssumption
  <1>1. pc \in Int /\ pc + 1 \in Int /\ args \in Args
    BY DEF TypeOK
  <1>2. \A code \in Int : [args EXCEPT ![1] = code] \in Args
    BY <1>1 DEF Args
  <1>3. {"MM", "Una", "Arith", "IF", "Sys", "Int"} \subseteq EntryPoints
    BY DEF EntryPoints
  <1>4. CASE Pal_MMFault
    BY <1>1, <1>3, <1>4, ExceptionTypes DEF Pal_MMFault
  <1>5. CASE Pal_Unalign
    BY <1>1, <1>3, <1>5, ExceptionTypes DEF Pal_Unalign
  <1>6. CASE Pal_Arith
    <2>1. PICK a \in HwArgs : Exception(pc, "Arith", <<a[1], a[2], args[3]>>)
      BY <1>6 DEF Pal_Arith
    <2>2. a[1] \in Int /\ a[2] \in Int /\ args[3] \in Int
      BY <1>1 DEF Args
    <2> QED
      BY <1>1, <1>3, <2>1, <2>2, Triples, ExceptionTypes
  <1>7. CASE Pal_OpcDec
    BY <1>1, <1>2, <1>3, <1>7, ExceptionTypes DEF Pal_OpcDec, IF_K_OPCDEC
  <1>8. CASE Pal_Fen
    BY <1>1, <1>2, <1>3, <1>8, ExceptionTypes DEF Pal_Fen, IF_K_FEN
  <1>9. CASE CallPal_Bpt \/ CallPal_BugChk \/ CallPal_GenTrap \/ CallPal_OpcDec
    <2>1. PICK code \in Int : CallPal_Trap(code)
      BY <1>9 DEF CallPal_Bpt, CallPal_BugChk, CallPal_GenTrap, CallPal_OpcDec,
                  IF_K_BPT, IF_K_BUGCHK, IF_K_GENTRAP, IF_K_OPCDEC
    <2>2. [args EXCEPT ![1] = code] \in Args
      BY <1>2
    <2> QED
      BY <1>1, <1>3, <2>1, <2>2, ExceptionTypes DEF CallPal_Trap
  <1>10. CASE CallPal_CallSys
    BY <1>1, <1>3, <1>10, ExceptionTypes DEF CallPal_CallSys
  <1>11. CASE Pal_Smp_Interrupt \/ Pal_Clk_Interrupt
    BY <1>11, InterruptTypes
       DEF Pal_Smp_Interrupt, Pal_Clk_Interrupt, IPL_K_IP, IPL_K_CLK,
           INT_K_IP, INT_K_CLK
  <1>12. CASE Pal_Dev_Interrupt
    <2>1. PICK irq \in 0..63, isa \in 0..15 :
             Interrupt(IPL_K_DEV1, INT_K_DEV, Sys_Dev_Vector(irq, isa))
      BY <1>12 DEF Pal_Dev_Interrupt
    <2>2. Sys_Dev_Vector(irq, isa) \in Int
      BY DEF Sys_Dev_Vector
    <2> QED
      BY <2>1, <2>2, InterruptTypes DEF IPL_K_DEV1, INT_K_DEV
  <1>13. CASE Pal_Mchk
    BY <1>13, MchkTypes DEF Pal_Mchk, McesValue, MCHK_K_SYS_NOMEM
  <1>14. CASE CallPal_CallSys_Kernel
    BY <1>14, MchkTypes DEF CallPal_CallSys_Kernel, MCHK_K_OS_BUGCHECK, TypeOK
  <1> QED
    BY <1>4, <1>5, <1>6, <1>7, <1>8, <1>9, <1>10, <1>11, <1>12, <1>13, <1>14
       DEF TrapIn

\* The PS that a return installs is one.
LEMMA RtiTypes ==
    ASSUME NEW f \in Frames
    PROVE  RtiPs(f) \in PS
  BY DEF Frames, RtiPs, PS, UserPs, KernelPs

\* Saving and updating a PCB keep its type.
LEMMA PcbTypes ==
    ASSUME TypeOK, cpu # "console"
    PROVE  /\ Saved \in [Procs -> Pcb]
           /\ \A s \in Int : UpdatePCB(s) => ptKsp' \in Int /\ pcb' \in [Procs -> Pcb]
  BY CcTypes DEF TypeOK, Saved, UpdatePCB, Pcb

LEMMA ReturnTypes ==
    ASSUME TypeOK, TrapOut
    PROVE  TypeOK'
  <1>1. CASE CallPal_Rti \/ CallPal_RetSys
    <2>1. AtFrame /\ mem[sp] \in Frames
      BY <1>1 DEF CallPal_Rti, CallPal_RetSys, AtFrame, IsFrame, TypeOK
    <2>2. RtiPs(mem[sp]) \in PS /\ UserPs \in PS
      BY <2>1, RtiTypes DEF PS, UserPs
    <2>3. mem[sp].pc \in Pcs /\ mem[sp].gp \in Gps /\ mem[sp].args \in Args
      BY <2>1 DEF Frames
    <2>4. mem' \in [KAddr -> Frames \cup {Data}]
      BY <1>1 DEF CallPal_Rti, CallPal_RetSys, TypeOK
    <2>5. ps' \in PS /\ pc' \in Pcs /\ gp' \in Gps /\ args' \in Args
      BY <1>1, <2>2, <2>3 DEF CallPal_Rti, CallPal_RetSys, TypeOK
    <2>6. sp' \in Int /\ ptKsp' \in Int
      BY <1>1 DEF CallPal_Rti, CallPal_RetSys, TypeOK
    <2> QED
      BY <1>1, <2>4, <2>5, <2>6
         DEF CallPal_Rti, CallPal_RetSys, TypeOK, mchkVars, procVars
  <1>2. CASE Pal_Dev_Spurious
    <2>1. RtiPs(Frame(pc)) \in PS
      BY RtiTypes DEF TypeOK, Frame, Frames
    <2>2. FrameSp \in Int /\ sp' \in Int /\ usp' \in Int /\ ptKsp' \in Int
      BY <1>2 DEF Pal_Dev_Spurious, TypeOK, FrameSp
    <2>3. mem' \in [KAddr -> Frames \cup {Data}]
      BY <1>2 DEF Pal_Dev_Spurious, TypeOK
    <2> QED
      BY <1>2, <2>1, <2>2, <2>3
         DEF Pal_Dev_Spurious, TypeOK, mchkVars, procVars
  <1> QED
    BY <1>1, <1>2 DEF TrapOut

LEMMA HaltTypes ==
    ASSUME TypeOK, Halting
    PROVE  TypeOK'
  <1>1. KernelReady /\ cpu # "console"
    BY DEF Halting, MchkBugCheck, CallPal_Halt, KernelReady
  <1>2. FrameSp \in Int /\ sp \in Int
    BY DEF TypeOK, FrameSp
  <1>3. sp' \in Int /\ ptKsp' \in Int /\ pcb' \in [Procs -> Pcb]
    BY <1>1, <1>2, PcbTypes DEF Halting, MchkBugCheck, CallPal_Halt
  <1>4. ptPcbb' \in Procs
    BY <1>1, ReadyTypes DEF Halting, MchkBugCheck, CallPal_Halt
  <1> QED
    BY <1>3, <1>4 DEF Halting, MchkBugCheck, CallPal_Halt, TypeOK, mchkVars

LEMMA KernelCallTypes ==
    ASSUME TypeOK, KernelCalls
    PROVE  TypeOK'
  <1> USE PalCodeAssumption
  <1>1. CASE \E ipl \in Ipls : CallPal_SwpIpl(ipl)
    <2>1. ps' \in PS
      BY <1>1 DEF CallPal_SwpIpl, KernelPs, PS
    <2> QED
      BY <1>1, <2>1 DEF CallPal_SwpIpl, TypeOK, mchkVars, procVars
  <1>2. CASE \E s \in 0..5 : CallPal_WrEnt(Handler[s], s)
    <2>1. PICK s \in 0..5 : CallPal_WrEnt(Handler[s], s)
      BY <1>2
    <2>2. WrEnt_Table[s + 1] \in EntryPoints /\ Handler[s] \in Pcs
      BY DEF WrEnt_Table, EntryPoints
    <2>3. ent' \in [EntryPoints -> Pcs \cup {NoPc}]
      BY <2>1, <2>2 DEF CallPal_WrEnt, TypeOK
    <2> QED
      BY <2>1, <2>3 DEF CallPal_WrEnt, TypeOK, mchkVars, procVars
  <1>3. CASE CallPal_WrKgp(Kgp)
    BY <1>3 DEF CallPal_WrKgp, TypeOK, Gps, mchkVars, procVars
  <1>4. CASE \E s \in UserSps : CallPal_WrUsp(s)
    BY <1>4, PalStateAssumption DEF CallPal_WrUsp, TypeOK, mchkVars, procVars
  <1>5. CASE \E bits \in McesBits : CallPal_WrMces(bits)
    <2>1. PICK bits \in McesBits : CallPal_WrMces(bits)
      BY <1>5
    <2>2. mces' \subseteq {"MIP", "SCE", "PCE", "DPC", "DSC"}
      BY <2>1 DEF CallPal_WrMces, TypeOK
    <2> QED
      BY <2>1, <2>2 DEF CallPal_WrMces, TypeOK, procVars
  <1> QED
    BY <1>1, <1>2, <1>3, <1>4, <1>5 DEF KernelCalls

LEMMA ContextTypes ==
    ASSUME TypeOK, ContextNext
    PROVE  TypeOK'
  <1> USE PalCodeAssumption
  <1>1. CASE \E p \in Procs : CallPal_SwpCtx(p)
    <2>1. PICK p \in Procs : CallPal_SwpCtx(p)
      BY <1>1
    <2>2. Saved \in [Procs -> Pcb] /\ Saved[p] \in Pcb
      BY <2>1, PcbTypes DEF CallPal_SwpCtx, KernelReady
    <2>3. /\ Saved[p].ksp \in Int /\ Saved[p].usp \in Int /\ Saved[p].pcc \in Int
          /\ Saved[p].unique \in Int /\ Saved[p].fen \in {0, 1}
          /\ Saved[p].ptbr \in Int
      BY <2>2 DEF Pcb
    <2>4. CcOffset(Saved[p].pcc) \in Int
      BY <2>3, CcTypes
    <2> QED
      BY <2>1, <2>2, <2>3, <2>4 DEF CallPal_SwpCtx, TypeOK, mchkVars
  <1>2. CASE ~KernelReady /\ \E p \in Procs, newPc \in CodePcs : CallPal_SwpPal(newPc, p)
    <2>1. PICK p \in Procs, newPc \in CodePcs : CallPal_SwpPal(newPc, p)
      BY <1>2
    <2>2. /\ pcb[p].ksp \in Int /\ pcb[p].usp \in Int /\ pcb[p].pcc \in Int
          /\ pcb[p].unique \in Int /\ pcb[p].fen \in {0, 1} /\ pcb[p].ptbr \in Int
      BY DEF TypeOK, Pcb
    <2>3. CcOffset(pcb[p].pcc) \in Int
      BY <2>2, CcTypes
    <2> QED
      BY <2>1, <2>2, <2>3 DEF CallPal_SwpPal, TypeOK, mchkVars
  <1>3. CASE \E f \in Fens : CallPal_WrFen(f)
    <2>1. PICK f \in {0, 1} : CallPal_WrFen(f)
      BY <1>3
    <2>2. pcb' \in [Procs -> Pcb]
      BY <2>1, ReadyTypes DEF CallPal_WrFen, TypeOK, Pcb
    <2> QED
      BY <2>1, <2>2 DEF CallPal_WrFen, TypeOK, mchkVars
  <1>4. CASE \E u \in Uniques : CallPal_WrUnique(u)
    BY <1>4 DEF CallPal_WrUnique, TypeOK, mchkVars
  <1>5. CASE \E s \in Tbis : CallPal_Tbi(s)
    <2>1. PICK s \in Tbis : CallPal_Tbi(s)
      BY <1>5
    <2>2. tlb' \subseteq Int
      <3>1. tlb' = {} \/ tlb' = tlb
        BY <2>1 DEF CallPal_Tbi
      <3> QED
        BY <3>1 DEF TypeOK
    <2> QED
      BY <2>1, <2>2 DEF CallPal_Tbi, TypeOK, mchkVars
  <1>6. CASE CallPal_SwpPalUnknown
    BY <1>6 DEF CallPal_SwpPalUnknown, TypeOK, mchkVars, procVars
  <1> QED
    BY <1>1, <1>2, <1>3, <1>4, <1>5, <1>6 DEF ContextNext

LEMMA GuestTypes ==
    ASSUME TypeOK, GuestNext
    PROVE  TypeOK'
  <1> USE PalCodeAssumption
  <1>1. CASE GuestStep
    BY <1>1, PalStateAssumption DEF GuestStep, TypeOK, Gps, mchkVars
  <1>2. CASE KernelPush
    BY <1>2 DEF KernelPush, KernelUnchanged, TypeOK, mchkVars, procVars
  <1>3. CASE KernelPop
    BY <1>3 DEF KernelPop, KernelUnchanged, TypeOK, mchkVars, procVars
  <1>4. CASE \E ipl \in Ipls : KernelMakeFrame(ipl)
    <2>1. PICK ipl \in Ipls : KernelMakeFrame(ipl)
      BY <1>4
    <2>2. mem' \in [KAddr -> Frames \cup {Data}]
      <3>1. PICK savedPc \in CodePcs, savedGp \in GuestGps, savedArgs \in GuestArgs :
               mem' = [mem EXCEPT ![sp - 1] =
                         [ps |-> [cm |-> 1, ipl |-> ipl], pc |-> savedPc,
                          gp |-> savedGp, args |-> savedArgs]]
        BY <2>1 DEF KernelMakeFrame
      <3>2. [ps |-> [cm |-> 1, ipl |-> ipl], pc |-> savedPc, gp |-> savedGp,
             args |-> savedArgs] \in Frames
        BY <2>1 DEF Frames, PS, Gps
      <3> QED
        BY <3>1, <3>2 DEF TypeOK
    <2> QED
      BY <2>1, <2>2
         DEF KernelMakeFrame, KernelUnchanged, TypeOK, mchkVars, procVars
  <1>5. CASE Tick
    BY <1>5, PalStateAssumption DEF Tick, TypeOK, mchkVars
  <1> QED
    BY <1>1, <1>2, <1>3, <1>4, <1>5 DEF GuestNext

LEMMA InitTypes == Init => TypeOK
  BY PalStateAssumption, PalCodeAssumption
     DEF Init, TypeOK, KernelPs, PS, Gps, Pcb, Frames

LEMMA StepTypes == TypeOK /\ [Next]_vars => TypeOK'
  <1> SUFFICES ASSUME TypeOK, [Next]_vars
               PROVE  TypeOK'
    OBVIOUS
  <1>1. CASE UNCHANGED vars
    BY <1>1 DEF vars, TypeOK
  <1> QED
    BY <1>1, TrapTypes, ReturnTypes, HaltTypes, KernelCallTypes, ContextTypes,
       GuestTypes DEF Next

\* Every register and memory slot always holds a value of its kind.
THEOREM TypeCorrect == Spec => []TypeOK
  BY InitTypes, StepTypes, PTL DEF Spec

-----------------------------------------------------------------------------
(* The kernel stacks stay apart and in shape, for any number of processes, *)
(* any stack depth and any causes of traps.  None of the stack properties  *)
(* is inductive alone: a trap from user mode needs ptKsp to be the top of  *)
(* the running process's stack (UserStackEmpty), which a return to user    *)
(* mode establishes only because user frames lie in topmost slots          *)
(* (StacksWellFormed); swppal needs what the console has put in the PCBs   *)
(* and no kernel has changed yet (BootReady).  StackInv is their           *)
(* conjunction.                                                            *)

\* Until a kernel has set itself up every stack is empty, and the mode kernel.
BootReady ==
    ~KernelReady /\ cpu \in {"console", "running"} =>
        /\ ~UserMode
        /\ \A p \in Procs : pcb[p].ksp = KTop[p]
        /\ cpu = "running" => sp = KTop[ptPcbb]

StackInv == /\ StacksWellFormed
            /\ UserStackEmpty
            /\ UserAtIplZero
            /\ PcbCurrent
            /\ BootReady

-----------------------------------------------------------------------------
(* The layout of the kernel stacks.                                        *)

\* A mapped slot at or just below a place in p's stack is a slot of p: the
\* slot below each stack is unmapped.
LEMMA SlotOfStack ==
    ASSUME NEW p \in Procs, NEW s \in (KTop[p] - Depth) .. KTop[p]
    PROVE  /\ s \in KAddr => s \in Slots(p)
           /\ s - 1 \in KAddr => s - 1 \in Slots(p)
  <1> USE PalStateAssumption
  <1>1. ASSUME NEW a \in {s, s - 1}, a \in KAddr
        PROVE  a \in Slots(p)
    <2>1. PICK q \in Procs : a \in Slots(q)
      BY <1>1 DEF KAddr
    <2>2. KTop[p] \in Int /\ KTop[q] \in Int /\ Depth \in Int
      OBVIOUS
    <2>3. CASE p = q
      BY <2>1, <2>3
    <2>4. CASE p # q
      <3>1. a \in Int /\ a < KTop[q] /\ a >= KTop[q] - Depth
        BY <2>1, <2>2 DEF Slots
      <3>2. KTop[p] - Depth > KTop[q] \/ KTop[q] - Depth > KTop[p]
        BY <2>4
      <3> QED
        BY <2>2, <3>1, <3>2
    <2> QED
      BY <2>3, <2>4
  <1> QED
    BY <1>1

\* Different processes' stacks share no slot.
LEMMA StacksDisjoint ==
    ASSUME NEW p \in Procs, NEW q \in Procs, p # q, NEW a \in Slots(p)
    PROVE  a \notin Slots(q)
  <1> USE PalStateAssumption
  <1>1. KTop[p] \in Int /\ KTop[q] \in Int /\ Depth \in Int
    OBVIOUS
  <1>2. KTop[p] - Depth > KTop[q] \/ KTop[q] - Depth > KTop[p]
    OBVIOUS
  <1> QED
    BY <1>1, <1>2 DEF Slots

-----------------------------------------------------------------------------
(* The three ways a step moves a kernel stack.                             *)

\* A step that moves no stack pointer and overwrites no slot but with data
\* keeps the stacks in shape.
LEMMA StacksKept ==
    ASSUME TypeOK, StacksWellFormed, cpu = "running",
           \A p \in Procs : Ksp(p)' = Ksp(p),
           NEW w, mem' = mem \/ mem' = [mem EXCEPT ![w] = Data]
    PROVE  StacksWellFormed'
  <1> SUFFICES ASSUME NEW p \in Procs
               PROVE  /\ Ksp(p)' \in (KTop[p] - Depth) .. KTop[p]
                      /\ \A a \in Ksp(p)' .. (KTop[p] - 1) :
                           IsFrame(a)' /\ mem'[a].ps.cm = 1 => a = KTop[p] - 1
    BY DEF StacksWellFormed
  <1>1. Ksp(p) \in (KTop[p] - Depth) .. KTop[p]
    BY DEF StacksWellFormed
  <1>2. ASSUME NEW a \in Ksp(p) .. (KTop[p] - 1),
               IsFrame(a)', mem'[a].ps.cm = 1
        PROVE  a = KTop[p] - 1
    <2>1. a \in Slots(p)
      BY <1>1, PalStateAssumption DEF Slots
    <2>2. a \in KAddr
      BY <2>1 DEF KAddr
    <2>3. mem'[a] = mem[a]
      BY <1>2, <2>2 DEF TypeOK, IsFrame
    <2> QED
      BY <1>2, <2>3 DEF StacksWellFormed, IsFrame
  <1> QED
    BY <1>1, <1>2

\* A step that pushes the value v on the running process's stack does: a user
\* frame goes only on an empty stack.
LEMMA StacksPushed ==
    ASSUME TypeOK, StacksWellFormed, UserStackEmpty, cpu = "running",
           NEW v, FrameSp \in KAddr,
           mem' = [mem EXCEPT ![FrameSp] = v],
           v # Data /\ v.ps.cm = 1 => FrameSp = KTop[ptPcbb] - 1,
           sp' = FrameSp, ~UserMode',
           UNCHANGED <<cpu, ptPcbb, pcb>>
    PROVE  StacksWellFormed'
  <1> DEFINE r == ptPcbb
  <1>1. r \in Procs /\ KTop[r] \in Int /\ Depth \in Nat
    BY PalStateAssumption DEF TypeOK
  <1>2. FrameSp = Ksp(r) - 1 /\ Ksp(r)' = FrameSp
    BY DEF FrameSp, Ksp
  <1>3. Ksp(r) \in (KTop[r] - Depth) .. KTop[r]
    BY <1>1 DEF StacksWellFormed
  <1>4. FrameSp \in Slots(r)
    BY <1>1, <1>2, <1>3, SlotOfStack
  <1>5. Ksp(r)' \in (KTop[r] - Depth) .. KTop[r]
    BY <1>1, <1>2, <1>4 DEF Slots
  <1>6. ASSUME NEW a \in FrameSp .. (KTop[r] - 1),
               IsFrame(a)', mem'[a].ps.cm = 1
        PROVE  a = KTop[r] - 1
    <2>1. CASE a = FrameSp
      BY <1>6, <2>1 DEF TypeOK, IsFrame
    <2>2. CASE a # FrameSp
      <3>1. a \in Ksp(r) .. (KTop[r] - 1)
        BY <1>1, <1>2, <1>3, <2>2
      <3>2. a \in Slots(r)
        BY <1>1, <1>3, <3>1 DEF Slots
      <3>3. mem'[a] = mem[a]
        BY <1>1, <2>2, <3>2 DEF TypeOK, KAddr
      <3> QED
        BY <1>1, <1>6, <3>1, <3>3 DEF StacksWellFormed, IsFrame
    <2> QED
      BY <2>1, <2>2
  <1>7. ASSUME NEW p \in Procs, p # r
        PROVE  /\ Ksp(p)' \in (KTop[p] - Depth) .. KTop[p]
               /\ \A a \in Ksp(p)' .. (KTop[p] - 1) :
                    IsFrame(a)' /\ mem'[a].ps.cm = 1 => a = KTop[p] - 1
    <2>1. Ksp(p)' = Ksp(p) /\ Ksp(p) \in (KTop[p] - Depth) .. KTop[p]
      BY <1>7 DEF Ksp, StacksWellFormed
    <2>2. ASSUME NEW a \in Ksp(p) .. (KTop[p] - 1)
          PROVE  mem'[a] = mem[a]
      <3>1. a \in Slots(p)
        BY <2>1, PalStateAssumption DEF Slots
      <3>2. a # FrameSp
        BY <1>1, <1>4, <1>7, <3>1, StacksDisjoint
      <3> QED
        BY <3>1, <3>2 DEF TypeOK, KAddr
    <2> QED
      BY <2>1, <2>2 DEF StacksWellFormed, IsFrame
  <1> QED
    BY <1>1, <1>2, <1>5, <1>6, <1>7 DEF StacksWellFormed

\* A step that pops the running process's topmost slot does.
LEMMA StacksPopped ==
    ASSUME TypeOK, StacksWellFormed, cpu = "running", ~UserMode, sp \in KAddr,
           mem' = mem \/ mem' = [mem EXCEPT ![sp] = Data],
           IF UserMode' THEN ptKsp' = sp + 1 ELSE sp' = sp + 1,
           UNCHANGED <<cpu, ptPcbb, pcb>>
    PROVE  StacksWellFormed'
  <1> DEFINE r == ptPcbb
  <1>1. r \in Procs /\ KTop[r] \in Int /\ Depth \in Nat
    BY PalStateAssumption DEF TypeOK
  <1>2. Ksp(r) = sp /\ Ksp(r)' = sp + 1
    BY DEF Ksp
  <1>3. sp \in Slots(r)
    BY <1>1, <1>2, SlotOfStack DEF StacksWellFormed
  <1>4. ASSUME NEW p \in Procs
        PROVE  /\ Ksp(p)' \in (KTop[p] - Depth) .. KTop[p]
               /\ \A a \in Ksp(p)' .. (KTop[p] - 1) :
                    IsFrame(a)' /\ mem'[a].ps.cm = 1 => a = KTop[p] - 1
    <2>1. KTop[p] \in Int /\ Ksp(p) \in (KTop[p] - Depth) .. KTop[p]
      BY PalStateAssumption DEF StacksWellFormed
    <2>2. /\ Ksp(p)' \in (KTop[p] - Depth) .. KTop[p]
          /\ Ksp(p)' >= Ksp(p)
      <3>1. CASE p = r
        BY <1>1, <1>2, <1>3, <3>1 DEF Slots
      <3>2. CASE p # r
        BY <2>1, <3>2 DEF Ksp
      <3> QED
        BY <3>1, <3>2
    <2>3. ASSUME NEW a \in Ksp(p)' .. (KTop[p] - 1),
                 IsFrame(a)', mem'[a].ps.cm = 1
          PROVE  a = KTop[p] - 1
      <3>1. a \in Ksp(p) .. (KTop[p] - 1) /\ a \in Slots(p)
        BY <2>1, <2>2, <1>1 DEF Slots
      <3>2. mem'[a] = mem[a]
        BY <2>3, <3>1 DEF TypeOK, KAddr, IsFrame
      <3> QED
        BY <2>3, <3>1, <3>2 DEF StacksWellFormed, IsFrame
    <2> QED
      BY <2>2, <2>3
  <1> QED
    BY <1>4 DEF StacksWellFormed

-----------------------------------------------------------------------------
(* Before a kernel has set itself up it makes three calls, and none after  *)
(* that undoes it.                                                         *)

LEMMA BootCalls ==
    ASSUME Next, ~KernelReady
    PROVE  \/ \E s \in 0..5 : CallPal_WrEnt(Handler[s], s)
           \/ CallPal_WrKgp(Kgp)
           \/ \E p \in Procs, newPc \in CodePcs : CallPal_SwpPal(newPc, p)
  <1>1. ~TrapIn /\ ~TrapOut
    BY DEF TrapIn, TrapOut, Enter, Exception, Interrupt, MchkLogOut,
           Pal_MMFault, Pal_Unalign, Pal_Arith, Pal_OpcDec, Pal_Fen,
           CallPal_Bpt, CallPal_BugChk, CallPal_GenTrap, CallPal_OpcDec,
           CallPal_Trap, CallPal_CallSys, Pal_Smp_Interrupt,
           Pal_Clk_Interrupt, Pal_Dev_Interrupt, Pal_Mchk,
           CallPal_CallSys_Kernel, CallPal_Rti, CallPal_RetSys,
           Pal_Dev_Spurious, AtFrame
  <1>2. ~Halting /\ ~GuestNext
    BY DEF Halting, MchkBugCheck, CallPal_Halt, GuestNext, GuestStep, KernelPush,
           KernelPop, Tick, KernelMakeFrame
  <1>3. CASE KernelCalls
    BY <1>3 DEF KernelCalls, CallPal_SwpIpl, CallPal_WrUsp, CallPal_WrMces
  <1>4. CASE ContextNext
    BY <1>4 DEF ContextNext, CallPal_SwpPalUnknown, CallPal_SwpCtx, CallPal_WrFen,
                CallPal_WrUnique, CallPal_Tbi
  <1> QED
    BY <1>1, <1>2, <1>3, <1>4 DEF Next

LEMMA ReadyStays ==
    ASSUME TypeOK, Next, KernelReady, cpu' = "running"
    PROVE  KernelReady'
  <1>1. CASE UNCHANGED <<ent, ptKgp>>
    BY <1>1 DEF KernelReady
  <1>2. CASE KernelCalls
    <2>1. CASE \E s \in 0..5 : CallPal_WrEnt(Handler[s], s)
      <3>1. PICK s \in 0..5 : CallPal_WrEnt(Handler[s], s)
        BY <2>1
      <3>2. Handler[s] # NoPc
        BY PalCodeAssumption
      <3>3. ent \in [EntryPoints -> Pcs \cup {NoPc}]
        BY DEF TypeOK
      <3> QED
        BY <3>1, <3>2, <3>3 DEF CallPal_WrEnt, KernelReady
    <2>2. CASE CallPal_WrKgp(Kgp)
      BY <2>2, PalCodeAssumption DEF CallPal_WrKgp, KernelReady, Gps
    <2> QED
      BY <1>1, <1>2, <2>1, <2>2
         DEF KernelCalls, CallPal_SwpIpl, CallPal_WrUsp, CallPal_WrMces
  <1>3. CASE TrapIn \/ TrapOut
    BY <1>1, <1>3
       DEF TrapIn, TrapOut, Enter, Exception, Interrupt, MchkLogOut,
           Pal_MMFault, Pal_Unalign, Pal_Arith, Pal_OpcDec, Pal_Fen,
           CallPal_Bpt, CallPal_BugChk, CallPal_GenTrap, CallPal_OpcDec,
           CallPal_Trap, CallPal_CallSys, Pal_Smp_Interrupt,
           Pal_Clk_Interrupt, Pal_Dev_Interrupt, Pal_Mchk,
           CallPal_CallSys_Kernel, CallPal_Rti, CallPal_RetSys,
           Pal_Dev_Spurious
  <1>4. CASE Halting
    BY <1>4 DEF Halting, MchkBugCheck, CallPal_Halt
  <1>5. CASE ContextNext
    BY <1>1, <1>5
       DEF ContextNext, CallPal_SwpPalUnknown, CallPal_SwpCtx, CallPal_SwpPal,
           CallPal_WrFen, CallPal_WrUnique, CallPal_Tbi
  <1>6. CASE GuestNext
    BY <1>1, <1>6
       DEF GuestNext, GuestStep, KernelPush, KernelPop, Tick, KernelMakeFrame,
           KernelUnchanged
  <1> QED
    BY <1>2, <1>3, <1>4, <1>5, <1>6 DEF Next

\* What those three calls change of the stacks: nothing.
LEMMA BootSteps ==
    ASSUME BootReady, ~KernelReady,
           \/ \E s \in 0..5 : CallPal_WrEnt(Handler[s], s)
           \/ CallPal_WrKgp(Kgp)
           \/ \E p \in Procs, newPc \in CodePcs : CallPal_SwpPal(newPc, p)
    PROVE  /\ cpu \in {"console", "running"} /\ cpu' = "running"
           /\ ~UserMode /\ UNCHANGED <<ps, pcb, mem>>
           /\ \A q \in Procs : pcb[q].ksp = KTop[q]
           /\ cpu = "running" => sp = KTop[ptPcbb]
           /\ sp' = KTop[ptPcbb']
  <1>1. CASE (\E s \in 0..5 : CallPal_WrEnt(Handler[s], s)) \/ CallPal_WrKgp(Kgp)
    BY <1>1 DEF BootReady, CallPal_WrEnt, CallPal_WrKgp, procVars
  <1>2. CASE \E p \in Procs, newPc \in CodePcs : CallPal_SwpPal(newPc, p)
    BY <1>2 DEF BootReady, CallPal_SwpPal
  <1> QED
    BY <1>1, <1>2

LEMMA BootKept ==
    ASSUME TypeOK, BootReady, [Next]_vars
    PROVE  BootReady'
  <1>1. CASE UNCHANGED vars
    BY <1>1 DEF vars, BootReady, KernelReady, UserMode
  <1>2. CASE Next /\ KernelReady
    <2>1. cpu' # "console"
      BY <1>2
         DEF Next, TrapIn, TrapOut, Enter, Exception, Interrupt, MchkLogOut,
             Pal_MMFault, Pal_Unalign, Pal_Arith, Pal_OpcDec, Pal_Fen,
             CallPal_Bpt, CallPal_BugChk, CallPal_GenTrap, CallPal_OpcDec,
             CallPal_Trap, CallPal_CallSys, Pal_Smp_Interrupt,
             Pal_Clk_Interrupt, Pal_Dev_Interrupt, Pal_Mchk,
             CallPal_CallSys_Kernel, CallPal_Rti, CallPal_RetSys,
             Pal_Dev_Spurious, Halting, MchkBugCheck, CallPal_Halt, KernelCalls,
             CallPal_SwpIpl, CallPal_WrEnt, CallPal_WrKgp, CallPal_WrUsp,
             CallPal_WrMces, ContextNext, CallPal_SwpPalUnknown, CallPal_SwpCtx,
             CallPal_SwpPal, CallPal_WrFen, CallPal_WrUnique, CallPal_Tbi,
             GuestNext, GuestStep, KernelPush, KernelPop, Tick, KernelMakeFrame,
             KernelUnchanged, KernelReady
    <2> QED
      BY <1>2, <2>1, ReadyStays DEF BootReady
  <1>3. CASE Next /\ ~KernelReady
    BY <1>3, BootCalls, BootSteps DEF BootReady, UserMode
  <1> QED
    BY <1>1, <1>2, <1>3

-----------------------------------------------------------------------------
(* One lemma for each kind of action of PalCode.                           *)

\* A frame pushed from user mode goes on an empty stack.
LEMMA EnterKeeps ==
    ASSUME TypeOK, StackInv, BootReady', NEW savedPc, NEW newPs, NEW e, NEW a,
           newPs.cm = 0, Enter(savedPc, newPs, e, a)
    PROVE  StackInv'
  <1>1. /\ cpu = "running" /\ FrameSp \in KAddr /\ sp' = FrameSp
        /\ mem' = [mem EXCEPT ![FrameSp] = Frame(savedPc)]
        /\ ~UserMode'
        /\ UNCHANGED <<cpu, procVars>>
    BY DEF Enter, StackFrame, KernelReady, UserMode
  <1>2. Frame(savedPc).ps.cm = 1 => FrameSp = KTop[ptPcbb] - 1
    BY <1>1 DEF Frame, FrameSp, UserMode, StackInv, UserStackEmpty
  <1>3. StacksWellFormed'
    <2>1. UNCHANGED <<cpu, ptPcbb, pcb>>
      BY <1>1 DEF procVars
    <2> QED
      BY <1>1, <1>2, <2>1, StacksPushed DEF StackInv
  <1> QED
    BY <1>1, <1>3 DEF StackInv, UserStackEmpty, UserAtIplZero, PcbCurrent, procVars, UserMode

\* The exceptions, interrupts, machine checks and trapping calls.
LEMMA TrapInKeeps ==
    ASSUME TypeOK, StackInv, BootReady', TrapIn
    PROVE  StackInv'
  <1>1. ASSUME NEW savedPc, NEW e, NEW a, Exception(savedPc, e, a)
        PROVE  StackInv'
    <2>1. ExceptionPs.cm = 0
      BY DEF ExceptionPs, KernelPs, UserMode, TypeOK, PS
    <2> QED
      BY <1>1, <2>1, EnterKeeps DEF Exception
  <1>2. ASSUME NEW level, NEW code, NEW vector, Interrupt(level, code, vector)
        PROVE  StackInv'
    BY <1>2, EnterKeeps DEF Interrupt, KernelPs
  <1>3. ASSUME NEW code, NEW excAddr, MchkLogOut(code, excAddr)
        PROVE  StackInv'
    BY <1>3, EnterKeeps DEF MchkLogOut, KernelPs
  <1> QED
    BY <1>1, <1>2, <1>3
       DEF TrapIn, Pal_MMFault, Pal_Unalign, Pal_Arith, Pal_OpcDec, Pal_Fen,
           CallPal_Bpt, CallPal_BugChk, CallPal_GenTrap, CallPal_OpcDec,
           CallPal_Trap, CallPal_CallSys, Pal_Smp_Interrupt, Pal_Clk_Interrupt,
           Pal_Dev_Interrupt, Pal_Mchk, CallPal_CallSys_Kernel

\* A return to user mode pops the topmost slot, so it leaves an empty stack.
LEMMA PopKeeps ==
    ASSUME TypeOK, StackInv, BootReady', AtFrame,
           mem' = [mem EXCEPT ![sp] = Data],
           ps' = RtiPs(mem[sp]),
           IF mem[sp].ps.cm = 1 THEN ptKsp' = sp + 1
                                ELSE ptKsp' = ptKsp /\ sp' = sp + 1,
           UNCHANGED <<cpu, procVars>>
    PROVE  StackInv'
  <1>1. /\ cpu = "running" /\ ~UserMode /\ sp \in KAddr /\ IsFrame(sp)
        /\ UNCHANGED <<cpu, ptPcbb, pcb>>
    BY DEF AtFrame, KernelReady, procVars
  <1>2. UserMode' <=> mem[sp].ps.cm = 1
    BY DEF RtiPs, UserPs, KernelPs, UserMode
  <1>3. StacksWellFormed'
    BY <1>1, <1>2, StacksPopped DEF StackInv
  <1>4. UserStackEmpty'
    <2> SUFFICES ASSUME UserMode'
                 PROVE  ptKsp' = KTop[ptPcbb]
      BY <1>1 DEF UserStackEmpty
    <2>1. ptPcbb \in Procs /\ KTop[ptPcbb] \in Int /\ Depth \in Nat
      BY <1>1, PalStateAssumption DEF TypeOK
    <2>2. sp = Ksp(ptPcbb) /\ Ksp(ptPcbb) \in (KTop[ptPcbb] - Depth) .. KTop[ptPcbb]
      BY <1>1, <2>1 DEF Ksp, StackInv, StacksWellFormed
    <2>3. sp \in Slots(ptPcbb)
      BY <1>1, <2>1, <2>2, SlotOfStack
    <2>4. sp \in Ksp(ptPcbb) .. (KTop[ptPcbb] - 1)
      BY <2>1, <2>2, <2>3 DEF Slots
    <2>5. sp = KTop[ptPcbb] - 1
      BY <1>1, <1>2, <2>1, <2>4 DEF StackInv, StacksWellFormed
    <2> QED
      BY <1>2, <2>1, <2>5
  <1>5. UserAtIplZero'
    BY DEF UserAtIplZero, UserMode, RtiPs, UserPs, KernelPs
  <1> QED
    BY <1>1, <1>3, <1>4, <1>5 DEF StackInv, PcbCurrent, procVars

LEMMA TrapOutKeeps ==
    ASSUME TypeOK, StackInv, BootReady', TrapOut
    PROVE  StackInv'
  <1>1. CASE CallPal_Rti
    BY <1>1, PopKeeps DEF CallPal_Rti
  <1>2. CASE CallPal_RetSys /\ UserFrame
    <2>1. ps' = RtiPs(mem[sp])
      BY <1>2 DEF CallPal_RetSys, UserFrame, RtiPs
    <2> QED
      BY <1>2, <2>1, PopKeeps DEF CallPal_RetSys, UserFrame
  <1>3. CASE Pal_Dev_Spurious
    <2>1. /\ cpu = "running"
          /\ mem' = [mem EXCEPT ![FrameSp] = Data]
          /\ UNCHANGED <<cpu, procVars>>
      BY <1>3 DEF Pal_Dev_Spurious, KernelReady
    <2>2. (UserMode' <=> UserMode) /\ UserAtIplZero'
      BY <1>3 DEF Pal_Dev_Spurious, RtiPs, Frame, UserPs, KernelPs, UserMode,
                  UserAtIplZero
    <2>3. /\ UserMode => ptKsp' = ptKsp
          /\ ~UserMode => sp' = sp
      BY <1>3 DEF Pal_Dev_Spurious, FrameSp, TypeOK
    <2>4. \A p \in Procs : Ksp(p)' = Ksp(p)
      BY <2>1, <2>2, <2>3 DEF Ksp, procVars
    <2>5. StacksWellFormed'
      BY <2>1, <2>4, StacksKept DEF StackInv
    <2> QED
      BY <2>1, <2>2, <2>3, <2>5
         DEF StackInv, UserStackEmpty, PcbCurrent, procVars
  <1> QED
    BY <1>1, <1>2, <1>3 DEF TrapOut

\* Nothing is claimed of a machine that has halted.
LEMMA HaltingKeeps ==
    ASSUME TypeOK, StackInv, BootReady', Halting
    PROVE  StackInv'
  <1>1. cpu' # "running" /\ cpu' # "console" /\ ps' = ps
    BY DEF Halting, MchkBugCheck, CallPal_Halt
  <1> QED
    BY <1>1 DEF StackInv, StacksWellFormed, UserStackEmpty, UserAtIplZero,
                PcbCurrent, UserMode

\* A step that leaves the mode, the PCBs and the stack pointers alone.
LEMMA StillKeeps ==
    ASSUME TypeOK, StackInv, BootReady', cpu = "running",
           NEW w, mem' = mem \/ mem' = [mem EXCEPT ![w] = Data],
           UserMode' <=> UserMode, UserAtIplZero',
           UserMode => ptKsp' = ptKsp, ~UserMode => sp' = sp,
           UNCHANGED <<cpu, ptPcbb, pcb, fen, ptbr>>
    PROVE  StackInv'
  <1>1. \A p \in Procs : Ksp(p)' = Ksp(p)
    BY DEF Ksp
  <1>2. StacksWellFormed'
    BY <1>1, StacksKept DEF StackInv
  <1> QED
    BY <1>2 DEF StackInv, UserStackEmpty, PcbCurrent

LEMMA KernelCallsKeep ==
    ASSUME TypeOK, StackInv, BootReady', KernelCalls
    PROVE  StackInv'
  <1>1. /\ cpu = "running" /\ ~UserMode /\ ~UserMode'
        /\ mem' = mem /\ sp' = sp
        /\ UNCHANGED <<cpu, ptPcbb, pcb, fen, ptbr>>
    BY DEF KernelCalls, CallPal_SwpIpl, CallPal_WrEnt, CallPal_WrKgp,
           CallPal_WrUsp, CallPal_WrMces, KernelReady, UserMode, KernelPs,
           procVars
  <1>2. UserAtIplZero'
    BY <1>1 DEF UserAtIplZero
  <1> QED
    BY <1>1, <1>2, StillKeeps

\* swpctx moves the stack pointers between registers and PCBs, and moves none.
LEMMA ContextKeeps ==
    ASSUME TypeOK, StackInv, BootReady', ContextNext
    PROVE  StackInv'
  <1>1. ASSUME NEW p \in Procs, CallPal_SwpCtx(p)
        PROVE  StackInv'
    <2>1. /\ cpu = "running" /\ ~UserMode /\ ~UserMode' /\ mem' = mem
          /\ cpu' = cpu /\ pcb' = Saved /\ ptPcbb' = p /\ sp' = Saved[p].ksp
          /\ fen' = Saved[p].fen /\ ptbr' = Saved[p].ptbr
      BY <1>1 DEF CallPal_SwpCtx, KernelReady, UserMode
    <2>2. Saved[ptPcbb].ksp = sp
          /\ \A q \in Procs \ {ptPcbb} : Saved[q] = pcb[q]
      BY <2>1 DEF Saved, TypeOK
    <2>3. \A q \in Procs : Ksp(q)' = Ksp(q)
      BY <2>1, <2>2 DEF Ksp
    <2>4. StacksWellFormed'
      BY <2>1, <2>3, StacksKept DEF StackInv
    <2> QED
      BY <2>1, <2>4
         DEF StackInv, UserStackEmpty, UserAtIplZero, PcbCurrent
  <1>2. ASSUME NEW p \in Procs, NEW newPc, ~KernelReady, CallPal_SwpPal(newPc, p)
        PROVE  StackInv'
    <2>1. /\ cpu' = "running" /\ ~UserMode' /\ ptPcbb' = p /\ pcb' = pcb
          /\ sp' = pcb[p].ksp /\ fen' = pcb[p].fen /\ ptbr' = pcb[p].ptbr
          /\ \A q \in Procs : pcb[q].ksp = KTop[q]
      BY <1>2 DEF CallPal_SwpPal, StackInv, BootReady, UserMode
    <2>2. \A q \in Procs : Ksp(q)' = KTop[q]
      BY <2>1 DEF Ksp
    <2>3. StacksWellFormed'
      BY <2>2, PalStateAssumption DEF StacksWellFormed
    <2> QED
      BY <2>1, <2>3
         DEF StackInv, UserStackEmpty, UserAtIplZero, PcbCurrent
  <1>3. ASSUME NEW f, CallPal_WrFen(f)
        PROVE  StackInv'
    <2>1. /\ cpu = "running" /\ cpu' = cpu /\ ~UserMode /\ ~UserMode'
          /\ mem' = mem /\ sp' = sp /\ ptPcbb' = ptPcbb
          /\ fen' = f /\ ptbr' = ptbr
      BY <1>3 DEF CallPal_WrFen, KernelReady, UserMode
    <2>2. /\ pcb'[ptPcbb].fen = f /\ pcb'[ptPcbb].ptbr = pcb[ptPcbb].ptbr
          /\ \A q \in Procs : pcb'[q].ksp = pcb[q].ksp
      BY <1>3, <2>1 DEF CallPal_WrFen, TypeOK
    <2>3. \A q \in Procs : Ksp(q)' = Ksp(q)
      BY <2>1, <2>2 DEF Ksp
    <2>4. StacksWellFormed'
      BY <2>1, <2>3, StacksKept DEF StackInv
    <2> QED
      BY <2>1, <2>2, <2>4
         DEF StackInv, UserStackEmpty, UserAtIplZero, PcbCurrent
  <1>4. ASSUME NEW u, CallPal_WrUnique(u) \/ CallPal_Tbi(u)
        PROVE  StackInv'
    <2>1. /\ cpu = "running" /\ mem' = mem /\ (UserMode' <=> UserMode)
          /\ UNCHANGED <<cpu, ps, sp, ptKsp, ptPcbb, pcb, fen, ptbr>>
      BY <1>4 DEF CallPal_WrUnique, CallPal_Tbi, KernelReady, UserMode
    <2>2. UserAtIplZero'
      BY <2>1 DEF StackInv, UserAtIplZero
    <2> QED
      BY <2>1, <2>2, StillKeeps
  <1>5. CASE CallPal_SwpPalUnknown
    <2>1. /\ cpu = "running" /\ mem' = mem /\ ~UserMode /\ ~UserMode'
          /\ UNCHANGED <<cpu, sp, ptPcbb, pcb, fen, ptbr>>
      BY <1>5 DEF CallPal_SwpPalUnknown, KernelReady, UserMode, procVars
    <2>2. UserAtIplZero'
      BY <2>1 DEF UserAtIplZero
    <2> QED
      BY <2>1, <2>2, StillKeeps
  <1> QED
    BY <1>1, <1>2, <1>3, <1>4, <1>5 DEF ContextNext

\* The guest: its pushes and pops, and the user frame it builds on an empty
\* stack.
LEMMA GuestKeeps ==
    ASSUME TypeOK, StackInv, BootReady', GuestNext
    PROVE  StackInv'
  <1>1. CASE GuestStep \/ Tick
    <2>1. /\ cpu = "running" /\ mem' = mem /\ (UserMode' <=> UserMode)
          /\ ~UserMode => sp' = sp
          /\ UNCHANGED <<cpu, ps, ptKsp, ptPcbb, pcb, fen, ptbr>>
      BY <1>1 DEF GuestStep, Tick, KernelReady, UserMode
    <2>2. UserAtIplZero'
      BY <2>1 DEF StackInv, UserAtIplZero
    <2> QED
      BY <2>1, <2>2, StillKeeps
  <1>2. CASE KernelPush \/ KernelPop \/ \E ipl \in Ipls : KernelMakeFrame(ipl)
    <2>1. /\ cpu = "running" /\ ~UserMode /\ ~UserMode'
          /\ UNCHANGED <<cpu, ptPcbb, pcb, fen, ptbr>>
      BY <1>2 DEF KernelPush, KernelPop, KernelMakeFrame, KernelUnchanged,
                  KernelReady, UserMode, procVars
    <2>2. FrameSp = sp - 1
      BY <2>1 DEF FrameSp
    <2>3. StacksWellFormed'
      <3>1. CASE KernelPush
        BY <2>1, <2>2, <3>1, StacksPushed DEF KernelPush, StackInv
      <3>2. CASE KernelPop
        BY <2>1, <3>2, StacksPopped DEF KernelPop, StackInv
      <3>3. CASE \E ipl \in Ipls : KernelMakeFrame(ipl)
        <4>1. PICK v : /\ sp = KTop[ptPcbb] /\ sp' = sp - 1
                       /\ mem' = [mem EXCEPT ![sp - 1] = v]
          BY <3>3 DEF KernelMakeFrame
        <4>2. ptPcbb \in Procs /\ sp - 1 \in Slots(ptPcbb)
          BY <2>1, <4>1, PalStateAssumption DEF TypeOK, Slots
        <4>3. FrameSp \in KAddr
          BY <2>2, <4>2 DEF KAddr
        <4> QED
          BY <2>1, <2>2, <4>1, <4>3, StacksPushed DEF StackInv
      <3> QED
        BY <1>2, <3>1, <3>2, <3>3
    <2> QED
      BY <2>1, <2>3
         DEF StackInv, UserStackEmpty, UserAtIplZero, PcbCurrent
  <1> QED
    BY <1>1, <1>2 DEF GuestNext

-----------------------------------------------------------------------------
LEMMA StackInit == Init => StackInv
  BY PalStateAssumption
     DEF Init, StackInv, StacksWellFormed, UserStackEmpty, UserAtIplZero,
         PcbCurrent, BootReady, UserMode, KernelPs

LEMMA StackStep == TypeOK /\ StackInv /\ [Next]_vars => StackInv'
  <1> SUFFICES ASSUME TypeOK, StackInv, [Next]_vars
               PROVE  StackInv'
    OBVIOUS
  <1>1. CASE UNCHANGED vars
    BY <1>1 DEF vars, procVars, mchkVars, StackInv, StacksWellFormed,
                UserStackEmpty, UserAtIplZero, PcbCurrent, BootReady,
                KernelReady, UserMode, Ksp, IsFrame
  <1>2. BootReady'
    BY BootKept DEF StackInv
  <1> QED
    BY <1>1, <1>2, TrapInKeeps, TrapOutKeeps, HaltingKeeps, KernelCallsKeep,
       ContextKeeps, GuestKeeps DEF Next

\* The kernel stacks stay apart and in shape, and what each entry and return
\* relies on holds whenever a kernel runs (STACK_FRAME, rti, retsys, swpctx).
THEOREM StackInvHolds == Spec => []StackInv
  <1>1. TypeOK /\ StackInv /\ [Next]_vars => StackInv'
    BY StackStep
  <1> QED
    BY StackInit, <1>1, TypeCorrect, PTL DEF Spec

\* Each process's kernel stack pointer stays in its own stack, and frames of
\* user mode lie in topmost slots, whatever traps nest and however processes
\* are switched (STACK_FRAME, retsys, rti, swpctx).
THEOREM StacksSafe == Spec => []StacksWellFormed
  <1>1. StackInv => StacksWellFormed
    BY DEF StackInv
  <1> QED
    BY <1>1, StackInvHolds, PTL

\* In user mode ptKsp is the top of the running process's stack, though swpctx
\* does not set ptKsp (retsys, rti).
THEOREM UserStacksEmpty == Spec => []UserStackEmpty
  <1>1. StackInv => UserStackEmpty
    BY DEF StackInv
  <1> QED
    BY <1>1, StackInvHolds, PTL

\* User mode never shuts out an interrupt (rti, retsys).
THEOREM UserInterruptible == Spec => []UserAtIplZero
  <1>1. StackInv => UserAtIplZero
    BY DEF StackInv
  <1> QED
    BY <1>1, StackInvHolds, PTL

\* FEN and the page table are those of the running process's PCB, though
\* swpctx saves neither (wrfen, swpctx, swppal).
THEOREM PcbIsCurrent == Spec => []PcbCurrent
  <1>1. StackInv => PcbCurrent
    BY DEF StackInv
  <1> QED
    BY <1>1, StackInvHolds, PTL

\* A trap from user mode always finds a mapped slot for its frame, so the
\* halt of a lost kernel stack is never taken from user mode (MchkFromPal).
THEOREM UserTrapsFindSlot ==
    Spec => [](cpu = "running" /\ UserMode => FrameSp \in KAddr)
  <1>1. TypeOK /\ StackInv
        => (cpu = "running" /\ UserMode => FrameSp \in KAddr)
    <2> SUFFICES ASSUME TypeOK, StackInv, cpu = "running", UserMode
                 PROVE  FrameSp \in KAddr
      OBVIOUS
    <2>1. ptPcbb \in Procs /\ FrameSp = KTop[ptPcbb] - 1
      BY DEF TypeOK, FrameSp, StackInv, UserStackEmpty
    <2>2. FrameSp \in Slots(ptPcbb)
      BY <2>1, PalStateAssumption DEF Slots
    <2> QED
      BY <2>1, <2>2 DEF KAddr
  <1> QED
    BY <1>1, TypeCorrect, StackInvHolds, PTL

-----------------------------------------------------------------------------
\* The TLB holds no translation of another process's page table (tbia in swpctx
\* and swppal).
THEOREM TlbIsCurrent == Spec => []TlbCurrent
  <1>1. Init => TlbCurrent
    BY DEF Init, TlbCurrent
  <1>2. TlbCurrent /\ [Next]_vars => TlbCurrent'
    <2> SUFFICES ASSUME TlbCurrent, [Next]_vars
                 PROVE  TlbCurrent'
      OBVIOUS
    <2>1. CASE UNCHANGED <<tlb, ptbr>>
      BY <2>1 DEF TlbCurrent
    <2>2. CASE TrapIn \/ TrapOut
      BY <2>1, <2>2
         DEF TrapIn, TrapOut, Enter, Exception, Interrupt, MchkLogOut,
             Pal_MMFault, Pal_Unalign, Pal_Arith, Pal_OpcDec, Pal_Fen,
             CallPal_Bpt, CallPal_BugChk, CallPal_GenTrap, CallPal_OpcDec,
             CallPal_Trap, CallPal_CallSys, Pal_Smp_Interrupt,
             Pal_Clk_Interrupt, Pal_Dev_Interrupt, Pal_Mchk,
             CallPal_CallSys_Kernel, CallPal_Rti, CallPal_RetSys,
             Pal_Dev_Spurious, procVars
    <2>3. CASE Halting \/ KernelCalls
      BY <2>1, <2>3
         DEF Halting, MchkBugCheck, CallPal_Halt, KernelCalls, CallPal_SwpIpl,
             CallPal_WrEnt, CallPal_WrKgp, CallPal_WrUsp, CallPal_WrMces, procVars
    <2>4. CASE ContextNext
      BY <2>1, <2>4
         DEF ContextNext, CallPal_SwpPalUnknown, CallPal_SwpCtx, CallPal_SwpPal,
             CallPal_WrFen, CallPal_WrUnique, CallPal_Tbi, TlbCurrent, procVars
    <2>5. CASE GuestNext
      BY <2>1, <2>5
         DEF GuestNext, GuestStep, KernelPush, KernelPop, Tick, KernelMakeFrame,
             KernelUnchanged, procVars, TlbCurrent
    <2> QED
      BY <2>1, <2>2, <2>3, <2>4, <2>5 DEF Next, vars
  <1> QED
    BY <1>1, <1>2, PTL DEF Spec

-----------------------------------------------------------------------------
(* Processes: what their PCBs hold, and their virtual time.  The cycle     *)
(* counter's arithmetic is modulo CcMod, so that it is about remainders.   *)

LEMMA Division ==
    ASSUME NEW x \in Int, NEW m \in Nat \ {0}
    PROVE  /\ x % m \in 0 .. (m - 1)
           /\ x \div m \in Int
           /\ x = m * (x \div m) + (x % m)
  BY SMT

\* A number has one remainder.
LEMMA RemainderUnique ==
    ASSUME NEW x \in Int, NEW m \in Nat \ {0}, NEW q \in Int,
           NEW r \in 0 .. (m - 1), x = m * q + r
    PROVE  x % m = r
  <1> DEFINE d == (x \div m) - q
  <1>1. /\ x % m \in 0 .. (m - 1)
        /\ x \div m \in Int
        /\ x = m * (x \div m) + (x % m)
    BY Division
  <1>2. m * (x \div m) - m * q = r - (x % m)
    BY <1>1, SMT
  <1>3. d \in Int /\ m * d = r - (x % m)
    BY <1>1, <1>2, SMT
  <1> HIDE DEF d
  <1>4. CASE d >= 1
    <2>1. m * d >= m
      BY <1>3, <1>4, SMT
    <2> QED
      BY <1>1, <1>3, <2>1, SMT
  <1>5. CASE d <= -1
    <2>1. m * d <= -m
      BY <1>3, <1>5, SMT
    <2> QED
      BY <1>1, <1>3, <2>1, SMT
  <1>6. CASE d = 0
    BY <1>1, <1>3, <1>6, SMT
  <1> QED
    BY <1>3, <1>4, <1>5, <1>6, SMT

\* A summand may be reduced before it is added.
LEMMA SumReduced ==
    ASSUME NEW x \in Int, NEW y \in Int, NEW m \in Nat \ {0}
    PROVE  /\ ((x % m) + y) % m = (x + y) % m
           /\ (x + (y % m)) % m = (x + y) % m
  <1> DEFINE s == (x + y) % m
             t == (x + y) \div m
  <1>1. /\ s \in 0 .. (m - 1) /\ t \in Int
        /\ x + y = m * t + s
    BY Division, SMT
  <1>2. /\ x % m \in Int /\ x \div m \in Int /\ x = m * (x \div m) + (x % m)
        /\ y % m \in Int /\ y \div m \in Int /\ y = m * (y \div m) + (y % m)
    BY Division, SMT
  <1> HIDE DEF s, t
  <1>3. ((x % m) + y) % m = s
    <2>1. (x % m) + y = m * t - m * (x \div m) + s
      BY <1>1, <1>2, SMT
    <2>2. (x % m) + y = m * (t - (x \div m)) + s
      BY <1>1, <1>2, <2>1, SMT
    <2>3. (x % m) + y \in Int /\ t - (x \div m) \in Int
      BY <1>1, <1>2, SMT
    <2> QED
      BY <1>1, <2>2, <2>3, RemainderUnique
  <1>4. (x + (y % m)) % m = s
    <2>1. x + (y % m) = m * t - m * (y \div m) + s
      BY <1>1, <1>2, SMT
    <2>2. x + (y % m) = m * (t - (y \div m)) + s
      BY <1>1, <1>2, <2>1, SMT
    <2>3. x + (y % m) \in Int /\ t - (y \div m) \in Int
      BY <1>1, <1>2, SMT
    <2> QED
      BY <1>1, <2>2, <2>3, RemainderUnique
  <1> QED
    BY <1>3, <1>4 DEF s

LEMMA Reduced ==
    ASSUME NEW m \in Nat \ {0}, NEW x \in 0 .. (m - 1)
    PROVE  x % m = x
  <1>1. x = m * 0 + x
    BY SMT
  <1> QED
    BY <1>1, RemainderUnique

\* The counter continues from v when CcOffset(v) becomes its offset.
LEMMA CounterContinues ==
    ASSUME TypeOK, NEW v \in 0 .. (CcMod - 1)
    PROVE  (cc + CcOffset(v)) % CcMod = v
  <1>1. CcMod \in Nat \ {0} /\ cc \in Int /\ v \in Int
    BY PalStateAssumption DEF TypeOK
  <1>2. v - cc \in Int /\ cc + (v - cc) = v
    BY <1>1, SMT
  <1>3. (cc + ((v - cc) % CcMod)) % CcMod = (cc + (v - cc)) % CcMod
    BY <1>1, <1>2, SumReduced
  <1> QED
    BY <1>1, <1>2, <1>3, Reduced DEF CcOffset

\* A cycle counts for the running process.
LEMMA CounterTicks ==
    ASSUME TypeOK, cc' = (cc + 1) % CcMod, pccOfs' = pccOfs
    PROVE  VirtualCc' = (VirtualCc + (cc' - cc)) % CcMod
  <1> DEFINE m == CcMod
             c == cc'
  <1>1. m \in Nat \ {0} /\ cc \in Int /\ pccOfs \in Int /\ cc + 1 \in Int
    BY PalStateAssumption DEF TypeOK
  <1>2. c \in Int
    BY <1>1, Division
  <1> HIDE DEF m, c
  <1>3. (((cc + pccOfs) % m) + (c - cc)) % m = ((cc + pccOfs) + (c - cc)) % m
    <2>1. cc + pccOfs \in Int /\ c - cc \in Int
      BY <1>1, <1>2, SMT
    <2> QED
      BY <1>1, <2>1, SumReduced
  <1>4. (cc + pccOfs) + (c - cc) = c + pccOfs
    BY <1>1, <1>2, SMT
  <1> QED
    BY <1>3, <1>4 DEF VirtualCc, m, c

-----------------------------------------------------------------------------
\* A PCB's cycle counter is a value the counter can take.
PccReduced == \A p \in Procs : pcb[p].pcc \in 0 .. (CcMod - 1)

\* The fields a step that saves the running process's registers writes.
LEMMA SavedFields ==
    ASSUME TypeOK, ptPcbb \in Procs
    PROVE  /\ Saved[ptPcbb].pcc = VirtualCc
           /\ Saved[ptPcbb].unique = unique
           /\ Saved[ptPcbb].usp = usp
           /\ \A q \in Procs \ {ptPcbb} : Saved[q] = pcb[q]
  BY DEF TypeOK, Saved

\* The kinds of step, as far as processes go: a switch, a cycle, a halt or a
\* write of FEN, the choice of a process by a kernel that sets itself up, and
\* the others, which leave all of this alone.
LEMMA ProcessStep ==
    ASSUME TypeOK, [Next]_vars
    PROVE  \/ UNCHANGED <<pcb, ptPcbb, cc, pccOfs>>
           \/ Tick
           \/ /\ ~KernelReady
              /\ \E p \in Procs, newPc \in CodePcs : CallPal_SwpPal(newPc, p)
           \/ \E p \in Procs : CallPal_SwpCtx(p)
           \/ \E f \in Fens : CallPal_WrFen(f)
           \/ Halting
  <1>1. CASE TrapIn \/ TrapOut
    BY <1>1
       DEF TrapIn, TrapOut, Enter, Exception, Interrupt, MchkLogOut,
           Pal_MMFault, Pal_Unalign, Pal_Arith, Pal_OpcDec, Pal_Fen,
           CallPal_Bpt, CallPal_BugChk, CallPal_GenTrap, CallPal_OpcDec,
           CallPal_Trap, CallPal_CallSys, Pal_Smp_Interrupt,
           Pal_Clk_Interrupt, Pal_Dev_Interrupt, Pal_Mchk,
           CallPal_CallSys_Kernel, CallPal_Rti, CallPal_RetSys,
           Pal_Dev_Spurious, procVars
  <1>2. CASE KernelCalls
    BY <1>2
       DEF KernelCalls, CallPal_SwpIpl, CallPal_WrEnt, CallPal_WrKgp,
           CallPal_WrUsp, CallPal_WrMces, procVars
  <1>3. CASE ContextNext
    BY <1>3
       DEF ContextNext, CallPal_SwpPalUnknown, CallPal_WrUnique, CallPal_Tbi,
           procVars
  <1>4. CASE GuestNext
    BY <1>4
       DEF GuestNext, GuestStep, KernelPush, KernelPop, KernelMakeFrame,
           KernelUnchanged, procVars
  <1>5. CASE UNCHANGED vars
    BY <1>5 DEF vars
  <1> QED
    BY <1>1, <1>2, <1>3, <1>4, <1>5 DEF Next

\* What a halt and a write of FEN do to the PCBs.
LEMMA PcbWritten ==
    ASSUME TypeOK, Halting \/ \E f \in Fens : CallPal_WrFen(f)
    PROVE  /\ ptPcbb \in Procs
           /\ pcb'[ptPcbb].usp = pcb[ptPcbb].usp
           /\ pcb'[ptPcbb].pcc \in {pcb[ptPcbb].pcc, VirtualCc}
           /\ \A q \in Procs \ {ptPcbb} : pcb'[q] = pcb[q]
           /\ ~UserMode /\ ~UserMode'
           /\ UNCHANGED <<ptPcbb, usp, unique, cc, pccOfs>>
  <1>1. ptPcbb \in Procs /\ pcb \in [Procs -> Pcb]
    BY DEF TypeOK, Halting, MchkBugCheck, CallPal_Halt, CallPal_WrFen,
           KernelReady
  <1>2. CASE Halting
    BY <1>1, <1>2 DEF Halting, MchkBugCheck, CallPal_Halt, UpdatePCB, UserMode
  <1>3. CASE \E f \in Fens : CallPal_WrFen(f)
    BY <1>1, <1>3 DEF CallPal_WrFen, UserMode
  <1> QED
    BY <1>2, <1>3

LEMMA PccReducedStep == TypeOK /\ PccReduced /\ [Next]_vars => PccReduced'
  <1> SUFFICES ASSUME TypeOK, PccReduced, [Next]_vars
               PROVE  PccReduced'
    OBVIOUS
  <1>1. VirtualCc \in 0 .. (CcMod - 1)
    <2>1. cc + pccOfs \in Int /\ CcMod \in Nat \ {0}
      BY PalStateAssumption DEF TypeOK
    <2> QED
      BY <2>1, Division DEF VirtualCc
  <1>2. CASE pcb' = pcb
    BY <1>2 DEF PccReduced
  <1>3. CASE \E p \in Procs : CallPal_SwpCtx(p)
    <2>1. pcb' = Saved /\ ptPcbb \in Procs
      BY <1>3 DEF CallPal_SwpCtx, KernelReady, TypeOK
    <2> QED
      BY <1>1, <2>1, SavedFields DEF PccReduced
  <1>4. CASE Halting \/ \E f \in Fens : CallPal_WrFen(f)
    <2>1. /\ ptPcbb \in Procs
          /\ pcb'[ptPcbb].pcc \in {pcb[ptPcbb].pcc, VirtualCc}
          /\ \A q \in Procs \ {ptPcbb} : pcb'[q] = pcb[q]
      BY <1>4, PcbWritten
    <2> QED
      BY <1>1, <2>1 DEF PccReduced
  <1> QED
    BY <1>2, <1>3, <1>4, ProcessStep DEF Tick, CallPal_SwpPal

LEMMA PccReducedHolds == Spec => []PccReduced
  <1>1. Init => PccReduced
    <2>1. 0 \in 0 .. (CcMod - 1)
      <3>1. CcMod \in Nat \ {0}
        BY PalStateAssumption
      <3> QED
        BY <3>1
    <2>2. ASSUME Init, NEW p \in Procs
          PROVE  pcb[p].pcc = 0
      <3>1. pcb = [q \in Procs |->
                     [ksp |-> KTop[q], usp |-> 0, pcc |-> 0, unique |-> 0,
                      fen |-> 1, ptbr |-> Ptbr[q]]]
        BY <2>2 DEF Init
      <3> QED
        BY <3>1
    <2> QED
      BY <2>1, <2>2 DEF PccReduced
  <1>2. TypeOK /\ PccReduced /\ [Next]_vars => PccReduced'
    BY PccReducedStep
  <1> QED
    BY <1>1, <1>2, TypeCorrect, PTL DEF Spec

\* Until a kernel has set itself up, its process's cycle counter is still the
\* one of its PCB: nothing is lost when it takes up another.
BootCc == cpu = "running" /\ ~KernelReady => VirtualCc = pcb[ptPcbb].pcc

LEMMA BootCcStep ==
    TypeOK /\ PccReduced /\ BootCc /\ [Next]_vars => BootCc'
  <1> SUFFICES ASSUME TypeOK, PccReduced, BootCc, [Next]_vars
               PROVE  BootCc'
    OBVIOUS
  <1>1. CASE UNCHANGED vars
    BY <1>1 DEF vars, procVars, BootCc, KernelReady, VirtualCc
  <1>2. CASE Next /\ KernelReady
    BY <1>2, ReadyStays DEF BootCc
  <1>3. CASE Next /\ ~KernelReady
    <2>1. CASE (\E s \in 0..5 : CallPal_WrEnt(Handler[s], s))
               \/ CallPal_WrKgp(Kgp)
      <3>1. cpu = "running" /\ UNCHANGED <<cc, pccOfs, pcb, ptPcbb>>
        BY <2>1 DEF CallPal_WrEnt, CallPal_WrKgp, procVars
      <3> QED
        BY <1>3, <3>1 DEF BootCc, VirtualCc
    <2>2. ASSUME NEW p \in Procs, NEW newPc, CallPal_SwpPal(newPc, p)
          PROVE  BootCc'
      <3>1. /\ UNCHANGED <<cc, pcb>> /\ ptPcbb' = p
            /\ pccOfs' = CcOffset(pcb[p].pcc)
        BY <2>2 DEF CallPal_SwpPal
      <3>2. pcb[p].pcc \in 0 .. (CcMod - 1)
        BY DEF PccReduced
      <3>3. VirtualCc' = pcb[p].pcc
        BY <3>1, <3>2, CounterContinues DEF VirtualCc
      <3> QED
        BY <3>1, <3>3 DEF BootCc
    <2> QED
      BY <1>3, <2>1, <2>2, BootCalls
  <1> QED
    BY <1>1, <1>2, <1>3

LEMMA BootCcHolds == Spec => []BootCc
  <1>1. Init => BootCc
    BY DEF Init, BootCc
  <1> QED
    BY <1>1, BootCcStep, TypeCorrect, PccReducedHolds, PTL DEF Spec

-----------------------------------------------------------------------------
\* No step changes what another process will find in its unique value and user
\* stack pointer, and a step that writes a PCB changes nobody's: a switch to
\* another process or to the running one, a write of FEN, a halt (swpctx, wrfen,
\* UpdatePCB).
THEOREM ProcessStateIsKept == Spec => ProcessStateKept
  <1>1. TypeOK /\ [Next]_vars
        => [cpu = "running" =>
              \A p \in Procs :
                p # ptPcbb \/ pcb' # pcb =>
                  UniqueOf(p)' = UniqueOf(p) /\ UspOf(p)' = UspOf(p)]_vars
    <2> SUFFICES ASSUME TypeOK, [Next]_vars, cpu = "running",
                        NEW p \in Procs, p # ptPcbb \/ pcb' # pcb
                 PROVE  UniqueOf(p)' = UniqueOf(p) /\ UspOf(p)' = UspOf(p)
      OBVIOUS
    <2>1. ptPcbb \in Procs
      BY DEF TypeOK
    <2>2. CASE UNCHANGED <<ptPcbb, pcb>>
      BY <2>2 DEF UniqueOf, UspOf
    <2>3. ASSUME NEW q \in Procs, CallPal_SwpCtx(q)
          PROVE  UniqueOf(p)' = UniqueOf(p) /\ UspOf(p)' = UspOf(p)
      <3>1. /\ ~UserMode /\ ~UserMode'
            /\ pcb' = Saved /\ ptPcbb' = q
            /\ unique' = Saved[q].unique /\ usp' = Saved[q].usp
        BY <2>3 DEF CallPal_SwpCtx, UserMode
      <3>2. UniqueOf(p)' = Saved[p].unique /\ UspOf(p)' = Saved[p].usp
        BY <3>1 DEF UniqueOf, UspOf
      <3>3. UniqueOf(p) = Saved[p].unique /\ UspOf(p) = Saved[p].usp
        BY <2>1, <3>1, SavedFields DEF UniqueOf, UspOf
      <3> QED
        BY <3>2, <3>3
    <2>4. CASE Halting \/ \E f \in Fens : CallPal_WrFen(f)
      <3>1. /\ \A q \in Procs \ {ptPcbb} : pcb'[q] = pcb[q]
            /\ ~UserMode /\ ~UserMode'
            /\ UNCHANGED <<ptPcbb, usp, unique>>
        BY <2>4, PcbWritten
      <3> QED
        BY <3>1 DEF UniqueOf, UspOf
    <2>5. CASE \E q \in Procs, newPc \in CodePcs : CallPal_SwpPal(newPc, q)
      <3>1. PICK q \in Procs, newPc \in CodePcs : CallPal_SwpPal(newPc, q)
        BY <2>5
      <3>2. /\ pcb' = pcb /\ ptPcbb' = q /\ ~UserMode /\ ~UserMode'
            /\ unique' = pcb[q].unique /\ usp' = pcb[q].usp
        BY <3>1 DEF CallPal_SwpPal, UserMode
      <3> QED
        BY <3>2 DEF UniqueOf, UspOf
    <2> QED
      BY <2>2, <2>3, <2>4, <2>5, ProcessStep DEF Tick
  <1>2. Spec => [][Next]_vars
    BY PTL DEF Spec
  <1> QED
    BY <1>1, <1>2, TypeCorrect, PTL DEF ProcessStateKept

\* A process's virtual cycle counter counts the cycles of its own turns and no
\* others, whatever its offset wraps around to (swpctx, swppal).
THEOREM VirtualTimeIsKept == Spec => VirtualTimeIsContinuous
  <1>1. TypeOK /\ PccReduced /\ BootCc /\ [Next]_vars
        => [cpu = "running" =>
              \A p \in Procs :
                VirtualTime(p)'
                  = (VirtualTime(p)
                     + IF p = ptPcbb THEN cc' - cc ELSE 0) % CcMod]_vars
    <2> SUFFICES ASSUME TypeOK, PccReduced, BootCc, [Next]_vars,
                        cpu = "running",
                        NEW p \in Procs
                 PROVE  VirtualTime(p)'
                          = (VirtualTime(p)
                             + IF p = ptPcbb THEN cc' - cc ELSE 0) % CcMod
      OBVIOUS
    <2>1. /\ ptPcbb \in Procs /\ CcMod \in Nat \ {0} /\ cc \in Int
          /\ cc + pccOfs \in Int
      BY PalStateAssumption DEF TypeOK
    <2>2. VirtualCc \in 0 .. (CcMod - 1)
      BY <2>1, Division DEF VirtualCc
    <2>3. VirtualTime(p) \in 0 .. (CcMod - 1)
      BY <2>2 DEF VirtualTime, PccReduced
    \* When no cycle passes, nothing is added.
    <2>4. ASSUME cc' = cc, VirtualTime(p)' = VirtualTime(p)
          PROVE  VirtualTime(p)'
                   = (VirtualTime(p)
                      + IF p = ptPcbb THEN cc' - cc ELSE 0) % CcMod
      <3>1. VirtualTime(p) % CcMod = VirtualTime(p)
        BY <2>1, <2>3, Reduced
      <3>2. (VirtualTime(p) + IF p = ptPcbb THEN cc' - cc ELSE 0)
              = VirtualTime(p)
        BY <2>1, <2>3, <2>4
      <3> QED
        BY <2>4, <3>1, <3>2
    <2>5. CASE UNCHANGED <<ptPcbb, pcb, cc, pccOfs>>
      BY <2>4, <2>5 DEF VirtualTime, VirtualCc
    <2>6. CASE Tick
      <3>1. cc' = (cc + 1) % CcMod /\ UNCHANGED <<ptPcbb, pcb, pccOfs>>
        BY <2>6 DEF Tick
      <3>2. CASE p = ptPcbb
        BY <3>1, <3>2, CounterTicks DEF VirtualTime
      <3>3. CASE p # ptPcbb
        <4>1. VirtualTime(p)' = VirtualTime(p)
          BY <3>1, <3>3 DEF VirtualTime
        <4>2. VirtualTime(p) + 0 = VirtualTime(p)
          BY <2>3
        <4> QED
          BY <2>1, <2>3, <3>3, <4>1, <4>2, Reduced
      <3> QED
        BY <3>2, <3>3
    <2>7. ASSUME NEW q \in Procs, CallPal_SwpCtx(q)
          PROVE  cc' = cc /\ VirtualTime(p)' = VirtualTime(p)
      <3>1. /\ pcb' = Saved /\ ptPcbb' = q /\ cc' = cc
            /\ pccOfs' = CcOffset(Saved[q].pcc)
        BY <2>7 DEF CallPal_SwpCtx
      <3>2. \A r \in Procs : Saved[r].pcc = VirtualTime(r)
        BY <2>1, SavedFields DEF VirtualTime
      <3>3. Saved[q].pcc \in 0 .. (CcMod - 1)
        BY <2>2, <3>2 DEF VirtualTime, PccReduced
      <3>4. VirtualCc' = Saved[q].pcc
        BY <3>1, <3>3, CounterContinues DEF VirtualCc
      <3>5. VirtualTime(p)' = Saved[p].pcc
        BY <3>1, <3>4 DEF VirtualTime
      <3> QED
        BY <3>1, <3>2, <3>5
    <2>8. CASE Halting \/ \E f \in Fens : CallPal_WrFen(f)
      <3>1. /\ \A q \in Procs \ {ptPcbb} : pcb'[q] = pcb[q]
            /\ UNCHANGED <<ptPcbb, cc, pccOfs>>
        BY <2>8, PcbWritten
      <3>2. VirtualTime(p)' = VirtualTime(p)
        BY <3>1 DEF VirtualTime, VirtualCc
      <3> QED
        BY <2>4, <3>1, <3>2
    <2>9. ASSUME NEW q \in Procs, NEW newPc, CallPal_SwpPal(newPc, q),
                 ~KernelReady
          PROVE  cc' = cc /\ VirtualTime(p)' = VirtualTime(p)
      <3>1. /\ pcb' = pcb /\ ptPcbb' = q /\ cc' = cc
            /\ pccOfs' = CcOffset(pcb[q].pcc)
        BY <2>9 DEF CallPal_SwpPal
      <3>2. pcb[q].pcc \in 0 .. (CcMod - 1)
        BY DEF PccReduced
      <3>3. VirtualCc' = pcb[q].pcc
        BY <3>1, <3>2, CounterContinues DEF VirtualCc
      <3>4. VirtualCc = pcb[ptPcbb].pcc
        BY <2>9 DEF BootCc
      <3> QED
        BY <3>1, <3>3, <3>4 DEF VirtualTime
    <2> QED
      BY <2>4, <2>5, <2>6, <2>7, <2>8, <2>9, ProcessStep
  <1>2. Spec => [][Next]_vars
    BY PTL DEF Spec
  <1> QED
    BY <1>1, <1>2, TypeCorrect, PccReducedHolds, BootCcHolds, PTL
       DEF VirtualTimeIsContinuous

-----------------------------------------------------------------------------
(* Sets of integers by rank.  A kernel stack's frames are a finite set of  *)
(* addresses, and the i-th context is the one whose rank is i: so what a   *)
(* push and a pop do to the list follows without induction.                *)

\* Ranks grow with the elements, from 1 to the number of them.
LEMMA RankBounds ==
    ASSUME NEW S \in SUBSET Int, IsFiniteSet(S), NEW a \in S
    PROVE  /\ Rank(S, a) \in 1 .. Cardinality(S)
           /\ \A b \in S : b < a => Rank(S, b) < Rank(S, a)
  <1> DEFINE Upto(x) == {y \in S : y <= x}
  <1>1. ASSUME NEW x \in S
        PROVE  /\ IsFiniteSet(Upto(x)) /\ x \in Upto(x)
               /\ Cardinality(Upto(x)) \in Nat
               /\ Cardinality(Upto(x)) <= Cardinality(S)
    <2>1. Upto(x) \in SUBSET S /\ x \in Upto(x)
      OBVIOUS
    <2>2. IsFiniteSet(Upto(x)) /\ Cardinality(Upto(x)) <= Cardinality(S)
      BY <2>1, FS_Subset
    <2> QED
      BY <2>1, <2>2, FS_CardinalityType
  <1>2. Cardinality(S) \in Nat
    BY FS_CardinalityType
  <1>3. Rank(S, a) \in 1 .. Cardinality(S)
    <2>1. Cardinality(Upto(a)) # 0
      BY <1>1, FS_EmptySet
    <2> QED
      BY <1>1, <1>2, <2>1 DEF Rank
  <1>4. ASSUME NEW b \in S, b < a
        PROVE  Rank(S, b) < Rank(S, a)
    <2>1. Upto(b) \in SUBSET Upto(a) /\ a \notin Upto(b)
      <3>1. ~(a <= b)
        BY <1>4
      <3>2. ASSUME NEW y \in S, y <= b
            PROVE  y <= a
        BY <1>4, <3>2
      <3> QED
        BY <3>1, <3>2
    <2>2. /\ Cardinality(Upto(b)) <= Cardinality(Upto(a))
          /\ Cardinality(Upto(a)) = Cardinality(Upto(b)) => Upto(a) = Upto(b)
      <3> HIDE DEF Upto
      <3> QED
        BY <1>1, <2>1, FS_Subset
    <2>3. Cardinality(Upto(a)) # Cardinality(Upto(b))
      BY <1>1, <2>1, <2>2
    <2> QED
      BY <1>1, <2>2, <2>3 DEF Rank
  <1> QED
    BY <1>3, <1>4

\* Each rank is that of one element.
LEMMA NthIs ==
    ASSUME NEW S \in SUBSET Int, IsFiniteSet(S)
    PROVE  /\ \A a \in S : Nth(S, Rank(S, a)) = a
           /\ \A i \in 1 .. Cardinality(S) :
                Nth(S, i) \in S /\ Rank(S, Nth(S, i)) = i
  <1>1. ASSUME NEW a \in S, NEW b \in S, Rank(S, a) = Rank(S, b)
        PROVE  a = b
    <2>1. Rank(S, a) \in Int /\ Rank(S, b) \in Int
      BY RankBounds
    <2>2. ~(a < b) /\ ~(b < a)
      BY <1>1, <2>1, RankBounds
    <2> QED
      BY <2>2
  <1>2. \A a \in S : Nth(S, Rank(S, a)) = a
    BY <1>1 DEF Nth
  <1>3. \A i \in 1 .. Cardinality(S) : \E a \in S : Rank(S, a) = i
    <2> DEFINE T == 1 .. Cardinality(S)
               f == [a \in S |-> Rank(S, a)]
    <2>1. Cardinality(S) \in Nat
      BY FS_CardinalityType
    <2>2. f \in [S -> T]
      BY RankBounds
    <2>3. \A a, b \in S : f[a] = f[b] => a = b
      BY <1>1
    <2>4. f \in Injection(S, T)
      BY <2>2, <2>3 DEF Injection, IsInjective
    <2>5. IsFiniteSet(T) /\ Cardinality(T) = Cardinality(S)
      BY <2>1, FS_Interval
    <2>6. f \in Surjection(S, T)
      <3> HIDE DEF f, T
      <3> QED
        BY <2>4, <2>5, FS_Injection
    <2>7. \A i \in T : \E a \in S : f[a] = i
      BY <2>6 DEF Surjection
    <2> QED
      BY <2>7
  <1>4. ASSUME NEW i \in 1 .. Cardinality(S)
        PROVE  Nth(S, i) \in S /\ Rank(S, Nth(S, i)) = i
    <2>1. \E a \in S : Rank(S, a) = i
      BY <1>3
    <2> QED
      BY <2>1 DEF Nth
  <1> QED
    BY <1>2, <1>4

\* An element below the others comes first and moves each of them up by one.
LEMMA LowestAdded ==
    ASSUME NEW S \in SUBSET Int, IsFiniteSet(S), NEW m \in Int,
           \A a \in S : m < a
    PROVE  /\ Cardinality(S \cup {m}) = Cardinality(S) + 1
           /\ Nth(S \cup {m}, 1) = m
           /\ \A i \in 1 .. Cardinality(S) : Nth(S \cup {m}, i + 1) = Nth(S, i)
  <1> DEFINE T == S \cup {m}
  <1>1. m \notin S /\ Cardinality(S) \in Nat
    BY FS_CardinalityType
  <1>2. T \in SUBSET Int /\ IsFiniteSet(T) /\ Cardinality(T) = Cardinality(S) + 1
    BY <1>1, FS_AddElement
  <1>3. Rank(T, m) = 1
    <2>1. {b \in T : b <= m} = {m}
      <3>1. m \in T /\ m <= m
        OBVIOUS
      <3>2. ASSUME NEW b \in T, b <= m
            PROVE  b = m
        <4>1. ~(m < b)
          BY <3>2
        <4> QED
          BY <4>1
      <3> QED
        BY <3>1, <3>2
    <2> QED
      BY <2>1, FS_Singleton DEF Rank
  <1>4. ASSUME NEW a \in S
        PROVE  Rank(T, a) = Rank(S, a) + 1
    <2> DEFINE Upto == {b \in S : b <= a}
    <2>1. {b \in T : b <= a} = Upto \cup {m} /\ m \notin Upto
      BY <1>1
    <2>2. IsFiniteSet(Upto)
      <3>1. Upto \in SUBSET S
        OBVIOUS
      <3> QED
        BY <3>1, FS_Subset
    <2>3. Cardinality(Upto \cup {m}) = Cardinality(Upto) + 1
      <3> HIDE DEF Upto
      <3> QED
        BY <2>1, <2>2, FS_AddElement
    <2> QED
      BY <2>1, <2>3 DEF Rank
  <1>5. Nth(T, 1) = m
    <2>1. m \in T
      OBVIOUS
    <2> HIDE DEF T
    <2>2. Nth(T, Rank(T, m)) = m
      BY <1>2, <2>1, NthIs
    <2> QED
      BY <1>3, <2>2
  <1>6. ASSUME NEW i \in 1 .. Cardinality(S)
        PROVE  Nth(T, i + 1) = Nth(S, i)
    <2> DEFINE a == Nth(S, i)
    <2>1. a \in S /\ Rank(S, a) = i
      BY NthIs
    <2>2. a \in T /\ Rank(T, a) = i + 1
      BY <1>4, <2>1
    <2> HIDE DEF T, a
    <2>3. Nth(T, Rank(T, a)) = a
      BY <1>2, <2>2, NthIs
    <2> QED
      BY <2>2, <2>3 DEF a
  <1> QED
    BY <1>2, <1>5, <1>6

\* The highest comes last.
LEMMA HighestIsLast ==
    ASSUME NEW S \in SUBSET Int, IsFiniteSet(S), NEW m \in S,
           \A a \in S : a <= m
    PROVE  Nth(S, Cardinality(S)) = m
  <1>1. {b \in S : b <= m} = S
    OBVIOUS
  <1>2. Rank(S, m) = Cardinality(S)
    BY <1>1 DEF Rank
  <1> QED
    BY <1>2, NthIs

-----------------------------------------------------------------------------
(* Sequences of the elements of a set of integers, in order.               *)

Listed(F, c) == [i \in 1 .. Cardinality(F) |-> c[Nth(F, i)]]

Prepended(x, s) == <<x>> \o s

\* A list has as many entries as the set has elements, all of the values' kind.
LEMMA ListedIs ==
    ASSUME NEW F \in SUBSET Int, IsFiniteSet(F), NEW C, NEW c,
           \A a \in F : c[a] \in C
    PROVE  /\ Listed(F, c) \in Seq(C)
           /\ Len(Listed(F, c)) = Cardinality(F)
           /\ \A i \in 1 .. Cardinality(F) : Listed(F, c)[i] = c[Nth(F, i)]
  <1>1. Cardinality(F) \in Nat
    BY FS_CardinalityType
  <1>2. \A i \in 1 .. Cardinality(F) : c[Nth(F, i)] \in C
    BY NthIs
  <1> QED
    BY <1>1, <1>2 DEF Listed

\* It depends on the values of the elements only.
LEMMA ListedSame ==
    ASSUME NEW F \in SUBSET Int, IsFiniteSet(F), NEW c, NEW d,
           \A a \in F : c[a] = d[a]
    PROVE  Listed(F, c) = Listed(F, d)
  <1>1. \A i \in 1 .. Cardinality(F) : c[Nth(F, i)] = d[Nth(F, i)]
    BY NthIs
  <1> QED
    BY <1>1 DEF Listed

\* An element below the others is the head.
LEMMA ListedAdded ==
    ASSUME NEW F \in SUBSET Int, IsFiniteSet(F), NEW m \in Int,
           \A a \in F : m < a, NEW c
    PROVE  /\ Listed(F \cup {m}, c) = Prepended(c[m], Listed(F, c))
           /\ Listed(F \cup {m}, c) # <<>>
           /\ Head(Listed(F \cup {m}, c)) = c[m]
           /\ Tail(Listed(F \cup {m}, c)) = Listed(F, c)
  <1> DEFINE G == F \cup {m}
             s == Listed(F, c)
             t == Listed(G, c)
             n == Cardinality(F)
  <1>1. G \in SUBSET Int /\ IsFiniteSet(G)
    BY FS_AddElement
  <1> PICK C : \A a \in G : c[a] \in C
    <2>1. \A a \in G : c[a] \in {c[b] : b \in G}
      OBVIOUS
    <2> QED
      BY <2>1
  <1>2. n \in Nat
    BY FS_CardinalityType
  <1>3. /\ Cardinality(G) = n + 1
        /\ Nth(G, 1) = m
        /\ \A i \in 1 .. n : Nth(G, i + 1) = Nth(F, i)
    BY LowestAdded
  <1>4. /\ s \in Seq(C) /\ Len(s) = n
        /\ \A i \in 1 .. n : s[i] = c[Nth(F, i)]
    <2>1. \A a \in F : c[a] \in C
      OBVIOUS
    <2> QED
      BY <2>1, ListedIs
  <1>5. /\ t \in Seq(C) /\ Len(t) = n + 1
        /\ \A i \in 1 .. n + 1 : t[i] = c[Nth(G, i)]
    <2>1. \A a \in G : c[a] \in C
      OBVIOUS
    <2> HIDE DEF G
    <2> QED
      BY <1>1, <1>3, <2>1, ListedIs
  <1> HIDE DEF G, s, t, n
  <1>6. t[1] = c[m] /\ \A i \in 1 .. n : t[i + 1] = s[i]
    <2>1. 1 \in 1 .. n + 1 /\ \A i \in 1 .. n : i + 1 \in 1 .. n + 1
      BY <1>2
    <2>2. t[1] = c[m]
      BY <1>3, <1>5, <2>1
    <2>3. ASSUME NEW i \in 1 .. n
          PROVE  t[i + 1] = s[i]
      <3>1. t[i + 1] = c[Nth(G, i + 1)]
        BY <1>5, <2>1
      <3>2. s[i] = c[Nth(F, i)]
        BY <1>4
      <3> QED
        BY <1>3, <3>1, <3>2
    <2> QED
      BY <2>2, <2>3
  <1>7. t # <<>> /\ Head(t) = c[m]
    <2>1. t # <<>>
      BY <1>2, <1>5, EmptySeq
    <2> QED
      BY <1>5, <1>6, <2>1
  <1>8. Tail(t) = s
    <2>1. /\ Tail(t) \in Seq(C) /\ Len(Tail(t)) = n
          /\ \A i \in 1 .. n : Tail(t)[i] = t[i + 1]
      BY <1>2, <1>5, <1>7, HeadTailProperties
    <2> QED
      BY <1>4, <1>6, <2>1, SeqEqual
  <1>9. t = <<c[m]>> \o s
    <2> DEFINE one == <<c[m]>>
    <2>1. /\ one \in Seq(C) /\ Len(one) = 1 /\ one[1] = c[m]
      BY DEF G
    <2> HIDE DEF one
    <2>2. /\ one \o s \in Seq(C) /\ Len(one \o s) = 1 + n
          /\ \A i \in 1 .. 1 + n :
               (one \o s)[i] = IF i <= 1 THEN one[i] ELSE s[i - 1]
      <3>1. one \in Seq(C) /\ s \in Seq(C)
        BY <1>4, <2>1
      <3>2. /\ one \o s \in Seq(C)
            /\ Len(one \o s) = Len(one) + Len(s)
            /\ \A i \in 1 .. Len(one) + Len(s) :
                 (one \o s)[i] = IF i <= Len(one) THEN one[i]
                                                 ELSE s[i - Len(one)]
        BY <3>1, ConcatProperties, Zenon
      <3>3. Len(one) = 1 /\ Len(s) = n
        BY <1>4, <2>1
      <3> QED
        BY <3>2, <3>3, Zenon
    <2>3. ASSUME NEW i \in 1 .. n + 1
          PROVE  t[i] = (one \o s)[i]
      <3>1. CASE i = 1
        BY <1>2, <1>6, <2>1, <2>2, <3>1
      <3>2. CASE i # 1
        <4>1. i - 1 \in 1 .. n /\ (i - 1) + 1 = i /\ ~(i <= 1) /\ i \in 1 .. 1 + n
          BY <1>2, <3>2
        <4>2. t[i] = s[i - 1]
          BY <1>6, <4>1
        <4> QED
          BY <2>2, <4>1, <4>2
      <3> QED
        BY <3>1, <3>2
    <2>4. Len(one \o s) = Len(t)
      BY <1>2, <1>5, <2>2
    <2>5. t = one \o s
      BY <1>5, <2>2, <2>3, <2>4, SeqEqual
    <2> QED
      BY <2>5 DEF one
  <1> QED
    BY <1>7, <1>8, <1>9 DEF G, s, t, Prepended

\* The same, when the elements' values were those of another function.
LEMMA ListedPushed ==
    ASSUME NEW F \in SUBSET Int, IsFiniteSet(F), NEW m \in Int,
           \A a \in F : m < a, NEW c, NEW d, \A a \in F : d[a] = c[a]
    PROVE  Listed(F \cup {m}, d) = Prepended(d[m], Listed(F, c))
  <1>1. Listed(F, d) = Listed(F, c)
    BY ListedSame
  <1>2. Listed(F \cup {m}, d) = Prepended(d[m], Listed(F, d))
    BY ListedAdded
  <1> QED
    BY <1>1, <1>2

\* The empty set's list.
LEMMA ListedNone ==
    ASSUME NEW c
    PROVE  Listed({}, c) = <<>>
  BY FS_EmptySet DEF Listed

\* A function that differs from another in one place.
LEMMA ExceptIs ==
    ASSUME NEW S, NEW f, f = [p \in S |-> f[p]], NEW g, g = [p \in S |-> g[p]],
           NEW r \in S, NEW v, g[r] = v, \A p \in S : p # r => g[p] = f[p]
    PROVE  g = [f EXCEPT ![r] = v]
  <1> DEFINE h == [f EXCEPT ![r] = v]
  <1>1. h = [p \in S |-> h[p]]
    OBVIOUS
  <1>2. \A p \in S : h[p] = g[p]
    OBVIOUS
  <1> HIDE DEF h
  <1> QED
    BY <1>1, <1>2 DEF h

-----------------------------------------------------------------------------
(* The stacks of contexts.                                                 *)

\* A context, and the contexts the slots of p's kernel stack hold.
ContextType == [ps : PS, pc : Int, gp : Gps, args : Args, sp : Int]
ContextsOf(p) == [a \in Int |-> ContextAt(p, a)]

\* Where p's user stack pointer is while p is in kernel mode.
SavedUsp(p) == IF p = ptPcbb THEN usp ELSE pcb[p].usp

\* What is known whenever a machine runs.
Good == TypeOK /\ StackInv /\ cpu = "running"

LEMMA FramesFinite ==
    ASSUME Good, NEW p \in Procs
    PROVE  /\ FramesOf(p) \in SUBSET Int /\ IsFiniteSet(FramesOf(p))
           /\ FramesOf(p) \in SUBSET Slots(p)
           /\ Ksp(p) \in Int /\ Ksp(p) >= KTop[p] - Depth /\ Ksp(p) <= KTop[p]
           /\ KTop[p] \in Int /\ Depth \in Int
  <1>1. KTop[p] \in Int /\ Depth \in Int
    BY PalStateAssumption
  <1>2. Ksp(p) \in (KTop[p] - Depth) .. KTop[p]
    BY DEF Good, StackInv, StacksWellFormed
  <1>3. Ksp(p) \in Int
    BY <1>1, <1>2
  <1>4. FramesOf(p) \in SUBSET (Ksp(p) .. (KTop[p] - 1))
    BY DEF FramesOf
  <1>5. IsFiniteSet(FramesOf(p))
    <2> DEFINE I == Ksp(p) .. (KTop[p] - 1)
    <2>1. IsFiniteSet(I)
      <3>1. KTop[p] - 1 \in Int
        BY <1>1
      <3> QED
        BY <1>3, <3>1, FS_Interval
    <2>2. FramesOf(p) \in SUBSET I
      BY <1>4
    <2> HIDE DEF I
    <2> QED
      BY <2>1, <2>2, FS_Subset
  <1>6. FramesOf(p) \in SUBSET Slots(p)
    <2>1. \A a \in Ksp(p) .. (KTop[p] - 1) : a \in Slots(p)
      BY <1>1, <1>2 DEF Slots
    <2> QED
      BY <1>4, <2>1
  <1> QED
    BY <1>1, <1>2, <1>3, <1>4, <1>5, <1>6

\* The same of the next state.
LEMMA FramesFiniteNext ==
    ASSUME Good', NEW p \in Procs
    PROVE  FramesOf(p)' \in SUBSET Int /\ IsFiniteSet(FramesOf(p)')
  <1>1. KTop[p] \in Int /\ Depth \in Int
    BY PalStateAssumption
  <1>2. Ksp(p)' \in (KTop[p] - Depth) .. KTop[p]
    BY DEF Good, StackInv, StacksWellFormed
  <1> DEFINE I == Ksp(p)' .. (KTop[p] - 1)
  <1>3. FramesOf(p)' \in SUBSET I
    BY DEF FramesOf
  <1>4. IsFiniteSet(I)
    <2>1. Ksp(p)' \in Int /\ KTop[p] - 1 \in Int
      BY <1>1, <1>2
    <2> QED
      BY <2>1, FS_Interval
  <1>5. FramesOf(p)' \in SUBSET Int
    BY <1>3
  <1> HIDE DEF I
  <1> QED
    BY <1>3, <1>4, <1>5, FS_Subset

\* A frame holds a context.
LEMMA FrameContexts ==
    ASSUME Good, NEW p \in Procs, NEW a \in FramesOf(p)
    PROVE  ContextsOf(p)[a] \in ContextType
  <1>1. a \in Int /\ a \in KAddr /\ IsFrame(a)
    BY FramesFinite DEF FramesOf, KAddr
  <1>2. mem[a] \in Frames
    BY <1>1 DEF Good, TypeOK, IsFrame
  <1>3. /\ mem[a].ps \in PS /\ mem[a].pc \in Int /\ mem[a].gp \in Gps
        /\ mem[a].args \in Args
    BY <1>2, PalCodeAssumption DEF Frames
  <1>4. usp \in Int /\ pcb[p].usp \in Int
    BY DEF Good, TypeOK, Pcb
  <1> QED
    BY <1>1, <1>3, <1>4 DEF ContextsOf, ContextAt, ContextType

\* A process's stack lists its frames' contexts.
LEMMA StackIs ==
    ASSUME Good, NEW p \in Procs
    PROVE  /\ StackOf(p) = Listed(FramesOf(p), ContextsOf(p))
           /\ StackOf(p) \in Seq(ContextType)
           /\ Len(StackOf(p)) = Cardinality(FramesOf(p))
  <1>1. FramesOf(p) \in SUBSET Int /\ IsFiniteSet(FramesOf(p))
    BY FramesFinite
  <1>2. \A i \in 1 .. Cardinality(FramesOf(p)) : Nth(FramesOf(p), i) \in Int
    BY <1>1, NthIs
  <1>3. StackOf(p) = Listed(FramesOf(p), ContextsOf(p))
    BY <1>2 DEF StackOf, Listed, ContextsOf
  <1>4. \A a \in FramesOf(p) : ContextsOf(p)[a] \in ContextType
    BY FrameContexts
  <1> QED
    BY <1>1, <1>3, <1>4, ListedIs

\* The same of the next state.
LEMMA StackIsNext ==
    ASSUME Good', NEW p \in Procs
    PROVE  StackOf(p)' = Listed(FramesOf(p)', ContextsOf(p)')
  <1> DEFINE F == FramesOf(p)'
  <1>1. F \in SUBSET Int /\ IsFiniteSet(F)
    BY FramesFiniteNext
  <1>2. \A i \in 1 .. Cardinality(F) : Nth(F, i) \in Int
    <2> HIDE DEF F
    <2> QED
      BY <1>1, NthIs
  <1> QED
    BY <1>2 DEF StackOf, Listed, ContextsOf

\* Contexts depend on their frames, and a user context on the saved user stack
\* pointer.
LEMMA ContextsSame ==
    ASSUME NEW p \in Procs, NEW a \in Int, mem'[a] = mem[a],
           mem[a].ps.cm # 0 => SavedUsp(p)' = SavedUsp(p)
    PROVE  ContextsOf(p)'[a] = ContextsOf(p)[a]
  BY DEF ContextsOf, ContextAt, SavedUsp

\* A stack whose frames stay does not change.
LEMMA StackKept ==
    ASSUME Good, Good', NEW p \in Procs,
           FramesOf(p)' = FramesOf(p),
           \A a \in FramesOf(p) : mem'[a] = mem[a],
           \A a \in FramesOf(p) :
             mem[a].ps.cm # 0 => SavedUsp(p)' = SavedUsp(p)
    PROVE  StackOf(p)' = StackOf(p)
  <1>1. FramesOf(p) \in SUBSET Int /\ IsFiniteSet(FramesOf(p))
    BY FramesFinite
  <1>2. \A a \in FramesOf(p) : ContextsOf(p)'[a] = ContextsOf(p)[a]
    BY <1>1, ContextsSame
  <1>3. Listed(FramesOf(p), ContextsOf(p)') = Listed(FramesOf(p), ContextsOf(p))
    BY <1>1, <1>2, ListedSame
  <1> QED
    BY <1>3, StackIs, StackIsNext

\* A step that pushes a frame puts its context in front.
LEMMA StackPushed ==
    ASSUME Good, Good', NEW p \in Procs, NEW m \in Int,
           FramesOf(p)' = FramesOf(p) \cup {m},
           \A a \in FramesOf(p) : m < a,
           \A a \in FramesOf(p) : ContextsOf(p)'[a] = ContextsOf(p)[a]
    PROVE  StackOf(p)' = Prepended(ContextsOf(p)'[m], StackOf(p))
  <1> DEFINE F == FramesOf(p)
             c == ContextsOf(p)
             d == ContextsOf(p)'
  <1>1. F \in SUBSET Int /\ IsFiniteSet(F)
    BY FramesFinite
  <1>4. StackOf(p) = Listed(F, c) /\ StackOf(p)' = Listed(F \cup {m}, d)
    BY StackIs, StackIsNext
  <1>5. \A a \in F : m < a
    OBVIOUS
  <1>6. \A a \in F : d[a] = c[a]
    OBVIOUS
  <1> HIDE DEF F, c, d
  <1>7. Listed(F \cup {m}, d) = Prepended(d[m], Listed(F, c))
    BY <1>1, <1>5, <1>6, ListedPushed
  <1>8. StackOf(p)' = Prepended(d[m], StackOf(p))
    BY <1>4, <1>7
  <1> QED
    BY <1>8 DEF d

\* A step that pops one takes its context from the front.
LEMMA StackPopped ==
    ASSUME Good, Good', NEW p \in Procs, NEW m \in Int,
           FramesOf(p) = FramesOf(p)' \cup {m},
           \A a \in FramesOf(p)' : m < a,
           \A a \in FramesOf(p)' : ContextsOf(p)'[a] = ContextsOf(p)[a]
    PROVE  /\ StackOf(p) # <<>>
           /\ Head(StackOf(p)) = ContextsOf(p)[m]
           /\ Tail(StackOf(p)) = StackOf(p)'
  <1> DEFINE F == FramesOf(p)'
             c == ContextsOf(p)
             d == ContextsOf(p)'
  <1>1. F \in SUBSET Int /\ IsFiniteSet(F)
    BY FramesFiniteNext
  <1>3. StackOf(p) = Listed(F \cup {m}, c) /\ StackOf(p)' = Listed(F, d)
    BY StackIs, StackIsNext
  <1>4. (\A a \in F : m < a) /\ (\A a \in F : d[a] = c[a])
    OBVIOUS
  <1> HIDE DEF F, c, d
  <1>5. Listed(F, d) = Listed(F, c)
    BY <1>1, <1>4, ListedSame
  <1>6. /\ Listed(F \cup {m}, c) # <<>>
        /\ Head(Listed(F \cup {m}, c)) = c[m]
        /\ Tail(Listed(F \cup {m}, c)) = Listed(F, c)
    BY <1>1, <1>4, ListedAdded
  <1> QED
    BY <1>3, <1>5, <1>6 DEF c

-----------------------------------------------------------------------------
(* What the steps do to the stacks of contexts.                            *)

\* A write to the running process's slots changes no other process's stack.
LEMMA OthersStay ==
    ASSUME Good, Good', NEW w \in Slots(ptPcbb), NEW v,
           mem' = [mem EXCEPT ![w] = v], UNCHANGED <<ptPcbb, pcb>>
    PROVE  \A p \in Procs : p # ptPcbb => StackOf(p)' = StackOf(p)
  <1> SUFFICES ASSUME NEW p \in Procs, p # ptPcbb
               PROVE  StackOf(p)' = StackOf(p)
    OBVIOUS
  <1>1. Ksp(p)' = Ksp(p) /\ SavedUsp(p)' = SavedUsp(p)
    BY DEF Ksp, SavedUsp
  <1>2. ptPcbb \in Procs
    BY DEF Good, TypeOK
  <1>3. ASSUME NEW a \in Slots(p)
        PROVE  mem'[a] = mem[a]
    <2>1. a # w
      BY <1>2, StacksDisjoint
    <2>2. a \in KAddr
      BY DEF KAddr
    <2> QED
      BY <2>1, <2>2 DEF Good, TypeOK
  <1>4. \A a \in Ksp(p) .. (KTop[p] - 1) : a \in Slots(p)
    BY FramesFinite DEF Slots
  <1>5. FramesOf(p)' = FramesOf(p)
    BY <1>1, <1>3, <1>4 DEF FramesOf, IsFrame
  <1>6. \A a \in FramesOf(p) : mem'[a] = mem[a]
    BY <1>3, FramesFinite
  <1> QED
    BY <1>1, <1>5, <1>6, StackKept

\* A process in user mode has set no context aside.
LEMMA UserStackIsEmpty ==
    ASSUME Good, UserMode
    PROVE  FramesOf(ptPcbb) = {}
  <1>1. ptPcbb \in Procs /\ Ksp(ptPcbb) = KTop[ptPcbb]
    BY DEF Good, TypeOK, StackInv, UserStackEmpty, Ksp
  <1>2. KTop[ptPcbb] \in Int
    BY <1>1, PalStateAssumption
  <1> QED
    BY <1>1, <1>2 DEF FramesOf

\* A pushed frame.
LEMMA FramePushed ==
    ASSUME Good, Good', NEW r \in Procs, r = ptPcbb,
           NEW f \in Frames, FrameSp \in KAddr,
           mem' = [mem EXCEPT ![FrameSp] = f], sp' = FrameSp, ~UserMode',
           UserMode \/ usp' = usp, UNCHANGED <<ptPcbb, pcb>>
    PROVE  /\ StackOf(r)' = Prepended(ContextsOf(r)'[FrameSp], StackOf(r))
           /\ \A p \in Procs : p # r => StackOf(p)' = StackOf(p)
           /\ FrameSp \in Int /\ mem'[FrameSp] = f
           /\ FrameSp + 1 = Ksp(r)
  <1> DEFINE m == FrameSp
  <1>1. r \in Procs
    OBVIOUS
  <1>2. /\ Ksp(r) \in Int /\ KTop[r] \in Int /\ Depth \in Int
        /\ Ksp(r) >= KTop[r] - Depth /\ Ksp(r) <= KTop[r]
    BY <1>1, FramesFinite
  <1>3. m = Ksp(r) - 1 /\ Ksp(r)' = m
    BY DEF FrameSp, Ksp
  <1>4. m \in Slots(r)
    <2>1. Ksp(r) \in (KTop[r] - Depth) .. KTop[r]
      BY <1>2
    <2> QED
      BY <1>1, <1>3, <2>1, SlotOfStack
  <1>5. m \in Int /\ m + 1 = Ksp(r)
    BY <1>2, <1>3
  <1>6. \A p \in Procs : p # r => StackOf(p)' = StackOf(p)
    BY <1>4, OthersStay
  <1>7. mem'[m] = f /\ f # Data
    BY PalCodeAssumption DEF Good, TypeOK
  <1>8. ASSUME NEW a \in Slots(r), a # m
        PROVE  mem'[a] = mem[a]
    BY <1>1, <1>8 DEF Good, TypeOK, KAddr
  <1>9. FramesOf(r)' = FramesOf(r) \cup {m}
    <2> HIDE DEF m
    <2>1. ASSUME NEW a \in m .. (KTop[r] - 1)
          PROVE  a \in FramesOf(r)' <=> a \in FramesOf(r) \cup {m}
      <3>1. a \in Slots(r)
        BY <1>2, <1>4, <2>1 DEF Slots
      <3>2. CASE a = m
        BY <1>3, <1>7, <2>1, <3>2 DEF FramesOf, IsFrame
      <3>3. CASE a # m
        <4>1. a \in Ksp(r) .. (KTop[r] - 1)
          BY <1>2, <1>3, <2>1, <3>3
        <4> QED
          BY <1>3, <1>8, <2>1, <3>1, <3>3, <4>1 DEF FramesOf, IsFrame
      <3> QED
        BY <3>2, <3>3
    <2>2. \A a \in FramesOf(r)' : a \in m .. (KTop[r] - 1)
      BY <1>3 DEF FramesOf
    <2>3. \A a \in FramesOf(r) \cup {m} : a \in m .. (KTop[r] - 1)
      BY <1>2, <1>3, <1>4 DEF FramesOf, Slots
    <2> QED
      BY <2>1, <2>2, <2>3
  <1>10. \A a \in FramesOf(r) : m < a
    BY <1>2, <1>3 DEF FramesOf
  <1>11. ASSUME NEW a \in FramesOf(r)
         PROVE  ContextsOf(r)'[a] = ContextsOf(r)[a]
    <2>1. a \in Int /\ a \in Slots(r) /\ a # m
      BY <1>1, <1>5, <1>10, FramesFinite
    <2>2. mem'[a] = mem[a]
      BY <1>8, <2>1
    <2>3. SavedUsp(r)' = SavedUsp(r)
      BY <1>11, UserStackIsEmpty DEF SavedUsp
    <2> QED
      BY <1>1, <2>1, <2>2, <2>3, ContextsSame
  <1>12. StackOf(r)' = Prepended(ContextsOf(r)'[m], StackOf(r))
    <2> HIDE DEF m
    <2> QED
      BY <1>1, <1>5, <1>9, <1>10, <1>11, StackPushed
  <1> QED
    BY <1>5, <1>6, <1>7, <1>12

\* A popped frame.
LEMMA FramePopped ==
    ASSUME Good, Good', NEW r \in Procs, r = ptPcbb, AtFrame,
           mem' = [mem EXCEPT ![sp] = Data],
           IF UserMode' THEN ptKsp' = sp + 1 ELSE sp' = sp + 1,
           UNCHANGED <<ptPcbb, pcb, usp>>
    PROVE  /\ StackOf(r) # <<>>
           /\ Head(StackOf(r)) = ContextsOf(r)[sp]
           /\ Tail(StackOf(r)) = StackOf(r)'
           /\ \A p \in Procs : p # r => StackOf(p)' = StackOf(p)
           /\ sp \in Int
  <1> DEFINE m == sp
  <1>1. r \in Procs
    OBVIOUS
  <1>2. /\ Ksp(r) \in Int /\ KTop[r] \in Int /\ Depth \in Int
        /\ Ksp(r) >= KTop[r] - Depth /\ Ksp(r) <= KTop[r]
    BY <1>1, FramesFinite
  <1>3. m = Ksp(r) /\ Ksp(r)' = m + 1 /\ m \in Int
    BY <1>2 DEF Ksp, AtFrame
  <1>4. m \in Slots(r)
    <2>1. m \in (KTop[r] - Depth) .. KTop[r] /\ m \in KAddr
      BY <1>2, <1>3 DEF AtFrame
    <2> HIDE DEF m
    <2> QED
      BY <1>1, <2>1, SlotOfStack
  <1>5. m <= KTop[r] - 1
    BY <1>2, <1>4 DEF Slots
  <1>6. \A p \in Procs : p # r => StackOf(p)' = StackOf(p)
    BY <1>4, OthersStay
  <1>7. ASSUME NEW a \in Slots(r), a # m
        PROVE  mem'[a] = mem[a]
    BY <1>1, <1>7 DEF Good, TypeOK, KAddr
  <1>8. FramesOf(r) = FramesOf(r)' \cup {m}
    <2>1. m \in FramesOf(r)
      BY <1>2, <1>3, <1>5 DEF FramesOf, AtFrame
    <2> HIDE DEF m
    <2>2. ASSUME NEW a \in m .. (KTop[r] - 1), a # m
          PROVE  a \in FramesOf(r) <=> a \in FramesOf(r)'
      <3>1. a \in (m + 1) .. (KTop[r] - 1) /\ a \in Slots(r)
        BY <1>2, <1>3, <1>4, <2>2 DEF Slots
      <3>2. mem'[a] = mem[a]
        BY <1>7, <2>2, <3>1
      <3> QED
        BY <1>3, <2>2, <3>1, <3>2 DEF FramesOf, IsFrame
    <2>3. \A a \in FramesOf(r)' : a \in m .. (KTop[r] - 1) /\ a # m
      BY <1>2, <1>3 DEF FramesOf
    <2>4. \A a \in FramesOf(r) : a \in m .. (KTop[r] - 1)
      BY <1>3 DEF FramesOf
    <2> QED
      BY <2>1, <2>2, <2>3, <2>4
  <1>9. \A a \in FramesOf(r)' : m < a
    BY <1>2, <1>3 DEF FramesOf
  <1>10. ASSUME NEW a \in FramesOf(r)'
         PROVE  ContextsOf(r)'[a] = ContextsOf(r)[a]
    <2>1. a \in Int /\ a \in Slots(r) /\ a # m
      BY <1>1, <1>3, <1>8, <1>9, FramesFinite
    <2>2. mem'[a] = mem[a]
      BY <1>7, <2>1
    <2>3. SavedUsp(r)' = SavedUsp(r)
      BY DEF SavedUsp
    <2> QED
      BY <1>1, <2>1, <2>2, <2>3, ContextsSame
  <1>11. /\ StackOf(r) # <<>>
         /\ Head(StackOf(r)) = ContextsOf(r)[m]
         /\ Tail(StackOf(r)) = StackOf(r)'
    <2> HIDE DEF m
    <2> QED
      BY <1>1, <1>3, <1>8, <1>9, <1>10, StackPopped
  <1> QED
    BY <1>3, <1>6, <1>11

\* No frame comes or goes, and no user context's stack pointer moves.
LEMMA FramesStay ==
    ASSUME Good, Good',
           \A p \in Procs : FramesOf(p)' = FramesOf(p),
           \A p \in Procs : \A a \in FramesOf(p) : mem'[a] = mem[a],
           \A p \in Procs : SavedUsp(p)' = SavedUsp(p) \/ FramesOf(p) = {}
    PROVE  \A p \in Procs : StackOf(p)' = StackOf(p)
  BY StackKept

\* Kernel stacks that no step touches.
LEMMA MemoryStays ==
    ASSUME Good, Good', mem' = mem,
           \A p \in Procs : Ksp(p)' = Ksp(p),
           \A p \in Procs : SavedUsp(p)' = SavedUsp(p) \/ FramesOf(p) = {}
    PROVE  \A p \in Procs : StackOf(p)' = StackOf(p)
  <1>1. \A p \in Procs : FramesOf(p)' = FramesOf(p)
    BY DEF FramesOf, IsFrame
  <1> QED
    BY <1>1, FramesStay

-----------------------------------------------------------------------------
(* Each step is one of Contexts.                                           *)

\* The kernel's entry points, as far as it has registered them.
EntOk == \A s \in 0..5 : ent[WrEnt_Table[s + 1]] \in {Handler[s], NoPc}

\* The abstract state of a machine that runs.
LEMMA AbsRunning ==
    ASSUME cpu = "running", cpu' = "running", KernelReady, KernelReady'
    PROVE  /\ AbsMode = "on" /\ AbsMode' = AbsMode
           /\ AbsStack = [p \in Procs |-> StackOf(p)]
           /\ AbsStack' = [p \in Procs |-> StackOf(p)']
           /\ \A p \in Procs : AbsStack[p] = StackOf(p)
           /\ \A p \in Procs : (AbsStack')[p] = StackOf(p)'
           /\ AbsStack = [p \in Procs |-> AbsStack[p]]
           /\ AbsStack' = [p \in Procs |-> (AbsStack')[p]]
  <1>1. /\ AbsMode = "on" /\ AbsMode' = "on"
        /\ AbsStack = [p \in Procs |-> StackOf(p)]
        /\ AbsStack' = [p \in Procs |-> StackOf(p)']
    BY DEF AbsMode, AbsStack
  <1> QED
    BY <1>1

\* Nothing changes as long as no stack does.
LEMMA AbsStackSame ==
    ASSUME cpu = "running", cpu' = "running", KernelReady, KernelReady',
           \A p \in Procs : StackOf(p)' = StackOf(p)
    PROVE  AbsStack' = AbsStack
  BY AbsRunning

\* A parked stack pointer moves only with a PCB or a switch.
LEMMA AbsParkedSame ==
    ASSUME UNCHANGED <<ptPcbb, pcb>>
    PROVE  AbsParked' = AbsParked
  BY DEF AbsParked

\* An entry sets the interrupted context aside.
LEMMA EntryIsTrap ==
    ASSUME Good, Good', KernelReady, KernelReady',
           EntOk, NEW s \in 0..5, NEW skip \in 0..1,
           NEW savedPc, savedPc = pc + skip, NEW newPs, newPs.cm = 0, NEW a,
           Enter(savedPc, newPs, WrEnt_Table[s + 1], a), Abs!Entered(s, skip)
    PROVE  Abs!Trap
  <1> PICK r \in Procs : r = ptPcbb
    BY DEF Good, TypeOK
  <1> DEFINE pushed == [AbsRun EXCEPT !.pc = @ + skip]
  <1>1. /\ FrameSp \in KAddr /\ sp' = FrameSp
        /\ usp' = IF UserMode THEN sp ELSE usp
        /\ mem' = [mem EXCEPT ![FrameSp] = Frame(savedPc)]
        /\ savedPc \in Pcs /\ ps' = newPs /\ pc' = ent[WrEnt_Table[s + 1]]
        /\ UNCHANGED <<cpu, ptPcbb, pcb>>
    BY DEF Enter, StackFrame, procVars
  <1>2. Frame(savedPc) \in Frames
    BY <1>1 DEF Good, TypeOK, Frame, Frames, Enter
  <1>3. ~UserMode'
    BY <1>1 DEF UserMode
  <1>4. r \in Procs /\ cpu = "running" /\ cpu' = "running"
    BY DEF Good, TypeOK
  <1>5. /\ StackOf(r)' = Prepended(ContextsOf(r)'[FrameSp], StackOf(r))
        /\ \A p \in Procs : p # r => StackOf(p)' = StackOf(p)
        /\ FrameSp \in Int /\ mem'[FrameSp] = Frame(savedPc)
        /\ FrameSp + 1 = Ksp(r)
    BY <1>1, <1>2, <1>3, FramePushed
  <1>6. ContextsOf(r)'[FrameSp] = pushed
    <2>1. ~UserMode => FrameSp + 1 = sp
      BY <1>5 DEF Ksp
    <2>2. ps.cm = 0 <=> ~UserMode
      BY DEF Good, TypeOK, PS, UserMode
    <2> QED
      BY <1>1, <1>5, <2>1, <2>2
         DEF ContextsOf, ContextAt, Frame, UserMode, AbsRun
  <1>7. AbsRun'.pc = Handler[s]
    <2>1. WrEnt_Table[s + 1] \in EntryPoints
      BY DEF WrEnt_Table, EntryPoints
    <2>2. ent[WrEnt_Table[s + 1]] # NoPc
      BY <2>1 DEF Enter, KernelReady
    <2>3. pc' = Handler[s]
      BY <1>1, <2>2 DEF EntOk
    <2> QED
      BY <2>3 DEF AbsRun
  <1>8. AbsStack' = [AbsStack EXCEPT ![r] = Prepended(pushed, @)]
    <2>1. \A p \in Procs : p # r => (AbsStack')[p] = AbsStack[p]
      BY <1>4, <1>5, AbsRunning
    <2>2. (AbsStack')[r] = Prepended(pushed, AbsStack[r])
      BY <1>4, <1>5, <1>6, AbsRunning
    <2> HIDE DEF pushed
    <2> QED
      BY <1>4, <2>1, <2>2, AbsRunning, ExceptIs
  <1>9. AbsStack' = [AbsStack EXCEPT ![ptPcbb] =
                       <<[AbsRun EXCEPT !.pc = @ + skip]>> \o @]
    BY <1>8, Zenon DEF Prepended
  <1>10. UNCHANGED <<AbsMode, ptPcbb, AbsParked>> /\ AbsMode = "on"
    BY <1>1, <1>4, AbsRunning, AbsParkedSame
  <1> QED
    BY <1>7, <1>9, <1>10, Zenon DEF Abs!Trap

\* Exceptions and trapping calls are told by the kernel's entry and a0.
LEMMA ExceptionIsTrap ==
    ASSUME Good, Good', KernelReady, KernelReady',
           EntOk, NEW s \in 1..5, NEW skip \in 0..1,
           NEW savedPc, savedPc = pc + skip, NEW a,
           Exception(savedPc, WrEnt_Table[s + 1], a),
           \/ s \in {1, 2} /\ skip = 0
           \/ s = 4 /\ skip = 1
           \/ /\ s = 3
              /\ \E code \in 0..4 : /\ a = [args EXCEPT ![1] = code]
                                    /\ code = 3 => skip = 0
           \/ s = 5 /\ skip = 1 /\ UserMode /\ a = args
    PROVE  Abs!Trap
  <1>1. Enter(savedPc, ExceptionPs, WrEnt_Table[s + 1], a)
    BY DEF Exception
  <1>2. ExceptionPs.cm = 0
    BY DEF ExceptionPs, KernelPs, UserMode, Good, TypeOK, PS
  <1>3. /\ AbsRun'.ps = ExceptionPs /\ AbsRun'.args = a
        /\ AbsRun.ps = ps /\ AbsRun.args = args
    BY <1>1 DEF Enter, AbsRun
  <1>4. AbsRun'.ps = IF Abs!InUser THEN Abs!Kernel(0) ELSE AbsRun.ps
    BY <1>3 DEF ExceptionPs, KernelPs, UserMode, Abs!InUser, Abs!Kernel
  <1>5. s = 3 => \E code \in 0..4 :
                   /\ AbsRun'.args = [AbsRun.args EXCEPT ![1] = code]
                   /\ AbsRun'.args[1] = 3 => skip = 0
    <2> SUFFICES ASSUME s = 3,
                        NEW code \in 0..4, a = [args EXCEPT ![1] = code],
                        code = 3 => skip = 0
                 PROVE  /\ AbsRun'.args = [AbsRun.args EXCEPT ![1] = code]
                        /\ AbsRun'.args[1] = 3 => skip = 0
      OBVIOUS
    <2>1. a[1] = code
      BY DEF Good, TypeOK, Args
    <2> QED
      BY <1>3, <2>1
  <1>6. Abs!Entered(s, skip)
    <2>1. CASE s \in {1, 2} /\ skip = 0
      BY <1>4, <2>1 DEF Abs!Entered
    <2>2. CASE s = 4 /\ skip = 1
      BY <1>4, <2>2 DEF Abs!Entered
    <2>3. CASE s = 3
      BY <1>4, <1>5, <2>3 DEF Abs!Entered
    <2>4. CASE s = 5 /\ skip = 1 /\ UserMode /\ a = args
      BY <1>3, <1>4, <2>4 DEF Abs!Entered, Abs!InUser, UserMode
    <2> QED
      BY <2>1, <2>2, <2>3, <2>4
  <1> QED
    BY <1>1, <1>2, <1>6, EntryIsTrap

\* Interrupts and machine checks, by a0, with their level.
LEMMA InterruptIsTrap ==
    ASSUME Good, Good', KernelReady, KernelReady',
           EntOk, NEW code \in 0..3, NEW level,
           level = (CASE code = 0 -> 6 [] code = 1 -> 5
                      [] code = 2 -> 7 [] code = 3 -> 4),
           NEW skip, skip = IF code = 2 THEN 1 ELSE 0,
           level # 7 => ps.ipl < level,
           NEW savedPc, savedPc = pc + skip, NEW x, NEW y,
           Enter(savedPc, KernelPs(level), "Int", <<code, x, y>>)
    PROVE  Abs!Trap
  <1>1. "Int" = WrEnt_Table[0 + 1] /\ KernelPs(level).cm = 0
    BY DEF WrEnt_Table, KernelPs
  <1>2. AbsRun'.ps = KernelPs(level) /\ AbsRun'.args[1] = code /\ AbsRun.ps = ps
    <2>1. ps' = KernelPs(level) /\ args' = <<code, x, y>>
      BY DEF Enter
    <2> QED
      BY <2>1 DEF AbsRun
  <1>3. AbsRun'.ps.ipl # 7 => AbsRun'.ps.ipl > AbsRun.ps.ipl
    <2>1. ps.ipl \in Int /\ level \in Int
      BY DEF Good, TypeOK, PS
    <2> QED
      BY <1>2, <2>1 DEF KernelPs
  <1>4. Abs!Entered(0, skip)
    BY <1>2, <1>3 DEF Abs!Entered, Abs!Kernel, KernelPs
  <1>5. skip \in 0..1 /\ 0 \in 0..5
    OBVIOUS
  <1> QED
    BY <1>1, <1>4, <1>5, EntryIsTrap

LEMMA TrapInIsTrap ==
    ASSUME Good, Good', KernelReady, KernelReady',
           EntOk, TrapIn
    PROVE  Abs!Trap
  <1>1. /\ pc \in Int /\ pc + 0 = pc
        /\ WrEnt_Table[1 + 1] = "Arith" /\ WrEnt_Table[2 + 1] = "MM"
        /\ WrEnt_Table[3 + 1] = "IF" /\ WrEnt_Table[4 + 1] = "Una"
        /\ WrEnt_Table[5 + 1] = "Sys"
    BY PalCodeAssumption DEF Good, TypeOK, WrEnt_Table
  \* The exceptions.
  <1>2. CASE Pal_MMFault \/ Pal_Arith
    <2>1. PICK s \in {1, 2} : \E a : Exception(pc, WrEnt_Table[s + 1], a)
      BY <1>1, <1>2 DEF Pal_MMFault, Pal_Arith
    <2>2. PICK a : Exception(pc, WrEnt_Table[s + 1], a)
      BY <2>1
    <2>3. s \in 1..5 /\ 0 \in 0..1 /\ s \in {1, 2}
      OBVIOUS
    <2> QED
      BY <1>1, <2>2, <2>3, ExceptionIsTrap
  <1>3. CASE Pal_Unalign
    <2>1. PICK a : Exception(pc + 1, WrEnt_Table[4 + 1], a)
      BY <1>1, <1>3 DEF Pal_Unalign
    <2>2. 4 \in 1..5 /\ 1 \in 0..1
      OBVIOUS
    <2> QED
      BY <2>1, <2>2, ExceptionIsTrap
  <1>4. CASE Pal_OpcDec \/ Pal_Fen
    <2>1. PICK code \in 0..4 :
            Exception(pc, WrEnt_Table[3 + 1], [args EXCEPT ![1] = code])
      BY <1>1, <1>4 DEF Pal_OpcDec, Pal_Fen, IF_K_OPCDEC, IF_K_FEN
    <2>2. 3 \in 1..5 /\ 0 \in 0..1
      OBVIOUS
    <2> QED
      BY <1>1, <2>1, <2>2, ExceptionIsTrap
  <1>5. CASE CallPal_Bpt \/ CallPal_BugChk \/ CallPal_GenTrap \/ CallPal_OpcDec
    <2>1. PICK code \in {0, 1, 2, 4} :
            Exception(pc + 1, WrEnt_Table[3 + 1], [args EXCEPT ![1] = code])
      BY <1>1, <1>5
         DEF CallPal_Bpt, CallPal_BugChk, CallPal_GenTrap, CallPal_OpcDec,
             CallPal_Trap, IF_K_BPT, IF_K_BUGCHK, IF_K_GENTRAP, IF_K_OPCDEC
    <2>2. 3 \in 1..5 /\ 1 \in 0..1 /\ code \in 0..4 /\ code # 3
      OBVIOUS
    <2> QED
      BY <2>1, <2>2, ExceptionIsTrap
  <1>6. CASE CallPal_CallSys
    <2>1. UserMode /\ Exception(pc + 1, WrEnt_Table[5 + 1], args)
      BY <1>1, <1>6 DEF CallPal_CallSys
    <2>2. 5 \in 1..5 /\ 1 \in 0..1
      OBVIOUS
    <2> QED
      BY <2>1, <2>2, ExceptionIsTrap
  \* The interrupts.
  <1>7. CASE Pal_Smp_Interrupt
    <2>1. ps.ipl < 6 /\ Enter(pc, KernelPs(6), "Int", <<0, 0, 0>>)
      BY <1>7 DEF Pal_Smp_Interrupt, Interrupt, IPL_K_IP, INT_K_IP
    <2> QED
      BY <1>1, <2>1, InterruptIsTrap
  <1>8. CASE Pal_Clk_Interrupt
    <2>1. ps.ipl < 5 /\ Enter(pc, KernelPs(5), "Int", <<1, 0, 0>>)
      BY <1>8 DEF Pal_Clk_Interrupt, Interrupt, IPL_K_CLK, INT_K_CLK
    <2> QED
      BY <1>1, <2>1, InterruptIsTrap
  <1>9. CASE Pal_Dev_Interrupt
    <2>1. PICK x : /\ ps.ipl < 4
                   /\ Enter(pc, KernelPs(4), "Int", <<3, x, 0>>)
      BY <1>9 DEF Pal_Dev_Interrupt, Interrupt, IPL_K_DEV1, INT_K_DEV
    <2> QED
      BY <1>1, <2>1, InterruptIsTrap
  \* The machine checks.
  <1>10. CASE Pal_Mchk \/ CallPal_CallSys_Kernel
    <2>1. Enter(pc + 1, KernelPs(7), "Int", <<2, 0, LogoutPtr>>)
      BY <1>10 DEF Pal_Mchk, CallPal_CallSys_Kernel, MchkLogOut, IPL_K_MCHK,
                   INT_K_MCHK
    <2> QED
      BY <2>1, InterruptIsTrap
  <1> QED
    BY <1>2, <1>3, <1>4, <1>5, <1>6, <1>7, <1>8, <1>9, <1>10 DEF TrapIn

-----------------------------------------------------------------------------
\* A popped frame's context is the one set aside last.
LEMMA PopIsReturn ==
    ASSUME Good, Good', KernelReady, KernelReady',
           AtFrame, mem' = [mem EXCEPT ![sp] = Data],
           NEW f, f = mem[sp], ps' = RtiPs(f), pc' = f.pc, gp' = f.gp,
           \/ args' = f.args
           \/ f.ps.cm = 1 /\ args' = args,
           IF f.ps.cm = 1 THEN ptKsp' = sp + 1 /\ sp' = usp
                          ELSE sp' = sp + 1,
           UNCHANGED <<cpu, ptPcbb, pcb, usp>>
    PROVE  Abs!Return
  <1> PICK r \in Procs : r = ptPcbb
    BY DEF Good, TypeOK
  <1> DEFINE c == ContextsOf(r)[sp]
  <1>1. cpu = "running" /\ cpu' = "running" /\ ~UserMode
    BY DEF Good, AtFrame
  <1>2. UserMode' <=> f.ps.cm = 1
    BY DEF RtiPs, UserPs, KernelPs, UserMode
  <1>3. /\ StackOf(r) # <<>>
        /\ Head(StackOf(r)) = c
        /\ Tail(StackOf(r)) = StackOf(r)'
        /\ \A p \in Procs : p # r => StackOf(p)' = StackOf(p)
        /\ sp \in Int
    BY <1>2, FramePopped
  <1>4. f \in Frames /\ f.ps \in PS
    BY DEF Good, TypeOK, AtFrame, IsFrame, Frames
  <1>5. c = [ps |-> f.ps, pc |-> f.pc, gp |-> f.gp, args |-> f.args,
             sp |-> IF f.ps.cm = 0 THEN sp + 1 ELSE usp]
    BY <1>3 DEF ContextsOf, ContextAt
  <1>6. sp' = IF f.ps.cm = 0 THEN sp + 1 ELSE usp
    BY <1>4 DEF PS
  <1>7. Abs!Resumed(c) = [ps |-> ps', pc |-> f.pc, gp |-> f.gp,
                          args |-> f.args, sp |-> sp']
    <2>1. ps' = [f.ps EXCEPT !.ipl = IF f.ps.cm = 1 THEN 0 ELSE @]
      BY <1>4 DEF RtiPs, UserPs, KernelPs, PS
    <2> QED
      BY <1>5, <1>6, <2>1 DEF Abs!Resumed
  <1>8. \/ AbsRun' = Abs!Resumed(Head(AbsStack[ptPcbb]))
        \/ /\ Head(AbsStack[ptPcbb]).ps.cm = 1
           /\ AbsRun' = [Abs!Resumed(Head(AbsStack[ptPcbb]))
                           EXCEPT !.args = AbsRun.args]
    <2>1. Head(AbsStack[ptPcbb]) = c
      BY <1>1, <1>3, AbsRunning
    <2>2. CASE args' = f.args
      BY <1>7, <2>1, <2>2 DEF AbsRun
    <2>3. CASE f.ps.cm = 1 /\ args' = args
      <3>1. c.ps.cm = 1
        BY <1>5, <2>3
      <3>2. AbsRun' = [Abs!Resumed(c) EXCEPT !.args = AbsRun.args]
        BY <1>7, <2>3 DEF AbsRun
      <3> QED
        BY <2>1, <3>1, <3>2
    <2> QED
      BY <2>2, <2>3
  <1>9. AbsStack[ptPcbb] # <<>>
    BY <1>1, <1>3, AbsRunning
  <1>10. AbsStack' = [AbsStack EXCEPT ![ptPcbb] = Tail(@)]
    <2>1. \A p \in Procs : p # r => (AbsStack')[p] = AbsStack[p]
      BY <1>1, <1>3, AbsRunning
    <2>2. (AbsStack')[r] = Tail(AbsStack[r])
      BY <1>1, <1>3, AbsRunning
    <2>3. AbsStack' = [AbsStack EXCEPT ![r] = Tail(AbsStack[r])]
      BY <1>1, <2>1, <2>2, AbsRunning, ExceptIs
    <2> QED
      BY <2>3
  <1>11. UNCHANGED <<AbsMode, ptPcbb, AbsParked>> /\ AbsMode = "on"
    BY <1>1, AbsRunning, AbsParkedSame
  <1>12. ~Abs!InUser
    BY <1>1 DEF Abs!InUser, AbsRun, UserMode
  <1> QED
    BY <1>8, <1>9, <1>10, <1>11, <1>12, Zenon DEF Abs!Return

\* A step of the running program, by what it leaves.
LEMMA StillIsWork ==
    ASSUME Good, Good', KernelReady, KernelReady',
           UNCHANGED <<cpu, ptPcbb>>, AbsParked' = AbsParked,
           \A p \in Procs : StackOf(p)' = StackOf(p),
           ps'.cm = ps.cm, UserMode => ps' = ps
    PROVE  Abs!Work
  <1>1. cpu = "running" /\ cpu' = "running"
    BY DEF Good
  <1>2. AbsRun'.ps.cm = AbsRun.ps.cm /\ (Abs!InUser => AbsRun'.ps = AbsRun.ps)
    BY DEF AbsRun, Abs!InUser, UserMode
  <1>3. UNCHANGED <<AbsMode, ptPcbb, AbsStack, AbsParked>> /\ AbsMode = "on"
    BY <1>1, AbsRunning, AbsStackSame
  <1> QED
    BY <1>2, <1>3, Zenon DEF Abs!Work

\* A return resumes a context; a spurious interrupt changes nothing.
LEMMA TrapOutIsReturn ==
    ASSUME Good, Good', KernelReady, KernelReady',
           TrapOut
    PROVE  Abs!Return \/ Abs!Work
  <1>1. CASE CallPal_Rti
    BY <1>1, PopIsReturn DEF CallPal_Rti, procVars
  <1>2. CASE CallPal_RetSys /\ UserFrame
    <2>1. ps' = RtiPs(mem[sp])
      BY <1>2 DEF CallPal_RetSys, UserFrame, RtiPs
    <2> QED
      BY <1>2, <2>1, PopIsReturn DEF CallPal_RetSys, UserFrame, procVars
  \* A spurious interrupt pushes its frame and pops it.
  <1>3. CASE Pal_Dev_Spurious
    <2>1. /\ mem' = [mem EXCEPT ![FrameSp] = Data]
          /\ UNCHANGED <<cpu, ptPcbb, pcb>>
          /\ ps' = RtiPs(Frame(pc))
          /\ UserMode => ptKsp' = ptKsp
          /\ ~UserMode => sp' = sp /\ usp' = usp
      BY <1>3 DEF Pal_Dev_Spurious, procVars, FrameSp, Good, TypeOK
    <2>2. ps' = ps
      <3>1. ps \in PS /\ (UserMode => ps.ipl = 0)
        BY DEF Good, TypeOK, StackInv, UserAtIplZero
      <3> QED
        BY <2>1, <3>1 DEF RtiPs, Frame, UserMode, UserPs, KernelPs, PS
    <2>3. \A p \in Procs : Ksp(p)' = Ksp(p)
      BY <2>1, <2>2 DEF Ksp, UserMode
    <2>4. ptPcbb \in Procs /\ FrameSp = Ksp(ptPcbb) - 1
      BY DEF Good, TypeOK, FrameSp, Ksp
    <2>5. FrameSp \in Slots(ptPcbb)
      <3>1. Ksp(ptPcbb) \in (KTop[ptPcbb] - Depth) .. KTop[ptPcbb]
        BY <2>4 DEF Good, StackInv, StacksWellFormed
      <3>2. FrameSp \in KAddr
        BY <1>3 DEF Pal_Dev_Spurious
      <3> QED
        BY <2>4, <3>1, <3>2, SlotOfStack
    <2>6. ASSUME NEW p \in Procs, NEW a \in Ksp(p) .. (KTop[p] - 1)
          PROVE  mem'[a] = mem[a]
      <3>1. a \in Slots(p) /\ a \in Int /\ Ksp(p) \in Int
        BY <2>6, FramesFinite DEF Slots
      <3>2. a # FrameSp
        <4>1. CASE p = ptPcbb
          BY <2>4, <2>6, <3>1, <4>1
        <4>2. CASE p # ptPcbb
          BY <2>4, <2>5, <3>1, <4>2, StacksDisjoint
        <4> QED
          BY <4>1, <4>2
      <3> QED
        BY <2>1, <3>1, <3>2 DEF Good, TypeOK, KAddr
    <2>7. \A p \in Procs : FramesOf(p)' = FramesOf(p)
      BY <2>3, <2>6 DEF FramesOf, IsFrame
    <2>8. \A p \in Procs : \A a \in FramesOf(p) : mem'[a] = mem[a]
      BY <2>6 DEF FramesOf
    <2>9. \A p \in Procs : SavedUsp(p)' = SavedUsp(p) \/ FramesOf(p) = {}
      BY <2>1, UserStackIsEmpty DEF SavedUsp
    <2>10. \A p \in Procs : StackOf(p)' = StackOf(p)
      BY <2>7, <2>8, <2>9, FramesStay
    <2> QED
      BY <2>1, <2>2, <2>10, AbsParkedSame, StillIsWork
  <1> QED
    BY <1>1, <1>2, <1>3 DEF TrapOut

-----------------------------------------------------------------------------
(* The kernel's calls and the guest.                                       *)

\* wrusp moves the stack pointer of the process's user context, if it has one.
LEMMA WrUspStep ==
    ASSUME Good, Good', KernelReady, KernelReady',
           NEW s, CallPal_WrUsp(s)
    PROVE  Abs!SetUserSp \/ Abs!Work
  <1> PICK r \in Procs : r = ptPcbb
    BY DEF Good, TypeOK
  <1> DEFINE F == FramesOf(r)
             n == Cardinality(F)
             top == KTop[r] - 1
  <1>1. /\ cpu = "running" /\ cpu' = "running" /\ ~UserMode /\ ~UserMode'
        /\ usp' = s /\ mem' = mem /\ pc' = pc + 1
        /\ UNCHANGED <<cpu, ps, gp, args, sp, ptKsp, ptPcbb, pcb>>
    BY DEF CallPal_WrUsp, KernelReady, UserMode, procVars
  <1>2. \A p \in Procs : FramesOf(p)' = FramesOf(p)
    BY <1>1 DEF FramesOf, IsFrame, Ksp
  <1>3. \A p \in Procs : p # r => SavedUsp(p)' = SavedUsp(p)
    BY <1>1 DEF SavedUsp
  <1>4. \A p \in Procs : p # r => StackOf(p)' = StackOf(p)
    BY <1>1, <1>2, <1>3, StackKept
  <1>5. F \in SUBSET Int /\ IsFiniteSet(F) /\ KTop[r] \in Int
    BY FramesFinite
  <1>6. \A a \in F : a <= top
    BY <1>5 DEF FramesOf
  <1>7. \A a \in F : mem[a].ps.cm = 1 => a = top
    BY DEF FramesOf, Good, StackInv, StacksWellFormed
  <1>8. \A a \in F : a \in Int /\ mem[a].ps.cm \in {0, 1}
    <2> SUFFICES ASSUME NEW a \in F
                 PROVE  a \in Int /\ mem[a].ps.cm \in {0, 1}
      OBVIOUS
    <2>1. a \in Int /\ ContextsOf(r)[a] \in ContextType
      BY <1>5, FrameContexts
    <2>2. ContextsOf(r)[a].ps = mem[a].ps
      BY <2>1 DEF ContextsOf, ContextAt
    <2> QED
      BY <2>1, <2>2 DEF ContextType, PS
  <1>9. CASE ~\E a \in F : mem[a].ps.cm = 1
    <2>1. StackOf(r)' = StackOf(r)
      BY <1>1, <1>2, <1>8, <1>9, StackKept
    <2>2. \A p \in Procs : StackOf(p)' = StackOf(p)
      BY <1>4, <2>1
    <2> QED
      BY <1>1, <2>2, AbsParkedSame, StillIsWork
  <1>10. CASE \E a \in F : mem[a].ps.cm = 1
    <2>1. top \in F /\ mem[top].ps.cm = 1
      BY <1>7, <1>10
    <2>2. n \in Nat /\ n >= 1
      <3> HIDE DEF F
      <3>1. n \in Nat /\ n # 0
        BY <1>5, <2>1, FS_CardinalityType, FS_EmptySet
      <3> QED
        BY <3>1
    <2>3. Nth(F, n) = top
      <3> HIDE DEF F, top
      <3> QED
        BY <1>5, <1>6, <2>1, HighestIsLast
    <2>4. ASSUME NEW i \in 1 .. n
          PROVE  Nth(F, i) \in F /\ Rank(F, Nth(F, i)) = i
      <3> HIDE DEF F
      <3> QED
        BY <1>5, NthIs
    <2>5. ASSUME NEW i \in 1 .. n, i # n
          PROVE  mem[Nth(F, i)].ps.cm = 0
      <3>1. Nth(F, i) # Nth(F, n)
        BY <2>2, <2>4, <2>5
      <3> QED
        BY <1>7, <1>8, <2>3, <2>4, <3>1
    <2>6. /\ StackOf(r) = [i \in 1 .. n |-> ContextAt(r, Nth(F, i))]
          /\ StackOf(r)' = [i \in 1 .. n |->
                [ps |-> mem[Nth(F, i)].ps, pc |-> mem[Nth(F, i)].pc,
                 gp |-> mem[Nth(F, i)].gp, args |-> mem[Nth(F, i)].args,
                 sp |-> IF mem[Nth(F, i)].ps.cm = 0 THEN Nth(F, i) + 1 ELSE s]]
      BY <1>1, <1>2 DEF StackOf, ContextAt
    <2>7. /\ Len(StackOf(r)) = n /\ Len(StackOf(r)') = n
          /\ StackOf(r) = [i \in 1 .. n |-> StackOf(r)[i]]
          /\ StackOf(r)' = [i \in 1 .. n |-> StackOf(r)'[i]]
      BY <2>2, <2>6
    <2>8. \A i \in 1 .. n : i # n => StackOf(r)'[i] = StackOf(r)[i]
      BY <2>5, <2>6 DEF ContextAt
    <2>9. /\ StackOf(r)[n].ps.cm = 1
          /\ StackOf(r)'[n] = [StackOf(r)[n] EXCEPT !.sp = s]
          /\ StackOf(r)'[n].sp = s
      <3>1. n \in 1 .. n
        BY <2>2
      <3> QED
        BY <1>1, <2>1, <2>3, <2>6, <3>1 DEF ContextAt
    <2>10. StackOf(r)' = [StackOf(r) EXCEPT ![n] =
                            [StackOf(r)[n] EXCEPT !.sp = s]]
      <3> DEFINE old == StackOf(r)
                 new == StackOf(r)'
                 c == [StackOf(r)[n] EXCEPT !.sp = s]
                 D == 1 .. n
      <3>1. /\ n \in D
            /\ old = [i \in D |-> old[i]]
            /\ new = [i \in D |-> new[i]]
            /\ new[n] = c
            /\ \A i \in D : i # n => new[i] = old[i]
        BY <2>2, <2>7, <2>8, <2>9
      <3> HIDE DEF old, new, n, c, D
      <3>2. new = [old EXCEPT ![n] = c]
        BY <3>1, ExceptIs
      <3> QED
        BY <3>2 DEF old, new, c
    <2>11. AbsStack' = [AbsStack EXCEPT ![r] =
                          [AbsStack[r] EXCEPT ![n] =
                             [AbsStack[r][n] EXCEPT !.sp = s]]]
      <3>1. \A p \in Procs : p # r => (AbsStack')[p] = AbsStack[p]
        BY <1>1, <1>4, AbsRunning
      <3>2. (AbsStack')[r] = StackOf(r)' /\ AbsStack[r] = StackOf(r)
        BY <1>1, AbsRunning
      <3>3. (AbsStack')[r] = [AbsStack[r] EXCEPT ![n] =
                                [AbsStack[r][n] EXCEPT !.sp = s]]
        BY <2>10, <3>2
      <3> QED
        BY <1>1, <3>1, <3>3, AbsRunning, ExceptIs
    <2>12. /\ Len(AbsStack[ptPcbb]) = n /\ Len((AbsStack')[ptPcbb]) = n
           /\ AbsStack[ptPcbb] # <<>>
           /\ AbsStack[ptPcbb][n].ps.cm = 1
           /\ (AbsStack')[ptPcbb][n].sp = s
      <3>1. AbsStack[r] = StackOf(r) /\ (AbsStack')[r] = StackOf(r)'
        BY <1>1, AbsRunning
      <3>2. StackOf(r) # <<>>
        <4> HIDE DEF n
        <4> QED
          BY <2>2, <2>7
      <3> QED
        BY <2>7, <2>9, <3>1, <3>2
    <2>13. AbsRun' = [AbsRun EXCEPT !.pc = @ + 1]
      BY <1>1 DEF AbsRun
    <2>14. UNCHANGED <<AbsMode, ptPcbb, AbsParked>> /\ AbsMode = "on"
      BY <1>1, AbsRunning, AbsParkedSame
    <2>15. ~Abs!InUser
      BY <1>1 DEF Abs!InUser, AbsRun, UserMode
    <2>16. AbsStack' = [AbsStack EXCEPT ![ptPcbb][n].sp = s]
      BY <2>11
    <2> HIDE DEF n
    <2> QED
      BY <2>12, <2>13, <2>14, <2>15, <2>16 DEF Abs!SetUserSp
  <1> QED
    BY <1>9, <1>10

-----------------------------------------------------------------------------
\* A step that leaves the stack memory and every saved pointer is the running
\* program's own.
LEMMA QuietIsWork ==
    ASSUME Good, Good', KernelReady, KernelReady',
           UNCHANGED <<mem, ptPcbb, usp, ptKsp>>,
           \A p \in Procs : /\ pcb'[p].ksp = pcb[p].ksp
                            /\ pcb'[p].usp = pcb[p].usp,
           UserMode \/ sp' = sp, ps'.cm = ps.cm, UserMode => ps' = ps
    PROVE  Abs!Work
  <1>1. \A p \in Procs : Ksp(p)' = Ksp(p) /\ SavedUsp(p)' = SavedUsp(p)
    BY DEF Ksp, SavedUsp, UserMode
  <1>2. \A p \in Procs : StackOf(p)' = StackOf(p)
    BY <1>1, MemoryStays
  <1>3. AbsParked' = AbsParked
    BY DEF AbsParked
  <1>4. cpu' = cpu
    BY DEF Good
  <1> QED
    BY <1>2, <1>3, <1>4, StillIsWork

\* The kernel's calls on its own state.
LEMMA CallsAreSteps ==
    ASSUME Good, Good', KernelReady, KernelReady',
           KernelCalls
    PROVE  Abs!SetUserSp \/ Abs!Work
  <1>1. CASE \E s \in UserSps : CallPal_WrUsp(s)
    BY <1>1, WrUspStep
  <1>2. CASE ~\E s \in UserSps : CallPal_WrUsp(s)
    <2>1. /\ UNCHANGED <<mem, ptPcbb, usp, ptKsp, pcb, sp>>
          /\ ps'.cm = ps.cm /\ ~UserMode
      BY <1>2
         DEF KernelCalls, CallPal_SwpIpl, CallPal_WrEnt, CallPal_WrKgp,
             CallPal_WrMces, KernelPs, UserMode, procVars, Good, TypeOK, PS
    <2> QED
      BY <2>1, QuietIsWork
  <1> QED
    BY <1>1, <1>2

-----------------------------------------------------------------------------
(* Switches.                                                               *)

\* A switch moves no stack; it parks one stack pointer and takes up another.
LEMMA SwitchStep ==
    ASSUME Good, Good', KernelReady, KernelReady',
           NEW p \in Procs, CallPal_SwpCtx(p)
    PROVE  Abs!Switch(p)
  <1> PICK r \in Procs : r = ptPcbb
    BY DEF Good, TypeOK
  <1>1. /\ cpu = "running" /\ cpu' = "running" /\ ~UserMode /\ ~UserMode'
        /\ pcb' = Saved /\ ptPcbb' = p /\ mem' = mem
        /\ sp' = Saved[p].ksp /\ usp' = Saved[p].usp /\ pc' = pc + 1
        /\ UNCHANGED <<ps, gp, args>>
    BY DEF CallPal_SwpCtx, KernelReady, UserMode
  <1>2. /\ Saved[r].ksp = sp /\ Saved[r].usp = usp
        /\ \A q \in Procs \ {r} : Saved[q] = pcb[q]
    BY DEF Saved, Good, TypeOK
  <1>3. \A q \in Procs : Ksp(q)' = Ksp(q) /\ SavedUsp(q)' = SavedUsp(q)
    BY <1>1, <1>2 DEF Ksp, SavedUsp
  <1>4. \A q \in Procs : StackOf(q)' = StackOf(q)
    BY <1>1, <1>3, MemoryStays
  <1> DEFINE L == [AbsParked EXCEPT ![r] = AbsRun.sp]
  <1>5. \A q \in Procs : L[q] = Saved[q].ksp
    BY <1>2 DEF AbsParked, AbsRun
  <1>6. \A q \in Procs \ {p} : (AbsParked')[q] = L[q]
    <2>1. \A q \in Procs \ {p} : (AbsParked')[q] = Saved[q].ksp
      BY <1>1 DEF AbsParked
    <2> HIDE DEF L
    <2> QED
      BY <1>5, <2>1
  <1>7. AbsRun' = [AbsRun EXCEPT !.pc = @ + 1, !.sp = L[p]]
    <2>1. sp' = L[p]
      BY <1>1, <1>5
    <2>2. pc' = pc + 1 /\ UNCHANGED <<ps, gp, args>>
      BY <1>1
    <2> DEFINE moved == [ps |-> ps, pc |-> pc + 1, gp |-> gp, args |-> args,
                         sp |-> sp]
    <2>3. [AbsRun EXCEPT !.pc = @ + 1] = moved
      BY DEF AbsRun
    <2>4. AbsRun' = [moved EXCEPT !.sp = sp']
      BY <2>2 DEF AbsRun
    <2> HIDE DEF moved, L
    <2>5. AbsRun' = [[AbsRun EXCEPT !.pc = AbsRun.pc + 1] EXCEPT !.sp = L[p]]
      BY <2>1, <2>3, <2>4
    <2> QED
      BY <2>5
  <1>8. UNCHANGED <<AbsMode, AbsStack>> /\ AbsMode = "on"
    BY <1>1, <1>4, AbsRunning, AbsStackSame
  <1>9. ~Abs!InUser /\ ptPcbb' = p
    BY <1>1 DEF Abs!InUser, AbsRun, UserMode
  <1>10. L = [AbsParked EXCEPT ![ptPcbb] = AbsRun.sp]
    OBVIOUS
  <1> HIDE DEF L
  <1> QED
    BY <1>6, <1>7, <1>8, <1>9, <1>10 DEF Abs!Switch

\* The console starts a kernel on empty stacks, and until it has set itself up
\* they stay empty.
LEMMA StartStep ==
    ASSUME TypeOK, TypeOK', StackInv, StackInv', ~KernelReady,
           \/ \E s \in 0..5 : CallPal_WrEnt(Handler[s], s)
           \/ CallPal_WrKgp(Kgp)
           \/ \E p \in Procs, newPc \in CodePcs : CallPal_SwpPal(newPc, p)
    PROVE  Abs!Start
  <1>1. /\ cpu \in {"console", "running"} /\ cpu' = "running"
        /\ ~UserMode /\ UNCHANGED <<ps, pcb, mem>>
        /\ \A q \in Procs : pcb[q].ksp = KTop[q]
        /\ cpu = "running" => sp = KTop[ptPcbb]
        /\ sp' = KTop[ptPcbb']
    BY BootSteps DEF StackInv
  <1>2. ASSUME NEW q \in Procs
        PROVE  StackOf(q)' = <<>>
    <2>1. Ksp(q)' = KTop[q] /\ KTop[q] \in Int
      BY <1>1, PalStateAssumption DEF Ksp, UserMode
    <2>2. FramesOf(q)' = {}
      BY <2>1 DEF FramesOf
    <2>3. StackOf(q)' = Listed({}, ContextsOf(q)')
      BY <1>1, <2>2, StackIsNext DEF Good
    <2> QED
      BY <2>3, ListedNone
  <1>3. ASSUME cpu = "running", NEW q \in Procs
        PROVE  StackOf(q) = <<>>
    <2>1. Ksp(q) = KTop[q] /\ KTop[q] \in Int
      BY <1>1, <1>3, PalStateAssumption DEF Ksp
    <2>2. FramesOf(q) = {}
      BY <2>1 DEF FramesOf
    <2>3. StackOf(q) = Listed({}, ContextsOf(q))
      BY <1>3, <2>2, StackIs DEF Good
    <2> QED
      BY <2>3, ListedNone
  <1>4. AbsStack = [q \in Procs |-> <<>>]
    BY <1>3 DEF AbsStack
  <1>5. AbsStack' = [q \in Procs |-> <<>>]
    <2>1. AbsStack' = [q \in Procs |-> StackOf(q)']
      BY <1>1 DEF AbsStack
    <2> QED
      BY <1>2, <2>1
  <1>6. AbsMode = "off" /\ AbsMode' \in {"off", "on"}
    BY <1>1 DEF AbsMode
  <1>7. ~Abs!InUser /\ AbsRun'.ps = AbsRun.ps
    BY <1>1 DEF Abs!InUser, AbsRun, UserMode
  <1>8. ptPcbb' \in Procs
    BY <1>1 DEF TypeOK
  <1>9. AbsStack' = AbsStack
    BY <1>4, <1>5
  <1> QED
    BY <1>6, <1>7, <1>8, <1>9, Zenon DEF Abs!Start

\* The calls on processes, once a kernel runs.
LEMMA ContextStep ==
    ASSUME Good, Good', KernelReady, KernelReady',
           ContextNext
    PROVE  Abs!Work \/ \E p \in Procs : Abs!Switch(p)
  <1>1. CASE \E p \in Procs : CallPal_SwpCtx(p)
    BY <1>1, SwitchStep
  <1>2. CASE \E f \in Fens : CallPal_WrFen(f)
    <2>1. /\ UNCHANGED <<mem, ptPcbb, usp, ptKsp, sp, ps>>
          /\ \A p \in Procs : /\ pcb'[p].ksp = pcb[p].ksp
                              /\ pcb'[p].usp = pcb[p].usp
      BY <1>2 DEF CallPal_WrFen, Good, TypeOK
    <2> QED
      BY <2>1, QuietIsWork
  <1>3. CASE \/ \E u \in Uniques : CallPal_WrUnique(u)
             \/ \E s \in Tbis : CallPal_Tbi(s)
             \/ CallPal_SwpPalUnknown
    <2>1. UNCHANGED <<mem, ptPcbb, usp, ptKsp, sp, ps, pcb>>
      BY <1>3 DEF CallPal_WrUnique, CallPal_Tbi, CallPal_SwpPalUnknown, procVars
    <2> QED
      BY <2>1, QuietIsWork
  <1> QED
    BY <1>1, <1>2, <1>3 DEF ContextNext

\* A halt stops the machine, in kernel mode.
LEMMA HaltStep ==
    ASSUME KernelReady, Halting
    PROVE  Abs!Stop
  <1>1. /\ cpu = "running" /\ ~UserMode
        /\ cpu' \in {"MCHK_FROM_PAL", "SW_HALT"}
    BY DEF Halting, MchkBugCheck, CallPal_Halt, KernelReady
  <1>2. AbsMode = "on" /\ AbsMode' = "stopped"
    BY <1>1 DEF AbsMode, KernelReady
  <1>3. ~Abs!InUser
    BY <1>1 DEF Abs!InUser, AbsRun, UserMode
  <1> QED
    BY <1>2, <1>3 DEF Abs!Stop

-----------------------------------------------------------------------------
(* The guest.                                                              *)

\* Data that the kernel pushes and pops is no context.
LEMMA DataIsWork ==
    ASSUME Good, Good', KernelReady, KernelReady',
           KernelPush \/ KernelPop
    PROVE  Abs!Work
  <1> PICK r \in Procs : r = ptPcbb
    BY DEF Good, TypeOK
  <1>1. /\ ~UserMode /\ ~UserMode' /\ Ksp(r) = sp /\ Ksp(r)' = sp'
        /\ UNCHANGED <<cpu, ps, ptPcbb, pcb, usp>>
    BY DEF KernelPush, KernelPop, KernelUnchanged, procVars, UserMode, Ksp
  <1>2. /\ sp \in Int /\ KTop[r] \in Int
        /\ sp \in (KTop[r] - Depth) .. KTop[r]
    BY <1>1, FramesFinite DEF Good, StackInv, StacksWellFormed
  <1>3. SavedUsp(r)' = SavedUsp(r)
    BY <1>1 DEF SavedUsp
  <1>4. CASE KernelPush
    <2>1. sp' = sp - 1 /\ sp - 1 \in KAddr /\ mem' = [mem EXCEPT ![sp - 1] = Data]
      BY <1>4 DEF KernelPush
    <2>2. sp - 1 \in Slots(r)
      BY <1>2, <2>1, SlotOfStack
    <2>3. \A p \in Procs : p # r => StackOf(p)' = StackOf(p)
      BY <1>1, <2>1, <2>2, OthersStay
    <2>4. mem'[sp - 1] = Data
      BY <2>1 DEF Good, TypeOK
    <2>5. ASSUME NEW a \in sp .. (KTop[r] - 1)
          PROVE  mem'[a] = mem[a]
      BY <1>2, <2>1, <2>5 DEF Good, TypeOK
    <2>6. FramesOf(r)' = FramesOf(r)
      <3>1. \A a \in (sp - 1) .. (KTop[r] - 1) :
              a = sp - 1 \/ a \in sp .. (KTop[r] - 1)
        BY <1>2
      <3>2. \A a \in sp .. (KTop[r] - 1) : a \in (sp - 1) .. (KTop[r] - 1)
        BY <1>2
      <3>3. Ksp(r) = sp /\ Ksp(r)' = sp - 1
        BY <1>1, <2>1
      <3> QED
        BY <2>4, <2>5, <3>1, <3>2, <3>3 DEF FramesOf, IsFrame
    <2>7. \A a \in FramesOf(r) : mem'[a] = mem[a]
      BY <1>1, <2>5 DEF FramesOf
    <2>8. StackOf(r)' = StackOf(r)
      BY <1>3, <2>6, <2>7, StackKept
    <2> QED
      BY <1>1, <2>3, <2>8, AbsParkedSame, StillIsWork
  <1>5. CASE KernelPop
    <2>1. sp' = sp + 1 /\ mem' = mem /\ mem[sp] = Data
      BY <1>5 DEF KernelPop, IsFrame
    <2>2. \A p \in Procs : p # r => Ksp(p)' = Ksp(p) /\ SavedUsp(p)' = SavedUsp(p)
      BY <1>1 DEF Ksp, SavedUsp
    <2>3. \A p \in Procs : p # r => FramesOf(p)' = FramesOf(p)
      BY <2>1, <2>2 DEF FramesOf, IsFrame
    <2>4. FramesOf(r)' = FramesOf(r)
      <3>1. \A a \in sp .. (KTop[r] - 1) :
              a = sp \/ a \in (sp + 1) .. (KTop[r] - 1)
        BY <1>2
      <3>2. \A a \in (sp + 1) .. (KTop[r] - 1) : a \in sp .. (KTop[r] - 1)
        BY <1>2
      <3>3. Ksp(r) = sp /\ Ksp(r)' = sp + 1
        BY <1>1, <2>1
      <3> QED
        BY <2>1, <3>1, <3>2, <3>3 DEF FramesOf, IsFrame
    <2>5. \A p \in Procs : StackOf(p)' = StackOf(p)
      BY <1>3, <2>1, <2>2, <2>3, <2>4, FramesStay
    <2> QED
      BY <1>1, <2>5, AbsParkedSame, StillIsWork
  <1> QED
    BY <1>4, <1>5

\* The frame the kernel builds for a process's first return to user mode.
LEMMA MadeFrameStep ==
    ASSUME Good, Good', KernelReady, KernelReady',
           NEW ipl \in Ipls, KernelMakeFrame(ipl)
    PROVE  Abs!NewContext
  <1> PICK r \in Procs : r = ptPcbb
    BY DEF Good, TypeOK
  <1>1. /\ ~UserMode /\ ~UserMode' /\ sp = KTop[r] /\ sp' = sp - 1
        /\ cpu = "running" /\ cpu' = "running"
        /\ UNCHANGED <<cpu, ps, ptPcbb, pcb, usp>>
    BY DEF KernelMakeFrame, KernelReady, KernelUnchanged, procVars, UserMode
  <1>2. PICK savedPc \in CodePcs, savedGp \in GuestGps, savedArgs \in GuestArgs :
          mem' = [mem EXCEPT ![sp - 1] =
                    [ps |-> [cm |-> 1, ipl |-> ipl], pc |-> savedPc,
                     gp |-> savedGp, args |-> savedArgs]]
    BY DEF KernelMakeFrame
  <1> DEFINE f == [ps |-> [cm |-> 1, ipl |-> ipl], pc |-> savedPc,
                   gp |-> savedGp, args |-> savedArgs]
  <1>3. f \in Frames /\ f.ps.cm = 1
    BY PalCodeAssumption DEF Frames, PS, Gps
  <1>4. KTop[r] \in Int /\ Depth \in Int /\ Depth >= 1
    BY PalStateAssumption
  <1>5. FrameSp = sp - 1 /\ FrameSp \in KAddr
    <2>1. KTop[r] - 1 \in Slots(r)
      BY <1>4 DEF Slots
    <2> QED
      BY <1>1, <2>1 DEF FrameSp, KAddr
  <1>6. mem' = [mem EXCEPT ![FrameSp] = f]
    BY <1>2, <1>5
  <1> HIDE DEF f
  <1>7. /\ StackOf(r)' = Prepended(ContextsOf(r)'[FrameSp], StackOf(r))
        /\ \A p \in Procs : p # r => StackOf(p)' = StackOf(p)
        /\ FrameSp \in Int /\ mem'[FrameSp] = f
    BY <1>1, <1>3, <1>5, <1>6, FramePushed
  <1>8. StackOf(r) = <<>>
    <2>1. FramesOf(r) = {}
      <3>1. Ksp(r) = KTop[r]
        BY <1>1 DEF Ksp
      <3> QED
        BY <1>4, <3>1 DEF FramesOf
    <2>2. StackOf(r) = Listed({}, ContextsOf(r))
      BY <2>1, StackIs
    <2> QED
      BY <2>2, ListedNone
  <1>9. ContextsOf(r)'[FrameSp].ps.cm = 1
    BY <1>3, <1>7 DEF ContextsOf, ContextAt
  <1> DEFINE c == ContextsOf(r)'[FrameSp]
  <1>10. StackOf(r)' = Prepended(c, <<>>) /\ c.ps.cm = 1
    BY <1>7, <1>8, <1>9
  <1> HIDE DEF c
  <1>11. Len(Prepended(c, <<>>)) = 1 /\ Prepended(c, <<>>)[1] = c
    BY DEF Prepended
  <1>12. Len(StackOf(r)') = 1 /\ StackOf(r)'[1].ps.cm = 1
    BY <1>10, <1>11
  <1>13. /\ Len((AbsStack')[ptPcbb]) = 1 /\ (AbsStack')[ptPcbb][1].ps.cm = 1
         /\ AbsStack[ptPcbb] = <<>>
         /\ \A p \in Procs \ {ptPcbb} : (AbsStack')[p] = AbsStack[p]
    <2>1. (AbsStack')[r] = StackOf(r)' /\ AbsStack[r] = StackOf(r)
      BY <1>1, AbsRunning
    <2>2. \A p \in Procs : p # r => (AbsStack')[p] = AbsStack[p]
      BY <1>1, <1>7, AbsRunning
    <2> QED
      BY <1>8, <1>12, <2>1, <2>2
  <1>14. UNCHANGED <<AbsMode, ptPcbb, AbsParked>> /\ AbsMode = "on"
    BY <1>1, AbsRunning, AbsParkedSame
  <1>15. ~Abs!InUser
    BY <1>1 DEF Abs!InUser, AbsRun, UserMode
  <1> QED
    BY <1>13, <1>14, <1>15, Zenon DEF Abs!NewContext

\* The guest's own steps.
LEMMA GuestIsStep ==
    ASSUME Good, Good', KernelReady, KernelReady',
           GuestNext
    PROVE  Abs!Work \/ Abs!NewContext
  <1>1. CASE GuestStep \/ Tick
    <2>1. /\ UNCHANGED <<mem, ptPcbb, usp, ptKsp, pcb, ps>>
          /\ UserMode \/ sp' = sp
      BY <1>1 DEF GuestStep, Tick
    <2> QED
      BY <2>1, QuietIsWork
  <1>2. CASE KernelPush \/ KernelPop
    BY <1>2, DataIsWork
  <1>3. CASE \E ipl \in Ipls : KernelMakeFrame(ipl)
    BY <1>3, MadeFrameStep
  <1> QED
    BY <1>1, <1>2, <1>3 DEF GuestNext

-----------------------------------------------------------------------------
(* The refinement.                                                         *)

\* Only wrent changes an entry point, and each selector has its own.
LEMMA EntOkStep == TypeOK /\ EntOk /\ [Next]_vars => EntOk'
  <1> SUFFICES ASSUME TypeOK, EntOk, [Next]_vars
               PROVE  EntOk'
    OBVIOUS
  <1>1. CASE ent' = ent
    BY <1>1 DEF EntOk
  <1>2. CASE \E s \in 0..5 : CallPal_WrEnt(Handler[s], s)
    <2>1. PICK t \in 0..5 : CallPal_WrEnt(Handler[t], t)
      BY <1>2
    <2>2. ent' = [ent EXCEPT ![WrEnt_Table[t + 1]] = Handler[t]]
      <3>1. t < 6
        OBVIOUS
      <3> QED
        BY <2>1, <3>1 DEF CallPal_WrEnt
    <2>3. \A s \in 0..5 : s # t => WrEnt_Table[s + 1] # WrEnt_Table[t + 1]
      BY DEF WrEnt_Table
    <2>4. \A s \in 0..5 : WrEnt_Table[s + 1] \in EntryPoints
      BY DEF WrEnt_Table, EntryPoints
    <2> SUFFICES ASSUME NEW s \in 0..5
                 PROVE  ent'[WrEnt_Table[s + 1]] \in {Handler[s], NoPc}
      BY DEF EntOk
    <2>5. ent[WrEnt_Table[s + 1]] \in {Handler[s], NoPc}
      BY DEF EntOk
    <2>6. CASE s = t
      <3>1. ent'[WrEnt_Table[t + 1]] = Handler[t]
        BY <2>2, <2>4 DEF TypeOK
      <3> QED
        BY <2>6, <3>1
    <2>7. CASE s # t
      <3>1. ent'[WrEnt_Table[s + 1]] = ent[WrEnt_Table[s + 1]]
        BY <2>2, <2>3, <2>4, <2>7 DEF TypeOK
      <3> QED
        BY <2>5, <3>1
    <2> QED
      BY <2>6, <2>7
  <1>3. CASE TrapIn \/ TrapOut
    BY <1>1, <1>3
       DEF TrapIn, TrapOut, Enter, Exception, Interrupt, MchkLogOut,
           Pal_MMFault, Pal_Unalign, Pal_Arith, Pal_OpcDec, Pal_Fen,
           CallPal_Bpt, CallPal_BugChk, CallPal_GenTrap, CallPal_OpcDec,
           CallPal_Trap, CallPal_CallSys, Pal_Smp_Interrupt,
           Pal_Clk_Interrupt, Pal_Dev_Interrupt, Pal_Mchk,
           CallPal_CallSys_Kernel, CallPal_Rti, CallPal_RetSys,
           Pal_Dev_Spurious
  <1>4. CASE Halting \/ KernelCalls
    BY <1>1, <1>2, <1>4
       DEF Halting, MchkBugCheck, CallPal_Halt, KernelCalls, CallPal_SwpIpl,
           CallPal_WrKgp, CallPal_WrUsp, CallPal_WrMces
  <1>5. CASE ContextNext
    BY <1>1, <1>5
       DEF ContextNext, CallPal_SwpPalUnknown, CallPal_SwpCtx, CallPal_SwpPal,
           CallPal_WrFen, CallPal_WrUnique, CallPal_Tbi
  <1>6. CASE GuestNext
    BY <1>1, <1>6
       DEF GuestNext, GuestStep, KernelPush, KernelPop, Tick, KernelMakeFrame,
           KernelUnchanged
  <1> QED
    BY <1>1, <1>3, <1>4, <1>5, <1>6 DEF Next, vars

LEMMA EntOkHolds == Spec => []EntOk
  <1>1. Init => EntOk
    <2> SUFFICES ASSUME Init, NEW s \in 0..5
                 PROVE  ent[WrEnt_Table[s + 1]] = NoPc
      BY DEF EntOk
    <2>1. ent = [e \in EntryPoints |-> NoPc]
      BY DEF Init
    <2>2. WrEnt_Table[s + 1] \in EntryPoints
      BY DEF WrEnt_Table, EntryPoints
    <2> QED
      BY <2>1, <2>2
  <1>2. TypeOK /\ EntOk /\ [Next]_vars => EntOk'
    BY EntOkStep
  <1> QED
    BY <1>1, <1>2, TypeCorrect, PTL DEF Spec

\* Before a kernel is ready a step is one of its three calls; after that it
\* halts, or runs on and stays ready.
LEMMA MachineRuns ==
    ASSUME Next, TypeOK, TypeOK', StackInv, StackInv'
    PROVE  \/ Good /\ Good' /\ KernelReady /\ KernelReady'
           \/ KernelReady /\ Halting
           \/ /\ ~KernelReady
              /\ \/ \E s \in 0..5 : CallPal_WrEnt(Handler[s], s)
                 \/ CallPal_WrKgp(Kgp)
                 \/ \E p \in Procs, newPc \in CodePcs : CallPal_SwpPal(newPc, p)
  <1>1. CASE KernelReady /\ ~Halting
    <2>1. cpu = "running"
      BY <1>1 DEF KernelReady
    <2>2. cpu' = "running"
      <3>1. CASE TrapIn \/ TrapOut
        BY <2>1, <3>1
           DEF TrapIn, TrapOut, Enter, Exception, Interrupt, MchkLogOut,
               Pal_MMFault, Pal_Unalign, Pal_Arith, Pal_OpcDec, Pal_Fen,
               CallPal_Bpt, CallPal_BugChk, CallPal_GenTrap, CallPal_OpcDec,
               CallPal_Trap, CallPal_CallSys, Pal_Smp_Interrupt,
               Pal_Clk_Interrupt, Pal_Dev_Interrupt, Pal_Mchk,
               CallPal_CallSys_Kernel, CallPal_Rti, CallPal_RetSys,
               Pal_Dev_Spurious
      <3>2. CASE KernelCalls
        BY <2>1, <3>2
           DEF KernelCalls, CallPal_SwpIpl, CallPal_WrEnt, CallPal_WrKgp,
               CallPal_WrUsp, CallPal_WrMces
      <3>3. CASE GuestNext
        BY <2>1, <3>3
           DEF GuestNext, GuestStep, KernelPush, KernelPop, Tick,
               KernelMakeFrame, KernelUnchanged
      <3>4. CASE ContextNext
        BY <2>1, <3>4
           DEF ContextNext, CallPal_SwpPal, CallPal_SwpPalUnknown,
               CallPal_SwpCtx, CallPal_WrFen, CallPal_WrUnique, CallPal_Tbi
      <3> QED
        BY <1>1, <3>1, <3>2, <3>3, <3>4 DEF Next
    <2> QED
      BY <1>1, <2>1, <2>2, ReadyStays DEF Good
  <1> QED
    BY <1>1, BootCalls

\* The console's state is the initial one.
LEMMA ImplementsInit == Init => Abs!Init
  <1> SUFFICES ASSUME Init
               PROVE  Abs!Init
    OBVIOUS
  <1>1. cpu = "console"
    BY DEF Init
  <1>2. AbsMode = "off" /\ AbsStack = [p \in Procs |-> <<>>]
    BY <1>1 DEF AbsMode, AbsStack, KernelReady
  <1> QED
    BY <1>2 DEF Abs!Init

\* Every step is one of Contexts, or changes nothing there.
LEMMA ImplementsStep ==
    /\ TypeOK /\ TypeOK' /\ StackInv /\ StackInv' /\ EntOk
    /\ [Next]_vars
    => [Abs!Next]_(Abs!vars)
  <1> SUFFICES ASSUME TypeOK, TypeOK', StackInv, StackInv', EntOk, [Next]_vars
               PROVE  Abs!Next \/ UNCHANGED Abs!vars
    OBVIOUS
  <1>1. CASE UNCHANGED vars
    <2>1. UNCHANGED <<cpu, ptPcbb, ps, pc, gp, args, sp, usp, ptKsp, mem, pcb,
                      ent, ptKgp>>
      BY <1>1 DEF vars
    <2>2. \A p : StackOf(p)' = StackOf(p)
      BY <2>1 DEF StackOf, ContextAt, FramesOf, IsFrame, Ksp, UserMode
    <2>3. AbsStack' = AbsStack
      BY <2>1, <2>2 DEF AbsStack
    <2>4. UNCHANGED <<AbsMode, ptPcbb, AbsRun, AbsParked>>
      BY <2>1 DEF AbsMode, KernelReady, AbsRun, AbsParked
    <2> QED
      BY <2>3, <2>4, Zenon DEF Abs!vars
  <1>2. CASE KernelReady /\ Halting
    BY <1>2, HaltStep DEF Abs!Next
  <1>3. CASE /\ ~KernelReady
             /\ \/ \E s \in 0..5 : CallPal_WrEnt(Handler[s], s)
                \/ CallPal_WrKgp(Kgp)
                \/ \E p \in Procs, newPc \in CodePcs : CallPal_SwpPal(newPc, p)
    BY <1>3, StartStep DEF Abs!Next
  <1>4. CASE Next /\ Good /\ Good' /\ KernelReady /\ KernelReady'
    <2>1. ~Halting
      BY <1>4 DEF Halting, MchkBugCheck, CallPal_Halt, Good
    <2>2. CASE TrapIn
      BY <1>4, <2>2, TrapInIsTrap DEF Abs!Next
    <2>3. CASE TrapOut
      BY <1>4, <2>3, TrapOutIsReturn DEF Abs!Next
    <2>4. CASE KernelCalls
      BY <1>4, <2>4, CallsAreSteps DEF Abs!Next
    <2>5. CASE ContextNext
      BY <1>4, <2>5, ContextStep DEF Abs!Next
    <2>6. CASE GuestNext
      BY <1>4, <2>6, GuestIsStep DEF Abs!Next
    <2> QED
      BY <1>4, <2>1, <2>2, <2>3, <2>4, <2>5, <2>6 DEF Next
  <1> QED
    BY <1>1, <1>2, <1>3, <1>4, MachineRuns

\* PALcode keeps its promise: every trap sets the interrupted context aside,
\* every return resumes the one set aside last, and no process's contexts are
\* touched while another runs (STACK_FRAME, rti, retsys, swpctx, swppal).
THEOREM ContextsImplemented == Spec => ImplementsContexts
  <1>1. Spec => [][Next]_vars
    BY PTL DEF Spec
  <1> QED
    BY <1>1, ImplementsInit, ImplementsStep, TypeCorrect, StackInvHolds,
       EntOkHolds, PTL DEF Spec, ImplementsContexts, Abs!Spec
=============================================================================
