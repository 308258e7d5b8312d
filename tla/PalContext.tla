------------------------------ MODULE PalContext ------------------------------
(***************************************************************************)
(* Processes (src/pal.S): the calls that switch between PCBs and that      *)
(* change the state a PCB holds.                                           *)
(***************************************************************************)
EXTENDS PalState

\* A bug: the user stack pointer of the process that is left is not saved.
SavedNoUsp ==
    [pcb EXCEPT ![ptPcbb] =
       [ksp |-> sp, usp |-> pcb[ptPcbb].usp, pcc |-> VirtualCc,
        unique |-> unique, fen |-> pcb[ptPcbb].fen, ptbr |-> pcb[ptPcbb].ptbr]]

\* The PCBs when the running process's has been written: cycle counter, stack
\* pointers and unique value; FEN and PTBR never change behind the PCB.
Saved ==
    [pcb EXCEPT ![ptPcbb] =
       [ksp |-> sp, usp |-> usp, pcc |-> VirtualCc,
        unique |-> unique, fen |-> pcb[ptPcbb].fen, ptbr |-> pcb[ptPcbb].ptbr]]

\* A bug: the kernel stack is not switched.
CallPal_SwpCtxSameStack(p) ==
    /\ KernelReady /\ ~UserMode
    /\ pc + 1 \in Pcs
    /\ pcb' = Saved
    /\ ptPcbb' = p
    /\ pccOfs' = CcOffset(Saved[p].pcc)
    /\ usp' = Saved[p].usp
    /\ unique' = Saved[p].unique
    /\ fen' = Saved[p].fen
    /\ ptbr' = Saved[p].ptbr
    /\ tlb' = {}
    /\ pc' = pc + 1
    /\ UNCHANGED <<cpu, ps, gp, args, t0, sp, ptKsp, ptKgp, ent, mem, cc,
                   mchkVars>>

\* A bug: the TLB is not flushed.
CallPal_SwpCtxNoTbia(p) ==
    /\ KernelReady /\ ~UserMode
    /\ pc + 1 \in Pcs
    /\ pcb' = Saved
    /\ ptPcbb' = p
    /\ pccOfs' = CcOffset(Saved[p].pcc)
    /\ sp' = Saved[p].ksp
    /\ usp' = Saved[p].usp
    /\ unique' = Saved[p].unique
    /\ fen' = Saved[p].fen
    /\ ptbr' = Saved[p].ptbr
    /\ pc' = pc + 1
    /\ UNCHANGED <<cpu, ps, gp, args, t0, ptKsp, ptKgp, ent, mem, cc, tlb,
                   mchkVars>>

\* Each field of the old PCB is stored before that field of the new one is
\* loaded, so a switch to the running process loads what it has just stored.
CallPal_SwpCtx(p) ==
    /\ KernelReady /\ ~UserMode
    /\ pc + 1 \in Pcs
    /\ pcb' = Saved
    /\ ptPcbb' = p
    /\ pccOfs' = CcOffset(Saved[p].pcc)
    /\ sp' = Saved[p].ksp
    /\ usp' = Saved[p].usp
    /\ unique' = Saved[p].unique
    /\ fen' = Saved[p].fen
    /\ ptbr' = Saved[p].ptbr
    /\ tlb' = {}
    /\ pc' = pc + 1
    /\ UNCHANGED <<cpu, ps, gp, args, t0, ptKsp, ptKgp, ent, mem, cc, mchkVars>>

\* A variant other than OSF's: the caller goes on, with 1 in v0.
CallPal_SwpPalUnknown ==
    /\ KernelReady /\ ~UserMode
    /\ pc + 1 \in Pcs
    /\ pc' = pc + 1
    /\ UNCHANGED <<cpu, ps, gp, args, t0, sp, usp, ptKsp, ptKgp, ent, mem,
                   mchkVars, procVars>>

\* The console's jump into a kernel, or a kernel's own: nothing is saved, the
\* PS stays, and ptKsp is not set before the first return to user mode.
CallPal_SwpPal(newPc, p) ==
    /\ cpu \in {"console", "running"} /\ ~UserMode
    /\ cpu' = "running"
    /\ ptPcbb' = p
    /\ sp' = pcb[p].ksp
    /\ usp' = pcb[p].usp
    /\ ptbr' = pcb[p].ptbr
    /\ pccOfs' = CcOffset(pcb[p].pcc)
    /\ unique' = pcb[p].unique
    /\ fen' = pcb[p].fen
    /\ tlb' = {}
    /\ pc' = newPc
    /\ UNCHANGED <<ps, gp, args, t0, ptKsp, ptKgp, ent, mem, pcb, cc, mchkVars>>

\* A bug: only the register is written.
CallPal_WrFenRegister(f) ==
    /\ KernelReady /\ ~UserMode
    /\ pc + 1 \in Pcs
    /\ fen' = f
    /\ pc' = pc + 1
    /\ UNCHANGED <<cpu, ps, gp, args, t0, sp, usp, ptKsp, ptKgp, ent, mem,
                   mchkVars, ptPcbb, pcb, cc, pccOfs, unique, ptbr, tlb>>

\* FEN is written through to the PCB, because swpctx does not save it.
CallPal_WrFen(f) ==
    /\ KernelReady /\ ~UserMode
    /\ pc + 1 \in Pcs
    /\ fen' = f
    /\ pcb' = [pcb EXCEPT ![ptPcbb] =
                 [ksp |-> pcb[ptPcbb].ksp, usp |-> pcb[ptPcbb].usp,
                  pcc |-> pcb[ptPcbb].pcc, unique |-> pcb[ptPcbb].unique,
                  fen |-> f, ptbr |-> pcb[ptPcbb].ptbr]]
    /\ pc' = pc + 1
    /\ UNCHANGED <<cpu, ps, gp, args, t0, sp, usp, ptKsp, ptKgp, ent, mem,
                   mchkVars, ptPcbb, cc, pccOfs, unique, ptbr, tlb>>

\* Unprivileged: user programs keep their thread pointer here.
CallPal_WrUnique(u) ==
    /\ KernelReady
    /\ pc + 1 \in Pcs
    /\ unique' = u
    /\ pc' = pc + 1
    /\ UNCHANGED <<cpu, ps, gp, args, t0, sp, usp, ptKsp, ptKgp, ent, mem,
                   mchkVars, ptPcbb, pcb, cc, pccOfs, fen, ptbr, tlb>>

\* tbia and tbiap; with an address (tbis) some other translations stay.
CallPal_Tbi(selector) ==
    /\ KernelReady /\ ~UserMode
    /\ pc + 1 \in Pcs
    /\ tlb' = IF selector < 0 THEN {} ELSE tlb
    /\ pc' = pc + 1
    /\ UNCHANGED <<cpu, ps, gp, args, t0, sp, usp, ptKsp, ptKgp, ent, mem,
                   mchkVars, ptPcbb, pcb, cc, pccOfs, unique, fen, ptbr>>
=============================================================================
