------------------------------- MODULE SmpStart -------------------------------
(***************************************************************************)
(* Secondary CPUs (src/init.c do_start_wait, src/util.c ndelay, Ndelay and *)
(* the interprocessor calls of src/pal.S): each waits in the console for   *)
(* its START message, takes the restart address and data the kernel has    *)
(* put in the HWRPB, and swaps to the kernel, where it takes the           *)
(* interprocessor interrupts other CPUs send.                              *)
(*                                                                         *)
(* CPU 0 and the kernel it runs are external.  The kernel writes one       *)
(* request at a time: restart, restart data and message, then the CPU's    *)
(* RXRDY bit, and it writes the next once the bit is clear.  restart and   *)
(* restartData name the CPU a value was written for.  Memory is            *)
(* sequentially consistent: one read or write of the HWRPB is one step.    *)
(***************************************************************************)
EXTENDS Cchip

CONSTANTS Messages, \* what the kernel writes to an IPC buffer
          Delay     \* the delay of do_start_wait's loop, in steps of the clock

ASSUME SmpAssumption == "START" \in Messages /\ Delay \in Nat \ {0}

NoCpu == -1
Secondaries == Cpus \ {0}

VARIABLES
    rxrdy,          \* CPUs whose RXRDY bit is set
    restart, restartData,   \* CPU_restart and CPU_restart_data
    ipcBuffer,      \* each CPU's ipc_buffer
    flags,          \* CPUs with "bootstrap in progress" set
    where,          \* where each CPU is: in do_start_wait, or in the kernel
    left,           \* what ndelay has left to wait
    msg, pc, pv,    \* its locals: len and msg, CPU_restart, CPU_restart_data
    kernel,         \* the request the kernel is making: "idle", "post", "sent"
    target,         \* and the CPU it is for
    asked,          \* CPUs whose START the kernel knows to be received
    mail,           \* CPUs the kernel has work for
    sending         \* whom each CPU is about to send an interrupt to

hwrpbVars == <<rxrdy, restart, restartData, ipcBuffer, flags>>
waitVars == <<where, left, msg, pc, pv>>
kernelVars == <<kernel, target, asked>>
ipiVars == <<mail, sending>>
vars == <<cchipVars, hwrpbVars, waitVars, kernelVars, ipiVars>>

Running(c) == where[c] \in {"kernel", "entInt"}

Init ==
    /\ ipintr = {} /\ itintr = {}
    /\ rxrdy = {} /\ flags = {}
    /\ restart = NoCpu /\ restartData = NoCpu
    /\ ipcBuffer = [c \in Cpus |-> "none"]
    /\ where = [c \in Cpus |-> IF c = 0 THEN "kernel" ELSE "Ndelay"]
    /\ left = [c \in Cpus |-> Delay]
    /\ msg = [c \in Cpus |-> "none"]
    /\ pc = [c \in Cpus |-> NoCpu] /\ pv = [c \in Cpus |-> NoCpu]
    /\ kernel = "idle" /\ target = NoCpu /\ asked = {}
    /\ mail = {} /\ sending = [c \in Cpus |-> NoCpu]

-----------------------------------------------------------------------------
(* do_start_wait, at IPL 7 all the time.                                   *)
At(c, from) == c \in Secondaries /\ where[c] = from
Goto(c, to) == where' = [where EXCEPT ![c] = to]

\* The next round of the loop, from its ndelay.
Wait(c) == Goto(c, "Ndelay") /\ left' = [left EXCEPT ![c] = Delay]

\* ndelay calls Ndelay with what is left; it sets the alarm and waits.
Ndelay(c) ==
    /\ At(c, "Ndelay") /\ Goto(c, "qemu_wait")
    /\ UNCHANGED <<cchipVars, hwrpbVars, left, msg, pc, pv, kernelVars, ipiVars>>

\* External: the alarm's time comes.
AlarmExpires(c) ==
    /\ At(c, "qemu_wait")
    /\ itintr' = itintr \cup {c}
    /\ UNCHANGED <<ipintr, hwrpbVars, waitVars, kernelVars, ipiVars>>

\* A bug: a wait that another interrupt ends early starts again from the top.
WokenRestarts(c) ==
    /\ At(c, "qemu_wait") /\ c \in ipintr \cup itintr
    /\ SYS_ACK_CLK(c)
    /\ left' = [left EXCEPT ![c] = IF c \in itintr THEN 0 ELSE Delay]
    /\ Goto(c, IF c \in itintr THEN "rxrdy" ELSE "Ndelay")
    /\ UNCHANGED <<hwrpbVars, msg, pc, pv, kernelVars, ipiVars>>

\* A bug: what is left is unsigned.
WokenUnsigned(c) ==
    /\ At(c, "qemu_wait") /\ c \in ipintr \cup itintr
    /\ SYS_ACK_CLK(c)
    /\ \E slept \in 1..2 :
         /\ left' = [left EXCEPT ![c] = left[c] - slept]
         /\ Goto(c, IF left[c] # slept THEN "Ndelay" ELSE "rxrdy")
    /\ UNCHANGED <<hwrpbVars, msg, pc, pv, kernelVars, ipiVars>>

\* Any interrupt ends the wait, and ndelay goes on with the time that is left;
\* it may have slept too long.  (One or two steps of the clock: a bound.)  At
\* IPL 7 an interprocessor interrupt stays pending, and ends every wait.
Woken(c) ==
    /\ At(c, "qemu_wait") /\ c \in ipintr \cup itintr
    /\ SYS_ACK_CLK(c)
    /\ \E slept \in 1..2 :
         /\ left' = [left EXCEPT ![c] = left[c] - slept]
         /\ Goto(c, IF left[c] > slept THEN "Ndelay" ELSE "rxrdy")
    /\ UNCHANGED <<hwrpbVars, msg, pc, pv, kernelVars, ipiVars>>

TestRxrdy(c) ==
    /\ At(c, "rxrdy")
    /\ IF c \in rxrdy THEN Goto(c, "message") /\ UNCHANGED left
                       ELSE Wait(c)
    /\ UNCHANGED <<cchipVars, hwrpbVars, msg, pc, pv, kernelVars, ipiVars>>

ReadMessage(c) ==
    /\ At(c, "message") /\ Goto(c, "restart")
    /\ msg' = [msg EXCEPT ![c] = ipcBuffer[c]]
    /\ UNCHANGED <<cchipVars, hwrpbVars, left, pc, pv, kernelVars, ipiVars>>

ReadRestart(c) ==
    /\ At(c, "restart") /\ Goto(c, "restart_data")
    /\ pc' = [pc EXCEPT ![c] = restart]
    /\ UNCHANGED <<cchipVars, hwrpbVars, left, msg, pv, kernelVars, ipiVars>>

\* A bug: RXRDY is cleared before CPU_restart_data is read.
ReadRestartDataLate(c) ==
    \/ /\ At(c, "restart_data") /\ Goto(c, "clear")
       /\ rxrdy' = {}
       /\ UNCHANGED <<cchipVars, restart, restartData, ipcBuffer, flags, left,
                      msg, pc, pv, kernelVars, ipiVars>>
    \/ /\ At(c, "clear") /\ Goto(c, "START?")
       /\ pv' = [pv EXCEPT ![c] = restartData]
       /\ UNCHANGED <<cchipVars, hwrpbVars, left, msg, pc, kernelVars, ipiVars>>

ReadRestartData(c) ==
    /\ At(c, "restart_data") /\ Goto(c, "clear")
    /\ pv' = [pv EXCEPT ![c] = restartData]
    /\ UNCHANGED <<cchipVars, hwrpbVars, left, msg, pc, kernelVars, ipiVars>>

\* A bug: RXRDY is not cleared unless the message is START.
ClearRxrdyIfStart(c) ==
    /\ At(c, "clear") /\ Goto(c, "START?")
    /\ rxrdy' = IF msg[c] = "START" THEN {} ELSE rxrdy
    /\ UNCHANGED <<cchipVars, restart, restartData, ipcBuffer, flags, left, msg,
                   pc, pv, kernelVars, ipiVars>>

\* All of RXRDY is cleared, the bits of other CPUs too.
ClearRxrdy(c) ==
    /\ At(c, "clear") /\ Goto(c, "START?")
    /\ rxrdy' = {}
    /\ UNCHANGED <<cchipVars, restart, restartData, ipcBuffer, flags, left, msg,
                   pc, pv, kernelVars, ipiVars>>

\* Another message is dropped.
TestMessage(c) ==
    /\ At(c, "START?")
    /\ IF msg[c] = "START" THEN Goto(c, "swppal") /\ flags' = flags \cup {c} /\ UNCHANGED left
                           ELSE Wait(c) /\ UNCHANGED flags
    /\ UNCHANGED <<cchipVars, rxrdy, restart, restartData, ipcBuffer, msg, pc, pv,
                   kernelVars, ipiVars>>

\* The CPU is in the kernel, still at IPL 7: SwpPal (see PalContext).
SwpPal(c) ==
    /\ At(c, "swppal") /\ Goto(c, "kernel")
    /\ UNCHANGED <<cchipVars, hwrpbVars, left, msg, pc, pv, kernelVars, ipiVars>>

StartWait(c) ==
    \/ Ndelay(c) \/ Woken(c) \/ TestRxrdy(c) \/ ReadMessage(c)
    \/ ReadRestart(c) \/ ReadRestartData(c) \/ ClearRxrdy(c) \/ TestMessage(c)
    \/ SwpPal(c)

-----------------------------------------------------------------------------
(* External: the kernel on CPU 0 starts the secondaries.                   *)
WriteRequest(c, m) ==
    /\ kernel = "idle" /\ c \in Secondaries \ asked
    /\ restart' = c /\ restartData' = c
    /\ ipcBuffer' = [ipcBuffer EXCEPT ![c] = m]
    /\ kernel' = "post" /\ target' = c
    /\ UNCHANGED <<cchipVars, rxrdy, flags, waitVars, asked, ipiVars>>

SetRxrdy ==
    /\ kernel = "post"
    /\ rxrdy' = rxrdy \cup {target}
    /\ kernel' = "sent"
    /\ UNCHANGED <<cchipVars, restart, restartData, ipcBuffer, flags, waitVars,
                   target, asked, ipiVars>>

SeeRxrdyClear ==
    /\ kernel = "sent" /\ target \notin rxrdy
    /\ kernel' = "idle"
    /\ asked' = IF ipcBuffer[target] = "START" THEN asked \cup {target} ELSE asked
    /\ UNCHANGED <<cchipVars, hwrpbVars, waitVars, target, ipiVars>>

-----------------------------------------------------------------------------
(* Interprocessor interrupts between CPUs that run the kernel.             *)

\* External: the kernel leaves work for CPU t, then interrupts it.
LeaveWork(s, t) ==
    /\ where[s] = "kernel" /\ sending[s] = NoCpu /\ s # t
    /\ mail' = mail \cup {t}
    /\ sending' = [sending EXCEPT ![s] = t]
    /\ UNCHANGED <<cchipVars, hwrpbVars, waitVars, kernelVars>>

CallPal_WrIpir(s) ==
    /\ where[s] = "kernel" /\ sending[s] # NoCpu
    /\ SYS_WRIPIR(sending[s])
    /\ sending' = [sending EXCEPT ![s] = NoCpu]
    /\ UNCHANGED <<hwrpbVars, waitVars, kernelVars, mail>>

\* PALcode clears the interrupt before it enters the kernel's entInt, at IPL 6.
Pal_Smp_Interrupt(c) ==
    /\ where[c] = "kernel" /\ c \in ipintr
    /\ SYS_ACK_SMP(c)
    /\ Goto(c, "entInt")
    /\ UNCHANGED <<hwrpbVars, left, msg, pc, pv, kernelVars, ipiVars>>

\* External: the kernel's handler takes the work there is, and returns.
HandleWork(c) ==
    /\ where[c] = "entInt" /\ Goto(c, "kernel")
    /\ mail' = mail \ {c}
    /\ UNCHANGED <<cchipVars, hwrpbVars, left, msg, pc, pv, kernelVars, sending>>

-----------------------------------------------------------------------------
Next ==
    \/ \E c \in Cpus : \/ StartWait(c) \/ AlarmExpires(c)
                       \/ CallPal_WrIpir(c) \/ Pal_Smp_Interrupt(c) \/ HandleWork(c)
    \/ \E c \in Secondaries, m \in Messages : WriteRequest(c, m)
    \/ SetRxrdy \/ SeeRxrdyClear
    \/ \E s, t \in Cpus : LeaveWork(s, t)

Spec == Init /\ [][Next]_vars

\* Every CPU goes on, time passes and the kernel finishes what it began; a
\* stream of interrupts does not keep it from its next instruction for ever.
Fairness ==
    /\ \A c \in Cpus :
         WF_vars(StartWait(c)) /\ WF_vars(AlarmExpires(c))
         /\ SF_vars(CallPal_WrIpir(c)) /\ WF_vars(Pal_Smp_Interrupt(c))
         /\ WF_vars(HandleWork(c))
    /\ WF_vars(SetRxrdy) /\ WF_vars(SeeRxrdyClear)

FairSpec == Spec /\ Fairness

-----------------------------------------------------------------------------
Places == {"Ndelay", "qemu_wait", "rxrdy", "message", "restart", "restart_data",
           "clear", "START?", "swppal", "kernel", "entInt"}

\* Every variable holds a value of its kind.
TypeOK ==
    /\ ipintr \subseteq Cpus /\ itintr \subseteq Cpus
    /\ rxrdy \subseteq Cpus /\ flags \subseteq Cpus
    /\ restart \in Cpus \cup {NoCpu} /\ restartData \in Cpus \cup {NoCpu}
    /\ ipcBuffer \in [Cpus -> Messages \cup {"none"}]
    /\ where \in [Cpus -> Places]
    /\ left \in [Cpus -> -1..Delay]
    /\ msg \in [Cpus -> Messages \cup {"none"}]
    /\ pc \in [Cpus -> Cpus \cup {NoCpu}] /\ pv \in [Cpus -> Cpus \cup {NoCpu}]
    /\ kernel \in {"idle", "post", "sent"} /\ target \in Cpus \cup {NoCpu}
    /\ asked \subseteq Cpus
    /\ mail \subseteq Cpus /\ sending \in [Cpus -> Cpus \cup {NoCpu}]

\* A secondary CPU starts with the restart address and data written for it,
\* and only on START, although the HWRPB holds one of each for all CPUs and
\* the kernel may write the next CPU's as soon as RXRDY is clear.
\* (do_start_wait reads both before it clears RXRDY.)
StartsAsAsked ==
    \A c \in Secondaries :
      where[c] = "swppal" \/ Running(c) => msg[c] = "START" /\ pc[c] = c /\ pv[c] = c

\* No interprocessor interrupt is lost: while a CPU has work, an interrupt is
\* pending for it, or about to be sent, or its handler has not read its work.
\* (SYS_ACK_SMP clears that CPU's interrupt alone, and before the handler.)
NoLostInterrupt ==
    \A c \in mail : c \in ipintr \/ where[c] = "entInt" \/ \E s \in Cpus : sending[s] = c

\* Each secondary the kernel tells to start runs the kernel, whatever messages
\* came before and whether or not an interrupt is pending for it.
EveryStartAnswered ==
    \A c \in Secondaries :
      kernel = "sent" /\ target = c /\ ipcBuffer[c] = "START" ~> Running(c)

\* The kernel's wait for RXRDY to clear ends.
EveryMessageTaken == kernel = "sent" ~> kernel = "idle"

\* Work left for a running CPU is taken; work left before it starts, after.
EveryInterruptTaken ==
    \A c \in Cpus : c \in mail /\ Running(c) ~> c \notin mail
=============================================================================
