---------------------------- MODULE SmpStartProofs ----------------------------
(***************************************************************************)
(* SmpStart for up to four CPUs, any messages and any delay: types, that a *)
(* secondary starts as it was asked to, and that no interprocessor         *)
(* interrupt is lost.  TypeOK needs the loop of ndelay to stop before the  *)
(* time left is negative (InTime).  StartsAsAsked is not inductive: that   *)
(* the HWRPB still holds what was written for a CPU, between its test of   *)
(* RXRDY and its write, follows only from the kernel's waiting for RXRDY   *)
(* (Taking).                                                               *)
(***************************************************************************)
EXTENDS SmpStart, TLAPS

\* Ndelay is called with time left to wait, and the kernel's request is for
\* some CPU.
InTime == \A c \in Secondaries : where[c] \in {"Ndelay", "qemu_wait"} => left[c] > 0
HasTarget == kernel # "idle" => target \in Secondaries
TypeInv == TypeOK /\ InTime /\ HasTarget

\* Only the CPU the kernel's message is for has its RXRDY bit set.
OneRequest ==
    /\ rxrdy \subseteq (IF kernel = "sent" THEN {target} ELSE {})
    /\ kernel # "idle" => restart = target /\ restartData = target

\* A CPU that has seen its RXRDY bit, and not cleared it, is the target.
Taking ==
    \A c \in Secondaries :
      where[c] \in {"message", "restart", "restart_data", "clear"}
        => kernel = "sent" /\ target = c /\ c \in rxrdy

\* What it has read by then is its own.
Taken ==
    \A c \in Secondaries :
      /\ where[c] \in {"restart_data", "clear", "START?", "swppal", "kernel", "entInt"}
           => pc[c] = c
      /\ where[c] \in {"clear", "START?", "swppal", "kernel", "entInt"} => pv[c] = c
      /\ where[c] \in {"swppal", "kernel", "entInt"} => msg[c] = "START"

StartInv == OneRequest /\ Taking /\ Taken

-----------------------------------------------------------------------------
(* Types.                                                                  *)
LEMMA MiscTypes ==
    ASSUME TypeOK, NEW bits, MiscWrite(bits)
    PROVE  ipintr' \subseteq Cpus /\ itintr' \subseteq Cpus
  BY DEF MiscWrite, TypeOK

LEMMA WaitTypes ==
    ASSUME TypeInv, NEW c \in Cpus, StartWait(c)
    PROVE  TypeInv'
  <1> USE DEF At, Goto, Wait, Places, cchipVars, hwrpbVars, waitVars, kernelVars,
              ipiVars, TypeInv, InTime, HasTarget
  <1>1. Delay \in Nat /\ Delay > 0 /\ Secondaries \subseteq Cpus
    BY SmpAssumption DEF Secondaries
  <1>2. CASE Ndelay(c)
    BY <1>1, <1>2 DEF Ndelay, TypeOK
  <1>3. CASE Woken(c)
    <2>1. ipintr' \subseteq Cpus /\ itintr' \subseteq Cpus
      BY <1>3, MiscTypes DEF Woken, SYS_ACK_CLK
    <2>2. PICK slept \in 1..2 :
            /\ left' = [left EXCEPT ![c] = left[c] - slept]
            /\ Goto(c, IF left[c] > slept THEN "Ndelay" ELSE "rxrdy")
      BY <1>3 DEF Woken
    <2>3. left[c] \in 1..Delay
      BY <1>1, <1>3 DEF Woken, TypeOK
    <2>4. left' \in [Cpus -> -1..Delay]
      BY <1>1, <2>2, <2>3 DEF TypeOK
    <2>5. where' \in [Cpus -> Places]
      BY <2>2 DEF TypeOK
    <2>6. InTime'
      BY <1>1, <2>2, <2>3 DEF TypeOK
    <2> QED
      BY <1>3, <2>1, <2>4, <2>5, <2>6 DEF Woken, TypeOK
  <1>4. CASE TestRxrdy(c)
    <2>1. /\ where' \in [Cpus -> Places] /\ left' \in [Cpus -> -1..Delay]
          /\ InTime'
      BY <1>1, <1>4 DEF TestRxrdy, TypeOK
    <2> QED
      BY <1>4, <2>1 DEF TestRxrdy, TypeOK
  <1>5. CASE ReadMessage(c)
    BY <1>1, <1>5 DEF ReadMessage, TypeOK
  <1>6. CASE ReadRestart(c)
    BY <1>1, <1>6 DEF ReadRestart, TypeOK
  <1>7. CASE ReadRestartData(c)
    BY <1>1, <1>7 DEF ReadRestartData, TypeOK
  <1>8. CASE ClearRxrdy(c)
    BY <1>1, <1>8 DEF ClearRxrdy, TypeOK
  <1>9. CASE TestMessage(c)
    <2>1. /\ where' \in [Cpus -> Places] /\ left' \in [Cpus -> -1..Delay]
          /\ InTime' /\ flags' \subseteq Cpus
      BY <1>1, <1>9 DEF TestMessage, TypeOK
    <2> QED
      BY <1>9, <2>1 DEF TestMessage, TypeOK
  <1>10. CASE SwpPal(c)
    BY <1>1, <1>10 DEF SwpPal, TypeOK
  <1> QED
    BY <1>2, <1>3, <1>4, <1>5, <1>6, <1>7, <1>8, <1>9, <1>10 DEF StartWait

LEMMA InterruptTypes ==
    ASSUME TypeInv, NEW c \in Cpus,
           AlarmExpires(c) \/ CallPal_WrIpir(c) \/ Pal_Smp_Interrupt(c) \/ HandleWork(c)
    PROVE  TypeInv'
  <1> USE DEF Goto, Places, cchipVars, hwrpbVars, waitVars, kernelVars, ipiVars,
              TypeInv, InTime, HasTarget
  <1>1. ipintr' \subseteq Cpus /\ itintr' \subseteq Cpus
    BY MiscTypes DEF AlarmExpires, CallPal_WrIpir, SYS_WRIPIR, Pal_Smp_Interrupt,
                     SYS_ACK_SMP, HandleWork, TypeOK
  <1>2. where' \in [Cpus -> Places] /\ InTime'
    BY DEF AlarmExpires, CallPal_WrIpir, Pal_Smp_Interrupt, HandleWork, TypeOK,
           Secondaries
  <1> QED
    BY <1>1, <1>2
       DEF AlarmExpires, CallPal_WrIpir, Pal_Smp_Interrupt, HandleWork, TypeOK

LEMMA KernelTypes ==
    ASSUME TypeInv,
           \/ \E c \in Secondaries, m \in Messages : WriteRequest(c, m)
           \/ SetRxrdy \/ SeeRxrdyClear
           \/ \E s, t \in Cpus : LeaveWork(s, t)
    PROVE  TypeInv'
  <1> USE DEF cchipVars, hwrpbVars, waitVars, kernelVars, ipiVars, TypeInv, InTime,
              HasTarget
  <1>1. ASSUME NEW c \in Secondaries, NEW m \in Messages, WriteRequest(c, m)
        PROVE  TypeInv'
    BY <1>1 DEF WriteRequest, Secondaries, TypeOK
  <1>2. CASE SetRxrdy
    <2>1. rxrdy' \subseteq Cpus
      BY <1>2 DEF SetRxrdy, Secondaries, TypeOK
    <2> QED
      BY <1>2, <2>1 DEF SetRxrdy, TypeOK
  <1>3. CASE SeeRxrdyClear
    <2>1. asked' \subseteq Cpus
      BY <1>3 DEF SeeRxrdyClear, Secondaries, TypeOK
    <2> QED
      BY <1>3, <2>1 DEF SeeRxrdyClear, TypeOK
  <1>4. ASSUME NEW s \in Cpus, NEW t \in Cpus, LeaveWork(s, t)
        PROVE  TypeInv'
    BY <1>4 DEF LeaveWork, TypeOK
  <1> QED
    BY <1>1, <1>2, <1>3, <1>4

LEMMA SmpTypeInit == Init => TypeInv
  BY CchipAssumption, SmpAssumption
     DEF Init, TypeInv, InTime, HasTarget, TypeOK, Places, NoCpu, Secondaries

LEMMA SmpTypeStep == TypeInv /\ [Next]_vars => TypeInv'
  <1>1. CASE UNCHANGED vars
    BY <1>1 DEF vars, cchipVars, hwrpbVars, waitVars, kernelVars, ipiVars, TypeInv,
                InTime, HasTarget, TypeOK
  <1> QED
    BY <1>1, WaitTypes, InterruptTypes, KernelTypes DEF Next

\* Every variable holds a value of its kind; ndelay never waits for a time that
\* has passed.
THEOREM SmpTypeCorrect == Spec => []TypeOK
  <1>1. TypeInv => TypeOK
    BY DEF TypeInv
  <1> QED
    BY <1>1, SmpTypeInit, SmpTypeStep, PTL DEF Spec

-----------------------------------------------------------------------------
(* Starting as asked.                                                      *)
LEMMA WaitKeepsStart ==
    ASSUME TypeInv, StartInv, NEW c \in Cpus, StartWait(c)
    PROVE  StartInv'
  <1> USE DEF At, Goto, Wait, cchipVars, hwrpbVars, waitVars, kernelVars, ipiVars,
              StartInv, OneRequest, Taking, Taken
  <1>1. /\ c \in Secondaries /\ Secondaries \subseteq Cpus
        /\ where \in [Cpus -> Places] /\ msg \in [Cpus -> Messages \cup {"none"}]
        /\ pc \in [Cpus -> Cpus \cup {NoCpu}] /\ pv \in [Cpus -> Cpus \cup {NoCpu}]
    BY DEF StartWait, Ndelay, Woken, TestRxrdy, ReadMessage, ReadRestart,
           ReadRestartData, ClearRxrdy, TestMessage, SwpPal, Secondaries, TypeInv,
           TypeOK
  <1>2. CASE Ndelay(c)
    BY <1>1, <1>2 DEF Ndelay
  <1>3. CASE Woken(c)
    <2>1. PICK slept \in 1..2 :
            Goto(c, IF left[c] > slept THEN "Ndelay" ELSE "rxrdy")
      BY <1>3 DEF Woken
    <2>2. Goto(c, "Ndelay") \/ Goto(c, "rxrdy")
      BY <2>1
    <2>3. UNCHANGED <<hwrpbVars, msg, pc, pv, kernelVars>>
      BY <1>3 DEF Woken
    <2> QED
      BY <1>1, <2>2, <2>3
  <1>4. CASE TestRxrdy(c)
    BY <1>1, <1>4 DEF TestRxrdy
  <1>5. CASE ReadMessage(c)
    BY <1>1, <1>5 DEF ReadMessage
  <1>6. CASE ReadRestart(c)
    BY <1>1, <1>6 DEF ReadRestart
  <1>7. CASE ReadRestartData(c)
    BY <1>1, <1>7 DEF ReadRestartData
  <1>8. CASE ClearRxrdy(c)
    <2>1. /\ where' = [where EXCEPT ![c] = "START?"] /\ rxrdy' = {}
          /\ UNCHANGED <<restart, restartData, msg, pc, pv, kernel, target>>
      BY <1>8 DEF ClearRxrdy
    \* No other CPU is reading a request: it would be the target too.
    <2>2. \A d \in Secondaries \ {c} :
            where[d] \notin {"message", "restart", "restart_data", "clear"}
      BY <1>8 DEF ClearRxrdy
    <2>3. Taking'
      BY <1>1, <2>1, <2>2
    <2>4. Taken'
      BY <1>1, <1>8, <2>1 DEF ClearRxrdy
    <2> QED
      BY <2>1, <2>3, <2>4
  <1>9. CASE TestMessage(c)
    BY <1>1, <1>9 DEF TestMessage
  <1>10. CASE SwpPal(c)
    BY <1>1, <1>10 DEF SwpPal
  <1> QED
    BY <1>2, <1>3, <1>4, <1>5, <1>6, <1>7, <1>8, <1>9, <1>10 DEF StartWait

LEMMA StartStep == TypeInv /\ StartInv /\ [Next]_vars => StartInv'
  <1> SUFFICES ASSUME TypeInv, StartInv, [Next]_vars
               PROVE  StartInv'
    OBVIOUS
  <1> USE DEF cchipVars, hwrpbVars, waitVars, kernelVars, ipiVars, StartInv,
              OneRequest, Taking, Taken
  <1>1. ASSUME NEW c \in Cpus, StartWait(c)
        PROVE  StartInv'
    BY <1>1, WaitKeepsStart
  <1>2. ASSUME NEW c \in Cpus, AlarmExpires(c) \/ CallPal_WrIpir(c)
        PROVE  StartInv'
    BY <1>2 DEF AlarmExpires, CallPal_WrIpir
  <1>3. ASSUME NEW c \in Cpus, Pal_Smp_Interrupt(c) \/ HandleWork(c)
        PROVE  StartInv'
    <2>1. where \in [Cpus -> Places] /\ Secondaries \subseteq Cpus
      BY DEF TypeInv, TypeOK, Secondaries
    <2> QED
      BY <1>3, <2>1 DEF Pal_Smp_Interrupt, HandleWork, Goto
  \* Nobody is taking a request while the kernel writes one.
  <1>4. ASSUME NEW c \in Secondaries, NEW m \in Messages, WriteRequest(c, m)
        PROVE  StartInv'
    BY <1>4 DEF WriteRequest
  <1>5. CASE SetRxrdy
    BY <1>5 DEF SetRxrdy
  <1>6. CASE SeeRxrdyClear
    BY <1>6 DEF SeeRxrdyClear
  <1>7. ASSUME NEW s \in Cpus, NEW t \in Cpus, LeaveWork(s, t)
        PROVE  StartInv'
    BY <1>7 DEF LeaveWork
  <1>8. CASE UNCHANGED vars
    BY <1>8 DEF vars
  <1> QED
    BY <1>1, <1>2, <1>3, <1>4, <1>5, <1>6, <1>7, <1>8 DEF Next

\* A secondary starts with the restart address and data written for it, and on
\* START only: for any number of secondaries, whatever other messages come
\* first (do_start_wait).
THEOREM SecondariesStartAsAsked == Spec => []StartsAsAsked
  <1>1. Init => StartInv
    BY DEF Init, StartInv, OneRequest, Taking, Taken, Secondaries
  <1>2. StartInv => StartsAsAsked
    BY DEF StartInv, Taken, StartsAsAsked, Running
  <1>3. TypeInv /\ StartInv /\ [Next]_vars => TypeInv' /\ StartInv'
    BY StartStep, SmpTypeStep
  <1> QED
    BY <1>1, <1>2, <1>3, SmpTypeInit, PTL DEF Spec

-----------------------------------------------------------------------------
(* Interprocessor interrupts.                                              *)

\* Acknowledging clears one interrupt of one CPU, and requesting sets one.
LEMMA MiscEffects ==
    ASSUME NEW c \in Cpus, ipintr \subseteq Cpus
    PROVE  /\ SYS_ACK_CLK(c) => ipintr' = ipintr
           /\ SYS_ACK_SMP(c) => ipintr' = ipintr \ {c}
           /\ SYS_WRIPIR(c) => ipintr' = ipintr \cup {c}
  <1>1. Cpus \subseteq 0..3 /\ c % 4 = c
    BY CchipAssumption
  <1>2. ASSUME SYS_ACK_CLK(c)
        PROVE  ipintr' = ipintr
    <2>1. ipintr' = {d \in Cpus : d + 12 = c + 4 \/ (d \in ipintr /\ d + 8 # c + 4)}
      BY <1>2 DEF SYS_ACK_CLK, MiscWrite
    <2>2. \A d \in Cpus : d + 12 # c + 4 /\ d + 8 # c + 4
      BY <1>1
    <2> QED
      BY <2>1, <2>2
  <1>3. ASSUME SYS_ACK_SMP(c)
        PROVE  ipintr' = ipintr \ {c}
    <2>1. ipintr' = {d \in Cpus : d + 12 = c + 8 \/ (d \in ipintr /\ d + 8 # c + 8)}
      BY <1>3 DEF SYS_ACK_SMP, MiscWrite
    <2>2. \A d \in Cpus : d + 12 # c + 8 /\ (d + 8 = c + 8 <=> d = c)
      BY <1>1
    <2> QED
      BY <2>1, <2>2
  <1>4. ASSUME SYS_WRIPIR(c)
        PROVE  ipintr' = ipintr \cup {c}
    <2>1. ipintr' = {d \in Cpus : d + 12 = c + 12 \/ (d \in ipintr /\ d + 8 # c + 12)}
      BY <1>1, <1>4 DEF SYS_WRIPIR, MiscWrite
    <2>2. \A d \in Cpus : d + 8 # c + 12 /\ (d + 12 = c + 12 <=> d = c)
      BY <1>1
    <2> QED
      BY <2>1, <2>2
  <1> QED
    BY <1>2, <1>3, <1>4

LEMMA InterruptStep == TypeInv /\ NoLostInterrupt /\ [Next]_vars => NoLostInterrupt'
  <1> SUFFICES ASSUME TypeInv, NoLostInterrupt, [Next]_vars
               PROVE  NoLostInterrupt'
    OBVIOUS
  <1> USE DEF NoLostInterrupt, cchipVars, hwrpbVars, waitVars, kernelVars, ipiVars
  <1>1. /\ ipintr \subseteq Cpus /\ mail \subseteq Cpus
        /\ where \in [Cpus -> Places] /\ sending \in [Cpus -> Cpus \cup {NoCpu}]
    BY DEF TypeInv, TypeOK
  <1>2. ASSUME NEW c \in Cpus, StartWait(c)
        PROVE  NoLostInterrupt'
    <2>1. /\ where[c] # "entInt" /\ \E to : where' = [where EXCEPT ![c] = to]
          /\ UNCHANGED ipiVars
      BY <1>2 DEF StartWait, Ndelay, Woken, TestRxrdy, ReadMessage, ReadRestart,
                  ReadRestartData, ClearRxrdy, TestMessage, SwpPal, At, Goto, Wait
    <2>2. ipintr' = ipintr
      BY <1>1, <1>2, MiscEffects
         DEF StartWait, Ndelay, Woken, TestRxrdy, ReadMessage, ReadRestart,
             ReadRestartData, ClearRxrdy, TestMessage, SwpPal
    <2> QED
      BY <1>1, <2>1, <2>2
  <1>3. ASSUME NEW c \in Cpus, AlarmExpires(c)
        PROVE  NoLostInterrupt'
    BY <1>3 DEF AlarmExpires
  <1>4. ASSUME NEW c \in Cpus, CallPal_WrIpir(c)
        PROVE  NoLostInterrupt'
    <2>1. sending[c] \in Cpus
      BY <1>1, <1>4 DEF CallPal_WrIpir
    <2>2. ipintr' = ipintr \cup {sending[c]}
      BY <1>1, <1>4, <2>1, MiscEffects DEF CallPal_WrIpir
    <2> QED
      BY <1>1, <1>4, <2>2 DEF CallPal_WrIpir
  <1>5. ASSUME NEW c \in Cpus, Pal_Smp_Interrupt(c)
        PROVE  NoLostInterrupt'
    <2>1. ipintr' = ipintr \ {c}
      BY <1>1, <1>5, MiscEffects DEF Pal_Smp_Interrupt
    <2> QED
      BY <1>1, <1>5, <2>1 DEF Pal_Smp_Interrupt, Goto
  <1>6. ASSUME NEW c \in Cpus, HandleWork(c)
        PROVE  NoLostInterrupt'
    BY <1>1, <1>6 DEF HandleWork, Goto
  <1>7. CASE \/ \E c \in Secondaries, m \in Messages : WriteRequest(c, m)
             \/ SetRxrdy \/ SeeRxrdyClear
    BY <1>7 DEF WriteRequest, SetRxrdy, SeeRxrdyClear
  <1>8. ASSUME NEW s \in Cpus, NEW t \in Cpus, LeaveWork(s, t)
        PROVE  NoLostInterrupt'
    BY <1>1, <1>8, CchipAssumption DEF LeaveWork, NoCpu
  <1>9. CASE UNCHANGED vars
    BY <1>9 DEF vars
  <1> QED
    BY <1>2, <1>3, <1>4, <1>5, <1>6, <1>7, <1>8, <1>9 DEF Next

\* No interprocessor interrupt is lost, for any set of up to four CPUs, however
\* requests, acknowledgements and handlers interleave (SYS_WRIPIR, SYS_ACK_SMP).
THEOREM InterruptsNotLost == Spec => []NoLostInterrupt
  <1>1. Init => NoLostInterrupt
    BY DEF Init, NoLostInterrupt
  <1> QED
    BY <1>1, InterruptStep, SmpTypeInit, SmpTypeStep, PTL DEF Spec
=============================================================================
