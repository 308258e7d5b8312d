----------------------------- MODULE ConsoleProofs -----------------------------
(***************************************************************************)
(* Console for any buffer size, any characters and any register values:    *)
(* the console never sleeps with nothing to wake it, and the terminal      *)
(* shows what the line buffer holds, which getline never leaves.           *)
(* AlwaysATick is inductive with what holds while do_console sets itself   *)
(* up (SetUp); the line with the place in the code where it may change     *)
(* (LineInv).                                                              *)
(***************************************************************************)
EXTENDS Console, TLAPS

\* Interrupts are off until entInt is registered and the alarm is set.
SetUp ==
    /\ place \in {"wrent", "alarm"} => handler = "none" /\ ps = KernelPs(7)
    /\ place # "wrent" => ent

TickInv == SetUp /\ AlwaysATick

LEMMA ConsoleStepKeepsTick == TickInv /\ ConsoleStep => TickInv'
  <1> SUFFICES ASSUME TickInv, ConsoleStep
               PROVE  TickInv'
    OBVIOUS
  <1> USE DEF TickInv, SetUp, AlwaysATick, At, irqVars
  <1>1. CASE Wrent
    BY <1>1 DEF Wrent
  <1>2. CASE SetAlarm
    BY <1>2 DEF SetAlarm
  <1>3. CASE SwpIpl
    BY <1>3 DEF SwpIpl
  <1>4. CASE RdPs \/ Charav \/ Poll \/ WtInt \/ Wake
    BY <1>4 DEF RdPs, Charav, Poll, WtInt, Wake
  <1>5. CASE Getline
    BY <1>5 DEF Getline
  <1> QED
    BY <1>1, <1>2, <1>3, <1>4, <1>5 DEF ConsoleStep

LEMMA InterruptStepKeepsTick == TickInv /\ InterruptStep => TickInv'
  <1> SUFFICES ASSUME TickInv, InterruptStep
               PROVE  TickInv'
    OBVIOUS
  <1> USE DEF TickInv, SetUp, AlwaysATick
  \* The tick that is acknowledged is followed by its handler: entInt is
  \* registered wherever an interrupt can be taken.
  <1>1. CASE Pal_Clk_Interrupt
    <2>1. place \notin {"wrent", "alarm"} /\ ent
      BY <1>1 DEF Pal_Clk_Interrupt, KernelPs
    <2> QED
      BY <1>1, <2>1 DEF Pal_Clk_Interrupt
  <1>2. CASE SaveAll
    BY <1>2 DEF SaveAll
  <1>3. CASE do_entInt
    BY <1>3 DEF do_entInt
  <1>4. CASE RestoreAll
    BY <1>4 DEF RestoreAll
  <1> QED
    BY <1>1, <1>2, <1>3, <1>4 DEF InterruptStep

\* The console never sleeps with nothing to wake it (do_console, do_entInt,
\* uart_getchar), whatever entInt's save area does to the registers.
THEOREM ConsoleNeverSleepsForEver == ConsoleSpec => []AlwaysATick
  <1>1. ConsoleInit => TickInv
    BY DEF ConsoleInit, TickInv, SetUp, AlwaysATick
  <1>2. TickInv /\ [ConsoleNext]_consoleVars => TickInv'
    <2>1. CASE Compute \/ TypeKey
      BY <2>1 DEF Compute, TypeKey, TickInv, SetUp, AlwaysATick, irqVars
    <2>2. CASE AlarmExpires
      BY <2>2 DEF AlarmExpires, TickInv, SetUp, AlwaysATick, irqVars
    <2>3. CASE UNCHANGED consoleVars
      BY <2>3 DEF consoleVars, TickInv, SetUp, AlwaysATick, irqVars
    <2> QED
      BY <2>1, <2>2, <2>3, ConsoleStepKeepsTick, InterruptStepKeepsTick DEF ConsoleNext
  <1>3. TickInv => AlwaysATick
    BY DEF TickInv
  <1> QED
    BY <1>1, <1>2, <1>3, PTL DEF ConsoleSpec

-----------------------------------------------------------------------------
(* The line. *)

\* getline is given a character only when the UART has one.
CharHeld == place = "getchar" => rbr # <<>>

LineInv == TypeOK /\ CharHeld /\ ShownIsBuffer

\* What getline does with a character keeps the line within the buffer, and
\* on the terminal what is in the buffer.
LEMMA GetlineKeepsLine ==
    ASSUME LineInv, Getline
    PROVE  /\ buf' \in [0 .. (BufSize - 1) -> Chars \cup {Nul}]
           /\ len' \in 0 .. (BufSize - 1) /\ ShownIsBuffer'
  <1> DEFINE c == rbr[1]
  <1>1. c \in Chars
    BY DEF Getline, At, TypeOK, LineInv, CharHeld
  <1>2. /\ BufSize \in Nat \ {0} /\ len \in 0 .. (BufSize - 1)
        /\ buf \in [0 .. (BufSize - 1) -> Chars \cup {Nul}]
    BY ConsoleAssumption DEF TypeOK, LineInv
  <1>3. shown = [i \in 1 .. len |-> buf[i - 1]] /\ shown \in Seq(Chars \cup {Nul})
        /\ Len(shown) = len
    BY <1>2 DEF ShownIsBuffer, LineInv
  <1> HIDE DEF c
  <1>4. CASE EndLine(c)
    BY <1>2, <1>4 DEF EndLine, ShownIsBuffer
  <1>5. CASE DeleteChar(c)
    <2>1. len' = len - 1 /\ len' \in 0 .. (BufSize - 1) /\ len > 0 /\ buf' = buf
      BY <1>2, <1>5 DEF DeleteChar
    <2>2. shown' = SubSeq(shown, 1, len - 1)
      BY <1>3, <1>5 DEF DeleteChar
    <2>3. shown' = [i \in 1 .. len' |-> buf'[i - 1]]
      <3>1. shown' = [i \in 1 .. len - 1 |-> shown[i]]
        BY <1>2, <1>3, <2>1, <2>2
      <3>2. \A i \in 1 .. len - 1 : shown[i] = buf[i - 1]
        BY <1>2, <1>3, <2>1
      <3> QED
        BY <2>1, <3>1, <3>2
    <2> QED
      BY <1>2, <2>1, <2>3 DEF ShownIsBuffer
  <1>6. CASE AddChar(c)
    <2>1. len' = len + 1 /\ len' \in 0 .. (BufSize - 1)
          /\ buf' = [buf EXCEPT ![len] = c] /\ shown' = Append(shown, c)
      BY <1>2, <1>6 DEF AddChar
    <2>2. shown' = [i \in 1 .. len + 1 |-> IF i = len + 1 THEN c ELSE shown[i]]
      BY <1>1, <1>2, <1>3, <2>1
    <2>3. \A i \in 1 .. len + 1 : buf'[i - 1] = IF i = len + 1 THEN c ELSE buf[i - 1]
      BY <1>2, <2>1
    <2>4. shown' = [i \in 1 .. len' |-> buf'[i - 1]]
      BY <1>2, <1>3, <2>1, <2>2, <2>3
    <2> QED
      BY <1>1, <1>2, <2>1, <2>4 DEF ShownIsBuffer
  <1>7. CASE Bell(c)
    BY <1>2, <1>3, <1>7 DEF Bell, lineVars, ShownIsBuffer
  <1> QED
    BY <1>4, <1>5, <1>6, <1>7 DEF Getline, c

\* The processor statuses of the kernel's mode.
LEMMA KernelPsTypes ==
    /\ KernelPs(0) \in [cm : {0, 1}, ipl : 0 .. 7]
    /\ KernelPs(5) \in [cm : {0, 1}, ipl : 0 .. 7]
    /\ KernelPs(7) \in [cm : {0, 1}, ipl : 0 .. 7]
  BY DEF KernelPs

\* Every step keeps the line, and the kinds of the variables.
LEMMA LineStep ==
    ASSUME LineInv, [ConsoleNext]_consoleVars
    PROVE  LineInv'
  <1>1. TypeOK /\ CharHeld /\ ShownIsBuffer
    BY DEF LineInv
  <1> USE DEF TypeOK, CharHeld, regVars, irqVars, lineVars
  <1>2. CASE Getline
    <2>1. /\ buf' \in [0 .. (BufSize - 1) -> Chars \cup {Nul}]
          /\ len' \in 0 .. (BufSize - 1) /\ ShownIsBuffer'
      BY <1>2, GetlineKeepsLine
    <2>2. TypeOK' /\ CharHeld'
      BY <1>1, <1>2, <2>1 DEF Getline, At, Places
    <2> QED
      BY <2>1, <2>2 DEF LineInv
  <1>3. CASE UNCHANGED lineVars
    <2>1. ShownIsBuffer'
      BY <1>1, <1>3 DEF ShownIsBuffer
    <2> SUFFICES TypeOK' /\ CharHeld'
      BY <2>1 DEF LineInv
    <2>2. CASE Wrent \/ SetAlarm \/ SwpIpl
      BY <1>1, <1>3, <2>2, KernelPsTypes DEF Wrent, SetAlarm, SwpIpl, At, Places
    <2>3. CASE RdPs \/ Charav \/ Poll \/ WtInt \/ Wake
      BY <1>1, <1>3, <2>3 DEF RdPs, Charav, Poll, WtInt, Wake, At, Places
    <2>4. CASE Pal_Clk_Interrupt
      BY <1>1, <1>3, <2>4, KernelPsTypes DEF Pal_Clk_Interrupt, Places
    <2>5. CASE SaveAll \/ do_entInt
      BY <1>1, <1>3, <2>5 DEF SaveAll, do_entInt
    <2>6. CASE RestoreAll
      <3>1. RtiPs(framePs) \in [cm : {0, 1}, ipl : 0 .. 7]
        BY <1>1 DEF RtiPs
      <3> QED
        BY <1>1, <1>3, <2>6, <3>1 DEF RestoreAll, Places
    <2>7. CASE Compute
      BY <1>1, <1>3, <2>7, ConsoleAssumption DEF Compute
    <2>8. CASE AlarmExpires \/ TypeKey
      BY <1>1, <1>3, <2>8 DEF AlarmExpires, TypeKey
    <2>9. CASE UNCHANGED consoleVars
      BY <1>1, <2>9 DEF consoleVars
    <2>10. CASE Getline
      BY <1>2, <2>10 DEF LineInv
    <2> QED
      BY <2>2, <2>3, <2>4, <2>5, <2>6, <2>7, <2>8, <2>9, <2>10
      DEF ConsoleNext, ConsoleStep, InterruptStep
  <1>4. Getline \/ UNCHANGED lineVars
    BY DEF ConsoleNext, ConsoleStep, InterruptStep, consoleVars, Wrent, SetAlarm, SwpIpl,
           RdPs, Charav, Poll, WtInt, Wake, Pal_Clk_Interrupt, SaveAll, do_entInt, RestoreAll,
           Compute, AlarmExpires, TypeKey
  <1> QED
    BY <1>2, <1>3, <1>4

\* The console starts with an empty line.
LEMMA LineInit ==
    ASSUME ConsoleInit
    PROVE  LineInv
  <1>1. BufSize \in Nat \ {0} /\ AtValues \subseteq [cm : {0, 1}, ipl : 0 .. 7]
    BY ConsoleAssumption
  <1>2. TypeOK /\ CharHeld
    <2>1. len \in 0 .. (BufSize - 1)
      BY <1>1 DEF ConsoleInit
    <2>2. buf \in [0 .. (BufSize - 1) -> Chars \cup {Nul}]
      BY DEF ConsoleInit
    <2>3. ps \in [cm : {0, 1}, ipl : 0 .. 7] /\ framePs = ps
          /\ r28 \in [cm : {0, 1}, ipl : 0 .. 7]
      BY <1>1, KernelPsTypes DEF ConsoleInit
    <2> QED
      BY <2>1, <2>2, <2>3 DEF ConsoleInit, TypeOK, CharHeld, Places
  <1>3. ShownIsBuffer
    BY DEF ConsoleInit, ShownIsBuffer
  <1> QED
    BY <1>2, <1>3 DEF LineInv

\* Whatever is typed, the line and its terminator stay within getline's buffer,
\* and every register, frame and flag holds a value of its kind.
THEOREM LineStaysInBuffer == ConsoleSpec => []TypeOK
  <1>1. LineInv => TypeOK
    BY DEF LineInv
  <1>2. ConsoleInit => LineInv
    BY LineInit
  <1>3. LineInv /\ [ConsoleNext]_consoleVars => LineInv'
    BY LineStep
  <1> QED
    BY <1>1, <1>2, <1>3, PTL DEF ConsoleSpec

\* The terminal always shows what getline will hand over, whatever is typed,
\* deleted or refused, and whenever interrupts come.
THEOREM TerminalShowsLine == ConsoleSpec => []ShownIsBuffer
  <1>1. LineInv => ShownIsBuffer
    BY DEF LineInv
  <1>2. ConsoleInit => LineInv
    BY LineInit
  <1>3. LineInv /\ [ConsoleNext]_consoleVars => LineInv'
    BY LineStep
  <1> QED
    BY <1>1, <1>2, <1>3, PTL DEF ConsoleSpec
=============================================================================
