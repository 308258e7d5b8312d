-------------------------------- MODULE Console --------------------------------
(***************************************************************************)
(* The firmware's own console (src/console.c, src/console-low.S), which    *)
(* runs when no kernel was loaded: it edits a line typed at the serial     *)
(* port (src/uart.c, through src/crb.c) and sleeps between characters.     *)
(* Nothing but the clock interrupt wakes it, and the clock ticks once for  *)
(* each alarm that is set, so the handler of one tick sets the next.       *)
(*                                                                         *)
(* Registers: $8, $19 and $28 stand for those entInt saves; any value that *)
(* is live in the interrupted code may be in them.  Of a value in $28 only *)
(* the bits a processor status has are kept.                               *)
(***************************************************************************)
EXTENDS Integers, Sequences

CONSTANTS
    BufSize,    \* sizeof(line)
    Chars,      \* characters that are typed
    Values,     \* values of $8 and $19
    AtValues    \* values of $28, as processor statuses

ASSUME ConsoleAssumption ==
    /\ BufSize \in Nat \ {0}
    /\ AtValues \subseteq [cm : {0, 1}, ipl : 0..7]

VARIABLES
    place,      \* where do_console is
    ps, ent,    \* processor status; whether entInt is registered
    r8, r19, r28,
    rbr,        \* the characters the UART has received: none or one
    alarm, clk, \* the alarm is set; a clock interrupt is pending
    handler,    \* where entInt is: "none", "save", "do_entInt", "restore"
    slot9, framePs,     \* stack words 9 and 18 from entInt's stack pointer
    buf, len, shown,    \* getline's buffer, and the line on the terminal
    interrupted \* auxiliary: the registers when entInt was entered

lineVars == <<buf, len, shown>>
regVars == <<r8, r19, r28>>
irqVars == <<handler, slot9, framePs, interrupted>>
consoleVars == <<place, ps, ent, regVars, rbr, alarm, clk, irqVars, lineVars>>

KernelPs(ipl) == [cm |-> 0, ipl |-> ipl]
RtiPs(s) == IF s.cm = 1 THEN [cm |-> 1, ipl |-> 0] ELSE s

\* Characters that getline gives a meaning.
Return == "return"
Delete == "delete"
Nul == "nul"

ConsoleInit ==
    /\ place = "wrent"
    /\ ps = KernelPs(7) /\ ent = FALSE
    /\ r8 \in Values /\ r19 \in Values /\ r28 \in AtValues
    /\ rbr = <<>>
    /\ alarm = FALSE /\ clk = FALSE
    /\ handler = "none" /\ slot9 \in Values /\ framePs = ps
    /\ interrupted = <<r8, r19, r28, ps>>
    /\ buf = [i \in 0 .. (BufSize - 1) |-> Nul] /\ len = 0 /\ shown = <<>>

-----------------------------------------------------------------------------
(* do_console.                                                             *)
At(from) == handler = "none" /\ place = from

Wrent ==
    /\ At("wrent") /\ place' = "alarm"
    /\ ent' = TRUE
    /\ UNCHANGED <<ps, regVars, rbr, alarm, clk, irqVars, lineVars>>

SetAlarm ==
    /\ At("alarm") /\ place' = "swpipl"
    /\ alarm' = TRUE
    /\ UNCHANGED <<ps, ent, regVars, rbr, clk, irqVars, lineVars>>

SwpIpl ==
    /\ At("swpipl") /\ place' = "rdps"
    /\ ps' = KernelPs(0)
    /\ UNCHANGED <<ent, regVars, rbr, alarm, clk, irqVars, lineVars>>

\* uart_getchar: at IPL 0 it waits for interrupts, else it polls.
RdPs ==
    /\ At("rdps")
    /\ place' = IF ps.ipl = 0 THEN "charav" ELSE "poll"
    /\ UNCHANGED <<ps, ent, regVars, rbr, alarm, clk, irqVars, lineVars>>

Charav ==
    /\ At("charav")
    /\ place' = IF rbr # <<>> THEN "getchar" ELSE "wtint"
    /\ UNCHANGED <<ps, ent, regVars, rbr, alarm, clk, irqVars, lineVars>>

Poll ==
    /\ At("poll") /\ rbr # <<>>
    /\ place' = "getchar"
    /\ UNCHANGED <<ps, ent, regVars, rbr, alarm, clk, irqVars, lineVars>>

\* A character that comes now does not wake the console.
WtInt ==
    /\ At("wtint") /\ place' = "qemu_wait"
    /\ UNCHANGED <<ps, ent, regVars, rbr, alarm, clk, irqVars, lineVars>>

\* External: a pending interrupt ends the wait, at any IPL.  PALmode is not
\* interrupted: the interrupt is taken at the next instruction, if it can be.
Wake ==
    /\ At("qemu_wait") /\ clk
    /\ place' = "charav"
    /\ UNCHANGED <<ps, ent, regVars, rbr, alarm, clk, irqVars, lineVars>>

\* getline.  Without room, or a character to delete, the terminal's bell rings.
EndLine(c) ==
    /\ c = Return
    /\ buf' = [buf EXCEPT ![len] = Nul]
    /\ len' = 0 /\ shown' = <<>>

\* A bug: the character is not erased from the terminal.
DeleteCharQuietly(c) ==
    /\ c = Delete /\ len > 0
    /\ len' = len - 1
    /\ UNCHANGED <<buf, shown>>

DeleteChar(c) ==
    /\ c = Delete /\ len > 0
    /\ len' = len - 1
    /\ shown' = SubSeq(shown, 1, Len(shown) - 1)
    /\ UNCHANGED buf

\* A bug: no room is left for the terminator.
AddCharFull(c) ==
    /\ c \notin {Return, Delete} /\ len < BufSize
    /\ buf' = [buf EXCEPT ![len] = c]
    /\ len' = len + 1 /\ shown' = Append(shown, c)

AddChar(c) ==
    /\ c \notin {Return, Delete} /\ len + 1 < BufSize
    /\ buf' = [buf EXCEPT ![len] = c]
    /\ len' = len + 1 /\ shown' = Append(shown, c)

Bell(c) ==
    /\ \/ c = Delete /\ len = 0
       \/ c \notin {Return, Delete} /\ len + 1 >= BufSize
    /\ UNCHANGED lineVars

\* After a return the line is used, and the next one begins.
Getline ==
    /\ At("getchar") /\ place' = "rdps"
    /\ rbr' = <<>>
    /\ EndLine(rbr[1]) \/ DeleteChar(rbr[1]) \/ AddChar(rbr[1]) \/ Bell(rbr[1])
    /\ UNCHANGED <<ps, ent, regVars, alarm, clk, irqVars>>

\* Whatever the code computes, in the registers.
Compute ==
    /\ handler = "none" /\ place # "lost"
    /\ r8' \in Values /\ r19' \in Values /\ r28' \in AtValues
    /\ UNCHANGED <<place, ps, ent, rbr, alarm, clk, irqVars, lineVars>>

-----------------------------------------------------------------------------
(* The clock interrupt: Pal_Clk_Interrupt and entInt.                      *)
Pal_Clk_Interrupt ==
    /\ clk /\ ps.ipl < 5 /\ place \notin {"qemu_wait", "lost"}
    /\ clk' = FALSE
    /\ framePs' = ps /\ ps' = KernelPs(5)
    /\ interrupted' = <<r8, r19, r28, ps>>
    /\ IF ent THEN handler' = "save" /\ UNCHANGED place
              ELSE place' = "lost" /\ UNCHANGED handler
    /\ UNCHANGED <<ent, regVars, rbr, alarm, slot9, lineVars>>

\* $8 is stored at 9*8, where $19 is stored next; $28 is stored at 18*8, just
\* above the 18 words entInt has allocated, where PALcode's frame begins.
SaveAll ==
    /\ handler = "save" /\ handler' = "do_entInt"
    /\ slot9' = r19
    /\ framePs' = r28
    /\ UNCHANGED <<place, ps, ent, regVars, rbr, alarm, clk, interrupted, lineVars>>

\* A bug: a tick does not set the next alarm.
do_entIntNoAlarm ==
    /\ handler = "do_entInt" /\ handler' = "restore"
    /\ alarm' = alarm
    /\ UNCHANGED <<place, ps, ent, regVars, rbr, clk, slot9, framePs, interrupted,
                   lineVars>>

\* Type 1, the only one that comes here.
do_entInt ==
    /\ handler = "do_entInt" /\ handler' = "restore"
    /\ alarm' = TRUE
    /\ UNCHANGED <<place, ps, ent, regVars, rbr, clk, slot9, framePs, interrupted,
                   lineVars>>

\* The registers are loaded from where they were stored, and rti installs the
\* frame's PS.  A user mode PS leaves the console without a stack: it is lost.
RestoreAll ==
    /\ handler = "restore" /\ handler' = "none"
    /\ r8' = slot9 /\ r19' = slot9 /\ r28' = framePs
    /\ ps' = RtiPs(framePs)
    /\ place' = IF framePs.cm = 1 THEN "lost" ELSE place
    /\ UNCHANGED <<ent, rbr, alarm, clk, slot9, framePs, interrupted, lineVars>>

-----------------------------------------------------------------------------
(* External: time and the user.                                            *)
AlarmExpires ==
    /\ alarm
    /\ alarm' = FALSE /\ clk' = TRUE
    /\ UNCHANGED <<place, ps, ent, regVars, rbr, irqVars, lineVars>>

TypeKey ==
    /\ rbr = <<>>
    /\ \E c \in Chars : rbr' = <<c>>
    /\ UNCHANGED <<place, ps, ent, regVars, alarm, clk, irqVars, lineVars>>

-----------------------------------------------------------------------------
ConsoleStep == \/ Wrent \/ SetAlarm \/ SwpIpl \/ RdPs \/ Charav \/ Poll \/ WtInt
               \/ Wake \/ Getline
InterruptStep == Pal_Clk_Interrupt \/ SaveAll \/ do_entInt \/ RestoreAll

ConsoleNext == ConsoleStep \/ InterruptStep \/ Compute \/ AlarmExpires \/ TypeKey

ConsoleSpec == ConsoleInit /\ [][ConsoleNext]_consoleVars

\* The console's code runs, interrupts are taken when they can be, and time
\* passes; nothing is assumed of the user.  A tick is at least 10 ms away, so it
\* does not keep the console from its next instruction for ever.
ConsoleFairness ==
    /\ SF_consoleVars(ConsoleStep)
    /\ WF_consoleVars(InterruptStep) /\ WF_consoleVars(AlarmExpires)

-----------------------------------------------------------------------------
Places == {"wrent", "alarm", "swpipl", "rdps", "charav", "poll", "wtint",
           "qemu_wait", "getchar", "lost"}

\* Every variable holds a value of its kind; getline's terminator always fits.
TypeOK ==
    /\ place \in Places
    /\ ps \in [cm : {0, 1}, ipl : 0..7] /\ ent \in BOOLEAN
    /\ r8 \in Values /\ r19 \in Values /\ r28 \in [cm : {0, 1}, ipl : 0..7]
    /\ rbr = <<>> \/ \E c \in Chars : rbr = <<c>>
    /\ alarm \in BOOLEAN /\ clk \in BOOLEAN
    /\ handler \in {"none", "save", "do_entInt", "restore"}
    /\ slot9 \in Values /\ framePs \in [cm : {0, 1}, ipl : 0..7]
    /\ buf \in [0 .. (BufSize - 1) -> Chars \cup {Nul}]
    /\ len \in 0 .. (BufSize - 1)

\* The console never sleeps with nothing to wake it: once interrupts are on,
\* the alarm is set, or a tick is pending, or its handler has yet to set the
\* alarm.  A character that arrives between the test and the wait is therefore
\* seen at the next tick.  (do_console's order of calls; do_entInt.)
AlwaysATick ==
    place \notin {"wrent", "alarm"}
      => ent /\ (alarm \/ clk \/ handler \in {"save", "do_entInt"})

\* What the terminal shows is what the buffer holds.  (getline.)
ShownIsBuffer == shown = [i \in 1..len |-> buf[i - 1]]

\* Every character typed is read, unless a tick took the console with the
\* bit of user mode in $28: entInt's save area puts $28 where the frame holds
\* the processor status (console-low.S:59), and rti then leaves the kernel's
\* mode.  Nothing else stops the console.  (uart_getchar, do_entInt.)
LostToSaveArea == place = "lost" /\ interrupted[3].cm = 1
InputIsRead == rbr # <<>> ~> rbr = <<>> \/ LostToSaveArea

-----------------------------------------------------------------------------
\* console-low.S and osf.h: each register has a place of its own in the save area
\* ($8 at 8*8), which lies below the frame whose first word is the saved PS; so
\* the interrupted code gets its registers and its PS back.
InterruptIsInvisible == [][RestoreAll => <<r8, r19, r28, ps>>' = interrupted]_consoleVars
=============================================================================
