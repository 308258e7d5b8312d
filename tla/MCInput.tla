------------------------------- MODULE MCInput -------------------------------
(***************************************************************************)
(* The firmware's two ways to be typed at, for TLC: the console on the     *)
(* serial port and the PS/2 keyboard's driver.  They share no state; each  *)
(* behaviour runs one of the parts, and the other has ended.               *)
(***************************************************************************)
EXTENDS MCConsole, Ps2Port

VARIABLE part
inputVars == <<consoleVars, vars, part>>

\* A console that is lost, with a tick pending: no action of its own is left.
ConsoleEnded ==
    /\ place = "lost" /\ ps = KernelPs(0) /\ ent = TRUE
    /\ r8 \in Values /\ r19 = r8 /\ r28 = KernelPs(0)
    /\ rbr = <<>> /\ alarm = FALSE /\ clk = TRUE
    /\ handler = "none" /\ slot9 = r8 /\ framePs = ps
    /\ interrupted = <<r8, r19, r28, ps>>
    /\ buf = [i \in 0 .. (BufSize - 1) |-> Nul] /\ len = 0 /\ shown = <<>>
\* A keyboard_init that returned without an answer to its first command.
KeyboardEnded ==
    /\ todo = <<>> /\ tries = 0 /\ expired = FALSE
    /\ param = 0 /\ ps2ctr = {} /\ saved = <<>> /\ ret = "stuck" /\ sent = 0
    /\ ibf = <<>> /\ obf = <<>> /\ wantsCtr = FALSE /\ ctr = {"KBDINT", "AUXINT"}
    /\ kbdQueue = <<>> /\ scanning = TRUE /\ selfTest = FALSE

MCInit == \/ part = "console" /\ ConsoleInit /\ KeyboardEnded
          \/ part = "keyboard" /\ ConsoleEnded /\ Init
\* The part that runs has ended too.
Finished == Returned /\ place = "lost" /\ UNCHANGED inputVars
MCNext ==
    \/ Finished
    \/ part = "console" /\ ConsoleNext /\ UNCHANGED <<vars, part>>
    \/ part = "keyboard" /\ Next /\ UNCHANGED <<consoleVars, part>>
MCSpec == MCInit /\ [][MCNext]_inputVars /\ ConsoleFairness /\ Fairness
=============================================================================
