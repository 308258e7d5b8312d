-------------------------------- MODULE Ps2Port --------------------------------
(***************************************************************************)
(* The PS/2 driver (src/ps2port.c): keyboard_init sends commands to the    *)
(* i8042 controller and, through it, to the keyboard, and polls for the    *)
(* answers. Controller and keyboard are external: they may be slow, fail   *)
(* or never answer, while the user types and moves the mouse.              *)
(*                                                                         *)
(* The driver has no other thread, so its state is the steps it has still  *)
(* to do; a step is a wait together with the port access it ends in. The   *)
(* mode byte of the controller is the set of its bits.                     *)
(***************************************************************************)
EXTENDS Integers, Sequences

CONSTANTS
    Tries,      \* I8042_CTL_TIMEOUT
    BufferSize, \* I8042_BUFFER_SIZE
    QueueSize,  \* keys the keyboard remembers
    Scancodes,  \* bytes the user's keys send
    MouseData   \* bytes the mouse sends

Ack == 250      \* PS2_RET_ACK
Nak == 254      \* PS2_RET_NAK
ControllerOk == 85
KeyboardPortOk == 0
BatOk == 170
BatSecond == 0
Failure == 252

ASSUME Ps2Assumption ==
    /\ Tries \in Nat \ {0} /\ BufferSize \in Nat \ {0} /\ QueueSize \in Nat
    /\ Scancodes \subseteq (0 .. 255) \ {Ack, Nak}
    /\ MouseData \subseteq 0 .. 255

VARIABLES
    todo,       \* the driver's remaining steps
    tries,      \* polls made in this step
    expired,    \* the deadline of this step has passed
    param,      \* param[0]
    ps2ctr,     \* ebda.ps2ctr
    saved,      \* the mode to restore at "fail", while a command may go there
    ret,        \* "ok", "failed", or "stuck": a controller command timed out
    sent,       \* auxiliary: bytes written to the keyboard
    ibf, obf,   \* the controller's input and output buffers
    wantsCtr,   \* the controller's next data byte is its mode
    ctr,        \* the controller's mode
    kbdQueue, scanning, selfTest    \* the keyboard

driverVars == <<todo, tries, expired, param, ps2ctr, saved, ret, sent>>
keyboardVars == <<kbdQueue, scanning, selfTest>>
vars == <<driverVars, ibf, obf, wantsCtr, ctr, keyboardVars>>

-----------------------------------------------------------------------------
(* The commands, as sequences of steps.                                    *)
Command(c) == [op |-> "command", byte |-> c]    \* to PORT_PS2_STATUS
Device(b) == [op |-> "device", byte |-> b]      \* to PORT_PS2_DATA
Mode(m) == [op |-> "mode", mode |-> m]          \* to PORT_PS2_DATA
Step(op) == [op |-> op]
Check(b) == [op |-> "check", byte |-> b]
SetEbda(m) == [op |-> "ebda", mode |-> m]

Wctr(mode) == <<Command("CTL_WCTR"), Mode(mode)>>
Test(c, good) == <<Command(c), Step("read"), Check(good)>>
SendByte(b) == <<Device(b), Step("ack")>>

\* A bug: disables the ports but not their interrupts.
QuietPorts(mode) == mode \cup {"AUXDIS", "KBDDIS"}
Quiet(mode) == (mode \cup {"AUXDIS", "KBDDIS"}) \ {"KBDINT", "AUXINT"}

\* __ps2_command(aux = 0), whose saved mode is mode.
Ps2Command(mode, body) ==
    Wctr(Quiet(mode)) \o <<Step("body")>> \o Wctr(Quiet(mode) \ {"KBDDIS"})
        \o body \o <<Step("restore")>>

KbdOff == {"KBDDIS", "AUXDIS"}
KbdOn == {"AUXDIS", "XLATE", "KBDINT"}

\* A bug: the mode is set after the command that ends by writing it.
EnableKeyboardFirst ==
    Ps2Command(KbdOff, SendByte("ENABLE")) \o <<SetEbda(KbdOn)>>
EnableKeyboard == <<SetEbda(KbdOn)>> \o Ps2Command(KbdOn, SendByte("ENABLE"))

KeyboardInit ==
    <<Step("flush")>>
    \o Test("CTL_TEST", ControllerOk) \o Test("KBD_TEST", KeyboardPortOk)
    \o <<SetEbda(KbdOff)>>
    \o Ps2Command(KbdOff, SendByte("RESET_BAT")
                              \o <<Step("recv"), Step("second")>>)
    \o <<Check(BatOk)>>
    \o Ps2Command(KbdOff, SendByte("RESET_DIS"))
    \o Ps2Command(KbdOff, SendByte("SSCANSET") \o SendByte("SET2"))
    \o EnableKeyboard

Init ==
    /\ todo = KeyboardInit /\ tries = 0 /\ expired = FALSE
    /\ param = 0 /\ ps2ctr = {} /\ saved = <<>> /\ ret = "ok" /\ sent = 0
    /\ ibf = <<>> /\ obf = <<>> /\ wantsCtr = FALSE
    /\ ctr = {"KBDINT", "AUXINT"}
    /\ kbdQueue = <<>> /\ scanning = TRUE /\ selfTest = FALSE

-----------------------------------------------------------------------------
(* The driver.                                                             *)
Doing(ops) == todo # <<>> /\ Head(todo).op \in ops

GoTo(steps) == todo' = steps /\ tries' = 0 /\ expired' = FALSE
Advance == GoTo(Tail(todo)) /\ UNCHANGED <<saved, ret>>

\* A bug: return instead of goto.
GiveUpUnrestored == GoTo(<<>>) /\ ret' = "failed" /\ UNCHANGED saved
\* "goto fail", or the return where there is nothing to restore.
GiveUp ==
    IF saved = <<>>
    THEN GoTo(<<>>) /\ ret' = "stuck" /\ UNCHANGED saved
    ELSE GoTo(Wctr(saved[1])) /\ ret' = "failed" /\ saved' = <<>>

Retry == tries' = tries + 1 /\ UNCHANGED <<todo, expired, saved, ret>>

\* A bug: a result that is not looked at.
WaitedAndWentOn == IF tries + 1 < Tries THEN Retry ELSE Advance
\* i8042_wait_write, i8042_wait_read: one more poll without an answer.
Waited == IF tries + 1 < Tries THEN Retry ELSE GiveUp

Flush ==
    /\ Doing({"flush"})
    /\ \/ tries = BufferSize /\ GiveUp /\ UNCHANGED obf
       \/ tries < BufferSize /\ obf = <<>> /\ Advance /\ UNCHANGED obf
       \/ tries < BufferSize /\ obf # <<>> /\ Retry /\ obf' = <<>>
    /\ UNCHANGED <<param, ps2ctr, sent, ibf, wantsCtr, ctr, keyboardVars>>

\* __i8042_command, i8042_kbd_write.
Write ==
    /\ Doing({"command", "mode", "device"})
    /\ \/ /\ ibf = <<>> /\ ibf' = <<Head(todo)>>
          /\ sent' = IF Head(todo).op = "device" THEN sent + 1 ELSE sent
          /\ Advance
       \/ ibf # <<>> /\ Waited /\ UNCHANGED <<ibf, sent>>
    /\ UNCHANGED <<param, ps2ctr, obf, wantsCtr, ctr, keyboardVars>>

Read ==
    /\ Doing({"read"})
    /\ \/ obf # <<>> /\ param' = obf[1].byte /\ obf' = <<>> /\ Advance
       \/ obf = <<>> /\ Waited /\ UNCHANGED <<param, obf>>
    /\ UNCHANGED <<ps2ctr, sent, ibf, wantsCtr, ctr, keyboardVars>>

\* A bug: does not look at I8042_STR_AUXDATA.
WantedFromAnyPort(b) == Doing({"ack"}) => b.byte \in {Ack, Nak}
\* ps2_recvbyte: what belongs to the command; needack in the step "ack".
Wanted(b) ==
    /\ b.from # "mouse"
    /\ Doing({"ack"}) => b.byte \in {Ack, Nak}

Accept ==
    /\ Doing({"ack", "recv", "second"})
    /\ obf # <<>> /\ Wanted(obf[1])
    /\ obf' = <<>>
    /\ IF Doing({"ack"}) /\ obf[1].byte = Nak THEN GiveUp ELSE Advance
    /\ param' = IF Doing({"recv"}) THEN obf[1].byte ELSE param
    /\ UNCHANGED <<ps2ctr, sent, ibf, wantsCtr, ctr, keyboardVars>>

\* A bug: "continue" after a byte that is not wanted.
DiscardAndContinue ==
    /\ Doing({"ack", "recv", "second"})
    /\ obf # <<>> => ~Wanted(obf[1])
    /\ obf' = <<>>
    /\ \/ obf # <<>> /\ UNCHANGED <<todo, tries, expired, saved, ret>>
       \/ /\ obf = <<>> /\ expired
          /\ IF Doing({"second"}) THEN Advance ELSE GiveUp
    /\ UNCHANGED <<param, ps2ctr, sent, ibf, wantsCtr, ctr, keyboardVars>>
\* What is not wanted is discarded; then the deadline is checked.
Discard ==
    /\ Doing({"ack", "recv", "second"})
    /\ obf # <<>> => ~Wanted(obf[1])
    /\ obf' = <<>>
    /\ \/ ~expired /\ obf # <<>> /\ UNCHANGED <<todo, tries, expired,
                                                  saved, ret>>
       \/ expired /\ (IF Doing({"second"}) THEN Advance ELSE GiveUp)
    /\ UNCHANGED <<param, ps2ctr, sent, ibf, wantsCtr, ctr, keyboardVars>>

\* Steps that touch no port. The RESET_BAT result is checked after the restore.
Compare ==
    /\ Doing({"check"})
    /\ \/ param = Head(todo).byte /\ Advance
       \/ /\ param # Head(todo).byte
          /\ GoTo(<<>>) /\ ret' = "failed" /\ UNCHANGED saved
    /\ UNCHANGED <<param, ps2ctr, sent, ibf, obf, wantsCtr, ctr, keyboardVars>>

Ebda ==
    /\ Doing({"ebda"}) /\ Advance
    /\ ps2ctr' = Head(todo).mode
    /\ UNCHANGED <<param, sent, ibf, obf, wantsCtr, ctr, keyboardVars>>

\* From here to "fail", an error restores the mode.
Body ==
    /\ Doing({"body"}) /\ GoTo(Tail(todo))
    /\ saved' = <<ps2ctr>>
    /\ UNCHANGED <<ret, param, ps2ctr, sent, ibf, obf, wantsCtr, ctr,
                   keyboardVars>>

Restore ==
    /\ Doing({"restore"}) /\ GoTo(Wctr(saved[1]) \o Tail(todo))
    /\ saved' = <<>>
    /\ UNCHANGED <<ret, param, ps2ctr, sent, ibf, obf, wantsCtr, ctr,
                   keyboardVars>>

Driver == Flush \/ Write \/ Read \/ Accept \/ Discard \/ Compare \/ Ebda \/ Body
          \/ Restore

\* check_tsc's clock.
Deadline ==
    /\ Doing({"ack", "recv", "second"}) /\ ~expired /\ expired' = TRUE
    /\ UNCHANGED <<todo, tries, param, ps2ctr, saved, ret, sent,
                   ibf, obf, wantsCtr, ctr, keyboardVars>>

-----------------------------------------------------------------------------
(* External: the controller and the keyboard.                              *)
Byte(from, b, of) == [from |-> from, byte |-> b, of |-> of]

Takes(op) == ibf # <<>> /\ ibf[1].op = op /\ ibf' = <<>>

TakeTest(c, results) ==
    /\ Takes("command") /\ ibf[1].byte = c
    /\ obf = <<>> /\ \E r \in results : obf' = <<Byte("controller", r, 0)>>
    /\ UNCHANGED <<driverVars, wantsCtr, ctr, keyboardVars>>

TakeWctr ==
    /\ Takes("command") /\ ibf[1].byte = "CTL_WCTR"
    /\ wantsCtr' = TRUE
    /\ UNCHANGED <<driverVars, obf, ctr, keyboardVars>>

TakeMode ==
    /\ Takes("mode")
    /\ ctr' = ibf[1].mode /\ wantsCtr' = FALSE
    /\ UNCHANGED <<driverVars, obf, keyboardVars>>

\* The keyboard obeys, refuses, or ignores a byte.
Obey(b) ==
    \/ /\ b = "RESET_BAT"
       /\ kbdQueue' = <<Byte("keyboard", Ack, sent)>>
       /\ selfTest' = TRUE /\ UNCHANGED scanning
    \/ /\ b # "RESET_BAT"
       /\ kbdQueue' = Append(kbdQueue, Byte("keyboard", Ack, sent))
       /\ scanning' = ((scanning \/ b = "ENABLE") /\ b # "RESET_DIS")
       /\ UNCHANGED selfTest

TakeDevice ==
    /\ Takes("device")
    /\ \/ Obey(ibf[1].byte)
       \/ /\ kbdQueue' = Append(kbdQueue, Byte("keyboard", Nak, sent))
          /\ UNCHANGED <<scanning, selfTest>>
       \/ UNCHANGED keyboardVars
    /\ UNCHANGED <<driverVars, obf, wantsCtr, ctr>>

\* The end of the keyboard's self-test; some send two bytes.
Bat ==
    /\ selfTest /\ selfTest' = FALSE /\ scanning' = TRUE
    /\ \E r \in {BatOk, Failure}, two \in BOOLEAN :
        kbdQueue' = kbdQueue \o <<Byte("keyboard", r, sent)>>
                    \o (IF two THEN <<Byte("keyboard", BatSecond, sent)>>
                        ELSE <<>>)
    /\ UNCHANGED <<driverVars, ibf, obf, wantsCtr, ctr>>

Type(c) ==
    /\ scanning /\ ~selfTest /\ Len(kbdQueue) < QueueSize
    /\ kbdQueue' = Append(kbdQueue, Byte("keyboard", c, 0))
    /\ UNCHANGED <<driverVars, ibf, obf, wantsCtr, ctr, scanning, selfTest>>

Deliver ==
    /\ kbdQueue # <<>> /\ obf = <<>> /\ "KBDDIS" \notin ctr
    /\ obf' = <<Head(kbdQueue)>> /\ kbdQueue' = Tail(kbdQueue)
    /\ UNCHANGED <<driverVars, ibf, wantsCtr, ctr, scanning, selfTest>>

MoveMouse(m) ==
    /\ obf = <<>> /\ "AUXDIS" \notin ctr
    /\ obf' = <<Byte("mouse", m, 0)>>
    /\ UNCHANGED <<driverVars, ibf, wantsCtr, ctr, keyboardVars>>

Hardware ==
    \/ TakeTest("CTL_TEST", {ControllerOk, Failure})
    \/ TakeTest("KBD_TEST", {KeyboardPortOk, 1})
    \/ TakeWctr \/ TakeMode \/ TakeDevice \/ Bat \/ Deliver
    \/ \E c \in Scancodes : Type(c)
    \/ \E m \in MouseData : MoveMouse(m)

Next == Driver \/ Deadline \/ Hardware

\* The CPU runs and its clock goes on; nothing is assumed of the hardware.
Fairness == WF_vars(Driver) /\ WF_vars(Deadline)
Spec == Init /\ [][Next]_vars /\ Fairness

-----------------------------------------------------------------------------
(* Properties.                                                             *)
Returned == todo = <<>>
Replies(q) == {i \in DOMAIN q : q[i].of # 0}

\* Whatever failed on the way, a command leaves the controller with the mode
\* in ebda.ps2ctr, once the controller has taken it; only a controller that
\* stopped taking commands keeps another (label fail in __ps2_command).
ModeRestored ==
    Returned /\ ret # "stuck" /\ ps2ctr # {} /\ ibf = <<>> => ctr = ps2ctr

\* While the driver polls for an answer, the controller raises no interrupt
\* for it, also when the mode to be restored enables them.
RepliesArePolled ==
    ~Returned /\ Replies(obf) # {} => "KBDINT" \notin ctr

\* No byte goes astray when a command breaks off between the command byte and
\* its parameter: a mode never reaches the keyboard, nor a keyboard's byte
\* the mode.
BytesReachTheirReader ==
    ibf # <<>> => /\ ibf[1].op = "mode" => wantsCtr
                  /\ ibf[1].op = "device" => ~wantsCtr

\* If keyboard_init reports success, the keyboard is enabled, the controller
\* is in the mode for the kernel, and no answer is left for the kernel to
\* mistake for a key.
SuccessMeansReady ==
    Returned /\ ret = "ok" =>
        /\ scanning
        /\ Replies(obf) = {} /\ Replies(kbdQueue) = {}
        /\ ibf = <<>> => ctr = KbdOn

\* What ps2_recvbyte takes as an answer is the keyboard's answer to the last
\* byte sent, not a late one to an earlier byte, nor a key, nor the mouse.
AnswersMatch ==
    [][Accept /\ Doing({"ack", "recv"}) => obf[1].of = sent]_vars

\* keyboard_init returns, whatever the hardware and the user do.
InitReturns == <>Returned

=============================================================================
