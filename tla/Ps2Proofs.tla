------------------------------ MODULE Ps2Proofs ------------------------------
(***************************************************************************)
(* Proofs about the PS/2 driver (src/ps2port.c).                           *)
(*                                                                         *)
(* The driver's state is the steps it has still to do, so a place in       *)
(* keyboard_init is a position i in the sequence KeyboardInit: Rest(i) is  *)
(* to do.  The positions are                                               *)
(*    1      flush                  20-27  RESET_DIS: 25, ack 26           *)
(*    2-7    the controller's tests 28-37  SSCANSET: 33, ack 34, 35, ack 36*)
(*    8      ebda.ps2ctr, off       38     ebda.ps2ctr, on                 *)
(*    9-18   RESET_BAT: sent at 14, 39-46  ENABLE: 44, ack 45              *)
(*           ack 15, results 16, 17 47     the end                         *)
(*    19     its result is checked                                         *)
(* A command is two writes of the mode, its body, and "restore", which     *)
(* puts a third in front of the rest.                                      *)
(***************************************************************************)
EXTENDS Ps2Port, SequenceTheorems, TLAPS

Bits == {"KBDINT", "AUXINT", "KBDDIS", "AUXDIS", "XLATE"}
Commands == {"CTL_TEST", "KBD_TEST", "CTL_WCTR"}
DeviceBytes == {"RESET_BAT", "RESET_DIS", "SSCANSET", "SET2", "ENABLE"}
Ops == {"flush", "read", "ack", "recv", "second", "body", "restore"}
Steps ==
    {Command(c) : c \in Commands} \cup {Device(b) : b \in DeviceBytes}
    \cup {Mode(m) : m \in SUBSET Bits} \cup {Step(op) : op \in Ops}
    \cup {Check(b) : b \in 0..255} \cup {SetEbda(m) : m \in SUBSET Bits}
\* What is written to a port.
Written == {s \in Steps : s.op \in {"command", "device", "mode"}}
Bytes == [from : {"controller", "keyboard", "mouse"}, byte : 0..255, of : Nat]
KeyboardBytes == [from : {"keyboard"}, byte : 0..255, of : Nat]

\* What the variables hold; what todo holds is in the invariants below.
TypeOK ==
    /\ tries \in Nat /\ expired \in BOOLEAN /\ param \in 0..255
    /\ ps2ctr \in SUBSET Bits /\ sent \in Nat
    /\ ibf \in {<<>>} \cup {<<s>> : s \in Written}
    /\ obf \in {<<>>} \cup {<<b>> : b \in Bytes}
    /\ wantsCtr \in BOOLEAN /\ ctr \in SUBSET Bits
    /\ kbdQueue \in Seq(KeyboardBytes) /\ scanning \in BOOLEAN /\ selfTest \in BOOLEAN

-----------------------------------------------------------------------------
(* The invariant: where the driver is, and what it knows there.            *)
Rest(i) == SubSeq(KeyboardInit, i, Len(KeyboardInit))
AfterRestore == {19, 28, 38, 47}
Restoring(i) ==
    /\ i \in AfterRestore
    /\ todo \in {Wctr(ps2ctr) \o Rest(i), <<Mode(ps2ctr)>> \o Rest(i)}
InBody == 12..18 \cup 23..27 \cup 31..37 \cup 42..46

Control(i) ==
    /\ ret = "ok" /\ (todo = Rest(i) \/ Restoring(i))
    /\ saved = IF i \in InBody THEN <<ps2ctr>> ELSE <<>>
    /\ ps2ctr = IF i <= 8 THEN {} ELSE IF i <= 38 THEN KbdOff ELSE KbdOn
    /\ IF i <= 14 THEN sent = 0 ELSE sent > 0

\* What the input buffer holds; the mode that is or will be the controller's.
Holding(op) == ibf # <<>> /\ ibf[1].op = op
HoldingWctr == Holding("command") /\ ibf[1].byte = "CTL_WCTR"
Latest(m) == IF Holding("mode") THEN ibf[1].mode = m ELSE ctr = m


Controller(i) ==
    /\ i \in 11..46 =>
        /\ Holding("mode") => "KBDINT" \notin ibf[1].mode
        /\ i >= 13 \/ ~Holding("mode") => "KBDINT" \notin ctr
    /\ i \in {19, 47} /\ todo = Rest(i) => Latest(ps2ctr)
    /\ i >= 10 /\ Holding("command") => HoldingWctr

\* The bytes on their way to the driver, in their order: slot 0 is the
\* output buffer, the others the keyboard's queue.
Slots == {j \in 0..Len(kbdQueue) : j = 0 => obf # <<>>}
Slot(j) == IF j = 0 THEN obf[1] ELSE kbdQueue[j]
IsAnswer(b) == b.of # 0 /\ b.byte \in {Ack, Nak}
NoAnswer == \A j \in Slots : ~IsAnswer(Slot(j))
NoReply == \A j \in Slots : Slot(j).of = 0

Acks == {15, 26, 34, 36, 45}
\* The answer in slot j is the one to the last byte sent, and nothing that
\* would be mistaken for the next answer is behind it.
Answered(i, j) ==
    /\ Slot(j).of = sent
    /\ \A k \in Slots : k > j => ~IsAnswer(Slot(k)) /\ (i >= 26 => Slot(k).of = 0)
    /\ i = 15 /\ Slot(j).byte = Ack =>
        IF selfTest THEN j = Len(kbdQueue)
        ELSE j < Len(kbdQueue) /\ kbdQueue[j + 1].of = sent
    /\ i = 45 /\ Slot(j).byte = Ack => scanning
\* The driver would wait for another byte.
NotWanted == obf = <<>> \/ obf[1].from = "mouse"
FirstIsResult ==
    /\ NotWanted \/ (obf[1].of = sent /\ ~selfTest)
    /\ NotWanted => IF selfTest THEN kbdQueue = <<>>
                    ELSE kbdQueue # <<>> /\ kbdQueue[1].of = sent
Keyboard(i) ==
    /\ IF i \in Acks
       THEN /\ Holding("device") => /\ ibf[1] = KeyboardInit[i - 1]
                                    /\ NoAnswer /\ ~selfTest
            /\ \A j \in Slots : IsAnswer(Slot(j)) => Answered(i, j)
       ELSE /\ ~Holding("device") /\ NoAnswer
            /\ i >= 27 => NoReply
    /\ i \notin {15, 16} => ~selfTest
    /\ i = 16 => FirstIsResult
    /\ i >= 46 => scanning

Running(i) == Control(i) /\ Controller(i) /\ Keyboard(i)

Failed ==
    /\ ret \in {"failed", "stuck"} /\ saved = <<>>
    /\ todo \in {Wctr(ps2ctr), <<Mode(ps2ctr)>>, <<>>}
    /\ todo = <<>> /\ ret = "failed" /\ ps2ctr # {} => Latest(ps2ctr)
    /\ todo # <<>> /\ sent > 0 =>
        "KBDINT" \notin ctr /\ (Holding("mode") => "KBDINT" \notin ibf[1].mode)

\* Each mode follows its command, and nothing else does.
Pairing ==
    /\ Holding("mode") => wantsCtr
    /\ Holding("device") => ~wantsCtr
    /\ todo # <<>> =>
        IF Head(todo).op = "mode"
        THEN HoldingWctr \/ (ibf = <<>> /\ wantsCtr)
        ELSE Head(todo) = Command("CTL_WCTR") \/ Holding("mode")
             \/ (~wantsCtr /\ ~HoldingWctr)
\* Nothing but a reply passes for an answer, and there is none before a byte
\* was sent.
Replying ==
    /\ \A j \in Slots : Slot(j).of = 0 =>
        Slot(j).from = "mouse" \/ Slot(j).byte \notin {Ack, Nak}
    /\ sent = 0 => ~selfTest /\ ~Holding("device") /\ NoReply

DriverInv == Failed \/ \E i \in 1..47 : Running(i)
Ps2Inv == DriverInv /\ Pairing /\ Replying

-----------------------------------------------------------------------------
(* The steps of keyboard_init.                                             *)

\* A step put in front of others is done first.
LEMMA Cons ==
    ASSUME NEW S, NEW s \in Seq(S), NEW a \in S
    PROVE  /\ <<a>> \o s \in Seq(S) /\ <<a>> \o s # <<>>
           /\ Head(<<a>> \o s) = a /\ Tail(<<a>> \o s) = s
  <1> DEFINE t == <<a>> \o s
  <1>1. <<a>> \in Seq(S) /\ Len(<<a>>) = 1 /\ <<a>>[1] = a
    OBVIOUS
  <1>2. /\ t \in Seq(S) /\ Len(t) = Len(s) + 1 /\ t[1] = a
        /\ \A i \in 2..Len(t) : t[i] = s[i - 1]
    BY <1>1, ConcatProperties
  <1> HIDE DEF t
  <1>3. t # <<>> /\ Head(t) = a
    BY <1>2
  <1>4. /\ Tail(t) \in Seq(S) /\ Len(Tail(t)) = Len(s)
        /\ \A i \in 1..Len(s) : Tail(t)[i] = s[i]
    BY <1>2, <1>3, HeadTailProperties
  <1>5. Tail(t) = s
    BY <1>4, SeqEqual
  <1> QED
    BY <1>2, <1>3, <1>5 DEF t

LEMMA StepsAreSteps ==
    /\ \A c \in Commands : Command(c) \in Steps
    /\ \A b \in DeviceBytes : Device(b) \in Steps
    /\ \A op \in Ops : Step(op) \in Steps
    /\ \A m \in SUBSET Bits : Mode(m) \in Steps /\ SetEbda(m) \in Steps
    /\ \A b \in 0..255 : Check(b) \in Steps
  BY DEF Steps

LEMMA ModesAreBits ==
    /\ KbdOff \in SUBSET Bits /\ KbdOn \in SUBSET Bits
    /\ \A m \in SUBSET Bits : Quiet(m) \in SUBSET Bits /\ Quiet(m) \ {"KBDDIS"} \in SUBSET Bits
  BY DEF KbdOff, KbdOn, Quiet, Bits

LEMMA Single ==
    ASSUME NEW S, NEW a \in S
    PROVE  <<a>> \in Seq(S) /\ Len(<<a>>) = 1 /\ <<a>>[1] = a
  OBVIOUS

LEMMA WctrSteps ==
    ASSUME NEW m \in SUBSET Bits
    PROVE  /\ Wctr(m) \in Seq(Steps) /\ Len(Wctr(m)) = 2
           /\ Wctr(m)[1] = Command("CTL_WCTR") /\ Wctr(m)[2] = Mode(m)
  <1>1. Command("CTL_WCTR") \in Steps /\ Mode(m) \in Steps
    BY StepsAreSteps DEF Commands
  <1> QED
    BY <1>1 DEF Wctr

\* s stands in p after the first a steps.
Part(p, a, s) == \A i \in 1..Len(s) : p[a + i] = s[i]

LEMMA PartOfStart ==
    ASSUME NEW p, NEW q \in Seq(Steps), NEW s \in Seq(Steps),
           NEW b \in Nat, Part(p, 0, q), Part(q, b, s), b + Len(s) <= Len(q)
    PROVE  Part(p, b, s)
  <1> SUFFICES ASSUME NEW i \in 1..Len(s)
               PROVE  p[b + i] = s[i]
    BY DEF Part
  <1>1. Len(s) \in Nat /\ Len(q) \in Nat
    OBVIOUS
  <1>2. b + i \in 1..Len(q) /\ 0 + (b + i) = b + i
    BY <1>1
  <1>3. p[0 + (b + i)] = q[b + i]
    BY <1>2 DEF Part
  <1>4. q[b + i] = s[i]
    BY DEF Part
  <1> QED
    BY <1>2, <1>3, <1>4

\* e is s and then t.
IsJoin(e, s, t) ==
    /\ e \in Seq(Steps) /\ Len(e) = Len(s) + Len(t)
    /\ Part(e, 0, s) /\ Part(e, Len(s), t)

LEMMA Joined == \A s, t \in Seq(Steps) : IsJoin(s \o t, s, t)
  <1> SUFFICES ASSUME NEW s \in Seq(Steps), NEW t \in Seq(Steps)
               PROVE  IsJoin(s \o t, s, t)
    OBVIOUS
  <1> DEFINE e == s \o t
  <1>1. /\ e \in Seq(Steps) /\ Len(e) = Len(s) + Len(t)
        /\ \A i \in 1..Len(s) + Len(t) :
              e[i] = IF i <= Len(s) THEN s[i] ELSE t[i - Len(s)]
    BY ConcatProperties
  <1>2. Len(s) \in Nat /\ Len(t) \in Nat
    OBVIOUS
  <1> HIDE DEF e
  <1>3. ASSUME NEW i \in 1..Len(s)
        PROVE  e[0 + i] = s[i]
    BY <1>1, <1>2
  <1>4. ASSUME NEW i \in 1..Len(t)
        PROVE  e[Len(s) + i] = t[i]
    <2>1. /\ Len(s) + i \in 1..Len(s) + Len(t) /\ ~(Len(s) + i <= Len(s))
          /\ (Len(s) + i) - Len(s) = i
      BY <1>2
    <2>2. e[Len(s) + i] = t[(Len(s) + i) - Len(s)]
      BY <1>1, <2>1
    <2> QED
      BY <2>1, <2>2
  <1>5. Part(e, 0, s) /\ Part(e, Len(s), t)
    BY <1>3, <1>4 DEF Part
  <1> QED
    BY <1>1, <1>5 DEF e, IsJoin

\* A command is five steps, its body and the restoring of the mode.
IsCommand(p, m, body) ==
    /\ p \in Seq(Steps) /\ Len(p) = 6 + Len(body)
    /\ p[1] = Command("CTL_WCTR") /\ p[2] = Mode(Quiet(m))
    /\ p[3] = Step("body")
    /\ p[4] = Command("CTL_WCTR") /\ p[5] = Mode(Quiet(m) \ {"KBDDIS"})
    /\ Part(p, 5, body) /\ p[6 + Len(body)] = Step("restore")

LEMMA CommandSteps ==
    \A m \in SUBSET Bits, body \in Seq(Steps) :
        IsCommand(Ps2Command(m, body), m, body)
  <1> SUFFICES ASSUME NEW m \in SUBSET Bits, NEW body \in Seq(Steps)
               PROVE  IsCommand(Ps2Command(m, body), m, body)
    OBVIOUS
  <1> DEFINE a == Wctr(Quiet(m))
             b == <<Step("body")>>
             c == Wctr(Quiet(m) \ {"KBDDIS"})
             d == <<Step("restore")>>
             ab == a \o b
             abc == ab \o c
             e == abc \o body
             p == e \o d
             n == Len(body)
  <1>0. Ps2Command(m, body) = p
    BY DEF Ps2Command
  <1>1. /\ b \in Seq(Steps) /\ Len(b) = 1 /\ b[1] = Step("body")
        /\ d \in Seq(Steps) /\ Len(d) = 1 /\ d[1] = Step("restore")
    BY StepsAreSteps DEF Ops
  <1>2. /\ a \in Seq(Steps) /\ Len(a) = 2
        /\ a[1] = Command("CTL_WCTR") /\ a[2] = Mode(Quiet(m))
        /\ c \in Seq(Steps) /\ Len(c) = 2 /\ c[1] = Command("CTL_WCTR")
        /\ c[2] = Mode(Quiet(m) \ {"KBDDIS"})
    BY WctrSteps, ModesAreBits
  <1> HIDE DEF a, b, c, d
  <1>11. n \in Nat
    OBVIOUS
  <1>3. ab \in Seq(Steps) /\ Len(ab) = 3 /\ Part(ab, 0, a) /\ Part(ab, 2, b)
    <2>1. IsJoin(ab, a, b)
      BY <1>1, <1>2, Joined
    <2> HIDE DEF ab
    <2> QED
      BY <1>1, <1>2, <2>1 DEF IsJoin
  <1> HIDE DEF ab
  <1>4. abc \in Seq(Steps) /\ Len(abc) = 5 /\ Part(abc, 0, ab) /\ Part(abc, 3, c)
    <2>1. IsJoin(abc, ab, c)
      BY <1>2, <1>3, Joined
    <2> HIDE DEF abc
    <2> QED
      BY <1>2, <1>3, <2>1 DEF IsJoin
  <1> HIDE DEF abc
  <1>5. e \in Seq(Steps) /\ Len(e) = 5 + n /\ Part(e, 0, abc) /\ Part(e, 5, body)
    <2>1. IsJoin(e, abc, body)
      BY <1>4, Joined
    <2> HIDE DEF e
    <2> QED
      BY <1>4, <2>1 DEF IsJoin
  <1> HIDE DEF e
  <1>6. p \in Seq(Steps) /\ Len(p) = 6 + n /\ Part(p, 0, e) /\ Part(p, 5 + n, d)
    <2>1. IsJoin(p, e, d)
      BY <1>1, <1>5, Joined
    <2> HIDE DEF p
    <2> QED
      BY <1>1, <1>5, <2>1 DEF IsJoin
  <1> HIDE DEF p
  <1>7. Part(p, 0, abc) /\ Part(p, 5, body)
    <2>1. 0 + Len(abc) <= Len(e) /\ 5 + Len(body) <= Len(e)
      BY <1>4, <1>5, <1>11
    <2>2. Part(p, 0, abc)
      BY <1>4, <1>5, <1>6, <2>1, PartOfStart
    <2>3. Part(p, 5, body)
      BY <1>4, <1>5, <1>6, <2>1, PartOfStart
    <2> QED
      BY <2>2, <2>3
  <1>8. \A i \in 1..5 : p[i] = abc[i]
    BY <1>4, <1>7 DEF Part
  <1>9. /\ abc[1] = a[1] /\ abc[2] = a[2] /\ abc[3] = b[1]
        /\ abc[4] = c[1] /\ abc[5] = c[2]
    <2>1. ab[0 + 1] = a[1] /\ ab[0 + 2] = a[2] /\ ab[2 + 1] = b[1]
      BY <1>1, <1>2, <1>3 DEF Part
    <2>2. abc[0 + 1] = ab[1] /\ abc[0 + 2] = ab[2] /\ abc[0 + 3] = ab[3]
      BY <1>3, <1>4 DEF Part
    <2>3. abc[3 + 1] = c[1] /\ abc[3 + 2] = c[2]
      BY <1>2, <1>4 DEF Part
    <2> QED
      BY <2>1, <2>2, <2>3
  <1>10. p[6 + n] = d[1]
    <2>1. p[(5 + n) + 1] = d[1]
      BY <1>1, <1>6 DEF Part
    <2> QED
      BY <2>1
  <1> QED
    BY <1>0, <1>1, <1>2, <1>6, <1>7, <1>8, <1>9, <1>10 DEF IsCommand

LEMMA SendSteps ==
    ASSUME NEW b \in DeviceBytes
    PROVE  /\ SendByte(b) \in Seq(Steps) /\ Len(SendByte(b)) = 2
           /\ SendByte(b)[1] = Device(b) /\ SendByte(b)[2] = Step("ack")
  <1>1. Device(b) \in Steps /\ Step("ack") \in Steps
    BY StepsAreSteps DEF Ops
  <1> QED
    BY <1>1 DEF SendByte

LEMMA TestSteps ==
    ASSUME NEW c \in Commands, NEW good \in 0..255
    PROVE  LET p == Test(c, good)
           IN  /\ p \in Seq(Steps) /\ Len(p) = 3 /\ p[1] = Command(c)
               /\ p[2] = Step("read") /\ p[3] = Check(good)
  <1>1. Command(c) \in Steps /\ Step("read") \in Steps /\ Check(good) \in Steps
    BY StepsAreSteps DEF Ops
  <1> QED
    BY <1>1 DEF Test

\* The first five steps of a command, after step i.
Opening(i, m) ==
    /\ KeyboardInit[i + 1] = Command("CTL_WCTR")
    /\ KeyboardInit[i + 2] = Mode(Quiet(m))
    /\ KeyboardInit[i + 3] = Step("body")
    /\ KeyboardInit[i + 4] = Command("CTL_WCTR")
    /\ KeyboardInit[i + 5] = Mode(Quiet(m) \ {"KBDDIS"})

\* keyboard_init, step by step.
LEMMA Program ==
    /\ KeyboardInit \in Seq(Steps) /\ Len(KeyboardInit) = 46
    /\ KeyboardInit[1] = Step("flush")
    /\ KeyboardInit[2] = Command("CTL_TEST")
    /\ KeyboardInit[3] = Step("read") /\ KeyboardInit[4] = Check(ControllerOk)
    /\ KeyboardInit[5] = Command("KBD_TEST")
    /\ KeyboardInit[6] = Step("read") /\ KeyboardInit[7] = Check(KeyboardPortOk)
    /\ KeyboardInit[8] = SetEbda(KbdOff)
    /\ Opening(8, KbdOff) /\ KeyboardInit[14] = Device("RESET_BAT")
    /\ KeyboardInit[15] = Step("ack") /\ KeyboardInit[16] = Step("recv")
    /\ KeyboardInit[17] = Step("second") /\ KeyboardInit[18] = Step("restore")
    /\ KeyboardInit[19] = Check(BatOk)
    /\ Opening(19, KbdOff) /\ KeyboardInit[25] = Device("RESET_DIS")
    /\ KeyboardInit[26] = Step("ack") /\ KeyboardInit[27] = Step("restore")
    /\ Opening(27, KbdOff) /\ KeyboardInit[33] = Device("SSCANSET")
    /\ KeyboardInit[34] = Step("ack") /\ KeyboardInit[35] = Device("SET2")
    /\ KeyboardInit[36] = Step("ack") /\ KeyboardInit[37] = Step("restore")
    /\ KeyboardInit[38] = SetEbda(KbdOn)
    /\ Opening(38, KbdOn) /\ KeyboardInit[44] = Device("ENABLE")
    /\ KeyboardInit[45] = Step("ack") /\ KeyboardInit[46] = Step("restore")
  <1> DEFINE p1 == <<Step("flush")>>
             t1 == Test("CTL_TEST", ControllerOk)
             p2 == p1 \o t1
             t2 == Test("KBD_TEST", KeyboardPortOk)
             p3 == p2 \o t2
             o1 == <<SetEbda(KbdOff)>>
             p4 == p3 \o o1
             b1 == SendByte("RESET_BAT") \o <<Step("recv"), Step("second")>>
             c1 == Ps2Command(KbdOff, b1)
             p5 == p4 \o c1
             o2 == <<Check(BatOk)>>
             p6 == p5 \o o2
             b2 == SendByte("RESET_DIS")
             c2 == Ps2Command(KbdOff, b2)
             p7 == p6 \o c2
             b3 == SendByte("SSCANSET") \o SendByte("SET2")
             c3 == Ps2Command(KbdOff, b3)
             p8 == p7 \o c3
             o3 == <<SetEbda(KbdOn)>>
             b4 == SendByte("ENABLE")
             c4 == Ps2Command(KbdOn, b4)
             p9 == o3 \o c4
             p == p8 \o p9
  <1>1. KeyboardInit = p
    BY DEF KeyboardInit, EnableKeyboard
  <1>2. KbdOff \in SUBSET Bits /\ KbdOn \in SUBSET Bits
    BY ModesAreBits
  <1>3. /\ p1 \in Seq(Steps) /\ Len(p1) = 1 /\ p1[1] = Step("flush")
        /\ o1 \in Seq(Steps) /\ Len(o1) = 1 /\ o1[1] = SetEbda(KbdOff)
        /\ o2 \in Seq(Steps) /\ Len(o2) = 1 /\ o2[1] = Check(BatOk)
        /\ o3 \in Seq(Steps) /\ Len(o3) = 1 /\ o3[1] = SetEbda(KbdOn)
    BY <1>2, StepsAreSteps DEF Ops, BatOk
  <1>4. /\ t1 \in Seq(Steps) /\ Len(t1) = 3 /\ t1[1] = Command("CTL_TEST")
        /\ t1[2] = Step("read") /\ t1[3] = Check(ControllerOk)
        /\ t2 \in Seq(Steps) /\ Len(t2) = 3 /\ t2[1] = Command("KBD_TEST")
        /\ t2[2] = Step("read") /\ t2[3] = Check(KeyboardPortOk)
    <2>1. /\ "CTL_TEST" \in Commands /\ "KBD_TEST" \in Commands
          /\ ControllerOk \in 0..255 /\ KeyboardPortOk \in 0..255
      BY DEF Commands, ControllerOk, KeyboardPortOk
    <2>2. /\ t1 \in Seq(Steps) /\ Len(t1) = 3 /\ t1[1] = Command("CTL_TEST")
          /\ t1[2] = Step("read") /\ t1[3] = Check(ControllerOk)
      BY <2>1, TestSteps
    <2>3. /\ t2 \in Seq(Steps) /\ Len(t2) = 3 /\ t2[1] = Command("KBD_TEST")
          /\ t2[2] = Step("read") /\ t2[3] = Check(KeyboardPortOk)
      BY <2>1, TestSteps
    <2> QED
      BY <2>2, <2>3
  <1> DEFINE s1 == SendByte("RESET_BAT")
             s2 == <<Step("recv"), Step("second")>>
             s3 == SendByte("SSCANSET")
             s4 == SendByte("SET2")
  <1>s1. /\ s1 \in Seq(Steps) /\ Len(s1) = 2
        /\ s1[1] = Device("RESET_BAT") /\ s1[2] = Step("ack")
    BY SendSteps DEF DeviceBytes
  <1>b2. /\ b2 \in Seq(Steps) /\ Len(b2) = 2
        /\ b2[1] = Device("RESET_DIS") /\ b2[2] = Step("ack")
    BY SendSteps DEF DeviceBytes
  <1>s3. /\ s3 \in Seq(Steps) /\ Len(s3) = 2
        /\ s3[1] = Device("SSCANSET") /\ s3[2] = Step("ack")
    BY SendSteps DEF DeviceBytes
  <1>s4. /\ s4 \in Seq(Steps) /\ Len(s4) = 2
        /\ s4[1] = Device("SET2") /\ s4[2] = Step("ack")
    BY SendSteps DEF DeviceBytes
  <1>b4. /\ b4 \in Seq(Steps) /\ Len(b4) = 2
        /\ b4[1] = Device("ENABLE") /\ b4[2] = Step("ack")
    BY SendSteps DEF DeviceBytes
  <1>s2. /\ s2 \in Seq(Steps) /\ Len(s2) = 2
        /\ s2[1] = Step("recv") /\ s2[2] = Step("second")
    BY StepsAreSteps DEF Ops
  <1> HIDE DEF p1, o1, o2, o3, t1, t2, s1, s2, s3, s4, b2, b4
  <1>7. /\ b1 \in Seq(Steps) /\ Len(b1) = 4
        /\ b1[1] = Device("RESET_BAT") /\ b1[2] = Step("ack")
        /\ b1[3] = Step("recv") /\ b1[4] = Step("second")
    <2>1. IsJoin(s1 \o s2, s1, s2) /\ b1 = s1 \o s2
      BY <1>s1, <1>s2, Joined DEF s1, s2
    <2> HIDE DEF b1
    <2>2. /\ b1 \in Seq(Steps) /\ Len(b1) = 4
          /\ Part(b1, 0, s1) /\ Part(b1, 2, s2)
      BY <1>s1, <1>s2, <2>1 DEF IsJoin
    <2>3. /\ b1[0 + 1] = s1[1] /\ b1[0 + 2] = s1[2]
          /\ b1[2 + 1] = s2[1] /\ b1[2 + 2] = s2[2]
      BY <1>s1, <1>s2, <2>2 DEF Part
    <2> QED
      BY <1>s1, <1>s2, <2>2, <2>3
  <1>8. /\ b3 \in Seq(Steps) /\ Len(b3) = 4
        /\ b3[1] = Device("SSCANSET") /\ b3[2] = Step("ack")
        /\ b3[3] = Device("SET2") /\ b3[4] = Step("ack")
    <2>1. IsJoin(s3 \o s4, s3, s4) /\ b3 = s3 \o s4
      BY <1>s3, <1>s4, Joined DEF s3, s4
    <2> HIDE DEF b3
    <2>2. /\ b3 \in Seq(Steps) /\ Len(b3) = 4
          /\ Part(b3, 0, s3) /\ Part(b3, 2, s4)
      BY <1>s3, <1>s4, <2>1 DEF IsJoin
    <2>3. /\ b3[0 + 1] = s3[1] /\ b3[0 + 2] = s3[2]
          /\ b3[2 + 1] = s4[1] /\ b3[2 + 2] = s4[2]
      BY <1>s3, <1>s4, <2>2 DEF Part
    <2> QED
      BY <1>s3, <1>s4, <2>2, <2>3
  <1> HIDE DEF b1, b3
  <1> DEFINE Opens(c, m) ==
                 /\ c[1] = Command("CTL_WCTR") /\ c[2] = Mode(Quiet(m))
                 /\ c[3] = Step("body") /\ c[4] = Command("CTL_WCTR")
                 /\ c[5] = Mode(Quiet(m) \ {"KBDDIS"})
  <1>9. /\ c1 \in Seq(Steps) /\ Len(c1) = 10 /\ Opens(c1, KbdOff)
        /\ c1[6] = Device("RESET_BAT")
        /\ c1[7] = Step("ack")
        /\ c1[8] = Step("recv")
        /\ c1[9] = Step("second")
        /\ c1[10] = Step("restore")
    <2>1. IsCommand(c1, KbdOff, b1)
      BY <1>2, <1>7, CommandSteps
    <2> HIDE DEF c1
    <2>2. /\ c1[5 + 1] = b1[1] /\ c1[5 + 2] = b1[2]
          /\ c1[5 + 3] = b1[3] /\ c1[5 + 4] = b1[4]
      BY <1>7, <2>1 DEF IsCommand, Part
    <2>3. /\ c1 \in Seq(Steps) /\ Len(c1) = 10 /\ Opens(c1, KbdOff)
          /\ c1[10] = Step("restore")
      BY <1>7, <2>1 DEF IsCommand
    <2> QED
      BY <1>7, <2>2, <2>3
  <1>10. /\ c2 \in Seq(Steps) /\ Len(c2) = 8 /\ Opens(c2, KbdOff)
        /\ c2[6] = Device("RESET_DIS")
        /\ c2[7] = Step("ack")
        /\ c2[8] = Step("restore")
    <2>1. IsCommand(c2, KbdOff, b2)
      BY <1>2, <1>b2, CommandSteps
    <2> HIDE DEF c2
    <2>2. /\ c2[5 + 1] = b2[1] /\ c2[5 + 2] = b2[2]
      BY <1>b2, <2>1 DEF IsCommand, Part
    <2>3. /\ c2 \in Seq(Steps) /\ Len(c2) = 8 /\ Opens(c2, KbdOff)
          /\ c2[8] = Step("restore")
      BY <1>b2, <2>1 DEF IsCommand
    <2> QED
      BY <1>b2, <2>2, <2>3
  <1>11. /\ c3 \in Seq(Steps) /\ Len(c3) = 10 /\ Opens(c3, KbdOff)
        /\ c3[6] = Device("SSCANSET")
        /\ c3[7] = Step("ack")
        /\ c3[8] = Device("SET2")
        /\ c3[9] = Step("ack")
        /\ c3[10] = Step("restore")
    <2>1. IsCommand(c3, KbdOff, b3)
      BY <1>2, <1>8, CommandSteps
    <2> HIDE DEF c3
    <2>2. /\ c3[5 + 1] = b3[1] /\ c3[5 + 2] = b3[2]
          /\ c3[5 + 3] = b3[3] /\ c3[5 + 4] = b3[4]
      BY <1>8, <2>1 DEF IsCommand, Part
    <2>3. /\ c3 \in Seq(Steps) /\ Len(c3) = 10 /\ Opens(c3, KbdOff)
          /\ c3[10] = Step("restore")
      BY <1>8, <2>1 DEF IsCommand
    <2> QED
      BY <1>8, <2>2, <2>3
  <1>12. /\ c4 \in Seq(Steps) /\ Len(c4) = 8 /\ Opens(c4, KbdOn)
        /\ c4[6] = Device("ENABLE")
        /\ c4[7] = Step("ack")
        /\ c4[8] = Step("restore")
    <2>1. IsCommand(c4, KbdOn, b4)
      BY <1>2, <1>b4, CommandSteps
    <2> HIDE DEF c4
    <2>2. /\ c4[5 + 1] = b4[1] /\ c4[5 + 2] = b4[2]
      BY <1>b4, <2>1 DEF IsCommand, Part
    <2>3. /\ c4 \in Seq(Steps) /\ Len(c4) = 8 /\ Opens(c4, KbdOn)
          /\ c4[8] = Step("restore")
      BY <1>b4, <2>1 DEF IsCommand
    <2> QED
      BY <1>b4, <2>2, <2>3
  <1> HIDE DEF c1, c2, c3, c4
  <1>13. /\ p2 \in Seq(Steps) /\ Len(p2) = 4
         /\ Part(p2, 0, p1) /\ Part(p2, 1, t1)
    <2>1. IsJoin(p2, p1, t1)
      BY <1>3, <1>4, Joined
    <2> HIDE DEF p2
    <2> QED
      BY <1>3, <1>4, <2>1 DEF IsJoin
  <1> HIDE DEF p2
  <1>14. /\ p3 \in Seq(Steps) /\ Len(p3) = 7
         /\ Part(p3, 0, p2) /\ Part(p3, 4, t2)
    <2>1. IsJoin(p3, p2, t2)
      BY <1>13, <1>4, Joined
    <2> HIDE DEF p3
    <2> QED
      BY <1>13, <1>4, <2>1 DEF IsJoin
  <1> HIDE DEF p3
  <1>15. /\ p4 \in Seq(Steps) /\ Len(p4) = 8
         /\ Part(p4, 0, p3) /\ Part(p4, 7, o1)
    <2>1. IsJoin(p4, p3, o1)
      BY <1>14, <1>3, Joined
    <2> HIDE DEF p4
    <2> QED
      BY <1>14, <1>3, <2>1 DEF IsJoin
  <1> HIDE DEF p4
  <1>16. /\ p5 \in Seq(Steps) /\ Len(p5) = 18
         /\ Part(p5, 0, p4) /\ Part(p5, 8, c1)
    <2>1. IsJoin(p5, p4, c1)
      BY <1>15, <1>9, Joined
    <2> HIDE DEF p5
    <2> QED
      BY <1>15, <1>9, <2>1 DEF IsJoin
  <1> HIDE DEF p5
  <1>17. /\ p6 \in Seq(Steps) /\ Len(p6) = 19
         /\ Part(p6, 0, p5) /\ Part(p6, 18, o2)
    <2>1. IsJoin(p6, p5, o2)
      BY <1>16, <1>3, Joined
    <2> HIDE DEF p6
    <2> QED
      BY <1>16, <1>3, <2>1 DEF IsJoin
  <1> HIDE DEF p6
  <1>18. /\ p7 \in Seq(Steps) /\ Len(p7) = 27
         /\ Part(p7, 0, p6) /\ Part(p7, 19, c2)
    <2>1. IsJoin(p7, p6, c2)
      BY <1>17, <1>10, Joined
    <2> HIDE DEF p7
    <2> QED
      BY <1>17, <1>10, <2>1 DEF IsJoin
  <1> HIDE DEF p7
  <1>19. /\ p8 \in Seq(Steps) /\ Len(p8) = 37
         /\ Part(p8, 0, p7) /\ Part(p8, 27, c3)
    <2>1. IsJoin(p8, p7, c3)
      BY <1>18, <1>11, Joined
    <2> HIDE DEF p8
    <2> QED
      BY <1>18, <1>11, <2>1 DEF IsJoin
  <1> HIDE DEF p8
  <1>20. /\ p9 \in Seq(Steps) /\ Len(p9) = 9
         /\ Part(p9, 0, o3) /\ Part(p9, 1, c4)
    <2>1. IsJoin(p9, o3, c4)
      BY <1>3, <1>12, Joined
    <2> HIDE DEF p9
    <2> QED
      BY <1>3, <1>12, <2>1 DEF IsJoin
  <1> HIDE DEF p9
  <1>21. /\ p \in Seq(Steps) /\ Len(p) = 46
         /\ Part(p, 0, p8) /\ Part(p, 37, p9)
    <2>1. IsJoin(p, p8, p9)
      BY <1>19, <1>20, Joined
    <2> HIDE DEF p
    <2> QED
      BY <1>19, <1>20, <2>1 DEF IsJoin
  <1> HIDE DEF p
  <1>22. Part(p, 0, p7) /\ Part(p, 27, c3)
    <2>1. /\ p8 \in Seq(Steps) /\ p7 \in Seq(Steps) /\ c3 \in Seq(Steps)
          /\ 0 + Len(p7) <= Len(p8) /\ 27 + Len(c3) <= Len(p8)
      BY <1>11, <1>18, <1>19, <1>21
    <2>2. Part(p, 0, p8) /\ Part(p8, 0, p7) /\ Part(p8, 27, c3)
      BY <1>11, <1>18, <1>19, <1>21
    <2> QED
      BY <2>1, <2>2, PartOfStart
  <1>23. Part(p, 0, p6) /\ Part(p, 19, c2)
    <2>1. /\ p7 \in Seq(Steps) /\ p6 \in Seq(Steps) /\ c2 \in Seq(Steps)
          /\ 0 + Len(p6) <= Len(p7) /\ 19 + Len(c2) <= Len(p7)
      BY <1>10, <1>17, <1>18, <1>22
    <2>2. Part(p, 0, p7) /\ Part(p7, 0, p6) /\ Part(p7, 19, c2)
      BY <1>10, <1>17, <1>18, <1>22
    <2> QED
      BY <2>1, <2>2, PartOfStart
  <1>24. Part(p, 0, p5) /\ Part(p, 18, o2)
    <2>1. /\ p6 \in Seq(Steps) /\ p5 \in Seq(Steps) /\ o2 \in Seq(Steps)
          /\ 0 + Len(p5) <= Len(p6) /\ 18 + Len(o2) <= Len(p6)
      BY <1>3, <1>16, <1>17, <1>23
    <2>2. Part(p, 0, p6) /\ Part(p6, 0, p5) /\ Part(p6, 18, o2)
      BY <1>3, <1>16, <1>17, <1>23
    <2> QED
      BY <2>1, <2>2, PartOfStart
  <1>25. Part(p, 0, p4) /\ Part(p, 8, c1)
    <2>1. /\ p5 \in Seq(Steps) /\ p4 \in Seq(Steps) /\ c1 \in Seq(Steps)
          /\ 0 + Len(p4) <= Len(p5) /\ 8 + Len(c1) <= Len(p5)
      BY <1>9, <1>15, <1>16, <1>24
    <2>2. Part(p, 0, p5) /\ Part(p5, 0, p4) /\ Part(p5, 8, c1)
      BY <1>9, <1>15, <1>16, <1>24
    <2> QED
      BY <2>1, <2>2, PartOfStart
  <1>26. Part(p, 0, p3) /\ Part(p, 7, o1)
    <2>1. /\ p4 \in Seq(Steps) /\ p3 \in Seq(Steps) /\ o1 \in Seq(Steps)
          /\ 0 + Len(p3) <= Len(p4) /\ 7 + Len(o1) <= Len(p4)
      BY <1>3, <1>14, <1>15, <1>25
    <2>2. Part(p, 0, p4) /\ Part(p4, 0, p3) /\ Part(p4, 7, o1)
      BY <1>3, <1>14, <1>15, <1>25
    <2> QED
      BY <2>1, <2>2, PartOfStart
  <1>27. Part(p, 0, p2) /\ Part(p, 4, t2)
    <2>1. /\ p3 \in Seq(Steps) /\ p2 \in Seq(Steps) /\ t2 \in Seq(Steps)
          /\ 0 + Len(p2) <= Len(p3) /\ 4 + Len(t2) <= Len(p3)
      BY <1>4, <1>13, <1>14, <1>26
    <2>2. Part(p, 0, p3) /\ Part(p3, 0, p2) /\ Part(p3, 4, t2)
      BY <1>4, <1>13, <1>14, <1>26
    <2> QED
      BY <2>1, <2>2, PartOfStart
  <1>28. Part(p, 0, p1) /\ Part(p, 1, t1)
    <2>1. /\ p2 \in Seq(Steps) /\ p1 \in Seq(Steps) /\ t1 \in Seq(Steps)
          /\ 0 + Len(p1) <= Len(p2) /\ 1 + Len(t1) <= Len(p2)
      BY <1>3, <1>4, <1>13, <1>27
    <2>2. Part(p, 0, p2) /\ Part(p2, 0, p1) /\ Part(p2, 1, t1)
      BY <1>3, <1>4, <1>13, <1>27
    <2> QED
      BY <2>1, <2>2, PartOfStart
  <1>29. /\ p[0 + 1] = p1[1]
    BY <1>3, <1>28 DEF Part
  <1>30. /\ p[1 + 1] = t1[1] /\ p[1 + 2] = t1[2] /\ p[1 + 3] = t1[3]
    BY <1>4, <1>28 DEF Part
  <1>31. /\ p[4 + 1] = t2[1] /\ p[4 + 2] = t2[2] /\ p[4 + 3] = t2[3]
    BY <1>4, <1>27 DEF Part
  <1>32. /\ p[7 + 1] = o1[1]
    BY <1>3, <1>26 DEF Part
  <1>33. /\ p[8 + 1] = c1[1] /\ p[8 + 2] = c1[2] /\ p[8 + 3] = c1[3]
         /\ p[8 + 4] = c1[4] /\ p[8 + 5] = c1[5] /\ p[8 + 6] = c1[6]
         /\ p[8 + 7] = c1[7] /\ p[8 + 8] = c1[8] /\ p[8 + 9] = c1[9]
         /\ p[8 + 10] = c1[10]
    <2>1. \A j \in 1..10 : p[8 + j] = c1[j]
      BY <1>9, <1>25 DEF Part
    <2> QED
      BY <2>1
  <1>34. /\ p[18 + 1] = o2[1]
    BY <1>3, <1>24 DEF Part
  <1>35. /\ p[19 + 1] = c2[1] /\ p[19 + 2] = c2[2] /\ p[19 + 3] = c2[3]
         /\ p[19 + 4] = c2[4] /\ p[19 + 5] = c2[5] /\ p[19 + 6] = c2[6]
         /\ p[19 + 7] = c2[7] /\ p[19 + 8] = c2[8]
    BY <1>10, <1>23 DEF Part
  <1>36. /\ p[27 + 1] = c3[1] /\ p[27 + 2] = c3[2] /\ p[27 + 3] = c3[3]
         /\ p[27 + 4] = c3[4] /\ p[27 + 5] = c3[5] /\ p[27 + 6] = c3[6]
         /\ p[27 + 7] = c3[7] /\ p[27 + 8] = c3[8] /\ p[27 + 9] = c3[9]
         /\ p[27 + 10] = c3[10]
    <2>1. \A j \in 1..10 : p[27 + j] = c3[j]
      BY <1>11, <1>22 DEF Part
    <2> QED
      BY <2>1
  <1>37. /\ p[37 + 1] = p9[1] /\ p[37 + 2] = p9[2] /\ p[37 + 3] = p9[3]
         /\ p[37 + 4] = p9[4] /\ p[37 + 5] = p9[5] /\ p[37 + 6] = p9[6]
         /\ p[37 + 7] = p9[7] /\ p[37 + 8] = p9[8] /\ p[37 + 9] = p9[9]
    BY <1>20, <1>21 DEF Part
  <1>38. /\ p9[0 + 1] = o3[1] /\ p9[1 + 1] = c4[1] /\ p9[1 + 2] = c4[2]
         /\ p9[1 + 3] = c4[3] /\ p9[1 + 4] = c4[4] /\ p9[1 + 5] = c4[5]
         /\ p9[1 + 6] = c4[6] /\ p9[1 + 7] = c4[7] /\ p9[1 + 8] = c4[8]
    BY <1>3, <1>12, <1>20 DEF Part
  <1>39. Opening(8, KbdOff) /\ Opening(19, KbdOff)
    BY <1>1, <1>9, <1>10, <1>33, <1>35 DEF Opening
  <1>40. Opening(27, KbdOff) /\ Opening(38, KbdOn)
    BY <1>1, <1>11, <1>12, <1>36, <1>37, <1>38 DEF Opening
  <1>41. /\ p[1] = Step("flush") /\ p[2] = Command("CTL_TEST")
         /\ p[3] = Step("read") /\ p[4] = Check(ControllerOk)
         /\ p[5] = Command("KBD_TEST") /\ p[6] = Step("read")
         /\ p[7] = Check(KeyboardPortOk) /\ p[8] = SetEbda(KbdOff)
         /\ p[19] = Check(BatOk) /\ p[38] = SetEbda(KbdOn)
    BY <1>3, <1>4, <1>29, <1>30, <1>31, <1>32, <1>34, <1>37, <1>38
  <1>42. /\ p[14] = Device("RESET_BAT") /\ p[15] = Step("ack")
         /\ p[16] = Step("recv") /\ p[17] = Step("second")
         /\ p[18] = Step("restore")
         /\ p[25] = Device("RESET_DIS") /\ p[26] = Step("ack")
         /\ p[27] = Step("restore")
    BY <1>9, <1>10, <1>33, <1>35
  <1>43. /\ p[33] = Device("SSCANSET") /\ p[34] = Step("ack")
         /\ p[35] = Device("SET2") /\ p[36] = Step("ack")
         /\ p[37] = Step("restore")
         /\ p[44] = Device("ENABLE") /\ p[45] = Step("ack")
         /\ p[46] = Step("restore")
    BY <1>11, <1>12, <1>36, <1>37, <1>38
  <1> QED
    BY <1>1, <1>21, <1>39, <1>40, <1>41, <1>42, <1>43

-----------------------------------------------------------------------------
(* Where the driver is.                                                    *)
LEMMA RestSteps ==
    ASSUME NEW i \in 1..46
    PROVE  /\ Rest(i) # <<>> /\ Head(Rest(i)) = KeyboardInit[i]
           /\ Tail(Rest(i)) = Rest(i + 1)
  <1> DEFINE k == KeyboardInit
  <1>1. k \in Seq(Steps) /\ Len(k) = 46
    BY Program
  <1> HIDE DEF k
  <1>2. Rest(i) = SubSeq(k, i, Len(k)) /\ Rest(i + 1) = SubSeq(k, i + 1, Len(k))
    BY DEF Rest, k
  <1>3. /\ Head(SubSeq(k, i, Len(k))) = k[i]
        /\ Tail(SubSeq(k, i, Len(k))) = SubSeq(k, i + 1, Len(k))
    BY <1>1, HeadTailOfSubSeq
  <1>4. Rest(i) \in Seq(Steps) /\ Len(Rest(i)) # 0
    <2>1. ASSUME NEW j \in i..Len(k)
          PROVE  k[j] \in Steps
      <3>1. j \in 1..Len(k)
        BY <1>1
      <3> QED
        BY <1>1, <3>1, ElementOfSeq
    <2>2. /\ SubSeq(k, i, Len(k)) \in Seq(Steps)
          /\ Len(SubSeq(k, i, Len(k))) = IF i <= Len(k) THEN Len(k) - i + 1 ELSE 0
      BY <1>1, <2>1, SubSeqProperties
    <2> QED
      BY <1>1, <1>2, <2>2
  <1>5. Rest(i) # <<>>
    BY <1>4
  <1> QED
    BY <1>2, <1>3, <1>5 DEF k

LEMMA RestInSeq == ASSUME NEW i \in 1..47 PROVE Rest(i) \in Seq(Steps)
  <1> DEFINE k == KeyboardInit
  <1>1. k \in Seq(Steps) /\ Len(k) = 46
    BY Program
  <1>2. Rest(i) = SubSeq(k, i, Len(k))
    BY DEF Rest
  <1> HIDE DEF k
  <1>3. ASSUME NEW j \in i..Len(k)
        PROVE  k[j] \in Steps
    <2>1. j \in 1..Len(k)
      BY <1>1
    <2> QED
      BY <1>1, <2>1, ElementOfSeq
  <1>4. SubSeq(k, i, Len(k)) \in Seq(Steps)
    BY <1>1, <1>3, SubSeqProperties
  <1> QED
    BY <1>2, <1>4

LEMMA RestEnds == Rest(1) = KeyboardInit /\ Rest(47) = <<>>
  <1>1. KeyboardInit \in Seq(Steps) /\ Len(KeyboardInit) = 46
    BY Program
  <1> QED
    BY <1>1, SubSeqFull, SubSeqEmpty DEF Rest

LEMMA WctrFirst ==
    ASSUME NEW m \in SUBSET Bits, NEW s \in Seq(Steps)
    PROVE  /\ Wctr(m) \o s # <<>> /\ Head(Wctr(m) \o s) = Command("CTL_WCTR")
           /\ Tail(Wctr(m) \o s) = <<Mode(m)>> \o s
           /\ <<Mode(m)>> \o s # <<>> /\ Head(<<Mode(m)>> \o s) = Mode(m)
           /\ Tail(<<Mode(m)>> \o s) = s
  <1> DEFINE c == Command("CTL_WCTR")
             d == Mode(m)
  <1>1. c \in Steps /\ d \in Steps
    BY StepsAreSteps DEF Commands
  <1>2. Wctr(m) = <<c, d>>
    BY DEF Wctr
  <1> HIDE DEF c, d
  <1>3. /\ <<c>> \in Seq(Steps) /\ Len(<<c>>) = 1 /\ <<c>>[1] = c
        /\ <<d>> \in Seq(Steps) /\ Len(<<d>>) = 1 /\ <<d>>[1] = d
    BY <1>1
  <1>4. <<c, d>> = <<c>> \o <<d>>
    <2> DEFINE sc == <<c>>
               sd == <<d>>
               e == sc \o sd
    <2>1. IsJoin(e, sc, sd)
      BY <1>3, Joined
    <2>0. Len(sc) = 1 /\ sc[1] = c /\ Len(sd) = 1 /\ sd[1] = d
      BY <1>3
    <2> HIDE DEF e, sc, sd
    <2>2. e \in Seq(Steps) /\ Len(e) = 2 /\ Part(e, 0, sc) /\ Part(e, 1, sd)
      BY <2>0, <2>1 DEF IsJoin
    <2>3. e[0 + 1] = c /\ e[1 + 1] = d
      BY <2>0, <2>2 DEF Part
    <2>4. <<c, d>> \in Seq(Steps) /\ Len(<<c, d>>) = 2
          /\ <<c, d>>[1] = c /\ <<c, d>>[2] = d
      BY <1>1
    <2>5. \A i \in 1..2 : e[i] = <<c, d>>[i]
      BY <2>3, <2>4
    <2>6. e = <<c, d>>
      BY <2>2, <2>4, <2>5, SeqEqual
    <2> QED
      BY <2>6 DEF e, sc, sd
  <1>5. <<c, d>> \o s = <<c>> \o (<<d>> \o s)
    BY <1>3, <1>4, ConcatAssociative
  <1>6. /\ <<d>> \o s \in Seq(Steps) /\ <<d>> \o s # <<>>
        /\ Head(<<d>> \o s) = d /\ Tail(<<d>> \o s) = s
    BY <1>1, Cons
  <1>7. /\ <<c>> \o (<<d>> \o s) # <<>>
        /\ Head(<<c>> \o (<<d>> \o s)) = c /\ Tail(<<c>> \o (<<d>> \o s)) = <<d>> \o s
    BY <1>1, <1>6, Cons
  <1> QED
    BY <1>2, <1>5, <1>6, <1>7 DEF c, d

\* What step i is.
Wctrs == {9, 12, 20, 23, 28, 31, 39, 42}
Modes == {10, 13, 21, 24, 29, 32, 40, 43}
Devices == {14, 25, 33, 35, 44}

LEMMA StepOps ==
    /\ \A c : Command(c).op = "command" /\ Command(c).byte = c
    /\ \A b : Device(b).op = "device" /\ Device(b).byte = b
    /\ \A m : Mode(m).op = "mode" /\ Mode(m).mode = m
    /\ \A op : Step(op).op = op
    /\ \A b : Check(b).op = "check" /\ Check(b).byte = b
    /\ \A m : SetEbda(m).op = "ebda" /\ SetEbda(m).mode = m
  BY DEF Command, Device, Mode, Step, Check, SetEbda

LEMMA Kinds ==
    ASSUME NEW i \in 1..46
    PROVE  LET op == KeyboardInit[i].op
           IN  /\ op = "flush" <=> i = 1
               /\ op = "read" <=> i \in {3, 6}
               /\ op = "check" <=> i \in {4, 7, 19}
               /\ op = "ebda" <=> i \in {8, 38}
               /\ op = "body" <=> i \in {11, 22, 30, 41}
               /\ op = "restore" <=> i \in {18, 27, 37, 46}
               /\ op = "ack" <=> i \in Acks
               /\ op = "recv" <=> i = 16
               /\ op = "second" <=> i = 17
               /\ op = "device" <=> i \in Devices
               /\ op = "mode" <=> i \in Modes
               /\ op = "command" <=> i \in {2, 5} \cup Wctrs
  <1> DEFINE op(k) == KeyboardInit[k].op
  <1> DEFINE k == KeyboardInit
  <1>1. /\ op(1) = "flush" /\ op(2) = "command" /\ op(3) = "read" /\ op(4) = "check"
        /\ op(5) = "command" /\ op(6) = "read" /\ op(7) = "check" /\ op(8) = "ebda"
    <2>1. /\ k[1] = Step("flush") /\ k[2] = Command("CTL_TEST")
          /\ k[3] = Step("read") /\ k[4] = Check(ControllerOk)
          /\ k[5] = Command("KBD_TEST") /\ k[6] = Step("read")
          /\ k[7] = Check(KeyboardPortOk) /\ k[8] = SetEbda(KbdOff)
      BY Program
    <2> QED
      BY <2>1, StepOps
  <1>e. /\ op(14) = "device" /\ op(15) = "ack" /\ op(16) = "recv"
        /\ op(17) = "second" /\ op(18) = "restore" /\ op(19) = "check"
        /\ op(25) = "device" /\ op(26) = "ack" /\ op(27) = "restore"
    <2>1. /\ k[14] = Device("RESET_BAT") /\ k[15] = Step("ack")
          /\ k[16] = Step("recv") /\ k[17] = Step("second")
          /\ k[18] = Step("restore") /\ k[19] = Check(BatOk)
          /\ k[25] = Device("RESET_DIS") /\ k[26] = Step("ack")
          /\ k[27] = Step("restore")
      BY Program
    <2> QED
      BY <2>1, StepOps
  <1>f. /\ op(33) = "device" /\ op(34) = "ack" /\ op(35) = "device"
        /\ op(36) = "ack" /\ op(37) = "restore" /\ op(38) = "ebda"
        /\ op(44) = "device" /\ op(45) = "ack" /\ op(46) = "restore"
    <2>1. /\ k[33] = Device("SSCANSET") /\ k[34] = Step("ack")
          /\ k[35] = Device("SET2") /\ k[36] = Step("ack")
          /\ k[37] = Step("restore") /\ k[38] = SetEbda(KbdOn)
          /\ k[44] = Device("ENABLE") /\ k[45] = Step("ack")
          /\ k[46] = Step("restore")
      BY Program
    <2> QED
      BY <2>1, StepOps
  <1>2. ASSUME NEW j \in Nat, NEW m, Opening(j, m)
        PROVE  /\ op(j + 1) = "command" /\ op(j + 2) = "mode" /\ op(j + 3) = "body"
               /\ op(j + 4) = "command" /\ op(j + 5) = "mode"
    BY <1>2, StepOps DEF Opening
  <1> HIDE DEF op
  <1>o. /\ Opening(8, KbdOff) /\ Opening(19, KbdOff)
        /\ Opening(27, KbdOff) /\ Opening(38, KbdOn)
    BY Program
  <1>a. /\ op(8 + 1) = "command" /\ op(8 + 2) = "mode" /\ op(8 + 3) = "body"
        /\ op(8 + 4) = "command" /\ op(8 + 5) = "mode"
    BY <1>2, <1>o
  <1>b. /\ op(19 + 1) = "command" /\ op(19 + 2) = "mode" /\ op(19 + 3) = "body"
        /\ op(19 + 4) = "command" /\ op(19 + 5) = "mode"
    BY <1>2, <1>o
  <1>c. /\ op(27 + 1) = "command" /\ op(27 + 2) = "mode" /\ op(27 + 3) = "body"
        /\ op(27 + 4) = "command" /\ op(27 + 5) = "mode"
    BY <1>2, <1>o
  <1>d. /\ op(38 + 1) = "command" /\ op(38 + 2) = "mode" /\ op(38 + 3) = "body"
        /\ op(38 + 4) = "command" /\ op(38 + 5) = "mode"
    BY <1>2, <1>o
  <1>3. /\ op(9) = "command" /\ op(10) = "mode" /\ op(11) = "body"
        /\ op(12) = "command" /\ op(13) = "mode"
        /\ op(20) = "command" /\ op(21) = "mode" /\ op(22) = "body"
        /\ op(23) = "command" /\ op(24) = "mode"
        /\ op(28) = "command" /\ op(29) = "mode" /\ op(30) = "body"
        /\ op(31) = "command" /\ op(32) = "mode"
        /\ op(39) = "command" /\ op(40) = "mode" /\ op(41) = "body"
        /\ op(42) = "command" /\ op(43) = "mode"
    BY <1>a, <1>b, <1>c, <1>d
  <1>4. \/ i = 1 /\ op(i) = "flush"
        \/ i \in {3, 6} /\ op(i) = "read"
        \/ i \in {4, 7, 19} /\ op(i) = "check"
        \/ i \in {8, 38} /\ op(i) = "ebda"
        \/ i \in {11, 22, 30, 41} /\ op(i) = "body"
        \/ i \in {18, 27, 37, 46} /\ op(i) = "restore"
        \/ i \in Acks /\ op(i) = "ack"
        \/ i = 16 /\ op(i) = "recv"
        \/ i = 17 /\ op(i) = "second"
        \/ i \in Devices /\ op(i) = "device"
        \/ i \in Modes /\ op(i) = "mode"
        \/ i \in {2, 5} \cup Wctrs /\ op(i) = "command"
    BY <1>1, <1>e, <1>f, <1>3 DEF Acks, Devices, Modes, Wctrs
  <1> QED
    BY <1>4 DEF op, Acks, Devices, Modes, Wctrs

LEMMA Values ==
    /\ \A i \in Wctrs : KeyboardInit[i] = Command("CTL_WCTR")
    /\ KeyboardInit[2] = Command("CTL_TEST") /\ KeyboardInit[5] = Command("KBD_TEST")
    /\ \A i \in Modes : \E m \in SUBSET Bits :
           KeyboardInit[i] = Mode(m) /\ "KBDINT" \notin m
    /\ KeyboardInit[8].mode = KbdOff /\ KeyboardInit[38].mode = KbdOn
    /\ KeyboardInit[14] = Device("RESET_BAT") /\ KeyboardInit[44] = Device("ENABLE")
    /\ \A i \in Devices \ {14} : KeyboardInit[i].byte # "RESET_BAT"
    /\ \A i \in 1..46 : KeyboardInit[i] \in Steps
  <1> DEFINE k == KeyboardInit
  <1>o. /\ Opening(8, KbdOff) /\ Opening(19, KbdOff)
        /\ Opening(27, KbdOff) /\ Opening(38, KbdOn)
    BY Program
  <1>w. LET c == Command("CTL_WCTR")
        IN  /\ k[8 + 1] = c /\ k[8 + 4] = c /\ k[19 + 1] = c /\ k[19 + 4] = c
            /\ k[27 + 1] = c /\ k[27 + 4] = c /\ k[38 + 1] = c /\ k[38 + 4] = c
    BY <1>o DEF Opening
  <1>1. \A i \in Wctrs : k[i] = Command("CTL_WCTR")
    BY <1>w DEF Wctrs
  <1>2. ASSUME NEW i \in Modes
        PROVE  \E m \in SUBSET Bits : KeyboardInit[i] = Mode(m) /\ "KBDINT" \notin m
    <2> DEFINE Ok(m) == m \in SUBSET Bits /\ "KBDINT" \notin m
    <2>1. /\ Ok(Quiet(KbdOff)) /\ Ok(Quiet(KbdOff) \ {"KBDDIS"})
          /\ Ok(Quiet(KbdOn)) /\ Ok(Quiet(KbdOn) \ {"KBDDIS"})
      BY ModesAreBits DEF Quiet
    <2>2. \E m \in {Quiet(KbdOff), Quiet(KbdOff) \ {"KBDDIS"},
                    Quiet(KbdOn), Quiet(KbdOn) \ {"KBDDIS"}} :
            KeyboardInit[i] = Mode(m)
      <3>1. /\ KeyboardInit[8 + 2] = Mode(Quiet(KbdOff))
            /\ KeyboardInit[8 + 5] = Mode(Quiet(KbdOff) \ {"KBDDIS"})
            /\ KeyboardInit[19 + 2] = Mode(Quiet(KbdOff))
            /\ KeyboardInit[19 + 5] = Mode(Quiet(KbdOff) \ {"KBDDIS"})
            /\ KeyboardInit[27 + 2] = Mode(Quiet(KbdOff))
            /\ KeyboardInit[27 + 5] = Mode(Quiet(KbdOff) \ {"KBDDIS"})
            /\ KeyboardInit[38 + 2] = Mode(Quiet(KbdOn))
            /\ KeyboardInit[38 + 5] = Mode(Quiet(KbdOn) \ {"KBDDIS"})
        BY <1>o DEF Opening
      <3> QED
        BY <3>1 DEF Modes
    <2> QED
      BY <2>1, <2>2
  <1>3. ASSUME NEW i \in 1..46
        PROVE  KeyboardInit[i] \in Steps
    <2>1. KeyboardInit \in Seq(Steps) /\ Len(KeyboardInit) = 46
      BY Program
    <2> QED
      BY <2>1, ElementOfSeq
  <1>5. /\ k[25] = Device("RESET_DIS") /\ k[33] = Device("SSCANSET")
        /\ k[35] = Device("SET2") /\ k[44] = Device("ENABLE")
    BY Program
  <1>4. ASSUME NEW i \in Devices \ {14}
        PROVE  KeyboardInit[i].byte # "RESET_BAT"
    BY <1>5, StepOps DEF Devices
  <1>6. k[8].mode = KbdOff /\ k[38].mode = KbdOn
    <2>1. k[8] = SetEbda(KbdOff) /\ k[38] = SetEbda(KbdOn)
      BY Program
    <2> QED
      BY <2>1, StepOps
  <1> QED
    BY <1>1, <1>2, <1>3, <1>4, <1>6, Program

LEMMA StepKinds ==
    ASSUME NEW s \in Steps
    PROVE  /\ s.op = "mode" => \E m \in SUBSET Bits : s = Mode(m)
           /\ s.op = "ebda" => \E m \in SUBSET Bits : s = SetEbda(m)
           /\ s.op = "command" => \E c \in Commands : s = Command(c)
           /\ s.op = "device" => \E b \in DeviceBytes : s = Device(b)
           /\ s.op = "check" => \E b \in 0..255 : s = Check(b)
  <1>1. CASE s \in {Command(c) : c \in Commands}
    <2>1. PICK c \in Commands : s = Command(c)
      BY <1>1
    <2> QED
      BY <2>1, StepOps
  <1>2. CASE s \in {Device(b) : b \in DeviceBytes}
    <2>1. PICK b \in DeviceBytes : s = Device(b)
      BY <1>2
    <2> QED
      BY <2>1, StepOps
  <1>3. CASE s \in {Mode(m) : m \in SUBSET Bits}
    <2>1. PICK m \in SUBSET Bits : s = Mode(m)
      BY <1>3
    <2> QED
      BY <2>1, StepOps
  <1>4. CASE s \in {Step(op) : op \in Ops}
    <2>1. PICK op \in Ops : s = Step(op)
      BY <1>4
    <2> QED
      BY <2>1, StepOps DEF Ops
  <1>5. CASE s \in {Check(b) : b \in 0..255}
    <2>1. PICK b \in 0..255 : s = Check(b)
      BY <1>5
    <2> QED
      BY <2>1, StepOps
  <1>6. CASE s \in {SetEbda(m) : m \in SUBSET Bits}
    <2>1. PICK m \in SUBSET Bits : s = SetEbda(m)
      BY <1>6
    <2> QED
      BY <2>1, StepOps
  <1> QED
    BY <1>1, <1>2, <1>3, <1>4, <1>5, <1>6 DEF Steps

\* The driver is at step i of keyboard_init.
At(i) ==
    /\ todo = Rest(i) /\ todo # <<>>
    /\ Head(todo) = KeyboardInit[i] /\ Tail(todo) = Rest(i + 1)

LEMMA RestoringSteps ==
    ASSUME NEW m \in SUBSET Bits, NEW i \in AfterRestore
    PROVE  LET a == Wctr(m) \o Rest(i)
               b == <<Mode(m)>> \o Rest(i)
           IN  /\ a # <<>> /\ Head(a) = Command("CTL_WCTR") /\ Tail(a) = b
               /\ b # <<>> /\ Head(b) = Mode(m) /\ Tail(b) = Rest(i)
               /\ a # Rest(i) /\ b # Rest(i) /\ Rest(i) \in Seq(Steps)
  <1>1. i \in 1..47
    BY DEF AfterRestore
  <1>2. Rest(i) \in Seq(Steps)
    BY <1>1, RestInSeq
  <1>3. Rest(i) = <<>> \/ Head(Rest(i)) = KeyboardInit[i]
    <2>1. CASE i = 47
      BY <2>1, RestEnds
    <2>2. CASE i # 47
      <3>1. i \in 1..46
        BY <1>1, <2>2
      <3> QED
        BY <3>1, RestSteps
    <2> QED
      BY <2>1, <2>2
  <1>4. Rest(i) # <<>> => Head(Rest(i)) # Mode(m)
    <2>1. i \in 1..46 => KeyboardInit[i].op # "mode"
      BY Kinds DEF AfterRestore, Modes
    <2> QED
      BY <1>1, <1>3, <2>1, RestEnds, StepOps
  <1>5. Len(Wctr(m) \o Rest(i)) = Len(Rest(i)) + 2
    <2> DEFINE w == Wctr(m)
               r == Rest(i)
    <2>1. w \in Seq(Steps) /\ Len(w) = 2 /\ r \in Seq(Steps)
      BY <1>2, WctrSteps
    <2> HIDE DEF w, r
    <2>2. IsJoin(w \o r, w, r)
      BY <2>1, Joined
    <2>3. Len(w \o r) = 2 + Len(r) /\ Len(r) \in Nat
      BY <2>1, <2>2 DEF IsJoin
    <2> QED
      BY <2>3 DEF w, r
  <1>6. Wctr(m) \o Rest(i) # Rest(i)
    <2>1. Len(Rest(i)) \in Nat
      BY <1>2
    <2> QED
      BY <1>5, <2>1
  <1> QED
    BY <1>2, <1>4, <1>6, WctrFirst

LEMMA FailedSteps ==
    ASSUME NEW m \in SUBSET Bits
    PROVE  LET a == Wctr(m)
               b == <<Mode(m)>>
           IN  /\ a # <<>> /\ Head(a) = Command("CTL_WCTR") /\ Tail(a) = b
               /\ b # <<>> /\ Head(b) = Mode(m) /\ Tail(b) = <<>>
  <1>1. <<>> \in Seq(Steps)
    OBVIOUS
  <1>2. Wctr(m) \in Seq(Steps)
    BY WctrSteps
  <1>3. Mode(m) \in Steps
    BY StepsAreSteps
  <1>4. <<Mode(m)>> \in Seq(Steps)
    BY <1>3
  <1>5. Wctr(m) \o <<>> = Wctr(m) /\ <<Mode(m)>> \o <<>> = <<Mode(m)>>
    BY <1>2, <1>4, ConcatEmptySeq
  <1> QED
    BY <1>1, <1>5, WctrFirst

LEMMA Position ==
    ASSUME TypeOK, DriverInv, todo # <<>>
    PROVE  \/ \E i \in 1..46 : Running(i) /\ At(i)
           \/ \E i \in AfterRestore : Running(i) /\ Restoring(i)
           \/ Failed
  <1> SUFFICES ASSUME NEW i \in 1..47, Running(i)
               PROVE  (i \in 1..46 /\ At(i)) \/ (i \in AfterRestore /\ Restoring(i))
    BY DEF DriverInv
  <1>1. todo = Rest(i) \/ Restoring(i)
    BY DEF Running, Control
  <1>2. CASE todo = Rest(i)
    <2>1. i # 47
      BY <1>2, RestEnds
    <2>2. i \in 1..46
      BY <2>1
    <2> QED
      BY <1>2, <2>2, RestSteps DEF At
  <1>3. Restoring(i) => i \in AfterRestore
    BY DEF Restoring
  <1> QED
    BY <1>1, <1>2, <1>3

\* Only commands and modes are written while a mode is restored.
LEMMA Where ==
    ASSUME TypeOK, DriverInv, NEW ops, Doing(ops), "command" \notin ops, "mode" \notin ops
    PROVE  \E i \in 1..46 : Running(i) /\ At(i) /\ KeyboardInit[i].op \in ops
  <1>1. todo # <<>> /\ Head(todo).op \in ops /\ ps2ctr \in SUBSET Bits
    BY DEF Doing, TypeOK
  <1>2. ASSUME NEW i \in AfterRestore, Restoring(i)
        PROVE  FALSE
    <2>1. Head(todo) \in {Command("CTL_WCTR"), Mode(ps2ctr)}
      BY <1>1, <1>2, RestoringSteps DEF Restoring
    <2> QED
      BY <1>1, <2>1, StepOps
  <1>3. ASSUME Failed
        PROVE  FALSE
    <2>1. Head(todo) \in {Command("CTL_WCTR"), Mode(ps2ctr)}
      BY <1>1, <1>3, FailedSteps DEF Failed
    <2> QED
      BY <1>1, <2>1, StepOps
  <1> QED
    BY <1>1, <1>2, <1>3, Position DEF At

-----------------------------------------------------------------------------
(* Steps that bring no reply.                                              *)

\* Bytes may have come, but no reply.
Quietly ==
    \A j \in Slots' :
        \/ j \in Slots /\ Slot(j)' = Slot(j)
        \/ /\ Slot(j)'.of = 0
           /\ Slot(j)'.from = "mouse" \/ Slot(j)'.byte \notin {Ack, Nak}
Longer ==
    /\ Len(kbdQueue) <= Len(kbdQueue')
    /\ \A j \in 1..Len(kbdQueue) : kbdQueue'[j] = kbdQueue[j]
NothingSent == Holding("device")' => ibf' = ibf
SameQueue == kbdQueue' = kbdQueue \/ (~selfTest /\ Longer)

LEMMA QuietBytes ==
    ASSUME Quietly
    PROVE  /\ NoAnswer => NoAnswer'
           /\ NoReply => NoReply'
           /\ \A j \in Slots' : IsAnswer(Slot(j)') => j \in Slots /\ Slot(j)' = Slot(j)
  <1>1. \A j \in Slots' : IsAnswer(Slot(j)') => j \in Slots /\ Slot(j)' = Slot(j)
    BY DEF Quietly, IsAnswer
  <1>2. NoAnswer => NoAnswer'
    BY <1>1 DEF NoAnswer
  <1>3. NoReply => NoReply'
    BY DEF NoReply, Quietly
  <1> QED
    BY <1>1, <1>2, <1>3

LEMMA QuietReplying ==
    ASSUME Replying, Quietly, sent' = sent, selfTest' = selfTest, NothingSent
    PROVE  Replying'
  <1>1. \A j \in Slots' : Slot(j)'.of = 0 =>
            Slot(j)'.from = "mouse" \/ Slot(j)'.byte \notin {Ack, Nak}
    BY DEF Replying, Quietly
  <1>2. NoReply => NoReply'
    BY QuietBytes
  <1>3. Holding("device")' => Holding("device")
    BY DEF Holding, NothingSent
  <1> QED
    BY <1>1, <1>2, <1>3 DEF Replying

LEMMA QuietKeyboard ==
    ASSUME TypeOK, Quietly, SameQueue, NEW i \in 1..47, Keyboard(i),
           sent' = sent, NothingSent, UNCHANGED <<scanning, selfTest>>,
           i = 16 => obf' = obf \/ (NotWanted /\ NotWanted')
    PROVE  Keyboard(i)'
  <1>1. Holding("device")' => Holding("device") /\ ibf' = ibf
    BY DEF Holding, NothingSent
  <1>2. kbdQueue \in Seq(KeyboardBytes) /\ Len(kbdQueue) \in Nat
    BY DEF TypeOK
  <1>3. CASE i \in Acks
    <2>1. ASSUME NEW j \in Slots', IsAnswer(Slot(j)')
          PROVE  Answered(i, j)'
      <3>1. j \in Slots /\ Slot(j)' = Slot(j) /\ IsAnswer(Slot(j))
        BY <2>1, QuietBytes
      <3>2. Answered(i, j)
        BY <1>3, <3>1 DEF Keyboard
      <3>3. ASSUME NEW k \in Slots', k > j
            PROVE  ~IsAnswer(Slot(k)') /\ (i >= 26 => Slot(k)'.of = 0)
        <4>1. ~IsAnswer(Slot(k)')
          BY <3>2, <3>3, QuietBytes DEF Answered
        <4>2. i >= 26 => Slot(k)'.of = 0
          BY <3>2, <3>3 DEF Answered, Quietly
        <4> QED
          BY <4>1, <4>2
      <3>4. i = 15 /\ Slot(j)'.byte = Ack =>
              IF selfTest' THEN j = Len(kbdQueue')
              ELSE j < Len(kbdQueue') /\ kbdQueue'[j + 1].of = sent'
        <4> SUFFICES ASSUME i = 15, Slot(j)'.byte = Ack
                     PROVE  IF selfTest' THEN j = Len(kbdQueue')
                            ELSE j < Len(kbdQueue') /\ kbdQueue'[j + 1].of = sent'
          OBVIOUS
        <4>1. IF selfTest THEN j = Len(kbdQueue)
              ELSE j < Len(kbdQueue) /\ kbdQueue[j + 1].of = sent
          BY <3>1, <3>2 DEF Answered
        <4>2. CASE kbdQueue' = kbdQueue
          BY <4>1, <4>2
        <4>3. CASE ~selfTest /\ Longer
          <5>1. j < Len(kbdQueue) /\ kbdQueue[j + 1].of = sent
            BY <4>1, <4>3
          <5>2. j \in Nat
            BY <3>1, <1>2 DEF Slots
          <5>3. j + 1 \in 1..Len(kbdQueue)
            BY <1>2, <5>1, <5>2
          <5>4. kbdQueue'[j + 1] = kbdQueue[j + 1]
            BY <4>3, <5>3 DEF Longer
          <5>5. j < Len(kbdQueue')
            BY <1>2, <4>3, <5>1, <5>2 DEF Longer
          <5> QED
            BY <4>3, <5>1, <5>4, <5>5
        <4> QED
          BY <4>2, <4>3 DEF SameQueue
      <3>5. i = 45 /\ Slot(j)'.byte = Ack => scanning'
        BY <3>1, <3>2 DEF Answered
      <3> QED
        BY <3>1, <3>2, <3>3, <3>4, <3>5 DEF Answered
    <2>2. Holding("device")' => ibf'[1] = KeyboardInit[i - 1] /\ NoAnswer' /\ ~selfTest'
      BY <1>1, <1>3, QuietBytes DEF Keyboard
    <2> QED
      BY <1>3, <2>1, <2>2 DEF Keyboard, Acks
  <1>4. CASE i \notin Acks /\ i # 16
    BY <1>1, <1>4, QuietBytes DEF Keyboard, Acks
  <1>5. CASE i = 16
    <2>1. FirstIsResult
      BY <1>5 DEF Keyboard
    <2>2. FirstIsResult'
      <3>1. kbdQueue # <<>> /\ kbdQueue[1].of = sent /\ ~selfTest
              => kbdQueue' # <<>> /\ kbdQueue'[1].of = sent
        BY <1>2 DEF SameQueue, Longer
      <3>2. selfTest => kbdQueue' = kbdQueue
        BY DEF SameQueue
      <3> QED
        BY <1>5, <2>1, <3>1, <3>2 DEF FirstIsResult, NotWanted
    <2> QED
      BY <1>1, <1>5, <2>2, QuietBytes DEF Keyboard, Acks
  <1> QED
    BY <1>3, <1>4, <1>5 DEF Acks

-----------------------------------------------------------------------------
(* The driver's steps.                                                     *)

\* What all of them leave alone that write nothing to a port.
Still ==
    /\ obf' \in {obf, <<>>}
    /\ UNCHANGED <<sent, ibf, wantsCtr, ctr, keyboardVars>>
Writes == {2, 5} \cup Wctrs \cup Modes \cup Devices

LEMMA StillQuiet ==
    ASSUME TypeOK, Still
    PROVE  Quietly /\ SameQueue /\ (Replying => Replying')
  <1>1. Quietly
    BY DEF Quietly, Slots, Slot, Still, keyboardVars
  <1>2. SameQueue
    BY DEF SameQueue, Still, keyboardVars
  <1>3. Replying => Replying'
    BY <1>1, QuietReplying DEF Still, NothingSent, keyboardVars
  <1> QED
    BY <1>1, <1>2, <1>3

LEMMA StillKeyboard ==
    ASSUME TypeOK, Still, NEW i \in 1..47, Keyboard(i),
           i = 16 => obf' = obf \/ NotWanted
    PROVE  Keyboard(i)'
  <1>1. i = 16 => obf' = obf \/ (NotWanted /\ NotWanted')
    BY DEF Still, NotWanted
  <1>2. sent' = sent /\ NothingSent /\ UNCHANGED <<scanning, selfTest>>
    BY DEF Still, NothingSent, keyboardVars
  <1> QED
    BY <1>1, <1>2, StillQuiet, QuietKeyboard

LEMMA NextKeyboard ==
    ASSUME NEW i \in 1..46, Keyboard(i)', i \notin Acks \cup {16}, i + 1 \notin Acks
    PROVE  Keyboard(i + 1)'
  <1>1. i # 15 /\ i # 26 /\ i # 45 /\ i # 16
    BY DEF Acks
  <1>2. i + 1 # 16 /\ (i + 1 >= 27 => i >= 27) /\ (i + 1 >= 46 => i >= 46)
    BY <1>1
  <1>3. ~Holding("device")' /\ NoAnswer' /\ (i >= 27 => NoReply') /\ ~selfTest'
        /\ (i >= 46 => scanning')
    BY <1>1 DEF Keyboard
  <1> QED
    BY <1>2, <1>3 DEF Keyboard

LEMMA StillController ==
    ASSUME Still, NEW i \in 1..47, Controller(i), ps2ctr' = ps2ctr,
           todo' = Rest(i) => todo = Rest(i)
    PROVE  Controller(i)'
  BY DEF Still, Controller, Holding, HoldingWctr, Latest

LEMMA NextController ==
    ASSUME Still, NEW i \in 1..46, Controller(i), i \notin Writes, i \notin {18, 46}
    PROVE  Controller(i + 1)'
  <1>1. i # 9 /\ i # 10 /\ i # 12 /\ i + 1 \notin {19, 47}
    BY DEF Writes, Wctrs, Modes
  <1>2. /\ i + 1 \in 11..46 => i \in 11..46
        /\ i + 1 >= 13 => i >= 13
        /\ i + 1 >= 10 => i >= 10
    BY <1>1
  <1>3. ctr' = ctr /\ \A op : Holding(op)' <=> Holding(op)
    BY DEF Still, Holding
  <1>4. ibf' = ibf /\ (HoldingWctr' <=> HoldingWctr)
    BY DEF Still, Holding, HoldingWctr
  <1>5. i + 1 \in 11..46 =>
            /\ Holding("mode")' => "KBDINT" \notin ibf'[1].mode
            /\ i + 1 >= 13 \/ ~Holding("mode")' => "KBDINT" \notin ctr'
    BY <1>2, <1>3, <1>4 DEF Controller
  <1>6. i + 1 >= 10 /\ Holding("command")' => HoldingWctr'
    BY <1>2, <1>3, <1>4 DEF Controller
  <1> QED
    BY <1>1, <1>5, <1>6 DEF Controller

LEMMA StillPairing ==
    ASSUME Pairing, Still, todo # <<>>, Head(todo).op \notin {"mode", "command"},
           todo' # <<>> => Head(todo').op # "mode"
    PROVE  Pairing'
  <1>1. Head(todo) # Command("CTL_WCTR")
    BY StepOps
  <1>2. UNCHANGED <<ibf, wantsCtr>>
    BY DEF Still
  <1>3. Holding("mode") \/ (~wantsCtr /\ ~HoldingWctr)
    BY <1>1 DEF Pairing
  <1> QED
    BY <1>2, <1>3 DEF Pairing, Holding, HoldingWctr

LEMMA SamePairing ==
    ASSUME Pairing, UNCHANGED <<ibf, wantsCtr, todo>>
    PROVE  Pairing'
  BY DEF Pairing, Holding, HoldingWctr

\* The first step of what is left is not a mode.
LEMMA NoModeNext ==
    ASSUME NEW i \in 1..46, i \notin Wctrs
    PROVE  Rest(i + 1) # <<>> => Head(Rest(i + 1)).op # "mode"
  <1>1. CASE i = 46
    BY <1>1, RestEnds
  <1>2. CASE i # 46
    <2>1. i + 1 \in 1..46
      BY <1>2
    <2>2. i + 1 \notin Modes
      BY <2>1 DEF Wctrs, Modes
    <2>3. KeyboardInit[i + 1].op # "mode"
      BY <2>1, <2>2, Kinds
    <2>4. Head(Rest(i + 1)) = KeyboardInit[i + 1]
      BY <2>1, RestSteps
    <2> QED
      BY <2>3, <2>4
  <1> QED
    BY <1>1, <1>2

LEMMA GivesUp ==
    ASSUME TypeOK, Pairing, Replying, Still, GiveUp, ps2ctr' = ps2ctr,
           (\E i \in 1..47 : Running(i)) \/ Failed
    PROVE  Ps2Inv'
  <1>0. ps2ctr \in SUBSET Bits
    BY DEF TypeOK
  <1>1. saved = <<>> \/ (saved = <<ps2ctr>> /\ "KBDINT" \notin ctr
                          /\ (Holding("mode") => "KBDINT" \notin ibf[1].mode))
        \/ (saved = <<ps2ctr>> /\ sent = 0)
    <2>1. ASSUME NEW i \in 1..47, Running(i)
          PROVE  saved = <<>> \/ (saved = <<ps2ctr>> /\ "KBDINT" \notin ctr
                          /\ (Holding("mode") => "KBDINT" \notin ibf[1].mode))
                 \/ (saved = <<ps2ctr>> /\ sent = 0)
      <3>1. saved = IF i \in InBody THEN <<ps2ctr>> ELSE <<>>
        BY <2>1 DEF Running, Control
      <3>2. i \in InBody => i \in 11..46 /\ (i >= 13 \/ i <= 14)
        BY DEF InBody
      <3>3. i <= 14 => sent = 0
        BY <2>1 DEF Running, Control
      <3> QED
        BY <2>1, <3>1, <3>2, <3>3 DEF Running, Controller
    <2>2. Failed => saved = <<>>
      BY DEF Failed
    <2> QED
      BY <2>1, <2>2
  <1>2. Failed'
    <2>1. CASE saved = <<>>
      BY <2>1 DEF GiveUp, GoTo, Failed
    <2>2. CASE saved # <<>>
      <3>1. todo' = Wctr(ps2ctr) /\ ret' = "failed" /\ saved' = <<>>
        BY <1>1, <2>2 DEF GiveUp, GoTo
      <3>2. todo' # <<>>
        BY <1>0, <3>1, FailedSteps
      <3>3. sent' > 0 => "KBDINT" \notin ctr' /\ (Holding("mode")' => "KBDINT" \notin ibf'[1].mode)
        BY <1>1, <2>2 DEF Still, Holding, TypeOK
      <3> QED
        BY <3>1, <3>2, <3>3 DEF Failed
    <2> QED
      BY <2>1, <2>2
  <1>3. Pairing'
    <2>1. todo' = <<>> \/ Head(todo') = Command("CTL_WCTR")
      <3>1. todo' \in {<<>>, Wctr(ps2ctr)}
        BY <1>1 DEF GiveUp, GoTo
      <3> QED
        BY <1>0, <3>1, FailedSteps
    <2>2. Command("CTL_WCTR").op # "mode"
      BY StepOps
    <2> QED
      BY <2>1, <2>2 DEF Pairing, Still, Holding
  <1>4. Replying'
    BY StillQuiet
  <1> QED
    BY <1>2, <1>3, <1>4 DEF Ps2Inv, DriverInv

LEMMA Retries ==
    ASSUME TypeOK, Ps2Inv, Still, UNCHANGED <<todo, ret, saved, ps2ctr>>,
           Doing({"recv"}) => obf' = obf \/ NotWanted
    PROVE  Ps2Inv'
  <1>1. Pairing' /\ Replying'
    BY SamePairing, StillQuiet DEF Ps2Inv, Still
  <1>2. Failed => Failed'
    BY DEF Failed, Still, Holding, Latest
  <1>3. ASSUME NEW i \in 1..47, Running(i)
        PROVE  Running(i)'
    <2>1. Control(i)'
      BY <1>3 DEF Running, Control, Restoring, Still
    <2>2. Controller(i)'
      BY <1>3, StillController DEF Running
    <2>3. i = 16 => Doing({"recv"})
      <3> SUFFICES ASSUME i = 16 PROVE Doing({"recv"})
        OBVIOUS
      <3>1. todo = Rest(16)
        BY <1>3 DEF Running, Control, Restoring, AfterRestore
      <3>2. Rest(16) # <<>> /\ Head(Rest(16)) = KeyboardInit[16]
        BY RestSteps
      <3>3. KeyboardInit[16].op = "recv"
        BY Kinds
      <3> QED
        BY <3>1, <3>2, <3>3 DEF Doing
    <2>4. Keyboard(i)'
      BY <1>3, <2>3, StillKeyboard DEF Running
    <2> QED
      BY <2>1, <2>2, <2>4 DEF Running
  <1> QED
    BY <1>1, <1>2, <1>3 DEF Ps2Inv, DriverInv

LEMMA NextControl ==
    ASSUME NEW i \in 1..46, Control(i), GoTo(Rest(i + 1)),
           UNCHANGED <<ret, sent, ps2ctr, saved>>,
           i \notin {8, 14, 38} \cup {11, 22, 30, 41} \cup {18, 27, 37, 46}
    PROVE  Control(i + 1)'
  <1>1. /\ i + 1 \in InBody <=> i \in InBody
        /\ i + 1 <= 8 <=> i <= 8
        /\ i + 1 <= 38 <=> i <= 38
        /\ i + 1 <= 14 <=> i <= 14
    BY DEF InBody
  <1> QED
    BY <1>1 DEF Control, GoTo

LEMMA Advances ==
    ASSUME TypeOK, Ps2Inv, Still, NEW i \in 1..46, Running(i), At(i),
           i \notin Writes, i \notin Acks \cup {16, 18, 46},
           GoTo(Rest(i + 1)), Control(i + 1)'
    PROVE  Ps2Inv'
  <1>1. i + 1 \notin Acks
    BY DEF Writes, Devices, Acks
  <1>2. Controller(i + 1)' /\ Keyboard(i + 1)'
    BY <1>1, NextController, StillKeyboard, NextKeyboard DEF Running
  <1>3. Replying'
    BY StillQuiet DEF Ps2Inv
  <1>4. Pairing'
    <2>1. Head(todo).op \notin {"mode", "command"}
      <3>1. KeyboardInit[i].op \notin {"mode", "command"}
        BY Kinds DEF Writes
      <3> QED
        BY <3>1 DEF At
    <2>2. todo' # <<>> => Head(todo').op # "mode"
      BY NoModeNext DEF GoTo, Writes
    <2> QED
      BY <2>1, <2>2, StillPairing DEF Ps2Inv, At
  <1>5. i + 1 \in 1..47
    OBVIOUS
  <1> QED
    BY <1>2, <1>3, <1>4, <1>5 DEF Ps2Inv, DriverInv, Running

LEMMA FlushKeeps ==
    ASSUME TypeOK, Ps2Inv, Flush
    PROVE  Ps2Inv'
  <1>1. PICK i \in 1..46 : Running(i) /\ At(i) /\ KeyboardInit[i].op \in {"flush"}
    BY Where DEF Flush, Ps2Inv
  <1>2. i = 1
    BY <1>1, Kinds
  <1>3. Still /\ UNCHANGED <<sent, ps2ctr>>
    BY DEF Flush, Still, keyboardVars
  <1>4. CASE GiveUp
    BY <1>1, <1>3, <1>4, GivesUp DEF Ps2Inv
  <1>5. CASE Advance
    <2>1. GoTo(Rest(i + 1)) /\ UNCHANGED <<ret, saved>>
      BY <1>1, <1>5 DEF Advance, At
    <2>2. Control(i + 1)'
      BY <1>1, <1>2, <1>3, <2>1, NextControl DEF Running
    <2> QED
      BY <1>1, <1>2, <1>3, <2>1, <2>2, Advances
            DEF Acks, Writes, Wctrs, Modes, Devices
  <1>6. CASE Retry
    <2>1. ~Doing({"recv"})
      BY DEF Flush, Doing
    <2> QED
      BY <1>3, <1>6, <2>1, Retries DEF Retry
  <1> QED
    BY <1>4, <1>5, <1>6 DEF Flush

LEMMA ReadKeeps ==
    ASSUME TypeOK, Ps2Inv, Read
    PROVE  Ps2Inv'
  <1>1. PICK i \in 1..46 : Running(i) /\ At(i) /\ KeyboardInit[i].op \in {"read"}
    BY Where DEF Read, Ps2Inv
  <1>2. i \in {3, 6}
    BY <1>1, Kinds
  <1>3. Still /\ UNCHANGED <<sent, ps2ctr>>
    BY DEF Read, Still, keyboardVars
  <1>4. CASE GiveUp
    BY <1>1, <1>3, <1>4, GivesUp DEF Ps2Inv
  <1>5. CASE Advance
    <2>1. GoTo(Rest(i + 1)) /\ UNCHANGED <<ret, saved>>
      BY <1>1, <1>5 DEF Advance, At
    <2>2. Control(i + 1)'
      BY <1>1, <1>2, <1>3, <2>1, NextControl DEF Running
    <2> QED
      BY <1>1, <1>2, <1>3, <2>1, <2>2, Advances
            DEF Acks, Writes, Wctrs, Modes, Devices
  <1>6. CASE Retry
    <2>1. ~Doing({"recv"})
      BY DEF Read, Doing
    <2> QED
      BY <1>3, <1>6, <2>1, Retries DEF Retry
  <1> QED
    BY <1>4, <1>5, <1>6 DEF Read, Waited

LEMMA CompareKeeps ==
    ASSUME TypeOK, Ps2Inv, Compare
    PROVE  Ps2Inv'
  <1>1. PICK i \in 1..46 : Running(i) /\ At(i) /\ KeyboardInit[i].op \in {"check"}
    BY Where DEF Compare, Ps2Inv
  <1>2. i \in {4, 7, 19}
    BY <1>1, Kinds
  <1>3. Still /\ UNCHANGED <<sent, ps2ctr>>
    BY DEF Compare, Still, keyboardVars
  <1>4. CASE Advance
    <2>1. GoTo(Rest(i + 1)) /\ UNCHANGED <<ret, saved>>
      BY <1>1, <1>4 DEF Advance, At
    <2>2. Control(i + 1)'
      BY <1>1, <1>2, <1>3, <2>1, NextControl DEF Running
    <2> QED
      BY <1>1, <1>2, <1>3, <2>1, <2>2, Advances
            DEF Acks, Writes, Wctrs, Modes, Devices
  <1>5. CASE GoTo(<<>>) /\ ret' = "failed" /\ UNCHANGED saved
    <2>1. ps2ctr = {} \/ Latest(ps2ctr)
      <3>1. CASE i \in {4, 7}
        BY <1>1, <3>1 DEF Running, Control
      <3>2. CASE i = 19
        BY <1>1, <3>2 DEF Running, Controller, At
      <3> QED
        BY <1>2, <3>1, <3>2
    <2>2. saved = <<>>
      BY <1>1, <1>2 DEF Running, Control, InBody
    <2>3. Failed'
      BY <1>3, <1>5, <2>1, <2>2 DEF Failed, GoTo, Still, Latest, Holding
    <2>4. Pairing'
      BY <1>3, <1>5 DEF Ps2Inv, Pairing, GoTo, Still, Holding
    <2> QED
      BY <1>3, <2>3, <2>4, StillQuiet DEF Ps2Inv, DriverInv
  <1> QED
    BY <1>4, <1>5 DEF Compare

LEMMA EbdaKeeps ==
    ASSUME TypeOK, Ps2Inv, Ebda
    PROVE  Ps2Inv'
  <1>1. PICK i \in 1..46 : Running(i) /\ At(i) /\ KeyboardInit[i].op \in {"ebda"}
    BY Where DEF Ebda, Ps2Inv
  <1>2. i \in {8, 38}
    BY <1>1, Kinds
  <1>3. Still /\ UNCHANGED sent
    BY DEF Ebda, Still, keyboardVars
  <1>4. GoTo(Rest(i + 1)) /\ UNCHANGED <<ret, saved>>
    BY <1>1 DEF Ebda, Advance, At
  <1>5. ps2ctr' = IF i = 8 THEN KbdOff ELSE KbdOn
    BY <1>1, <1>2, Values DEF Ebda, At
  <1>6. Control(i + 1)'
    BY <1>1, <1>2, <1>3, <1>4, <1>5 DEF Running, Control, GoTo, InBody
  <1> QED
    BY <1>1, <1>2, <1>3, <1>4, <1>6, Advances
          DEF Acks, Writes, Wctrs, Modes, Devices

LEMMA BodyKeeps ==
    ASSUME TypeOK, Ps2Inv, Body
    PROVE  Ps2Inv'
  <1>1. PICK i \in 1..46 : Running(i) /\ At(i) /\ KeyboardInit[i].op \in {"body"}
    BY Where DEF Body, Ps2Inv
  <1>2. i \in {11, 22, 30, 41}
    BY <1>1, Kinds
  <1>3. Still /\ UNCHANGED <<sent, ps2ctr, ret>> /\ saved' = <<ps2ctr>>
    BY DEF Body, Still, keyboardVars
  <1>4. GoTo(Rest(i + 1))
    BY <1>1 DEF Body, At
  <1>5. Control(i + 1)'
    BY <1>1, <1>2, <1>3, <1>4 DEF Running, Control, GoTo, InBody, Still
  <1> QED
    BY <1>1, <1>2, <1>3, <1>4, <1>5, Advances
          DEF Acks, Writes, Wctrs, Modes, Devices

LEMMA RestoreKeeps ==
    ASSUME TypeOK, Ps2Inv, Restore
    PROVE  Ps2Inv'
  <1>1. PICK i \in 1..46 : Running(i) /\ At(i) /\ KeyboardInit[i].op \in {"restore"}
    BY Where DEF Restore, Ps2Inv
  <1>2. i \in {18, 27, 37, 46}
    BY <1>1, Kinds
  <1>3. Still /\ UNCHANGED <<sent, ps2ctr, ret>> /\ saved' = <<>>
    BY DEF Restore, Still, keyboardVars
  <1>4. i \in InBody /\ i + 1 \in AfterRestore /\ i + 1 \notin InBody
    BY <1>2 DEF InBody, AfterRestore
  <1>5. GoTo(Wctr(ps2ctr) \o Rest(i + 1))
    BY <1>1, <1>4 DEF Restore, Running, Control, At
  <1>6. Control(i + 1)'
    <2>1. Restoring(i + 1)'
      BY <1>3, <1>4, <1>5 DEF Restoring, GoTo
    <2> QED
      BY <1>1, <1>2, <1>3, <1>4, <2>1 DEF Running, Control
  <1>7. ps2ctr \in SUBSET Bits
    BY DEF TypeOK
  <1>8. /\ todo' # <<>> /\ Head(todo') = Command("CTL_WCTR")
        /\ todo' # Rest(i + 1)
    BY <1>4, <1>5, <1>7, RestoringSteps DEF GoTo
  <1>9. Controller(i + 1)'
    <2>1. i + 1 \in 11..46 =>
            /\ Holding("mode")' => "KBDINT" \notin ibf'[1].mode
            /\ "KBDINT" \notin ctr'
      BY <1>1, <1>2, <1>3 DEF Running, Controller, Still, Holding
    <2>2. Holding("command")' => HoldingWctr'
      BY <1>1, <1>2, <1>3 DEF Running, Controller, Still, Holding, HoldingWctr
    <2> QED
      BY <1>8, <2>1, <2>2 DEF Controller
  <1>10. Keyboard(i + 1)'
    <2>1. i \notin Acks \cup {16} /\ i + 1 \notin Acks
      BY <1>2 DEF Acks
    <2> QED
      <3>1. Keyboard(i) /\ i # 16 /\ i \in 1..47
        BY <1>1, <1>2 DEF Running
      <3>2. Keyboard(i)'
        BY <1>3, <3>1, StillKeyboard
      <3> QED
        BY <2>1, <3>2, NextKeyboard
  <1>11. Pairing'
    <2>1. Head(todo).op \notin {"mode", "command"}
      BY <1>1 DEF At
    <2>2. Head(todo').op # "mode"
      BY <1>8, StepOps
    <2> QED
      BY <1>1, <1>3, <2>1, <2>2, StillPairing DEF Ps2Inv, At
  <1>12. i + 1 \in 1..47
    OBVIOUS
  <1> QED
    BY <1>3, <1>6, <1>9, <1>10, <1>11, <1>12, StillQuiet
          DEF Ps2Inv, DriverInv, Running

\* A write to a port that is free.
Writing ==
    /\ todo # <<>> /\ Head(todo).op \in {"command", "mode", "device"}
    /\ ibf = <<>> /\ ibf' = <<Head(todo)>> /\ GoTo(Tail(todo))
    /\ sent' = IF Head(todo).op = "device" THEN sent + 1 ELSE sent
    /\ UNCHANGED <<saved, ret, param, ps2ctr, obf, wantsCtr, ctr, keyboardVars>>

LEMMA WritingBytes ==
    ASSUME TypeOK, Writing
    PROVE  /\ Quietly /\ SameQueue /\ (NoAnswer => NoAnswer')
           /\ \A op : Holding(op)' <=> op = Head(todo).op
           /\ HoldingWctr' <=> Head(todo).op = "command" /\ Head(todo).byte = "CTL_WCTR"
           /\ \A op : ~Holding(op)
  <1>1. Quietly
    BY DEF Quietly, Slots, Slot, Writing, keyboardVars
  <1>2. SameQueue
    BY DEF SameQueue, Writing, keyboardVars
  <1>3. NoAnswer => NoAnswer'
    BY <1>1, QuietBytes
  <1>4. ibf' # <<>> /\ ibf'[1] = Head(todo)
    BY DEF Writing
  <1>5. \A op : (Holding(op)' <=> op = Head(todo).op) /\ ~Holding(op)
    BY <1>4 DEF Holding, Writing
  <1>6. HoldingWctr' <=> Head(todo).op = "command" /\ Head(todo).byte = "CTL_WCTR"
    BY <1>4, <1>5 DEF HoldingWctr
  <1> QED
    BY <1>1, <1>2, <1>3, <1>5, <1>6

LEMMA WritingReplying ==
    ASSUME TypeOK, Replying, Writing
    PROVE  Replying'
  <1>1. CASE Head(todo).op = "device"
    <2>1. sent' > 0
      BY <1>1 DEF Writing, TypeOK
    <2>2. \A j \in Slots' : Slot(j)'.of = 0 =>
              Slot(j)'.from = "mouse" \/ Slot(j)'.byte \notin {Ack, Nak}
      BY WritingBytes DEF Quietly, Replying
    <2> QED
      BY <2>1, <2>2 DEF Replying
  <1>2. CASE Head(todo).op # "device"
    <2>1. NothingSent
      BY <1>2, WritingBytes DEF NothingSent
    <2> QED
      BY <1>2, <2>1, WritingBytes, QuietReplying DEF Writing, keyboardVars
  <1> QED
    BY <1>1, <1>2

\* A command or a mode of keyboard_init itself.
LEMMA WritesController ==
    ASSUME TypeOK, Ps2Inv, Writing, NEW i \in 1..46, Running(i), At(i),
           i \in {2, 5} \cup Wctrs \cup Modes
    PROVE  Ps2Inv'
  <1>1. /\ i \notin {8, 14, 38} \cup {11, 22, 30, 41} \cup {18, 27, 37, 46}
        /\ i \notin Acks \cup {16} /\ i + 1 \notin Acks /\ i \notin Devices
        /\ i + 1 \notin {19, 47}
    BY DEF Wctrs, Modes, Acks, Devices
  <1>2. KeyboardInit[i].op # "device"
    BY <1>1, Kinds
  <1>3. sent' = sent
    BY <1>2 DEF Writing, At
  <1>4. Control(i + 1)'
    BY <1>1, <1>3, NextControl DEF Running, Writing, At
  <1>5. Keyboard(i + 1)'
    <2>1. NothingSent
      BY <1>2, WritingBytes DEF NothingSent, At
    <2>2. Keyboard(i)'
      <3>1. i # 16 /\ i \in 1..47 /\ Keyboard(i) /\ UNCHANGED <<scanning, selfTest>>
        BY <1>1 DEF Running, Writing, keyboardVars
      <3> QED
        BY <1>3, <2>1, <3>1, WritingBytes, QuietKeyboard
    <2> QED
      BY <1>1, <2>2, NextKeyboard
  <1>6. i + 1 \in 11..46 => i \in 11..46 \/ i = 10
    OBVIOUS
  <1>7. i \in 11..46 => "KBDINT" \notin ctr
    BY WritingBytes DEF Running, Controller
  <1>8. i \in Modes => Head(todo).op = "mode" /\ "KBDINT" \notin Head(todo).mode
    <2> SUFFICES ASSUME i \in Modes
                 PROVE  Head(todo).op = "mode" /\ "KBDINT" \notin Head(todo).mode
      OBVIOUS
    <2>1. PICK m \in SUBSET Bits : KeyboardInit[i] = Mode(m) /\ "KBDINT" \notin m
      BY Values
    <2> QED
      BY <2>1, StepOps DEF At
  <1>9. i \notin Modes => Head(todo).op # "mode"
    BY Kinds DEF At
  <1>10. i \in Wctrs => Head(todo) = Command("CTL_WCTR")
    BY Values DEF At
  <1>11. Controller(i + 1)'
    <2>1. i + 1 \in 11..46 => (Holding("mode")' => "KBDINT" \notin ibf'[1].mode)
      BY <1>8, <1>9, WritingBytes DEF Writing
    <2>2. i + 1 \in 11..46 /\ (i + 1 >= 13 \/ ~Holding("mode")') => "KBDINT" \notin ctr'
      <3>1. i = 10 => i \in Modes
        BY DEF Modes
      <3> QED
        BY <1>6, <1>7, <1>8, <3>1, WritingBytes DEF Writing
    <2>3. i + 1 >= 10 /\ Holding("command")' => HoldingWctr'
      <3>1. i + 1 >= 10 => i \in Wctrs \cup Modes
        BY DEF Wctrs, Modes
      <3> QED
        BY <1>8, <1>10, <3>1, WritingBytes, StepOps
    <2> QED
      BY <1>1, <2>1, <2>2, <2>3 DEF Controller
  <1>12. Pairing'
    <2>1. todo' = Rest(i + 1)
      BY DEF Writing, GoTo, At
    <2>2. CASE i \in Wctrs
      <3>1. HoldingWctr' /\ ~Holding("mode")' /\ ~Holding("device")'
        BY <1>10, <2>2, WritingBytes, StepOps
      <3>2. i + 1 \in 1..46 /\ i + 1 \in Modes
        BY <2>2 DEF Wctrs, Modes
      <3>3. KeyboardInit[i + 1].op = "mode"
        BY <3>2, Kinds
      <3>4. Head(Rest(i + 1)) = KeyboardInit[i + 1]
        BY <3>2, RestSteps
      <3> QED
        BY <2>1, <3>1, <3>3, <3>4 DEF Pairing
    <2>3. CASE i \in Modes
      <3>1. Holding("mode")' /\ ~Holding("device")' /\ wantsCtr'
        BY <1>8, <2>3, WritingBytes DEF Ps2Inv, Pairing, HoldingWctr, Writing
      <3>2. todo' # <<>> => Head(todo').op # "mode"
        <4>1. i \notin Wctrs
          BY <2>3 DEF Wctrs, Modes
        <4> QED
          BY <2>1, <4>1, NoModeNext
      <3> QED
        BY <3>1, <3>2 DEF Pairing
    <2>4. CASE i \in {2, 5}
      <3>1. Head(todo) \in {Command("CTL_TEST"), Command("KBD_TEST")}
        BY <2>4, Values DEF At
      <3>2. Head(todo).op = "command" /\ Head(todo).byte # "CTL_WCTR"
        BY <3>1, StepOps
      <3>3. ~wantsCtr
        BY <3>2, WritingBytes, StepOps DEF Ps2Inv, Pairing, Writing
      <3>4. ~HoldingWctr' /\ ~Holding("mode")' /\ ~Holding("device")' /\ ~wantsCtr'
        BY <3>2, <3>3, WritingBytes DEF Writing
      <3>5. todo' # <<>> => Head(todo').op # "mode"
        <4>1. i \notin Wctrs
          BY <2>4 DEF Wctrs
        <4> QED
          BY <2>1, <4>1, NoModeNext
      <3> QED
        BY <3>4, <3>5 DEF Pairing
    <2> QED
      BY <2>2, <2>3, <2>4
  <1>13. i + 1 \in 1..47
    OBVIOUS
  <1> QED
    BY <1>4, <1>5, <1>11, <1>12, <1>13, WritingReplying DEF Ps2Inv, DriverInv, Running

\* A byte for the keyboard: until it answers there is no answer.
LEMMA WritesDevice ==
    ASSUME TypeOK, Ps2Inv, Writing, NEW i \in 1..46, Running(i), At(i), i \in Devices
    PROVE  Ps2Inv'
  <1>1. /\ i \notin Acks /\ i \notin {15, 16} /\ i + 1 \in Acks /\ i + 1 \in 1..47
        /\ i + 1 # 16 /\ i + 1 < 46 /\ i >= 14 /\ i + 1 \notin {19, 47}
        /\ i \notin Wctrs
    BY DEF Acks, Devices, Wctrs
  <1>2. Head(todo).op = "device" /\ Head(todo) = KeyboardInit[i]
    <2>1. KeyboardInit[i].op = "device"
      BY Kinds
    <2> QED
      BY <2>1 DEF At
  <1>3. sent' = sent + 1 /\ sent \in Nat
    BY <1>2 DEF Writing, TypeOK
  <1>4. Control(i + 1)'
    <2>1. /\ i + 1 \in InBody /\ i \in InBody /\ i + 1 > 14
          /\ i + 1 <= 8 <=> i <= 8
          /\ i + 1 <= 38 <=> i <= 38
      BY DEF InBody, Devices
    <2>2. todo' = Rest(i + 1) /\ sent' > 0
      BY <1>3 DEF Writing, GoTo, At
    <2>3. UNCHANGED <<ret, saved, ps2ctr>>
      BY DEF Writing
    <2> QED
      BY <2>1, <2>2, <2>3 DEF Running, Control
  <1>5. ~Holding("mode")' /\ ~Holding("command")' /\ ~HoldingWctr'
    BY <1>2, WritingBytes
  <1>6. Controller(i + 1)'
    <2>1. i \in 11..46
      BY <1>1
    <2>2. "KBDINT" \notin ctr'
      BY <2>1, WritingBytes DEF Running, Controller, Writing
    <2> QED
      BY <1>1, <1>5, <2>2 DEF Controller
  <1>7. Keyboard(i + 1)'
    <2>1. NoAnswer' /\ ~selfTest'
      BY <1>1, WritingBytes DEF Running, Keyboard, Writing, keyboardVars
    <2>2. \A j \in Slots' : ~IsAnswer(Slot(j)')
      BY <2>1 DEF NoAnswer
    <2>3. ibf'[1] = KeyboardInit[(i + 1) - 1]
      BY <1>2 DEF Writing
    <2> QED
      BY <1>1, <2>1, <2>2, <2>3 DEF Keyboard
  <1>8. Pairing'
    <2>1. ~wantsCtr
      <3>1. Head(todo) # Command("CTL_WCTR")
        BY <1>2, StepOps
      <3> QED
        BY <1>2, <3>1, WritingBytes DEF Ps2Inv, Pairing, Writing
    <2>2. ~wantsCtr'
      BY <2>1 DEF Writing
    <2>3. todo' # <<>> => Head(todo').op # "mode"
      BY <1>1, NoModeNext DEF Writing, GoTo, At
    <2> QED
      BY <1>5, <2>2, <2>3 DEF Pairing
  <1> QED
    BY <1>1, <1>4, <1>6, <1>7, <1>8, WritingReplying DEF Ps2Inv, DriverInv, Running

\* The mode is restored in front of step i.
LEMMA WritesRestoring ==
    ASSUME TypeOK, Ps2Inv, Writing, NEW i \in AfterRestore, Running(i), Restoring(i)
    PROVE  Ps2Inv'
  <1>0. /\ i \in 1..47 /\ i \notin Acks /\ i # 16 /\ i \in 11..46 \cup {47} /\ i >= 13
        /\ i \notin InBody
    BY DEF AfterRestore, Acks, InBody
  <1>1. ps2ctr \in SUBSET Bits /\ ps2ctr' = ps2ctr
    BY DEF TypeOK, Writing
  <1> DEFINE a == Wctr(ps2ctr) \o Rest(i)
             b == <<Mode(ps2ctr)>> \o Rest(i)
  <1>2. /\ Head(a) = Command("CTL_WCTR") /\ Tail(a) = b
        /\ Head(b) = Mode(ps2ctr) /\ Tail(b) = Rest(i)
        /\ a # Rest(i) /\ b # Rest(i) /\ b # <<>>
    BY <1>1, RestoringSteps
  <1>o. /\ Command("CTL_WCTR").op = "command" /\ Command("CTL_WCTR").byte = "CTL_WCTR"
        /\ Mode(ps2ctr).op = "mode" /\ Mode(ps2ctr).mode = ps2ctr
    BY StepOps
  <1>3. (todo = a /\ todo' = b) \/ (todo = b /\ todo' = Rest(i))
    BY <1>2 DEF Restoring, Writing, GoTo
  <1> HIDE DEF a, b
  <1>4. Head(todo).op # "device"
    BY <1>2, <1>3, <1>o
  <1>5. sent' = sent
    BY <1>4 DEF Writing
  <1>6. Control(i)'
    <2>1. todo' = Rest(i) \/ Restoring(i)'
      BY <1>1, <1>3 DEF Restoring, b
    <2> QED
      BY <1>1, <1>5, <2>1 DEF Running, Control, Writing
  <1>7. Keyboard(i)'
    <2>1. NothingSent /\ UNCHANGED <<scanning, selfTest>> /\ Keyboard(i)
      BY <1>4, WritingBytes DEF NothingSent, Running, Writing, keyboardVars
    <2> QED
      BY <1>0, <1>5, <2>1, WritingBytes, QuietKeyboard
  <1>8. i \in 11..46 => "KBDINT" \notin ctr /\ "KBDINT" \notin ps2ctr
    <2>1. i \in 11..46 => i <= 38 /\ i > 8
      BY DEF AfterRestore
    <2>2. i \in 11..46 => ps2ctr = KbdOff
      BY <2>1 DEF Running, Control
    <2> QED
      BY <2>2, WritingBytes DEF Running, Controller, KbdOff
  <1>9. CASE todo = a
    <2>1. HoldingWctr' /\ ~Holding("mode")' /\ ~Holding("device")'
      BY <1>2, <1>9, WritingBytes, <1>o
    <2>2. Controller(i)'
      BY <1>2, <1>3, <1>8, <1>9, <2>1 DEF Controller, Writing
    <2>3. Head(todo').op = "mode"
      BY <1>2, <1>3, <1>9, <1>o
    <2>4. Pairing'
      BY <2>1, <2>3 DEF Pairing
    <2> QED
      BY <1>0, <1>6, <1>7, <2>2, <2>4, WritingReplying DEF Ps2Inv, DriverInv, Running
  <1>10. CASE todo = b
    <2>1. /\ Holding("mode")' /\ ~Holding("device")' /\ ~Holding("command")'
          /\ Head(todo).op = "mode" /\ ibf'[1].mode = ps2ctr
      BY <1>2, <1>10, WritingBytes, <1>o DEF Writing
    <2>2. Latest(ps2ctr)'
      BY <1>1, <2>1 DEF Latest
    <2>3. Controller(i)'
      BY <1>1, <1>8, <2>1, <2>2 DEF Controller, Writing
    <2>4. wantsCtr'
      BY <1>10, <1>2, <2>1, WritingBytes DEF Ps2Inv, Pairing, HoldingWctr, Writing
    <2>5. todo' # <<>> => Head(todo').op # "mode"
      <3>1. CASE i = 47
        BY <1>2, <1>10, <3>1, RestEnds DEF Writing, GoTo
      <3>2. CASE i # 47
        <4>1. i \in 1..46 /\ i \notin Modes
          BY <1>0, <3>2 DEF AfterRestore, Modes
        <4>2. KeyboardInit[i].op # "mode"
          BY <4>1, Kinds
        <4> QED
          BY <1>2, <1>10, <4>1, <4>2, RestSteps DEF Writing, GoTo
      <3> QED
        BY <3>1, <3>2
    <2>6. Pairing'
      BY <2>1, <2>4, <2>5 DEF Pairing
    <2> QED
      BY <1>0, <1>6, <1>7, <2>3, <2>6, WritingReplying DEF Ps2Inv, DriverInv, Running
  <1> QED
    BY <1>3, <1>9, <1>10

LEMMA WritesFailed ==
    ASSUME TypeOK, Ps2Inv, Writing, Failed
    PROVE  Ps2Inv'
  <1>1. ps2ctr \in SUBSET Bits /\ ps2ctr' = ps2ctr
    BY DEF TypeOK, Writing
  <1> DEFINE a == Wctr(ps2ctr)
             b == <<Mode(ps2ctr)>>
  <1>2. /\ Head(a) = Command("CTL_WCTR") /\ Tail(a) = b
        /\ Head(b) = Mode(ps2ctr) /\ Tail(b) = <<>> /\ b # <<>>
    BY <1>1, FailedSteps
  <1>o. /\ Command("CTL_WCTR").op = "command" /\ Command("CTL_WCTR").byte = "CTL_WCTR"
        /\ Mode(ps2ctr).op = "mode" /\ Mode(ps2ctr).mode = ps2ctr
    BY StepOps
  <1>3. (todo = a /\ todo' = b) \/ (todo = b /\ todo' = <<>>)
    BY <1>2 DEF Failed, Writing, GoTo
  <1> HIDE DEF a, b
  <1>4. Head(todo).op # "device"
    BY <1>2, <1>3, <1>o
  <1>5. sent' = sent /\ todo # <<>>
    BY <1>4 DEF Writing
  <1>6. CASE todo = a
    <2>1. HoldingWctr' /\ ~Holding("mode")' /\ ~Holding("device")'
      BY <1>2, <1>6, WritingBytes, <1>o
    <2>2. todo' = b /\ Head(todo').op = "mode" /\ todo' # <<>>
      BY <1>2, <1>6, <1>o DEF Writing, GoTo
    <2>3. Failed'
      BY <1>1, <1>5, <2>1, <2>2 DEF Failed, Writing, b
    <2>4. Pairing'
      BY <2>1, <2>2 DEF Pairing
    <2> QED
      BY <2>3, <2>4, WritingReplying DEF Ps2Inv, DriverInv
  <1>7. CASE todo = b
    <2>1. /\ Holding("mode")' /\ ~Holding("device")'
          /\ Head(todo).op = "mode" /\ ibf'[1].mode = ps2ctr
      BY <1>2, <1>7, WritingBytes, <1>o DEF Writing
    <2>2. todo' = <<>>
      BY <1>2, <1>7 DEF Writing, GoTo
    <2>3. Failed'
      BY <1>1, <2>1, <2>2 DEF Failed, Latest, Writing
    <2>4. wantsCtr'
      BY <1>5, <2>1, WritingBytes DEF Ps2Inv, Pairing, HoldingWctr, Writing
    <2>5. Pairing'
      BY <2>1, <2>2, <2>4 DEF Pairing
    <2> QED
      BY <2>3, <2>5, WritingReplying DEF Ps2Inv, DriverInv
  <1> QED
    BY <1>3, <1>6, <1>7

LEMMA WriteKeeps ==
    ASSUME TypeOK, Ps2Inv, Write
    PROVE  Ps2Inv'
  <1>0. todo # <<>> /\ Head(todo).op \in {"command", "mode", "device"}
    BY DEF Write, Doing
  <1>1. CASE ibf # <<>> /\ Waited /\ UNCHANGED <<ibf, sent>>
    <2>1. Still /\ UNCHANGED <<sent, ps2ctr>>
      BY <1>1 DEF Write, Still, keyboardVars
    <2>2. CASE GiveUp
      BY <2>1, <2>2, GivesUp DEF Ps2Inv, DriverInv
    <2>3. CASE Retry
      <3>1. ~Doing({"recv"})
        BY <1>0 DEF Doing
      <3> QED
        BY <2>1, <2>3, <3>1, Retries DEF Retry
    <2> QED
      BY <1>1, <2>2, <2>3 DEF Waited
  <1>2. CASE Writing
    <2>1. ASSUME NEW i \in 1..46, Running(i), At(i)
          PROVE  Ps2Inv'
      <3>1. i \in {2, 5} \cup Wctrs \cup Modes \cup Devices
        <4>1. KeyboardInit[i].op \in {"command", "mode", "device"}
          BY <1>0, <2>1 DEF At
        <4> QED
          BY <4>1, Kinds
      <3> QED
        BY <1>2, <2>1, <3>1, WritesController, WritesDevice
    <2> QED
      BY <1>0, <1>2, <2>1, Position, WritesRestoring, WritesFailed DEF Ps2Inv
  <1> QED
    BY <1>0, <1>1, <1>2 DEF Write, Writing, Advance

\* What the driver takes as an answer is the answer to the last byte sent.
LEMMA TakenAnswer ==
    ASSUME TypeOK, Ps2Inv, NEW i \in Acks \cup {16}, Running(i), At(i),
           obf # <<>>, Wanted(obf[1])
    PROVE  obf[1].of = sent /\ (i \in Acks => ~Holding("device") /\ Answered(i, 0))
  <1>1. 0 \in Slots /\ Slot(0) = obf[1]
    BY DEF Slots, Slot, TypeOK
  <1>2. CASE i = 16
    <2>1. i \notin Acks
      BY <1>2 DEF Acks
    <2> QED
      BY <1>2, <2>1 DEF Running, Keyboard, FirstIsResult, NotWanted, Wanted
  <1>3. CASE i \in Acks
    <2>0. i \in 1..46
      BY <1>3 DEF Acks
    <2>1. KeyboardInit[i].op = "ack"
      BY <1>3, <2>0, Kinds
    <2>2. Doing({"ack"})
      BY <2>1 DEF At, Doing
    <2>3. obf[1].byte \in {Ack, Nak} /\ obf[1].from # "mouse"
      BY <2>2 DEF Wanted
    <2>4. IsAnswer(Slot(0))
      BY <1>1, <2>3 DEF Ps2Inv, Replying, IsAnswer
    <2>5. Answered(i, 0) /\ ~Holding("device")
      BY <1>1, <1>3, <2>4 DEF Running, Keyboard, NoAnswer
    <2> QED
      BY <1>1, <2>5 DEF Answered
  <1> QED
    BY <1>2, <1>3

LEMMA AcceptKeeps ==
    ASSUME TypeOK, Ps2Inv, Accept
    PROVE  Ps2Inv'
  <1>1. PICK i \in 1..46 : Running(i) /\ At(i)
                            /\ KeyboardInit[i].op \in {"ack", "recv", "second"}
    BY Where DEF Accept, Ps2Inv
  <1>2. i \in Acks \cup {16, 17}
    BY <1>1, Kinds
  <1>3. Still /\ UNCHANGED <<sent, ps2ctr>> /\ obf' = <<>> /\ obf # <<>>
        /\ Wanted(obf[1])
    BY DEF Accept, Still, keyboardVars
  <1>4. CASE Doing({"ack"}) /\ obf[1].byte = Nak /\ GiveUp
    <2>1. GiveUp /\ Still /\ ps2ctr' = ps2ctr /\ Pairing /\ Replying
      BY <1>3, <1>4 DEF Ps2Inv
    <2>2. \E k \in 1..47 : Running(k)
      BY <1>1
    <2> QED
      BY <2>1, <2>2, GivesUp
  <1>5. CASE ~(Doing({"ack"}) /\ obf[1].byte = Nak) /\ Advance
    <2>1. GoTo(Rest(i + 1)) /\ UNCHANGED <<ret, saved>>
      BY <1>1, <1>5 DEF Advance, At
    <2>2. Control(i + 1)'
      BY <1>1, <1>2, <1>3, <2>1, NextControl DEF Running, Acks
    <2>3. CASE i = 17
      BY <1>1, <1>3, <2>1, <2>2, <2>3, Advances DEF Acks, Writes, Wctrs, Modes, Devices
    <2>4. CASE i # 17
      <3>0. i \in Acks \cup {16} /\ i \notin Writes /\ i + 1 \notin Acks
            /\ i \notin {18, 46} /\ i + 1 \in 1..47
        BY <1>2, <2>4 DEF Acks, Writes, Wctrs, Modes, Devices
      <3>1. obf[1].of = sent /\ (i \in Acks => ~Holding("device") /\ Answered(i, 0))
        BY <1>1, <1>3, <3>0, TakenAnswer
      <3>2. Slots' = Slots \ {0} /\ \A j \in Slots' : Slot(j)' = Slot(j) /\ j > 0
        BY <1>3 DEF Slots, Slot, Still, keyboardVars
      <3>3. Controller(i + 1)'
        BY <1>1, <1>3, <3>0, NextController DEF Running
      <3>4. Pairing'
        <4>1. Head(todo).op \notin {"mode", "command"}
          BY <1>1 DEF At
        <4>2. todo' # <<>> => Head(todo').op # "mode"
          BY <2>1, <3>0, NoModeNext DEF GoTo, Writes
        <4> QED
          BY <1>1, <1>3, <4>1, <4>2, StillPairing DEF Ps2Inv, At
      <3>5. UNCHANGED <<ibf, kbdQueue, scanning, selfTest>>
        BY <1>3 DEF Still, keyboardVars
      <3>6. Keyboard(i + 1)'
        <4>1. CASE i = 16
          <5>1. ~Holding("device")' /\ NoAnswer' /\ ~selfTest'
            <6>1. ~Holding("device") /\ NoAnswer
              BY <1>1, <4>1 DEF Running, Keyboard, Acks
            <6>2. ~selfTest
              BY <1>1, <1>3, <4>1 DEF Running, Keyboard, FirstIsResult, NotWanted, Wanted
            <6> QED
              BY <3>2, <3>5, <6>1, <6>2 DEF NoAnswer, Holding
          <5> QED
            BY <4>1, <5>1 DEF Keyboard, Acks
        <4>2. CASE i \in Acks
          <5>1. Slot(0) = obf[1] /\ obf[1].byte = Ack /\ 0 \in Slots
            <6>1. KeyboardInit[i].op = "ack"
              BY <4>2, Kinds
            <6>2. Doing({"ack"})
              BY <1>1, <6>1 DEF Doing, At
            <6>3. obf[1].byte = Ack
              BY <1>3, <1>5, <6>2 DEF Wanted
            <6> QED
              BY <1>3, <6>3 DEF Slot, Slots, TypeOK
          <5>2. ~Holding("device")' /\ NoAnswer' /\ (i >= 26 => NoReply')
            BY <3>1, <3>2, <3>5, <4>2 DEF Answered, NoAnswer, NoReply, Holding
          <5>3. CASE i = 15
            <6>1. IF selfTest THEN 0 = Len(kbdQueue)
                  ELSE 0 < Len(kbdQueue) /\ kbdQueue[0 + 1].of = sent
              BY <3>1, <4>2, <5>1, <5>3 DEF Answered
            <6>2. kbdQueue \in Seq(KeyboardBytes)
              BY DEF TypeOK
            <6>3. IF selfTest THEN kbdQueue = <<>>
                  ELSE kbdQueue # <<>> /\ kbdQueue[1].of = sent
              BY <6>1, <6>2
            <6>4. FirstIsResult'
              BY <1>3, <3>5, <6>3 DEF FirstIsResult, NotWanted
            <6> QED
              BY <5>2, <5>3, <6>4 DEF Keyboard, Acks
          <5>4. CASE i # 15
            <6>1. i >= 26 /\ i + 1 # 16 /\ i + 1 # 15 /\ (i + 1 >= 46 => i = 45)
              BY <4>2, <5>4 DEF Acks
            <6>2. ~selfTest' /\ (i = 45 => scanning')
              BY <1>1, <3>1, <3>5, <4>2, <5>1, <6>1 DEF Running, Keyboard, Answered
            <6> QED
              BY <3>0, <5>2, <6>1, <6>2 DEF Keyboard
          <5> QED
            BY <5>3, <5>4
        <4> QED
          BY <3>0, <4>1, <4>2
      <3> QED
        BY <1>3, <2>2, <3>0, <3>3, <3>4, <3>6, StillQuiet
              DEF Ps2Inv, DriverInv, Running
    <2> QED
      BY <2>3, <2>4
  <1> QED
    BY <1>4, <1>5 DEF Accept

LEMMA DiscardKeeps ==
    ASSUME TypeOK, Ps2Inv, Discard
    PROVE  Ps2Inv'
  <1>1. PICK i \in 1..46 : Running(i) /\ At(i)
                            /\ KeyboardInit[i].op \in {"ack", "recv", "second"}
    BY Where DEF Discard, Ps2Inv
  <1>2. Still /\ UNCHANGED <<sent, ps2ctr>>
    BY DEF Discard, Still, keyboardVars
  <1>3. CASE GiveUp
    BY <1>1, <1>2, <1>3, GivesUp DEF Ps2Inv
  <1>4. CASE UNCHANGED <<todo, tries, expired, saved, ret>>
    <2>1. Doing({"recv"}) => NotWanted
      BY DEF Discard, Doing, Wanted, NotWanted
    <2> QED
      BY <1>2, <1>4, <2>1, Retries
  <1>5. CASE Doing({"second"}) /\ Advance
    <2>1. KeyboardInit[i].op = "second"
      BY <1>1, <1>5 DEF Doing, At
    <2>2. i = 17
      BY <2>1, Kinds
    <2>3. GoTo(Rest(i + 1)) /\ UNCHANGED <<ret, saved>>
      BY <1>1, <1>5 DEF Advance, At
    <2>4. Control(i + 1)'
      BY <1>1, <1>2, <2>2, <2>3, NextControl DEF Running
    <2> QED
      BY <1>1, <1>2, <2>2, <2>3, <2>4, Advances DEF Acks, Writes, Wctrs, Modes, Devices
  <1> QED
    BY <1>3, <1>4, <1>5 DEF Discard

LEMMA DeadlineKeeps ==
    ASSUME TypeOK, Ps2Inv, Deadline
    PROVE  Ps2Inv'
  <1>1. Still /\ obf' = obf /\ UNCHANGED <<todo, ret, saved, ps2ctr>>
    BY DEF Deadline, Still, keyboardVars
  <1> QED
    BY <1>1, Retries

-----------------------------------------------------------------------------
(* The hardware's steps.                                                   *)

\* The controller takes what was written to it.
LEMMA Drained ==
    ASSUME TypeOK, Ps2Inv, UNCHANGED <<driverVars, keyboardVars>>, Quietly,
           ibf # <<>>, ibf[1].op # "device", ibf' = <<>>,
           ctr' = IF ibf[1].op = "mode" THEN ibf[1].mode ELSE ctr,
           obf' = obf \/ (ibf[1].op = "command" /\ ~HoldingWctr)
    PROVE  DriverInv' /\ Replying'
  <1>1. UNCHANGED <<todo, param, ps2ctr, saved, ret, sent, kbdQueue, scanning, selfTest>>
    BY DEF driverVars, keyboardVars
  <1>2. \A op : ~Holding(op)'
    BY DEF Holding
  <1>3. Replying'
    BY <1>1, <1>2, QuietReplying DEF Ps2Inv, NothingSent
  <1>4. \A m : Latest(m) => Latest(m)'
    BY <1>2 DEF Latest, Holding
  <1>5. Failed => Failed'
    BY <1>1, <1>2, <1>4 DEF Failed, Holding
  <1>6. ASSUME NEW i \in 1..47, Running(i)
        PROVE  Running(i)'
    <2>1. Control(i)'
      BY <1>1, <1>6 DEF Running, Control, Restoring
    <2>2. Controller(i)'
      <3>1. i \in 11..46 => "KBDINT" \notin ctr'
        BY <1>6 DEF Running, Controller, Holding
      <3> QED
        BY <1>1, <1>2, <1>4, <1>6, <3>1 DEF Running, Controller
    <2>3. Keyboard(i)'
      <3>1. i = 16 => obf' = obf
        BY <1>6 DEF Running, Controller, Holding
      <3>2. NothingSent /\ SameQueue
        BY <1>1, <1>2 DEF NothingSent, SameQueue
      <3> QED
        BY <1>1, <1>6, <3>1, <3>2, QuietKeyboard DEF Running
    <2> QED
      BY <2>1, <2>2, <2>3 DEF Running
  <1> QED
    BY <1>3, <1>5, <1>6 DEF Ps2Inv, DriverInv

LEMMA TakeTestKeeps ==
    ASSUME TypeOK, Ps2Inv, NEW c \in {"CTL_TEST", "KBD_TEST"},
           NEW results \in SUBSET ((0..255) \ {Ack, Nak}), TakeTest(c, results)
    PROVE  Ps2Inv'
  <1>1. /\ ibf # <<>> /\ ibf[1].op = "command" /\ ibf[1].byte = c /\ ibf' = <<>>
        /\ UNCHANGED <<driverVars, wantsCtr, ctr, keyboardVars>>
    BY DEF TakeTest, Takes
  <1>2. PICK r \in results : obf = <<>> /\ obf' = <<Byte("controller", r, 0)>>
    BY DEF TakeTest
  <1>3. obf'[1].of = 0 /\ obf'[1].byte \notin {Ack, Nak}
    BY <1>2 DEF Byte
  <1>4. Quietly
    BY <1>1, <1>3 DEF Quietly, Slots, Slot, keyboardVars
  <1>5. ~HoldingWctr
    BY <1>1 DEF HoldingWctr
  <1>6. DriverInv' /\ Replying'
    BY <1>1, <1>4, <1>5, Drained
  <1>7. Pairing'
    BY <1>1, <1>5 DEF Ps2Inv, Pairing, Holding, HoldingWctr, driverVars
  <1> QED
    BY <1>6, <1>7 DEF Ps2Inv

LEMMA TakeWctrKeeps ==
    ASSUME TypeOK, Ps2Inv, TakeWctr
    PROVE  Ps2Inv'
  <1>1. /\ ibf # <<>> /\ ibf[1].op = "command" /\ ibf[1].byte = "CTL_WCTR" /\ ibf' = <<>>
        /\ wantsCtr' = TRUE /\ UNCHANGED <<driverVars, obf, ctr, keyboardVars>>
    BY DEF TakeWctr, Takes
  <1>2. Quietly
    BY <1>1 DEF Quietly, Slots, Slot, keyboardVars
  <1>3. DriverInv' /\ Replying'
    BY <1>1, <1>2, Drained
  <1>4. Pairing'
    BY <1>1 DEF Ps2Inv, Pairing, Holding, HoldingWctr, driverVars
  <1> QED
    BY <1>3, <1>4 DEF Ps2Inv

LEMMA TakeModeKeeps ==
    ASSUME TypeOK, Ps2Inv, TakeMode
    PROVE  Ps2Inv'
  <1>1. /\ ibf # <<>> /\ ibf[1].op = "mode" /\ ibf' = <<>> /\ ctr' = ibf[1].mode
        /\ wantsCtr' = FALSE /\ UNCHANGED <<driverVars, obf, keyboardVars>>
    BY DEF TakeMode, Takes
  <1>2. Quietly
    BY <1>1 DEF Quietly, Slots, Slot, keyboardVars
  <1>3. DriverInv' /\ Replying'
    BY <1>1, <1>2, Drained
  <1>4. Pairing'
    BY <1>1 DEF Ps2Inv, Pairing, Holding, HoldingWctr, driverVars
  <1> QED
    BY <1>3, <1>4 DEF Ps2Inv

\* Nothing in the driver or the controller depends on what the keyboard does.
LEMMA OnlyKeyboard ==
    ASSUME TypeOK, Ps2Inv, UNCHANGED <<driverVars, wantsCtr, ctr>>,
           ibf' = ibf \/ (Holding("device") /\ ibf' = <<>>),
           Replying', \A i \in 1..47 : Running(i) => Keyboard(i)'
    PROVE  Ps2Inv'
  <1>1. UNCHANGED <<todo, ps2ctr, saved, ret, sent>>
    BY DEF driverVars
  <1>2. /\ Holding("mode")' <=> Holding("mode")
        /\ Holding("command")' <=> Holding("command")
        /\ HoldingWctr' <=> HoldingWctr
        /\ Holding("device")' => Holding("device")
    BY DEF Holding, HoldingWctr
  <1>3. Holding("mode") => ibf' = ibf
    BY DEF Holding
  <1>4. \A m : Latest(m) => Latest(m)'
    BY <1>2, <1>3 DEF Latest
  <1>5. Failed => Failed'
    BY <1>1, <1>2, <1>3, <1>4 DEF Failed
  <1>6. ASSUME NEW i \in 1..47, Running(i)
        PROVE  Control(i)' /\ Controller(i)'
    <2>1. Control(i)'
      BY <1>1, <1>6 DEF Running, Control, Restoring
    <2>2. Controller(i)'
      BY <1>1, <1>2, <1>3, <1>4, <1>6 DEF Running, Controller
    <2> QED
      BY <2>1, <2>2
  <1>7. Pairing'
    BY <1>1, <1>2, <1>3 DEF Ps2Inv, Pairing, HoldingWctr, Holding
  <1> QED
    BY <1>5, <1>6, <1>7 DEF Ps2Inv, DriverInv, Running

\* The user moves the mouse or presses a key.
LEMMA UserKeeps ==
    ASSUME TypeOK, Ps2Inv, UNCHANGED <<driverVars, ibf, wantsCtr, ctr, scanning, selfTest>>,
           Quietly, SameQueue, obf' = obf \/ (NotWanted /\ NotWanted')
    PROVE  Ps2Inv'
  <1>1. sent' = sent /\ NothingSent
    BY DEF driverVars, NothingSent
  <1>2. Replying'
    BY <1>1, QuietReplying DEF Ps2Inv
  <1>3. ASSUME NEW i \in 1..47, Running(i)
        PROVE  Keyboard(i)'
    BY <1>1, <1>3, QuietKeyboard DEF Running
  <1> QED
    BY <1>2, <1>3, OnlyKeyboard

LEMMA MoveMouseKeeps ==
    ASSUME TypeOK, Ps2Inv, NEW m, MoveMouse(m)
    PROVE  Ps2Inv'
  <1>1. /\ obf = <<>> /\ obf' = <<Byte("mouse", m, 0)>>
        /\ UNCHANGED <<driverVars, ibf, wantsCtr, ctr, kbdQueue, scanning, selfTest>>
    BY DEF MoveMouse, keyboardVars
  <1>2. obf'[1].of = 0 /\ obf'[1].from = "mouse"
    BY <1>1 DEF Byte
  <1>3. Quietly /\ SameQueue /\ NotWanted /\ NotWanted'
    BY <1>1, <1>2 DEF Quietly, SameQueue, NotWanted, Slots, Slot
  <1> QED
    BY <1>1, <1>3, UserKeeps

LEMMA Appended ==
    ASSUME NEW S, NEW q \in Seq(S), NEW b \in S
    PROVE  /\ Append(q, b) \in Seq(S) /\ Len(Append(q, b)) = Len(q) + 1
           /\ Append(q, b)[Len(q) + 1] = b
           /\ \A j \in 1..Len(q) : Append(q, b)[j] = q[j]
  BY AppendProperties

LEMMA TypeKeeps ==
    ASSUME TypeOK, Ps2Inv, NEW c \in Scancodes, Type(c)
    PROVE  Ps2Inv'
  <1> DEFINE b == Byte("keyboard", c, 0)
  <1>1. /\ ~selfTest /\ kbdQueue' = Append(kbdQueue, b)
        /\ UNCHANGED <<driverVars, ibf, obf, wantsCtr, ctr, scanning, selfTest>>
    BY DEF Type
  <1>2. /\ b \in KeyboardBytes /\ b.of = 0 /\ b.byte \notin {Ack, Nak}
        /\ kbdQueue \in Seq(KeyboardBytes) /\ Len(kbdQueue) \in Nat
    BY Ps2Assumption DEF Byte, KeyboardBytes, TypeOK
  <1> HIDE DEF b
  <1>3. /\ Len(kbdQueue') = Len(kbdQueue) + 1 /\ kbdQueue'[Len(kbdQueue) + 1] = b
        /\ \A j \in 1..Len(kbdQueue) : kbdQueue'[j] = kbdQueue[j]
    BY <1>1, <1>2, Appended
  <1>4. SameQueue
    BY <1>1, <1>2, <1>3 DEF SameQueue, Longer
  <1>5. Quietly
    <2> SUFFICES ASSUME NEW j \in Slots'
                 PROVE  \/ j \in Slots /\ Slot(j)' = Slot(j)
                        \/ /\ Slot(j)'.of = 0
                           /\ Slot(j)'.from = "mouse" \/ Slot(j)'.byte \notin {Ack, Nak}
      BY DEF Quietly
    <2>1. j \in 0..(Len(kbdQueue) + 1) /\ (j = 0 => obf # <<>>)
      BY <1>1, <1>3 DEF Slots
    <2>2. CASE j = 0
      BY <1>1, <1>2, <2>1, <2>2 DEF Slots, Slot
    <2>3. CASE j \in 1..Len(kbdQueue)
      BY <1>2, <1>3, <2>3 DEF Slots, Slot
    <2>4. CASE j = Len(kbdQueue) + 1
      BY <1>2, <1>3, <2>4 DEF Slot
    <2> QED
      BY <1>2, <2>1, <2>2, <2>3, <2>4
  <1> QED
    BY <1>1, <1>4, <1>5, UserKeeps

\* The keyboard answers, at last, or ignores the byte.
LEMMA TakeDeviceKeeps ==
    ASSUME TypeOK, Ps2Inv, TakeDevice
    PROVE  Ps2Inv'
  <1> DEFINE n == Len(kbdQueue)
             ack == Byte("keyboard", Ack, sent)
             nak == Byte("keyboard", Nak, sent)
  <1>1. /\ Holding("device") /\ ibf' = <<>>
        /\ UNCHANGED <<driverVars, obf, wantsCtr, ctr>> /\ sent' = sent
    BY DEF TakeDevice, Takes, Holding, driverVars
  <1>2. sent \in Nat /\ sent # 0 /\ sent > 0
    BY <1>1 DEF TypeOK, Ps2Inv, Replying
  <1>3. kbdQueue \in Seq(KeyboardBytes) /\ n \in Nat
    BY DEF TypeOK
  <1>4. /\ ack \in KeyboardBytes /\ ack.of = sent /\ ack.byte = Ack
        /\ nak \in KeyboardBytes /\ nak.of = sent /\ nak.byte = Nak /\ Ack # Nak
    BY <1>2 DEF KeyboardBytes, Byte, Ack, Nak
  <1> HIDE DEF ack, nak
  <1>5. ~Holding("device")'
    BY <1>1 DEF Holding
  \* The answer is the last byte of the queue, or the only one.
  <1> DEFINE New(b) ==
                 /\ kbdQueue'[Len(kbdQueue')] = b /\ Len(kbdQueue') \in Nat \ {0}
                 /\ \A j \in 1..(Len(kbdQueue') - 1) :
                        j \in 1..n /\ kbdQueue'[j] = kbdQueue[j]
             Obeyed(b) ==
                 /\ New(b)
                 /\ selfTest' = (selfTest \/ (b = ack /\ ibf[1].byte = "RESET_BAT"))
                 /\ b = ack /\ ibf[1].byte = "ENABLE" => scanning'
  <1>6. UNCHANGED keyboardVars \/ \E b \in {ack, nak} : Obeyed(b)
    <2>1. CASE kbdQueue' = Append(kbdQueue, nak) /\ UNCHANGED <<scanning, selfTest>>
      <3>1. /\ Append(kbdQueue, nak) \in Seq(KeyboardBytes)
            /\ Len(Append(kbdQueue, nak)) = n + 1
            /\ Append(kbdQueue, nak)[n + 1] = nak
            /\ \A j \in 1..n : Append(kbdQueue, nak)[j] = kbdQueue[j]
        BY <1>3, <1>4, Appended
      <3>2. New(nak)
        BY <1>3, <2>1, <3>1
      <3>3. nak # ack /\ selfTest \in BOOLEAN
        BY <1>4 DEF TypeOK
      <3>4. Obeyed(nak)
        BY <2>1, <3>2, <3>3
      <3> QED
        BY <3>4
    <2>2. CASE /\ ibf[1].byte = "RESET_BAT" /\ kbdQueue' = <<ack>>
               /\ selfTest' = TRUE /\ UNCHANGED scanning
      <3>1. Len(<<ack>>) = 1 /\ <<ack>>[1] = ack
        OBVIOUS
      <3>2. New(ack)
        BY <2>2, <3>1
      <3> QED
        BY <2>2, <3>2
    <2>3. CASE /\ ibf[1].byte # "RESET_BAT" /\ kbdQueue' = Append(kbdQueue, ack)
               /\ scanning' = ((scanning \/ ibf[1].byte = "ENABLE")
                                /\ ibf[1].byte # "RESET_DIS")
               /\ UNCHANGED selfTest
      <3>1. /\ Append(kbdQueue, ack) \in Seq(KeyboardBytes)
            /\ Len(Append(kbdQueue, ack)) = n + 1
            /\ Append(kbdQueue, ack)[n + 1] = ack
            /\ \A j \in 1..n : Append(kbdQueue, ack)[j] = kbdQueue[j]
        BY <1>3, <1>4, Appended
      <3>2. New(ack)
        BY <1>3, <2>3, <3>1
      <3>3. selfTest \in BOOLEAN
        BY DEF TypeOK
      <3> QED
        BY <2>3, <3>2, <3>3
    <2> QED
      BY <2>1, <2>2, <2>3 DEF TakeDevice, Obey, ack, nak
  <1> HIDE DEF New
  \* The other slots hold what they held.
  <1>7. ASSUME NEW b, New(b), NEW j \in Slots'
        PROVE  \/ j = Len(kbdQueue') /\ Slot(j)' = b
               \/ j < Len(kbdQueue') /\ j \in Slots /\ Slot(j)' = Slot(j)
    <2>1. /\ j \in 0..Len(kbdQueue') /\ Len(kbdQueue') \in Nat \ {0}
          /\ (j = 0 => obf # <<>>)
      BY <1>1, <1>7 DEF Slots, New
    <2>2. CASE j = 0
      BY <1>1, <1>3, <2>1, <2>2 DEF Slots, Slot
    <2>3. CASE j # 0 /\ j < Len(kbdQueue')
      <3>1. j \in 1..(Len(kbdQueue') - 1)
        BY <2>1, <2>3
      <3>2. j \in 1..n /\ kbdQueue'[j] = kbdQueue[j]
        BY <1>7, <3>1 DEF New
      <3> QED
        BY <1>3, <2>3, <3>2 DEF Slots, Slot
    <2>4. CASE j = Len(kbdQueue')
      BY <1>7, <2>1, <2>4 DEF New, Slot
    <2> QED
      BY <2>1, <2>2, <2>3, <2>4
  <1>8. Replying'
    <2>1. ASSUME NEW j \in Slots', Slot(j)'.of = 0
          PROVE  Slot(j)'.from = "mouse" \/ Slot(j)'.byte \notin {Ack, Nak}
      <3>1. CASE UNCHANGED keyboardVars
        BY <1>1, <2>1, <3>1 DEF Ps2Inv, Replying, Slots, Slot, keyboardVars
      <3>2. ASSUME NEW b \in {ack, nak}, New(b)
            PROVE  Slot(j)'.from = "mouse" \/ Slot(j)'.byte \notin {Ack, Nak}
        BY <1>2, <1>4, <1>7, <2>1, <3>2 DEF Ps2Inv, Replying
      <3> QED
        BY <1>6, <3>1, <3>2
    <2> QED
      BY <1>1, <1>2, <2>1 DEF Replying
  <1>9. ASSUME NEW i \in 1..47, Running(i)
        PROVE  Keyboard(i)'
    <2>1. /\ i \in Acks /\ ibf[1] = KeyboardInit[i - 1] /\ NoAnswer /\ ~selfTest
      BY <1>1, <1>9 DEF Running, Keyboard
    <2>2. i # 16 /\ i < 46
      BY <2>1 DEF Acks
    <2>3. i = 15 <=> ibf[1].byte = "RESET_BAT"
      <3>1. i - 1 \in Devices /\ (i # 15 => i - 1 \in Devices \ {14})
        BY <2>1 DEF Acks, Devices
      <3> QED
        BY <2>1, <3>1, Values, StepOps
    <2>4. i = 45 => ibf[1].byte = "ENABLE"
      BY <2>1, Values, StepOps
    <2>5. i # 15 => ~selfTest'
      BY <1>6, <2>1, <2>3 DEF keyboardVars
    <2>6. ASSUME NEW j \in Slots', IsAnswer(Slot(j)')
          PROVE  Answered(i, j)'
      <3>1. CASE UNCHANGED keyboardVars
        BY <1>1, <2>1, <2>6, <3>1 DEF NoAnswer, Slots, Slot, keyboardVars
      <3>2. ASSUME NEW b \in {ack, nak}, Obeyed(b)
            PROVE  Answered(i, j)'
        <4>1. j = Len(kbdQueue') /\ Slot(j)' = b /\ Len(kbdQueue') \in Nat
          BY <1>7, <2>1, <2>6, <3>2 DEF NoAnswer, New
        <4>2. \A k \in Slots' : ~(k > j)
          BY <4>1 DEF Slots
        <4>3. Slot(j)'.of = sent'
          BY <1>1, <1>4, <4>1
        <4>4. Slot(j)'.byte = Ack => b = ack
          BY <1>4, <4>1
        <4>5. i = 15 /\ Slot(j)'.byte = Ack => selfTest'
          BY <2>3, <3>2, <4>4
        <4>6. i = 45 /\ Slot(j)'.byte = Ack => scanning'
          BY <2>4, <3>2, <4>4
        <4> QED
          BY <4>1, <4>2, <4>3, <4>5, <4>6 DEF Answered
      <3> QED
        BY <1>6, <3>1, <3>2
    <2> QED
      BY <1>5, <2>1, <2>2, <2>5, <2>6 DEF Keyboard
  <1> QED
    BY <1>1, <1>8, <1>9, OnlyKeyboard

\* The self-test ends: its result, and with some keyboards one byte more.
LEMMA BatKeeps ==
    ASSUME TypeOK, Ps2Inv, Bat
    PROVE  Ps2Inv'
  <1> DEFINE n == Len(kbdQueue)
  <1>1. /\ selfTest /\ ~selfTest' /\ scanning'
        /\ UNCHANGED <<driverVars, ibf, obf, wantsCtr, ctr>> /\ sent' = sent
    BY DEF Bat, driverVars
  <1>2. sent \in Nat /\ sent # 0 /\ sent > 0
    BY <1>1 DEF TypeOK, Ps2Inv, Replying
  <1>3. kbdQueue \in Seq(KeyboardBytes) /\ n \in Nat
    BY DEF TypeOK
  <1> DEFINE Result(b) == b \in KeyboardBytes /\ b.of = sent /\ ~IsAnswer(b)
             Ended(q) == /\ Len(q) \in Nat /\ Len(q) > n
                         /\ \A j \in 1..n : q[j] = kbdQueue[j]
                         /\ \A j \in 1..Len(q) : j > n => Result(q[j])
  <1>4. Ended(kbdQueue')
    <2>1. PICK r \in {BatOk, Failure}, two \in BOOLEAN :
            kbdQueue' = kbdQueue \o <<Byte("keyboard", r, sent)>>
                        \o (IF two THEN <<Byte("keyboard", BatSecond, sent)>> ELSE <<>>)
      BY DEF Bat
    <2> DEFINE a == Byte("keyboard", r, sent)
               b == Byte("keyboard", BatSecond, sent)
    <2>2. Result(a) /\ Result(b)
      BY <1>2 DEF KeyboardBytes, Byte, IsAnswer, BatOk, Failure, BatSecond, Ack, Nak
    <2> HIDE DEF a, b, Result
    <2>3. a \in KeyboardBytes /\ b \in KeyboardBytes
      BY <2>2 DEF Result
    <2> DEFINE q == kbdQueue \o <<a>>
               p == q \o <<b>>
    <2>4. /\ <<a>> \in Seq(KeyboardBytes) /\ Len(<<a>>) = 1 /\ <<a>>[1] = a
          /\ <<b>> \in Seq(KeyboardBytes) /\ Len(<<b>>) = 1 /\ <<b>>[1] = b
      BY <2>3
    <2>5. /\ q \in Seq(KeyboardBytes) /\ Len(q) = n + 1
          /\ \A j \in 1..(n + 1) : q[j] = IF j <= n THEN kbdQueue[j] ELSE a
      <3>1. /\ q \in Seq(KeyboardBytes) /\ Len(q) = n + Len(<<a>>)
            /\ \A j \in 1..(n + Len(<<a>>)) :
                  q[j] = IF j <= n THEN kbdQueue[j] ELSE <<a>>[j - n]
        BY <1>3, <2>4, ConcatProperties
      <3>2. \A j \in 1..(n + 1) : j <= n \/ j - n = 1
        BY <1>3
      <3> HIDE DEF q, n
      <3> QED
        BY <2>4, <3>1, <3>2
    <2> HIDE DEF q
    <2>6. /\ p \in Seq(KeyboardBytes) /\ Len(p) = n + 2
          /\ \A j \in 1..(n + 2) : p[j] = IF j <= n + 1 THEN q[j] ELSE b
      <3>1. /\ p \in Seq(KeyboardBytes) /\ Len(p) = (n + 1) + Len(<<b>>)
            /\ \A j \in 1..((n + 1) + Len(<<b>>)) :
                  p[j] = IF j <= n + 1 THEN q[j] ELSE <<b>>[j - (n + 1)]
        BY <1>3, <2>4, <2>5, ConcatProperties
      <3>2. \A j \in 1..(n + 2) : j <= n + 1 \/ j - (n + 1) = 1
        BY <1>3
      <3>3. (n + 1) + 1 = n + 2
        BY <1>3
      <3> HIDE DEF p, n
      <3> QED
        BY <2>4, <3>1, <3>2, <3>3
    <2> HIDE DEF p, n
    <2>7. Ended(q)
      BY <1>3, <2>2, <2>5
    <2>8. Ended(p)
      BY <1>3, <2>2, <2>5, <2>6
    <2>9. kbdQueue' = p \/ kbdQueue' = q
      <3>1. CASE two
        BY <2>1, <3>1 DEF p, q, a, b
      <3>2. CASE ~two
        <4>1. kbdQueue' = q \o <<>>
          BY <2>1, <3>2 DEF q, a
        <4> QED
          BY <2>5, <4>1, ConcatEmptySeq
      <3> QED
        BY <3>1, <3>2
    <2> QED
      BY <2>7, <2>8, <2>9 DEF n
  <1>5. ASSUME NEW j \in Slots'
        PROVE  \/ j \in Slots /\ Slot(j)' = Slot(j)
               \/ j > n /\ Slot(j)'.of = sent /\ ~IsAnswer(Slot(j)')
    <2>1. j \in 0..Len(kbdQueue') /\ (j = 0 => obf # <<>>)
      BY <1>1 DEF Slots
    <2>2. CASE j = 0
      BY <1>1, <1>3, <2>1, <2>2 DEF Slots, Slot
    <2>3. CASE j \in 1..n
      BY <1>3, <1>4, <2>3 DEF Slots, Slot
    <2>4. CASE j > n
      BY <1>3, <1>4, <2>1, <2>4 DEF Slot
    <2> QED
      BY <1>3, <2>1, <2>2, <2>3, <2>4
  <1>6. Replying'
    BY <1>1, <1>2, <1>5 DEF Ps2Inv, Replying
  <1>7. ASSUME NEW i \in 1..47, Running(i)
        PROVE  Keyboard(i)'
    <2>1. i \in {15, 16}
      BY <1>1, <1>7 DEF Running, Keyboard
    <2>2. ~Holding("device")'
      BY <1>1, <1>7, <2>1 DEF Running, Keyboard, Acks, Holding
    <2>3. CASE i = 15
      <3>1. ASSUME NEW j \in Slots', IsAnswer(Slot(j)')
            PROVE  Answered(i, j)'
        <4>1. j \in Slots /\ Slot(j)' = Slot(j) /\ IsAnswer(Slot(j))
          BY <1>5, <3>1
        <4>2. Answered(i, j)
          BY <1>7, <2>3, <4>1 DEF Running, Keyboard, Acks
        <4>3. \A k \in Slots' : k > j => ~IsAnswer(Slot(k)')
          BY <1>5, <4>2 DEF Answered
        <4>4. Slot(j)'.byte = Ack =>
                j < Len(kbdQueue') /\ kbdQueue'[j + 1].of = sent'
          <5> SUFFICES ASSUME Slot(j)'.byte = Ack
                       PROVE  j < Len(kbdQueue') /\ kbdQueue'[j + 1].of = sent'
            OBVIOUS
          <5>1. j = n
            BY <1>1, <2>3, <4>1, <4>2 DEF Answered
          <5>2. n + 1 \in 1..Len(kbdQueue') /\ n + 1 > n
            BY <1>3, <1>4
          <5>3. kbdQueue'[n + 1].of = sent
            BY <1>4, <5>2
          <5> QED
            BY <1>1, <1>4, <5>1, <5>3
        <4> QED
          BY <1>1, <2>3, <4>1, <4>2, <4>3, <4>4 DEF Answered
      <3> QED
        BY <2>2, <2>3, <3>1 DEF Keyboard, Acks
    <2>4. CASE i = 16
      <3>1. NoAnswer'
        BY <1>5, <1>7, <2>4 DEF Running, Keyboard, Acks, NoAnswer
      <3>2. kbdQueue = <<>> /\ NotWanted
        BY <1>1, <1>7, <2>4 DEF Running, Keyboard, FirstIsResult
      <3>3. n = 0
        BY <3>2
      <3>4. 1 \in 1..Len(kbdQueue') /\ 1 > n
        BY <1>4, <3>3
      <3>5. kbdQueue'[1].of = sent /\ Len(kbdQueue') # 0
        BY <1>4, <3>4
      <3>6. FirstIsResult'
        BY <1>1, <3>2, <3>5 DEF FirstIsResult, NotWanted
      <3> QED
        BY <2>2, <2>4, <3>1, <3>6 DEF Keyboard, Acks
    <2> QED
      BY <2>1, <2>3, <2>4
  <1> QED
    BY <1>1, <1>6, <1>7, OnlyKeyboard

\* The first byte of the queue goes into the output buffer: every byte moves
\* up one slot.
LEMMA DeliverKeeps ==
    ASSUME TypeOK, Ps2Inv, Deliver
    PROVE  Ps2Inv'
  <1> DEFINE n == Len(kbdQueue)
  <1>1. /\ obf = <<>> /\ obf' = <<kbdQueue[1]>>
        /\ UNCHANGED <<driverVars, ibf, wantsCtr, ctr, scanning, selfTest>>
        /\ sent' = sent
    BY DEF Deliver, driverVars
  <1>2. /\ kbdQueue \in Seq(KeyboardBytes) /\ kbdQueue # <<>>
        /\ n \in Nat /\ n > 0
    BY DEF TypeOK, Deliver
  <1>3. /\ kbdQueue' \in Seq(KeyboardBytes) /\ Len(kbdQueue') = n - 1
        /\ \A j \in 1..(n - 1) : kbdQueue'[j] = kbdQueue[j + 1]
    <2>1. kbdQueue' = Tail(kbdQueue)
      BY DEF Deliver
    <2>2. /\ Tail(kbdQueue) \in Seq(KeyboardBytes) /\ Len(Tail(kbdQueue)) = n - 1
          /\ \A j \in 1..Len(Tail(kbdQueue)) : Tail(kbdQueue)[j] = kbdQueue[j + 1]
      BY <1>2, HeadTailProperties
    <2> QED
      BY <2>1, <2>2
  <1>4. ASSUME NEW j \in Slots'
        PROVE  j \in Nat /\ j + 1 \in Slots /\ Slot(j)' = Slot(j + 1)
    <2>1. j \in 0..(n - 1)
      BY <1>3 DEF Slots
    <2>2. j + 1 \in Slots /\ Slot(j + 1) = kbdQueue[j + 1]
      BY <1>2, <2>1 DEF Slots, Slot
    <2>3. CASE j = 0
      BY <1>1, <2>2, <2>3 DEF Slot
    <2>4. CASE j # 0
      <3>1. j \in 1..(n - 1)
        BY <1>2, <2>1, <2>4
      <3>2. kbdQueue'[j] = kbdQueue[j + 1]
        BY <1>3, <3>1
      <3> QED
        BY <2>1, <2>2, <2>4, <3>2 DEF Slot
    <2> QED
      BY <2>1, <2>2, <2>3, <2>4
  <1>5. (NoAnswer => NoAnswer') /\ (NoReply => NoReply')
    <2>1. NoAnswer => NoAnswer'
      BY <1>4 DEF NoAnswer
    <2>2. NoReply => NoReply'
      BY <1>4 DEF NoReply
    <2> QED
      BY <2>1, <2>2
  <1>6. Holding("device")' <=> Holding("device")
    BY <1>1 DEF Holding
  <1>7. Replying'
    <2>1. \A j \in Slots' : Slot(j)'.of = 0 =>
            Slot(j)'.from = "mouse" \/ Slot(j)'.byte \notin {Ack, Nak}
      BY <1>4 DEF Ps2Inv, Replying
    <2> QED
      BY <1>1, <1>5, <1>6, <2>1 DEF Ps2Inv, Replying
  <1>8. ASSUME NEW i \in 1..47, Running(i)
        PROVE  Keyboard(i)'
    <2>1. CASE i \in Acks
      <3>1. ASSUME NEW j \in Slots', IsAnswer(Slot(j)')
            PROVE  Answered(i, j)'
        <4>1. j \in Nat /\ j + 1 \in Slots /\ Slot(j)' = Slot(j + 1)
          BY <1>4, <3>1
        <4>2. Answered(i, j + 1)
          BY <1>8, <2>1, <3>1, <4>1 DEF Running, Keyboard
        <4>3. ASSUME NEW k \in Slots', k > j
              PROVE  ~IsAnswer(Slot(k)') /\ (i >= 26 => Slot(k)'.of = 0)
          <5>1. k \in Nat /\ k + 1 \in Slots /\ Slot(k)' = Slot(k + 1)
            BY <1>4, <4>3
          <5>2. k + 1 > j + 1
            BY <4>1, <4>3, <5>1
          <5> QED
            BY <4>2, <5>1, <5>2 DEF Answered
        <4>4. i = 15 /\ Slot(j)'.byte = Ack =>
                IF selfTest' THEN j = Len(kbdQueue')
                ELSE j < Len(kbdQueue') /\ kbdQueue'[j + 1].of = sent'
          <5> SUFFICES ASSUME i = 15, Slot(j)'.byte = Ack
                       PROVE  IF selfTest' THEN j = Len(kbdQueue')
                              ELSE j < Len(kbdQueue') /\ kbdQueue'[j + 1].of = sent'
            OBVIOUS
          <5>1. IF selfTest THEN j + 1 = n
                ELSE j + 1 < n /\ kbdQueue[(j + 1) + 1].of = sent
            BY <4>1, <4>2 DEF Answered
          <5>2. CASE selfTest
            BY <1>1, <1>2, <1>3, <4>1, <5>1, <5>2
          <5>3. CASE ~selfTest
            <6>1. j + 1 \in 1..(n - 1)
              BY <1>2, <4>1, <5>1, <5>3
            <6>2. kbdQueue'[j + 1] = kbdQueue[(j + 1) + 1]
              BY <1>3, <6>1
            <6>3. j < n - 1
              BY <1>2, <4>1, <5>1, <5>3
            <6> QED
              BY <1>1, <1>3, <5>1, <5>3, <6>2, <6>3
          <5> QED
            BY <5>2, <5>3
        <4>5. i = 45 /\ Slot(j)'.byte = Ack => scanning'
          BY <1>1, <4>1, <4>2 DEF Answered
        <4>6. Slot(j)'.of = sent'
          BY <1>1, <4>1, <4>2 DEF Answered
        <4> QED
          BY <4>3, <4>4, <4>5, <4>6 DEF Answered
      <3>2. Holding("device")' =>
              ibf'[1] = KeyboardInit[i - 1] /\ NoAnswer' /\ ~selfTest'
        BY <1>1, <1>5, <1>6, <1>8, <2>1 DEF Running, Keyboard
      <3>3. i # 16 /\ (i # 15 => ~selfTest') /\ i < 46
        BY <1>1, <1>8, <2>1 DEF Running, Keyboard, Acks
      <3> QED
        BY <2>1, <3>1, <3>2, <3>3 DEF Keyboard
    <2>2. CASE i \notin Acks
      <3>1. /\ ~Holding("device")' /\ NoAnswer' /\ (i >= 27 => NoReply')
            /\ (i \notin {15, 16} => ~selfTest') /\ (i >= 46 => scanning')
        BY <1>1, <1>5, <1>6, <1>8, <2>2 DEF Running, Keyboard
      <3>2. i = 16 => FirstIsResult'
        <4> SUFFICES ASSUME i = 16 PROVE FirstIsResult'
          OBVIOUS
        <4>1. ~selfTest /\ kbdQueue[1].of = sent
          BY <1>1, <1>2, <1>8 DEF Running, Keyboard, FirstIsResult, NotWanted
        <4>2. kbdQueue[1].from = "keyboard"
          <5>1. kbdQueue[1] \in KeyboardBytes
            BY <1>2
          <5> QED
            BY <5>1 DEF KeyboardBytes
        <4> QED
          BY <1>1, <4>1, <4>2 DEF FirstIsResult, NotWanted
      <3> QED
        BY <2>2, <3>1, <3>2 DEF Keyboard
    <2> QED
      BY <2>1, <2>2
  <1> QED
    BY <1>1, <1>7, <1>8, OnlyKeyboard

-----------------------------------------------------------------------------
(* The theorems.                                                           *)
LEMMA InitHolds ==
    ASSUME Init
    PROVE  TypeOK /\ Ps2Inv
  <1>1. kbdQueue = <<>> /\ obf = <<>> /\ ibf = <<>>
    BY DEF Init
  <1>2. kbdQueue \in Seq(KeyboardBytes) /\ Len(kbdQueue) = 0
    BY <1>1
  <1>3. TypeOK
    <2>1. ctr \in SUBSET Bits /\ ps2ctr \in SUBSET Bits
      BY DEF Init, Bits
    <2>2. ibf \in {<<>>} \cup {<<s>> : s \in Written} /\ obf \in {<<>>} \cup {<<b>> : b \in Bytes}
      BY <1>1
    <2>3. /\ tries \in Nat /\ expired \in BOOLEAN /\ param \in 0..255 /\ sent \in Nat
          /\ wantsCtr \in BOOLEAN /\ scanning \in BOOLEAN /\ selfTest \in BOOLEAN
      <3>1. /\ tries = 0 /\ expired = FALSE /\ param = 0 /\ sent = 0
            /\ wantsCtr = FALSE /\ scanning = TRUE /\ selfTest = FALSE
        BY DEF Init
      <3>2. tries \in Nat /\ param \in 0..255 /\ sent \in Nat
        BY <3>1
      <3>3. /\ expired \in BOOLEAN /\ wantsCtr \in BOOLEAN
            /\ scanning \in BOOLEAN /\ selfTest \in BOOLEAN
        BY <3>1
      <3> QED
        BY <3>2, <3>3
    <2> QED
      BY <1>2, <2>1, <2>2, <2>3 DEF TypeOK
  <1>4. Slots = {}
    <2>1. ASSUME NEW j \in 0..Len(kbdQueue)
          PROVE  j = 0
      BY <1>2
    <2> QED
      BY <1>1, <2>1 DEF Slots
  <1>5. \A op : ~Holding(op)
    BY <1>1 DEF Holding
  <1>6. Replying
    BY <1>4 DEF Init, Replying, NoReply, Holding
  <1>7. Control(1)
    BY RestEnds DEF Init, Control, InBody
  <1>8. Controller(1)
    BY <1>5 DEF Controller
  <1>9. Keyboard(1)
    BY <1>4, <1>5 DEF Init, Keyboard, NoAnswer, Acks
  <1>10. Pairing
    <2>1. todo # <<>> /\ Head(todo) = KeyboardInit[1]
      BY RestEnds, RestSteps DEF Init
    <2>2. KeyboardInit[1].op = "flush"
      BY Kinds
    <2> QED
      BY <1>5, <2>1, <2>2 DEF Init, Pairing, HoldingWctr
  <1> QED
    BY <1>3, <1>6, <1>7, <1>8, <1>9, <1>10 DEF Ps2Inv, DriverInv, Running

\* The driver writes only what a port understands.
LEMMA WrittenSteps ==
    ASSUME TypeOK, Ps2Inv, todo # <<>>, Head(todo).op \in {"command", "mode", "device"}
    PROVE  Head(todo) \in Written
  <1>1. ps2ctr \in SUBSET Bits
    BY DEF TypeOK
  <1>2. Command("CTL_WCTR") \in Steps /\ Mode(ps2ctr) \in Steps
    BY <1>1, StepsAreSteps DEF Commands
  <1>3. ASSUME NEW i \in 1..46, At(i)
        PROVE  Head(todo) \in Steps
    BY <1>3, Values DEF At
  <1>4. ASSUME NEW i \in AfterRestore, Restoring(i)
        PROVE  Head(todo) \in {Command("CTL_WCTR"), Mode(ps2ctr)}
    BY <1>1, <1>4, RestoringSteps DEF Restoring
  <1>5. Failed => Head(todo) \in {Command("CTL_WCTR"), Mode(ps2ctr)}
    BY <1>1, FailedSteps DEF Failed
  <1>6. Head(todo) \in Steps
    BY <1>2, <1>3, <1>4, <1>5, Position DEF Ps2Inv
  <1> QED
    BY <1>6 DEF Written

\* The polls and the deadline of a step.
LEMMA PollsTyped ==
    ASSUME TypeOK,
           (\E s : GoTo(s)) \/ Retry \/ UNCHANGED <<tries, expired>>
    PROVE  tries' \in Nat /\ expired' \in BOOLEAN
  <1>1. tries \in Nat /\ expired \in BOOLEAN
    BY DEF TypeOK
  <1>2. CASE \E s : GoTo(s)
    <2>1. tries' = 0 /\ expired' = FALSE
      BY <1>2 DEF GoTo
    <2> QED
      BY <2>1
  <1>3. CASE Retry
    BY <1>1, <1>3 DEF Retry
  <1>4. CASE UNCHANGED <<tries, expired>>
    BY <1>1, <1>4
  <1> QED
    BY <1>2, <1>3, <1>4

LEMMA StillTyped ==
    ASSUME TypeOK, Still, param' \in 0..255, ps2ctr' \in SUBSET Bits,
           tries' \in Nat, expired' \in BOOLEAN
    PROVE  TypeOK'
  BY DEF TypeOK, Still, keyboardVars

LEMMA DriverTyped ==
    ASSUME TypeOK, Ps2Inv, Driver
    PROVE  TypeOK'
  <1>0. param \in 0..255 /\ ps2ctr \in SUBSET Bits
    BY DEF TypeOK
  <1>1. tries' \in Nat /\ expired' \in BOOLEAN
    <2>1. GiveUp => \E s : GoTo(s)
      BY DEF GiveUp
    <2>2. Advance => \E s : GoTo(s)
      BY DEF Advance
    <2>3. (\E s : GoTo(s)) \/ Retry \/ UNCHANGED <<tries, expired>>
      <3>1. Waited => (\E s : GoTo(s)) \/ Retry
        BY <2>1 DEF Waited
      <3>2. Flush => (\E s : GoTo(s)) \/ Retry
        BY <2>1, <2>2 DEF Flush
      <3>3. Write => (\E s : GoTo(s)) \/ Retry
        BY <2>2, <3>1 DEF Write
      <3>4. Read => (\E s : GoTo(s)) \/ Retry
        BY <2>2, <3>1 DEF Read
      <3>5. Accept => \E s : GoTo(s)
        BY <2>1, <2>2 DEF Accept
      <3>6. Discard => (\E s : GoTo(s)) \/ UNCHANGED <<tries, expired>>
        BY <2>1, <2>2 DEF Discard
      <3>7. Compare => \E s : GoTo(s)
        BY <2>2 DEF Compare
      <3>8. Ebda \/ Body \/ Restore => \E s : GoTo(s)
        BY <2>2 DEF Ebda, Body, Restore
      <3> QED
        BY <3>2, <3>3, <3>4, <3>5, <3>6, <3>7, <3>8 DEF Driver
    <2> QED
      BY <2>3, PollsTyped
  <1>2. obf # <<>> => obf[1].byte \in 0..255
    BY DEF TypeOK, Bytes
  <1>3. CASE Flush \/ Compare \/ Body \/ Restore \/ Discard
    <2>1. Still /\ UNCHANGED <<param, ps2ctr>>
      BY <1>3 DEF Flush, Compare, Body, Restore, Discard, Still, keyboardVars
    <2> QED
      BY <1>0, <1>1, <2>1, StillTyped
  <1>4. CASE Read \/ Accept
    <2>1. Still /\ ps2ctr' = ps2ctr /\ (param' = param \/ (obf # <<>> /\ param' = obf[1].byte))
      BY <1>4 DEF Read, Accept, Still, keyboardVars
    <2> QED
      BY <1>0, <1>1, <1>2, <2>1, StillTyped
  <1>5. CASE Ebda
    <2>1. PICK i \in 1..46 : Running(i) /\ At(i) /\ KeyboardInit[i].op \in {"ebda"}
      BY <1>5, Where DEF Ebda, Ps2Inv
    <2>2. i \in {8, 38}
      BY <2>1, Kinds
    <2>3. ps2ctr' \in {KbdOff, KbdOn}
      BY <1>5, <2>1, <2>2, Values DEF Ebda, At
    <2>4. Still /\ param' = param
      BY <1>5 DEF Ebda, Still, keyboardVars
    <2> QED
      BY <1>0, <1>1, <2>3, <2>4, ModesAreBits, StillTyped
  <1>6. CASE Write
    <2>1. Head(todo) \in Written
      BY <1>6, WrittenSteps DEF Write, Doing
    <2>2. ibf' = ibf \/ ibf' = <<Head(todo)>>
      BY <1>6 DEF Write
    <2>3. sent' \in Nat
      BY <1>6 DEF Write, TypeOK
    <2>4. UNCHANGED <<param, ps2ctr, obf, wantsCtr, ctr, kbdQueue, scanning, selfTest>>
      BY <1>6 DEF Write, keyboardVars
    <2> QED
      BY <1>1, <2>1, <2>2, <2>3, <2>4 DEF TypeOK
  <1> QED
    BY <1>3, <1>4, <1>5, <1>6 DEF Driver

LEMMA HardwareTyped ==
    ASSUME TypeOK, Hardware \/ Deadline
    PROVE  TypeOK'
  <1>1. kbdQueue \in Seq(KeyboardBytes) /\ sent \in Nat
    BY DEF TypeOK
  <1>2. CASE Deadline
    BY <1>2 DEF Deadline, TypeOK, keyboardVars
  <1>3. ASSUME NEW c, NEW results \in SUBSET (0..255), TakeTest(c, results)
        PROVE  TypeOK'
    <2>1. PICK r \in results : obf' = <<Byte("controller", r, 0)>>
      BY <1>3 DEF TakeTest
    <2>2. Byte("controller", r, 0) \in Bytes
      BY DEF Byte, Bytes
    <2> QED
      BY <1>3, <2>1, <2>2 DEF TakeTest, Takes, TypeOK, driverVars, keyboardVars
  <1>4. CASE TakeWctr
    BY <1>4 DEF TakeWctr, Takes, TypeOK, driverVars, keyboardVars
  <1>5. CASE TakeMode
    <2>1. ibf # <<>> /\ ibf[1] \in Steps /\ ibf[1].op = "mode"
      BY <1>5 DEF TakeMode, Takes, TypeOK, Written
    <2>2. ibf[1].mode \in SUBSET Bits
      BY <2>1, StepKinds, StepOps
    <2> QED
      BY <1>5, <2>2 DEF TakeMode, Takes, TypeOK, driverVars, keyboardVars
  <1>6. CASE TakeDevice
    <2> DEFINE a == Byte("keyboard", Ack, sent)
               n == Byte("keyboard", Nak, sent)
    <2>1. a \in KeyboardBytes /\ n \in KeyboardBytes
      BY <1>1 DEF Byte, KeyboardBytes, Ack, Nak
    <2> HIDE DEF a, n
    <2>2. /\ <<a>> \in Seq(KeyboardBytes) /\ Append(kbdQueue, a) \in Seq(KeyboardBytes)
          /\ Append(kbdQueue, n) \in Seq(KeyboardBytes)
      BY <1>1, <2>1
    <2>3. kbdQueue' \in {kbdQueue, <<a>>, Append(kbdQueue, a), Append(kbdQueue, n)}
      BY <1>6 DEF TakeDevice, Obey, keyboardVars, a, n
    <2>4. scanning' \in BOOLEAN /\ selfTest' \in BOOLEAN
      BY <1>6 DEF TakeDevice, Obey, keyboardVars, TypeOK
    <2>5. ibf' = <<>> /\ UNCHANGED <<driverVars, obf, wantsCtr, ctr>>
      BY <1>6 DEF TakeDevice, Takes
    <2> QED
      BY <1>1, <2>2, <2>3, <2>4, <2>5 DEF TypeOK, driverVars
  <1>7. CASE Bat
    <2>1. PICK r \in {BatOk, Failure}, two \in BOOLEAN :
            kbdQueue' = kbdQueue \o <<Byte("keyboard", r, sent)>>
                        \o (IF two THEN <<Byte("keyboard", BatSecond, sent)>> ELSE <<>>)
      BY <1>7 DEF Bat
    <2> DEFINE a == Byte("keyboard", r, sent)
               b == Byte("keyboard", BatSecond, sent)
               s == IF two THEN <<b>> ELSE <<>>
               q == kbdQueue \o <<a>>
    <2>2. a \in KeyboardBytes /\ b \in KeyboardBytes
      BY <1>1 DEF KeyboardBytes, Byte, BatOk, Failure, BatSecond
    <2>3. kbdQueue' = q \o s
      BY <2>1
    <2> HIDE DEF a, b
    <2>4. <<a>> \in Seq(KeyboardBytes) /\ s \in Seq(KeyboardBytes)
      BY <2>2
    <2> HIDE DEF s
    <2>5. q \in Seq(KeyboardBytes)
      BY <1>1, <2>4, ConcatProperties
    <2> HIDE DEF q
    <2>6. kbdQueue' \in Seq(KeyboardBytes)
      BY <2>3, <2>4, <2>5, ConcatProperties
    <2> QED
      BY <1>7, <2>6 DEF Bat, TypeOK, driverVars
  <1>8. CASE Deliver
    <2>1. Tail(kbdQueue) \in Seq(KeyboardBytes) /\ Head(kbdQueue) \in KeyboardBytes
      BY <1>1, <1>8, HeadTailProperties DEF Deliver
    <2>2. Head(kbdQueue) \in Bytes
      BY <2>1 DEF Bytes, KeyboardBytes
    <2> QED
      BY <1>8, <2>1, <2>2 DEF Deliver, TypeOK, driverVars
  <1>9. ASSUME NEW c \in Scancodes, Type(c)
        PROVE  TypeOK'
    <2> DEFINE b == Byte("keyboard", c, 0)
    <2>1. b \in KeyboardBytes
      BY Ps2Assumption DEF Byte, KeyboardBytes
    <2>2. kbdQueue' = Append(kbdQueue, b)
      BY <1>9 DEF Type
    <2> HIDE DEF b
    <2>3. kbdQueue' \in Seq(KeyboardBytes)
      BY <1>1, <2>1, <2>2
    <2> QED
      BY <1>9, <2>3 DEF Type, TypeOK, driverVars
  <1>10. ASSUME NEW m \in MouseData, MoveMouse(m)
         PROVE  TypeOK'
    <2>1. Byte("mouse", m, 0) \in Bytes
      BY Ps2Assumption DEF Byte, Bytes
    <2> QED
      BY <1>10, <2>1 DEF MoveMouse, TypeOK, driverVars, keyboardVars
  <1>11. /\ {ControllerOk, Failure} \in SUBSET (0..255)
         /\ {KeyboardPortOk, 1} \in SUBSET (0..255)
    BY DEF ControllerOk, Failure, KeyboardPortOk
  <1> QED
    BY <1>2, <1>3, <1>4, <1>5, <1>6, <1>7, <1>8, <1>9, <1>10, <1>11 DEF Hardware

LEMMA NextKeeps ==
    ASSUME TypeOK, Ps2Inv, [Next]_vars
    PROVE  TypeOK' /\ Ps2Inv'
  <1>1. CASE Driver
    <2>1. TypeOK'
      BY <1>1, DriverTyped
    <2>2. Ps2Inv'
      BY <1>1, FlushKeeps, WriteKeeps, ReadKeeps, AcceptKeeps, DiscardKeeps,
         CompareKeeps, EbdaKeeps, BodyKeeps, RestoreKeeps DEF Driver
    <2> QED
      BY <2>1, <2>2
  <1>2. CASE Deadline
    BY <1>2, HardwareTyped, DeadlineKeeps
  <1>3. CASE Hardware
    <2>1. TypeOK'
      BY <1>3, HardwareTyped
    <2>2. CASE TakeTest("CTL_TEST", {ControllerOk, Failure})
      <3>1. {ControllerOk, Failure} \in SUBSET ((0..255) \ {Ack, Nak})
        BY DEF ControllerOk, Failure, Ack, Nak
      <3> QED
        BY <2>1, <2>2, <3>1, TakeTestKeeps
    <2>3. CASE TakeTest("KBD_TEST", {KeyboardPortOk, 1})
      <3>1. {KeyboardPortOk, 1} \in SUBSET ((0..255) \ {Ack, Nak})
        BY DEF KeyboardPortOk, Ack, Nak
      <3> QED
        BY <2>1, <2>3, <3>1, TakeTestKeeps
    <2>4. CASE TakeWctr \/ TakeMode \/ TakeDevice \/ Bat \/ Deliver
      BY <2>1, <2>4, TakeWctrKeeps, TakeModeKeeps, TakeDeviceKeeps, BatKeeps, DeliverKeeps
    <2>5. CASE \E c \in Scancodes : Type(c)
      BY <2>1, <2>5, TypeKeeps
    <2>6. CASE \E m \in MouseData : MoveMouse(m)
      BY <2>1, <2>6, MoveMouseKeeps
    <2> QED
      BY <1>3, <2>1, <2>2, <2>3, <2>4, <2>5, <2>6 DEF Hardware
  <1>4. CASE UNCHANGED vars
    <2>1. Still /\ obf' = obf /\ UNCHANGED <<todo, ret, saved, ps2ctr>>
      BY <1>4 DEF vars, driverVars, Still
    <2>2. UNCHANGED <<param, tries, expired>>
      BY <1>4 DEF vars, driverVars
    <2>3. TypeOK'
      BY <2>1, <2>2, StillTyped DEF TypeOK
    <2> QED
      BY <2>1, <2>3, Retries
  <1> QED
    BY <1>1, <1>2, <1>3, <1>4 DEF Next

\* The variables hold what the code can put into them: ports carry bytes
\* and steps, the modes are sets of the controller's bits.
THEOREM TypeCorrect == Spec => []TypeOK
  <1>1. Init => TypeOK /\ Ps2Inv
    BY InitHolds
  <1>2. TypeOK /\ Ps2Inv /\ [Next]_vars => TypeOK' /\ Ps2Inv'
    BY NextKeeps
  <1> QED
    BY <1>1, <1>2, PTL DEF Spec

\* At every step of keyboard_init the driver, the controller and the bytes
\* on their way from the keyboard are as the step needs them (__ps2_command,
\* ps2_recvbyte), whatever the hardware and the user do.
THEOREM DriverCorrect == Spec => []Ps2Inv
  <1>1. Init => TypeOK /\ Ps2Inv
    BY InitHolds
  <1>2. TypeOK /\ Ps2Inv /\ [Next]_vars => TypeOK' /\ Ps2Inv'
    BY NextKeeps
  <1> QED
    BY <1>1, <1>2, PTL DEF Spec

\* Where the driver is when it has returned.
LEMMA AtTheEnd ==
    ASSUME TypeOK, Ps2Inv, Returned
    PROVE  \/ Running(47) /\ todo = Rest(47)
           \/ Failed
  <1>1. todo = <<>> /\ ps2ctr \in SUBSET Bits
    BY DEF Returned, TypeOK
  <1>2. ASSUME NEW i \in 1..47, Running(i)
        PROVE  Running(47) /\ todo = Rest(47)
    <2>1. ~Restoring(i)
      BY <1>1, RestoringSteps DEF Restoring
    <2>2. todo = Rest(i)
      BY <1>2, <2>1 DEF Running, Control
    <2>3. i \notin 1..46
      BY <1>1, <2>2, RestSteps
    <2>4. i = 47
      BY <2>3
    <2> QED
      BY <1>2, <2>2, <2>4
  <1> QED
    BY <1>2 DEF Ps2Inv, DriverInv

\* A mode never reaches the keyboard, nor a byte for the keyboard the mode,
\* also where a command breaks off between i8042_command and its parameter.
THEOREM BytesReach == Spec => []BytesReachTheirReader
  <1>1. Ps2Inv => BytesReachTheirReader
    BY DEF Ps2Inv, Pairing, Holding, BytesReachTheirReader
  <1> QED
    BY <1>1, DriverCorrect, PTL

\* However __ps2_command ends, the controller is left with the mode in
\* ebda.ps2ctr, unless it stopped taking commands.
THEOREM ModeIsRestored == Spec => []ModeRestored
  <1>1. TypeOK /\ Ps2Inv => ModeRestored
    <2> SUFFICES ASSUME TypeOK, Ps2Inv, Returned, ret # "stuck", ps2ctr # {}, ibf = <<>>
                 PROVE  ctr = ps2ctr
      BY DEF ModeRestored
    <2>1. Latest(ps2ctr) => ctr = ps2ctr
      BY DEF Latest, Holding
    <2>2. CASE Running(47) /\ todo = Rest(47)
      BY <2>1, <2>2 DEF Running, Controller
    <2>3. CASE Failed
      BY <2>1, <2>3 DEF Failed, Returned
    <2> QED
      BY <2>2, <2>3, AtTheEnd
  <1> QED
    BY <1>1, TypeCorrect, DriverCorrect, PTL

\* While the driver has steps to do, a reply of the keyboard waits in the
\* output buffer only with the interrupt of that buffer off.
THEOREM RepliesPolled == Spec => []RepliesArePolled
  <1>1. TypeOK /\ Ps2Inv => RepliesArePolled
    <2> SUFFICES ASSUME TypeOK, Ps2Inv, todo # <<>>, Replies(obf) # {}
                 PROVE  "KBDINT" \notin ctr
      BY DEF RepliesArePolled, Returned
    <2>1. obf # <<>> /\ obf[1].of # 0
      BY DEF Replies, TypeOK
    <2>2. 0 \in Slots /\ Slot(0).of # 0
      BY <2>1 DEF Slots, Slot, TypeOK
    <2>3. ~NoReply
      BY <2>2 DEF NoReply
    <2>4. sent > 0
      BY <2>3 DEF Ps2Inv, Replying, TypeOK
    <2>5. ASSUME NEW i \in 1..47, Running(i)
          PROVE  i \in 13..46
      <3>1. i > 14
        <4>1. IF i <= 14 THEN sent = 0 ELSE sent > 0
          BY <2>5 DEF Running, Control
        <4> QED
          BY <2>4, <4>1
      <3>2. i # 47
        BY <2>3, <2>5 DEF Running, Keyboard, Acks
      <3> QED
        BY <3>1, <3>2
    <2>6. ASSUME NEW i \in 1..47, Running(i)
          PROVE  "KBDINT" \notin ctr
      <3>1. i \in 13..46
        BY <2>5, <2>6
      <3>2. i \in 11..46 /\ i >= 13
        BY <3>1
      <3> QED
        BY <2>6, <3>2 DEF Running, Controller
    <2>7. Failed => "KBDINT" \notin ctr
      BY <2>4 DEF Failed
    <2> QED
      BY <2>6, <2>7 DEF Ps2Inv, DriverInv
  <1> QED
    BY <1>1, TypeCorrect, DriverCorrect, PTL

\* When keyboard_init reports success the keyboard is enabled, the mode is
\* the kernel's, and no answer is left for the kernel to take for a key.
THEOREM SuccessIsReady == Spec => []SuccessMeansReady
  <1>1. TypeOK /\ Ps2Inv => SuccessMeansReady
    <2> SUFFICES ASSUME TypeOK, Ps2Inv, Returned, ret = "ok"
                 PROVE  /\ scanning
                        /\ Replies(obf) = {} /\ Replies(kbdQueue) = {}
                        /\ ibf = <<>> => ctr = KbdOn
      BY DEF SuccessMeansReady
    <2>1. Running(47) /\ todo = Rest(47)
      BY AtTheEnd DEF Failed
    <2>2. scanning /\ NoReply
      BY <2>1 DEF Running, Keyboard, Acks
    <2>3. kbdQueue \in Seq(KeyboardBytes) /\ Len(kbdQueue) \in Nat
      BY DEF TypeOK
    <2>4. ASSUME NEW j \in DOMAIN kbdQueue
          PROVE  kbdQueue[j].of = 0
      <3>1. j \in Slots /\ Slot(j) = kbdQueue[j]
        BY <2>3 DEF Slots, Slot
      <3> QED
        BY <2>2, <3>1 DEF NoReply
    <2>5. ASSUME NEW j \in DOMAIN obf
          PROVE  obf[j].of = 0
      <3>1. j = 1 /\ obf # <<>>
        BY DEF TypeOK
      <3>2. 0 \in Slots /\ Slot(0) = obf[1]
        BY <2>3, <3>1 DEF Slots, Slot
      <3> QED
        BY <2>2, <3>1, <3>2 DEF NoReply
    <2>6. ibf = <<>> => ctr = KbdOn
      BY <2>1 DEF Running, Control, Controller, Latest, Holding
    <2> QED
      BY <2>2, <2>4, <2>5, <2>6 DEF Replies
  <1> QED
    BY <1>1, TypeCorrect, DriverCorrect, PTL

\* ps2_recvbyte takes for an answer only the keyboard's answer to the last
\* byte sent, however late the earlier ones come.
THEOREM AnswersAreMatched == Spec => AnswersMatch
  <1>1. TypeOK /\ Ps2Inv /\ [Next]_vars
          => [Accept /\ Doing({"ack", "recv"}) => obf[1].of = sent]_vars
    <2> SUFFICES ASSUME TypeOK, Ps2Inv, Accept, Doing({"ack", "recv"})
                 PROVE  obf[1].of = sent
      OBVIOUS
    <2>1. PICK i \in 1..46 : Running(i) /\ At(i) /\ KeyboardInit[i].op \in {"ack", "recv"}
      BY Where DEF Ps2Inv
    <2>2. i \in Acks \cup {16}
      BY <2>1, Kinds
    <2>3. obf # <<>> /\ Wanted(obf[1])
      BY DEF Accept
    <2> QED
      BY <2>1, <2>2, <2>3, TakenAnswer
  <1>2. Spec => [][Next]_vars
    BY PTL DEF Spec
  <1> QED
    BY <1>1, <1>2, TypeCorrect, DriverCorrect, PTL DEF AnswersMatch
=============================================================================
