----------------------------- MODULE VgaAdapter -----------------------------
(***************************************************************************)
(* The VGA adapter the functions of src/vgaio.c drive: external, modelled  *)
(* as the emulated board behaves.  An adapter is a record of its registers *)
(* and of the bytes stored into its four planes.                           *)
(***************************************************************************)
EXTENDS VgaTables

CONSTANT DacSize    \* entries of the DAC (256)

\* Bit k of a byte, 2^k its weight.
Weight(k) == <<1, 2, 4, 8, 16, 32, 64, 128>>[k + 1]
Bit(x, k) == (x \div Weight(k)) % 2
PutBit(x, k, b) == x - Weight(k) * Bit(x, k) + Weight(k) * b

Colour(v) == Bit(v.misc, 0) = 1
CrtcPort(v) == IF Colour(v) THEN VGAREG_VGA_CRTC_ADDRESS
                            ELSE VGAREG_MDA_CRTC_ADDRESS
StatusPort(v) == CrtcPort(v) + 6

\* A byte written to a port.  The attribute controller's port takes an index
\* and a value by turns; the CRTC answers at one of two addresses and can
\* protect its registers 0 to 7; the DAC takes three bytes an entry.
Out(v, port, b) ==
    CASE port = VGAREG_ACTL_ADDRESS ->
           IF v.flip
           THEN [v EXCEPT !.actl = [i \in DOMAIN @ |->
                              IF i = v.actlIndex % 32 THEN b ELSE @[i]],
                          !.flip = FALSE]
           ELSE [v EXCEPT !.actlIndex = b % 64, !.flip = TRUE]
      [] port = VGAREG_WRITE_MISC_OUTPUT -> [v EXCEPT !.misc = b]
      [] port = VGAREG_SEQU_ADDRESS -> [v EXCEPT !.sequIndex = b]
      [] port = VGAREG_SEQU_DATA -> [v EXCEPT !.sequ[v.sequIndex] = b]
      [] port = VGAREG_PEL_MASK -> [v EXCEPT !.pelMask = b]
      [] port = VGAREG_DAC_READ_ADDRESS ->
           [v EXCEPT !.dacRead = b, !.dacByte = 0, !.dacState = 3]
      [] port = VGAREG_DAC_WRITE_ADDRESS ->
           [v EXCEPT !.dacWrite = b, !.dacByte = 0, !.dacState = 0]
      [] port = VGAREG_DAC_DATA ->
           [v EXCEPT !.dac[v.dacWrite][v.dacByte] = b,
                     !.dacByte = (@ + 1) % 3,
                     !.dacWrite = (@ + (v.dacByte + 1) \div 3) % DacSize]
      [] port = VGAREG_GRDC_ADDRESS -> [v EXCEPT !.grdcIndex = b]
      [] port = VGAREG_GRDC_DATA -> [v EXCEPT !.grdc[v.grdcIndex] = b]
      [] port = CrtcPort(v) -> [v EXCEPT !.crtcIndex = b]
      [] port = CrtcPort(v) + 1 ->
           IF Bit(v.crtc[17], 7) = 1 /\ v.crtcIndex < 8
           THEN IF v.crtcIndex = 7
                THEN [v EXCEPT !.crtc[7] = PutBit(@, 4, Bit(b, 4))] ELSE v
           ELSE [v EXCEPT !.crtc[v.crtcIndex] = b]
      [] port = StatusPort(v) -> [v EXCEPT !.feature = b]
      [] OTHER -> v                                 \* nothing answers

\* What a read of a port gives, and the adapter after it.
In(v, port) ==
    CASE port = VGAREG_ACTL_ADDRESS -> IF v.flip THEN 0 ELSE v.actlIndex
      [] port = VGAREG_ACTL_READ_DATA ->
           IF v.actlIndex % 32 \in DOMAIN v.actl THEN v.actl[v.actlIndex % 32] ELSE 0
      [] port = VGAREG_SEQU_ADDRESS -> v.sequIndex
      [] port = VGAREG_SEQU_DATA -> v.sequ[v.sequIndex]
      [] port = VGAREG_PEL_MASK -> v.pelMask
      [] port = VGAREG_DAC_STATE -> v.dacState
      [] port = VGAREG_DAC_WRITE_ADDRESS -> v.dacWrite
      [] port = VGAREG_DAC_DATA -> v.dac[v.dacRead][v.dacByte]
      [] port = VGAREG_READ_FEATURE_CTL -> v.feature
      [] port = VGAREG_READ_MISC_OUTPUT -> v.misc
      [] port = VGAREG_GRDC_ADDRESS -> v.grdcIndex
      [] port = VGAREG_GRDC_DATA -> v.grdc[v.grdcIndex]
      [] port = CrtcPort(v) -> v.crtcIndex
      [] port = CrtcPort(v) + 1 -> v.crtc[v.crtcIndex]
      [] OTHER -> 255
AfterIn(v, port) ==
    CASE port = StatusPort(v) -> [v EXCEPT !.flip = FALSE]
      [] port = VGAREG_DAC_DATA ->
           [v EXCEPT !.dacByte = (@ + 1) % 3,
                     !.dacRead = (@ + (v.dacByte + 1) \div 3) % DacSize]
      [] OTHER -> v

\* The processor stores byte b at offset a of the window at 0xA0000.
Window(v) == <<SEG_GRAPH, SEG_GRAPH, SEG_MTEXT, SEG_CTEXT>>[1 + ((v.grdc[6] \div 4) % 4)]
OddEven(v) == Bit(v.sequ[4], 2) = 0 \/ Bit(v.grdc[5], 4) = 1 \/ Bit(v.grdc[6], 1) = 1
Chain4(v) == Bit(v.sequ[4], 3) = 1
Unaltered(v) == v.grdc[1] = 0 /\ v.grdc[3] = 0 /\ v.grdc[5] % 4 = 0 /\ v.grdc[8] = 255
Store(v, a, b) ==
    LET step == IF Chain4(v) THEN 4 ELSE IF OddEven(v) THEN 2 ELSE 1
        hit == IF Window(v) = SEG_GRAPH /\ Bit(v.misc, 1) = 1
               THEN {p \in 0..3 : Bit(v.sequ[2], p) = 1 /\ p % step = a % step} ELSE {}
        cells == {<<p, a \div step>> : p \in hit}
    IN  [v EXCEPT !.plane = [c \in cells \union DOMAIN @ |->
             IF c \notin cells THEN @[c] ELSE IF Unaltered(v) THEN b ELSE "altered"]]
==============================================================================
