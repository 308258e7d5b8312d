------------------------------- MODULE VgaProofs -------------------------------
(***************************************************************************)
(* Proofs about the VGA functions (src/vgaio.c), for every sequence of     *)
(* calls: after vgahw_init the font is whole and, in a text mode, text can *)
(* be written (TextModeReady).                                             *)
(*                                                                         *)
(* The property is about the miscellaneous, sequencer and graphics         *)
(* registers and display memory.  What an access or a function leaves of   *)
(* them is stated by Same, and by the lemmas on the few that change them.  *)
(***************************************************************************)
EXTENDS Vga, WellFoundedInduction, TLAPS

-----------------------------------------------------------------------------
(* Accesses. *)

\* The ports are numbers.
USE DEF VGAREG_SEQU_ADDRESS, VGAREG_ACTL_ADDRESS, VGAREG_WRITE_MISC_OUTPUT,
        VGAREG_SEQU_DATA, VGAREG_PEL_MASK, VGAREG_DAC_READ_ADDRESS,
        VGAREG_DAC_WRITE_ADDRESS, VGAREG_DAC_DATA, VGAREG_GRDC_ADDRESS,
        VGAREG_GRDC_DATA, VGAREG_VGA_CRTC_ADDRESS, VGAREG_MDA_CRTC_ADDRESS,
        VGAREG_ACTL_WRITE_DATA, VGAREG_ACTL_READ_DATA, VGAREG_READ_FEATURE_CTL,
        VGAREG_READ_MISC_OUTPUT, VGAREG_ACTL_RESET, VGAREG_DAC_STATE

\* An adapter that has the registers of display memory; the other adapter
\* differs from it in none of them.
Whole(v) ==
    /\ {"misc", "sequIndex", "sequ", "grdcIndex", "grdc", "plane"} \subseteq DOMAIN v
    /\ v.misc \in Int /\ DOMAIN v.sequ = 0 .. 4 /\ DOMAIN v.grdc = 0 .. 8
Same(v, w) ==
    Whole(v) => /\ Whole(w) /\ w.misc = v.misc /\ w.sequ = v.sequ
                /\ w.grdc = v.grdc /\ w.plane = v.plane

LEMMA SameItself ==
    ASSUME NEW v
    PROVE  Same(v, v)
  BY DEF Same

LEMMA SameAsSame ==
    ASSUME NEW u, NEW v, NEW w, Same(u, v), Same(v, w)
    PROVE  Same(u, w)
  BY DEF Same

LEMMA CrtcPorts ==
    ASSUME NEW v
    PROVE  CrtcPort(v) = 948 \/ CrtcPort(v) = 980
  BY DEF CrtcPort

\* The ports that lead to the registers of display memory.
MemoryPorts == {962, 965, 975}

LEMMA OutElsewhere ==
    ASSUME NEW v, NEW port, NEW b, port \notin MemoryPorts
    PROVE  Same(v, Out(v, port, b))
  <1> DEFINE w == Out(v, port, b)
             Actl == IF v.flip
                     THEN [v EXCEPT !.actl = [i \in DOMAIN @ |->
                                        IF i = v.actlIndex % 32 THEN b ELSE @[i]],
                                    !.flip = FALSE]
                     ELSE [v EXCEPT !.actlIndex = b % 64, !.flip = TRUE]
             Dac == [v EXCEPT !.dac[v.dacWrite][v.dacByte] = b,
                              !.dacByte = (@ + 1) % 3,
                              !.dacWrite = (@ + (v.dacByte + 1) \div 3) % DacSize]
             Crtc == IF Bit(v.crtc[17], 7) = 1 /\ v.crtcIndex < 8
                     THEN IF v.crtcIndex = 7
                          THEN [v EXCEPT !.crtc[7] = PutBit(@, 4, Bit(b, 4))] ELSE v
                     ELSE [v EXCEPT !.crtc[v.crtcIndex] = b]
             Others == {[v EXCEPT !.sequIndex = b], [v EXCEPT !.pelMask = b],
                        [v EXCEPT !.dacRead = b, !.dacByte = 0, !.dacState = 3],
                        [v EXCEPT !.dacWrite = b, !.dacByte = 0, !.dacState = 0],
                        [v EXCEPT !.grdcIndex = b], [v EXCEPT !.crtcIndex = b],
                        [v EXCEPT !.feature = b], v}
  <1>1. w \in Others \union {Actl, Dac, Crtc}
    BY CrtcPorts DEF Out, StatusPort, MemoryPorts
  <1>2. ASSUME NEW x \in Others
        PROVE  Same(v, x)
    BY <1>2 DEF Same, Whole
  <1>3. Same(v, Actl)
    BY DEF Same, Whole
  <1>4. Same(v, Dac)
    BY DEF Same, Whole
  <1>5. Same(v, Crtc)
    BY DEF Same, Whole
  <1> HIDE DEF Others, Actl, Dac, Crtc, w
  <1>6. w \in Others \/ w = Actl \/ w = Dac \/ w = Crtc
    BY <1>1
  <1>7. Same(v, w)
    BY <1>2, <1>3, <1>4, <1>5, <1>6
  <1> QED
    BY <1>7 DEF w

LEMMA AfterInSame ==
    ASSUME NEW v, NEW port
    PROVE  Same(v, AfterIn(v, port))
  BY CrtcPorts DEF AfterIn, Same, Whole, StatusPort

LEMMA OutRegisters ==
    ASSUME NEW v, NEW port, NEW b
    PROVE  /\ port = 962 => Out(v, port, b) = [v EXCEPT !.misc = b]
           /\ port = 964 => Out(v, port, b) = [v EXCEPT !.sequIndex = b]
           /\ port = 965 => Out(v, port, b) = [v EXCEPT !.sequ[v.sequIndex] = b]
           /\ port = 974 => Out(v, port, b) = [v EXCEPT !.grdcIndex = b]
           /\ port = 975 => Out(v, port, b) = [v EXCEPT !.grdc[v.grdcIndex] = b]
  <1>1. CrtcPort(v) = 948 \/ CrtcPort(v) = 980
    BY CrtcPorts
  <1>2. ASSUME port = 962
        PROVE  Out(v, port, b) = [v EXCEPT !.misc = b]
    BY <1>1, <1>2 DEF Out, StatusPort
  <1>3. ASSUME port = 964
        PROVE  Out(v, port, b) = [v EXCEPT !.sequIndex = b]
    BY <1>1, <1>3 DEF Out, StatusPort
  <1>4. ASSUME port = 965
        PROVE  Out(v, port, b) = [v EXCEPT !.sequ[v.sequIndex] = b]
    BY <1>1, <1>4 DEF Out, StatusPort
  <1>5. ASSUME port = 974
        PROVE  Out(v, port, b) = [v EXCEPT !.grdcIndex = b]
    BY <1>1, <1>5 DEF Out, StatusPort
  <1>6. ASSUME port = 975
        PROVE  Out(v, port, b) = [v EXCEPT !.grdc[v.grdcIndex] = b]
    BY <1>1, <1>6 DEF Out, StatusPort
  <1> QED
    BY <1>2, <1>3, <1>4, <1>5, <1>6

\* What the accesses to display memory's registers do.
SequSet(v, i, b, w) ==
    /\ Whole(w) /\ w.misc = v.misc /\ w.grdc = v.grdc /\ w.plane = v.plane
    /\ w.sequ = [v.sequ EXCEPT ![i] = b]
GrdcSet(v, i, b, w) ==
    /\ Whole(w) /\ w.misc = v.misc /\ w.sequ = v.sequ /\ w.plane = v.plane
    /\ w.grdc = [v.grdc EXCEPT ![i] = b]

LEMMA SequWritten ==
    ASSUME NEW v, Whole(v), NEW i, NEW b
    PROVE  SequSet(v, i, b, Outw(v, VGAREG_SEQU_ADDRESS, i, b))
  <1> DEFINE w == Outw(v, VGAREG_SEQU_ADDRESS, i, b)
             x == [v EXCEPT !.sequIndex = i]
             y == [x EXCEPT !.sequ[x.sequIndex] = b]
  <1>1. Out(v, 964, i) = x
    BY OutRegisters
  <1>2. Out(x, 965, b) = y
    <2> HIDE DEF x
    <2> QED
      BY OutRegisters
  <1>3. w = y
    <2> HIDE DEF x, y
    <2> QED
      BY <1>1, <1>2 DEF Outw, Outb
  <1> HIDE DEF w, y
  <1>4. /\ Whole(y) /\ y.misc = v.misc /\ y.grdc = v.grdc /\ y.plane = v.plane
        /\ y.sequ = [v.sequ EXCEPT ![i] = b]
    BY DEF y, Whole
  <1> QED
    BY <1>3, <1>4 DEF SequSet, w

LEMMA GrdcWritten ==
    ASSUME NEW v, Whole(v), NEW i, NEW b
    PROVE  GrdcSet(v, i, b, Outw(v, VGAREG_GRDC_ADDRESS, i, b))
  <1> DEFINE w == Outw(v, VGAREG_GRDC_ADDRESS, i, b)
             x == [v EXCEPT !.grdcIndex = i]
             y == [x EXCEPT !.grdc[x.grdcIndex] = b]
  <1>1. Out(v, 974, i) = x
    BY OutRegisters
  <1>2. Out(x, 975, b) = y
    <2> HIDE DEF x
    <2> QED
      BY OutRegisters
  <1>3. w = y
    <2> HIDE DEF x, y
    <2> QED
      BY <1>1, <1>2 DEF Outw, Outb
  <1> HIDE DEF w, y
  <1>4. /\ Whole(y) /\ y.misc = v.misc /\ y.sequ = v.sequ /\ y.plane = v.plane
        /\ y.grdc = [v.grdc EXCEPT ![i] = b]
    BY DEF y, Whole
  <1> QED
    BY <1>3, <1>4 DEF GrdcSet, w

LEMMA MiscWritten ==
    ASSUME NEW v, Whole(v), NEW b \in Int, NEW w, w = Outb(v, VGAREG_WRITE_MISC_OUTPUT, b)
    PROVE  /\ Whole(w) /\ w.misc = b /\ w.sequ = v.sequ /\ w.grdc = v.grdc
           /\ w.plane = v.plane
  <1> DEFINE y == [v EXCEPT !.misc = b]
  <1>1. Out(v, 962, b) = y
    BY OutRegisters
  <1>2. w = y
    BY <1>1 DEF Outb
  <1> HIDE DEF y
  <1>3. /\ Whole(y) /\ y.misc = b /\ y.sequ = v.sequ /\ y.grdc = v.grdc
        /\ y.plane = v.plane
    BY DEF y, Whole
  <1> QED
    BY <1>2, <1>3

LEMMA MiscRead ==
    ASSUME NEW v
    PROVE  Inb(v, VGAREG_READ_MISC_OUTPUT) = v.misc
  BY CrtcPorts DEF In, Inb

\* The two reads vgahw_save_state makes of them.
LEMMA SequRead ==
    ASSUME NEW v, Whole(v), NEW i
    PROVE  Peek(v, VGAREG_SEQU_ADDRESS, i) = v.sequ[i]
  <1> DEFINE x == [v EXCEPT !.sequIndex = i]
  <1>1. Out(v, 964, i) = x
    BY OutRegisters
  <1>2. x.sequIndex = i /\ x.sequ = v.sequ
    BY DEF Whole
  <1> HIDE DEF x
  <1>3. In(x, 965) = x.sequ[x.sequIndex]
    BY CrtcPorts DEF In
  <1> QED
    BY <1>1, <1>2, <1>3 DEF Peek, Outb, Inb

LEMMA GrdcRead ==
    ASSUME NEW v, Whole(v), NEW i
    PROVE  Peek(v, VGAREG_GRDC_ADDRESS, i) = v.grdc[i]
  <1> DEFINE x == [v EXCEPT !.grdcIndex = i]
  <1>1. Out(v, 974, i) = x
    BY OutRegisters
  <1>2. x.grdcIndex = i /\ x.grdc = v.grdc
    BY DEF Whole
  <1> HIDE DEF x
  <1>3. In(x, 975) = x.grdc[x.grdcIndex]
    BY CrtcPorts DEF In
  <1> QED
    BY <1>1, <1>2, <1>3 DEF Peek, Outb, Inb
-----------------------------------------------------------------------------
(* Loops.  Each is a recursive function over its passes in the model.  The *)
(* lemmas say, for one loop each, that there is such a function and what   *)
(* its equations are: the adapters e[0], e[1] .. that the loop goes        *)
(* through, the last of which it leaves.                                   *)

\* Induction over the naturals, about a set.
LEMMA SetInduction ==
    ASSUME NEW T, 0 \in T, \A n \in Nat : n \in T => n + 1 \in T
    PROVE  \A n \in Nat : n \in T
  <1> DEFINE R == OpToRel(<, Nat)
             U == Nat \ T
  <1>1. IsWellFoundedOn(R, Nat)
    BY NatLessThanWellFounded
  <1>2. \A x, y \in Nat : x < y => <<x, y>> \in R
    BY DEF OpToRel
  <1>3. ASSUME U # {}
        PROVE  FALSE
    <2>1. U \subseteq Nat
      OBVIOUS
    <2> HIDE DEF R, U
    <2>2. PICK x \in U : \A y \in U : <<y, x>> \notin R
      BY <1>1, <1>3, <2>1, WFMin
    <2> USE DEF U
    <2>3. x \in Nat /\ x # 0 /\ x - 1 \in Nat
      BY <2>2
    <2>4. <<x - 1, x>> \in R
      BY <1>2, <2>3
    <2>5. x - 1 \in T
      BY <2>2, <2>3, <2>4
    <2>6. (x - 1) + 1 \in T
      BY <2>3, <2>5
    <2> QED
      BY <2>3, <2>6
  <1> QED
    BY <1>3

\* A sequence of accesses that each leave display memory's registers alone.
LEMMA SameChain ==
    ASSUME NEW n \in Nat, NEW e, \A k \in 0 .. n - 1 : Same(e[k], e[k + 1])
    PROVE  Same(e[0], e[n])
  <1> DEFINE T == {m \in Nat : m <= n => Same(e[0], e[m])}
  <1>1. 0 \in T
    BY SameItself
  <1>2. ASSUME NEW m \in Nat, m \in T
        PROVE  m + 1 \in T
    <2>1. SUFFICES ASSUME m + 1 <= n PROVE Same(e[0], e[m + 1])
      OBVIOUS
    <2>2. Same(e[0], e[m])
      BY <1>2, <2>1
    <2>3. Same(e[m], e[m + 1])
      BY <2>1
    <2> QED
      BY <2>2, <2>3, SameAsSame
  <1> HIDE DEF T
  <1>3. n \in T
    BY <1>1, <1>2, SetInduction
  <1> QED
    BY <1>3 DEF T

\* Registers written one after another through an index and a data port.
WritePasses(e, v, port, first, n, f) ==
    /\ e[0] = v
    /\ \A k \in 0 .. n - 1 : e[k + 1] = Outw(e[k], port, first + k, f[first + k])
    /\ WriteAll(v, port, first, n, f) = e[n]
IsWritten(v, port, first, n, f) == \E e : WritePasses(e, v, port, first, n, f)

LEMMA WriteAllChain ==
    ASSUME NEW v, NEW port, NEW first, NEW n \in Nat, NEW f
    PROVE  IsWritten(v, port, first, n, f)
  <1> DEFINE Step(e, k) ==
               IF k = 0 THEN v
               ELSE [x \in {e[k - 1]} |->
                       Outw(x, port, first + (k - 1), f[first + (k - 1)])][e[k - 1]]
             F == CHOOSE e : e = [k \in 0 .. n |-> Step(e, k)]
             T == {m \in Nat : \E e : e = [k \in 0 .. m |-> Step(e, k)]}
  <1>1. 0 \in T
    <2> DEFINE e == [k \in 0 .. 0 |-> v]
    <2>1. e = [k \in 0 .. 0 |-> Step(e, k)]
      OBVIOUS
    <2> QED
      BY <2>1
  <1>2. ASSUME NEW m \in Nat, m \in T
        PROVE  m + 1 \in T
    <2>1. PICK e : e = [k \in 0 .. m |-> Step(e, k)]
      BY <1>2
    <2> DEFINE g == [k \in 0 .. m + 1 |-> Step(e, k)]
    <2>2. \A k \in 0 .. m : g[k] = e[k]
      <3> HIDE DEF Step
      <3> QED
        BY <2>1
    <2>3. \A k \in 0 .. m + 1 : Step(g, k) = Step(e, k)
      <3>1. \A k \in 0 .. m + 1 : k # 0 => k - 1 \in 0 .. m
        OBVIOUS
      <3> HIDE DEF g
      <3> QED
        BY <2>2, <3>1
    <2>4. g = [k \in 0 .. m + 1 |-> Step(g, k)]
      <3> HIDE DEF Step
      <3> QED
        BY <2>3
    <2> HIDE DEF g, Step
    <2> QED
      BY <2>4
  <1>3. n \in T
    <2> HIDE DEF T
    <2> QED
      BY <1>1, <1>2, SetInduction
  <1>4. F = [k \in 0 .. n |-> Step(F, k)]
    BY <1>3
  <1>5. WriteAll(v, port, first, n, f) = F[n]
    BY Zenon DEF WriteAll, For, With
  <1> HIDE DEF F
  <1>6. F[0] = v
    BY <1>4
  <1>7. ASSUME NEW k \in 0 .. n - 1
        PROVE  F[k + 1] = Outw(F[k], port, first + k, f[first + k])
    <2>1. k + 1 \in 0 .. n /\ k + 1 # 0 /\ (k + 1) - 1 = k
      OBVIOUS
    <2>2. F[k + 1] = Step(F, k + 1)
      <3> HIDE DEF Step
      <3> QED
        BY <1>4, <2>1
    <2> QED
      BY <2>1, <2>2
  <1> QED
    BY <1>5, <1>6, <1>7 DEF WritePasses, IsWritten

\* Registers of the attribute controller written one after another.
ActlWritePasses(e, v, screen, n, f) ==
    /\ e[0] = v
    /\ \A k \in 0 .. n - 1 : e[k + 1] = ActlPut(e[k], k + screen, f[k])
    /\ ActlWriteAll(v, screen, n, f) = e[n]

LEMMA ActlWriteAllChain ==
    ASSUME NEW v, NEW screen, NEW n \in Nat, NEW f
    PROVE  \E e : ActlWritePasses(e, v, screen, n, f)
  <1> DEFINE Step(e, k) ==
               IF k = 0 THEN v
               ELSE [x \in {e[k - 1]} |-> ActlPut(x, (k - 1) + screen, f[k - 1])][e[k - 1]]
             F == CHOOSE e : e = [k \in 0 .. n |-> Step(e, k)]
             T == {m \in Nat : \E e : e = [k \in 0 .. m |-> Step(e, k)]}
  <1>1. 0 \in T
    <2> DEFINE e == [k \in 0 .. 0 |-> v]
    <2>1. e = [k \in 0 .. 0 |-> Step(e, k)]
      OBVIOUS
    <2> QED
      BY <2>1
  <1>2. ASSUME NEW m \in Nat, m \in T
        PROVE  m + 1 \in T
    <2>1. PICK e : e = [k \in 0 .. m |-> Step(e, k)]
      BY <1>2
    <2> DEFINE g == [k \in 0 .. m + 1 |-> Step(e, k)]
    <2>2. \A k \in 0 .. m : g[k] = e[k]
      <3> HIDE DEF Step
      <3> QED
        BY <2>1
    <2>3. \A k \in 0 .. m + 1 : Step(g, k) = Step(e, k)
      <3>1. \A k \in 0 .. m + 1 : k # 0 => k - 1 \in 0 .. m
        OBVIOUS
      <3> HIDE DEF g
      <3> QED
        BY <2>2, <3>1
    <2>4. g = [k \in 0 .. m + 1 |-> Step(g, k)]
      <3> HIDE DEF Step
      <3> QED
        BY <2>3
    <2> HIDE DEF g, Step
    <2> QED
      BY <2>4
  <1>3. n \in T
    <2> HIDE DEF T
    <2> QED
      BY <1>1, <1>2, SetInduction
  <1>4. F = [k \in 0 .. n |-> Step(F, k)]
    BY <1>3
  <1>5. ActlWriteAll(v, screen, n, f) = F[n]
    BY Zenon DEF ActlWriteAll, For, With
  <1> HIDE DEF F
  <1>6. F[0] = v
    BY <1>4
  <1>7. ASSUME NEW k \in 0 .. n - 1
        PROVE  F[k + 1] = ActlPut(F[k], k + screen, f[k])
    <2>1. k + 1 \in 0 .. n /\ k + 1 # 0 /\ (k + 1) - 1 = k
      OBVIOUS
    <2>2. F[k + 1] = Step(F, k + 1)
      <3> HIDE DEF Step
      <3> QED
        BY <1>4, <2>1
    <2> QED
      BY <2>1, <2>2
  <1> QED
    BY <1>5, <1>6, <1>7 DEF ActlWritePasses

\* Registers of the attribute controller selected one after another.
ActlScanPasses(e, v, indices) ==
    /\ e[0] = v
    /\ \A k \in 0 .. Len(indices) - 1 : e[k + 1] = ActlSelect(e[k], indices[k + 1])
    /\ ActlScan(v, indices) = e

LEMMA ActlScanChain ==
    ASSUME NEW v, NEW indices, Len(indices) \in Nat
    PROVE  \E e : ActlScanPasses(e, v, indices)
  <1> DEFINE Step(e, k) == IF k = 0 THEN v ELSE ActlSelect(e[k - 1], indices[k])
             F == CHOOSE e : e = [k \in 0 .. Len(indices) |-> Step(e, k)]
             T == {m \in Nat : \E e : e = [k \in 0 .. m |-> Step(e, k)]}
  <1>1. 0 \in T
    <2> DEFINE e == [k \in 0 .. 0 |-> v]
    <2>1. e = [k \in 0 .. 0 |-> Step(e, k)]
      OBVIOUS
    <2> QED
      BY <2>1
  <1>2. ASSUME NEW m \in Nat, m \in T
        PROVE  m + 1 \in T
    <2>1. PICK e : e = [k \in 0 .. m |-> Step(e, k)]
      BY <1>2
    <2> DEFINE g == [k \in 0 .. m + 1 |-> Step(e, k)]
    <2>2. \A k \in 0 .. m : g[k] = e[k]
      <3> HIDE DEF Step
      <3> QED
        BY <2>1
    <2>3. \A k \in 0 .. m + 1 : Step(g, k) = Step(e, k)
      <3>1. \A k \in 0 .. m + 1 : k # 0 => k - 1 \in 0 .. m
        OBVIOUS
      <3> HIDE DEF g
      <3> QED
        BY <2>2, <3>1
    <2>4. g = [k \in 0 .. m + 1 |-> Step(g, k)]
      <3> HIDE DEF Step
      <3> QED
        BY <2>3
    <2> HIDE DEF g, Step
    <2> QED
      BY <2>4
  <1>3. Len(indices) \in T
    <2> HIDE DEF T
    <2> QED
      BY <1>1, <1>2, SetInduction
  <1>4. F = [k \in 0 .. Len(indices) |-> Step(F, k)]
    BY <1>3
  <1>5. ActlScan(v, indices) = F
    BY Zenon DEF ActlScan
  <1> HIDE DEF F
  <1>6. F[0] = v
    BY <1>4
  <1>7. ASSUME NEW k \in 0 .. Len(indices) - 1
        PROVE  F[k + 1] = ActlSelect(F[k], indices[k + 1])
    <2>1. k + 1 \in 0 .. Len(indices) /\ k + 1 # 0 /\ (k + 1) - 1 = k
      OBVIOUS
    <2>2. F[k + 1] = Step(F, k + 1)
      <3> HIDE DEF Step
      <3> QED
        BY <1>4, <2>1
    <2> QED
      BY <2>1, <2>2
  <1> QED
    BY <1>5, <1>6, <1>7 DEF ActlScanPasses

\* The bytes written to the DAC.
SetDacPasses(e, v, data, start, count) ==
    /\ e[0] = Outb(v, VGAREG_DAC_WRITE_ADDRESS, start)
    /\ \A k \in 0 .. 3 * count - 1 : e[k + 1] = Outb(e[k], VGAREG_DAC_DATA, data[k + 1])
    /\ vgahw_set_dac_regs(v, data, start, count) = e[3 * count]

LEMMA SetDacChain ==
    ASSUME NEW v, NEW data, NEW start, NEW count, 3 * count \in Nat
    PROVE  \E e : SetDacPasses(e, v, data, start, count)
  <1> DEFINE Step(e, k) ==
               IF k = 0 THEN Outb(v, VGAREG_DAC_WRITE_ADDRESS, start)
               ELSE [x \in {e[k - 1]} |->
                       Outb(x, VGAREG_DAC_DATA, data[(k - 1) + 1])][e[k - 1]]
             F == CHOOSE e : e = [k \in 0 .. 3 * count |-> Step(e, k)]
             T == {m \in Nat : \E e : e = [k \in 0 .. m |-> Step(e, k)]}
  <1>1. 0 \in T
    <2> DEFINE e == [k \in 0 .. 0 |-> Outb(v, VGAREG_DAC_WRITE_ADDRESS, start)]
    <2>1. e = [k \in 0 .. 0 |-> Step(e, k)]
      OBVIOUS
    <2> QED
      BY <2>1
  <1>2. ASSUME NEW m \in Nat, m \in T
        PROVE  m + 1 \in T
    <2>1. PICK e : e = [k \in 0 .. m |-> Step(e, k)]
      BY <1>2
    <2> DEFINE g == [k \in 0 .. m + 1 |-> Step(e, k)]
    <2>2. \A k \in 0 .. m : g[k] = e[k]
      <3> HIDE DEF Step
      <3> QED
        BY <2>1
    <2>3. \A k \in 0 .. m + 1 : Step(g, k) = Step(e, k)
      <3>1. \A k \in 0 .. m + 1 : k # 0 => k - 1 \in 0 .. m
        OBVIOUS
      <3> HIDE DEF g
      <3> QED
        BY <2>2, <3>1
    <2>4. g = [k \in 0 .. m + 1 |-> Step(g, k)]
      <3> HIDE DEF Step
      <3> QED
        BY <2>3
    <2> HIDE DEF g, Step
    <2> QED
      BY <2>4
  <1>3. 3 * count \in T
    <2> HIDE DEF T
    <2> QED
      BY <1>1, <1>2, SetInduction
  <1>4. F = [k \in 0 .. 3 * count |-> Step(F, k)]
    BY <1>3
  <1>5. vgahw_set_dac_regs(v, data, start, count) = F[3 * count]
    BY ZenonT(60) DEF vgahw_set_dac_regs, For, With
  <1> HIDE DEF F
  <1>6. F[0] = Outb(v, VGAREG_DAC_WRITE_ADDRESS, start)
    BY <1>4
  <1>7. ASSUME NEW k \in 0 .. 3 * count - 1
        PROVE  F[k + 1] = Outb(F[k], VGAREG_DAC_DATA, data[k + 1])
    <2>1. k + 1 \in 0 .. 3 * count /\ k + 1 # 0 /\ (k + 1) - 1 = k
      OBVIOUS
    <2>2. F[k + 1] = Step(F, k + 1)
      <3> HIDE DEF Step
      <3> QED
        BY <1>4, <2>1
    <2> QED
      BY <2>1, <2>2
  <1> QED
    BY <1>5, <1>6, <1>7 DEF SetDacPasses

\* The bytes read from the DAC.
GetDacPasses(e, v, start, count) ==
    /\ e[0] = Outb(v, VGAREG_DAC_READ_ADDRESS, start)
    /\ \A k \in 0 .. 3 * count - 1 : e[k + 1] = AfterIn(e[k], VGAREG_DAC_DATA)
    /\ vgahw_get_dac_regs(v, start, count).vga = e[3 * count]

LEMMA GetDacChain ==
    ASSUME NEW v, NEW start, NEW count, 3 * count \in Nat
    PROVE  \E e : GetDacPasses(e, v, start, count)
  <1> DEFINE Step(e, k) ==
               IF k = 0 THEN Outb(v, VGAREG_DAC_READ_ADDRESS, start)
               ELSE AfterIn(e[k - 1], VGAREG_DAC_DATA)
             F == CHOOSE e : e = [k \in 0 .. 3 * count |-> Step(e, k)]
             T == {m \in Nat : \E e : e = [k \in 0 .. m |-> Step(e, k)]}
  <1>1. 0 \in T
    <2> DEFINE e == [k \in 0 .. 0 |-> Outb(v, VGAREG_DAC_READ_ADDRESS, start)]
    <2>1. e = [k \in 0 .. 0 |-> Step(e, k)]
      OBVIOUS
    <2> QED
      BY <2>1
  <1>2. ASSUME NEW m \in Nat, m \in T
        PROVE  m + 1 \in T
    <2>1. PICK e : e = [k \in 0 .. m |-> Step(e, k)]
      BY <1>2
    <2> DEFINE g == [k \in 0 .. m + 1 |-> Step(e, k)]
    <2>2. \A k \in 0 .. m : g[k] = e[k]
      <3> HIDE DEF Step
      <3> QED
        BY <2>1
    <2>3. \A k \in 0 .. m + 1 : Step(g, k) = Step(e, k)
      <3>1. \A k \in 0 .. m + 1 : k # 0 => k - 1 \in 0 .. m
        OBVIOUS
      <3> HIDE DEF g
      <3> QED
        BY <2>2, <3>1
    <2>4. g = [k \in 0 .. m + 1 |-> Step(g, k)]
      <3> HIDE DEF Step
      <3> QED
        BY <2>3
    <2> HIDE DEF g, Step
    <2> QED
      BY <2>4
  <1>3. 3 * count \in T
    <2> HIDE DEF T
    <2> QED
      BY <1>1, <1>2, SetInduction
  <1>4. F = [k \in 0 .. 3 * count |-> Step(F, k)]
    BY <1>3
  <1>5. vgahw_get_dac_regs(v, start, count).vga = F[3 * count]
    BY Zenon DEF vgahw_get_dac_regs
  <1> HIDE DEF F
  <1>6. F[0] = Outb(v, VGAREG_DAC_READ_ADDRESS, start)
    BY <1>4
  <1>7. ASSUME NEW k \in 0 .. 3 * count - 1
        PROVE  F[k + 1] = AfterIn(F[k], VGAREG_DAC_DATA)
    <2>1. k + 1 \in 0 .. 3 * count /\ k + 1 # 0 /\ (k + 1) - 1 = k
      OBVIOUS
    <2>2. F[k + 1] = Step(F, k + 1)
      <3> HIDE DEF Step
      <3> QED
        BY <1>4, <2>1
    <2> QED
      BY <2>1, <2>2
  <1> QED
    BY <1>5, <1>6, <1>7 DEF GetDacPasses

\* The bytes of the font stored.
LoadFontPasses(e, v) ==
    /\ e[0] = v
    /\ \A k \in 0 .. 16 * Glyphs - 1 :
          e[k + 1] = Store(e[k], (k \div 16) * 32 + (k % 16), vgafont16(k \div 16, k % 16))
    /\ LoadFont(v) = e[16 * Glyphs]

LEMMA LoadFontChain ==
    ASSUME NEW v, 16 * Glyphs \in Nat
    PROVE  \E e : LoadFontPasses(e, v)
  <1> DEFINE Step(e, k) ==
               IF k = 0 THEN v
               ELSE [x \in {e[k - 1]} |->
                       Store(x, ((k - 1) \div 16) * 32 + ((k - 1) % 16),
                             vgafont16((k - 1) \div 16, (k - 1) % 16))][e[k - 1]]
             F == CHOOSE e : e = [k \in 0 .. 16 * Glyphs |-> Step(e, k)]
             T == {m \in Nat : \E e : e = [k \in 0 .. m |-> Step(e, k)]}
  <1>1. 0 \in T
    <2> DEFINE e == [k \in 0 .. 0 |-> v]
    <2>1. e = [k \in 0 .. 0 |-> Step(e, k)]
      OBVIOUS
    <2> QED
      BY <2>1
  <1>2. ASSUME NEW m \in Nat, m \in T
        PROVE  m + 1 \in T
    <2>1. PICK e : e = [k \in 0 .. m |-> Step(e, k)]
      BY <1>2
    <2> DEFINE g == [k \in 0 .. m + 1 |-> Step(e, k)]
    <2>2. \A k \in 0 .. m : g[k] = e[k]
      <3> HIDE DEF Step
      <3> QED
        BY <2>1
    <2>3. \A k \in 0 .. m + 1 : Step(g, k) = Step(e, k)
      <3>1. \A k \in 0 .. m + 1 : k # 0 => k - 1 \in 0 .. m
        OBVIOUS
      <3> HIDE DEF g
      <3> QED
        BY <2>2, <3>1
    <2>4. g = [k \in 0 .. m + 1 |-> Step(g, k)]
      <3> HIDE DEF Step
      <3> QED
        BY <2>3
    <2> HIDE DEF g, Step
    <2> QED
      BY <2>4
  <1>3. 16 * Glyphs \in T
    <2> HIDE DEF T
    <2> QED
      BY <1>1, <1>2, SetInduction
  <1>4. F = [k \in 0 .. 16 * Glyphs |-> Step(F, k)]
    BY <1>3
  <1>5. LoadFont(v) = F[16 * Glyphs]
    BY Zenon DEF LoadFont, For, With
  <1> HIDE DEF F
  <1>6. F[0] = v
    BY <1>4
  <1>7. ASSUME NEW k \in 0 .. 16 * Glyphs - 1
        PROVE  F[k + 1] = Store(F[k], (k \div 16) * 32 + (k % 16),
                                vgafont16(k \div 16, k % 16))
    <2>1. k + 1 \in 0 .. 16 * Glyphs /\ k + 1 # 0 /\ (k + 1) - 1 = k
      OBVIOUS
    <2>2. F[k + 1] = Step(F, k + 1)
      <3> HIDE DEF Step
      <3> QED
        BY <1>4, <2>1
    <2> QED
      BY <2>1, <2>2
  <1> QED
    BY <1>5, <1>6, <1>7 DEF LoadFontPasses

-----------------------------------------------------------------------------
(* The registers that are not display memory's. *)

LEMMA ActlSame ==
    ASSUME NEW v, NEW i, NEW b
    PROVE  /\ Same(v, ActlReset(v)) /\ Same(v, ActlIndex(v, i)) /\ Same(v, ActlData(v, b))
           /\ Same(v, ActlSelect(v, i)) /\ Same(v, ActlPut(v, i, b))
  <1>1. \A x : Same(x, ActlReset(x))
    BY AfterInSame DEF ActlReset
  <1>2. \A x, j : Same(x, ActlIndex(x, j))
    BY OutElsewhere DEF ActlIndex, Outb, MemoryPorts
  <1>3. \A x, c : Same(x, ActlData(x, c))
    BY OutElsewhere DEF ActlData, Outb, MemoryPorts
  <1>4. Same(v, ActlSelect(v, i))
    BY <1>1, <1>2, SameAsSame DEF ActlSelect
  <1>5. Same(v, ActlPut(v, i, b))
    BY <1>2, <1>3, SameAsSame DEF ActlPut
  <1> QED
    BY <1>1, <1>2, <1>3, <1>4, <1>5

LEMMA ActlWriteAllSame ==
    ASSUME NEW v, NEW screen, NEW n \in Nat, NEW f
    PROVE  Same(v, ActlWriteAll(v, screen, n, f))
  <1>1. PICK e : ActlWritePasses(e, v, screen, n, f)
    BY ActlWriteAllChain
  <1>2. \A k \in 0 .. n - 1 : Same(e[k], e[k + 1])
    BY <1>1, ActlSame DEF ActlWritePasses
  <1>3. Same(e[0], e[n])
    BY <1>2, SameChain
  <1> QED
    BY <1>1, <1>3 DEF ActlWritePasses

LEMMA ActlScanSame ==
    ASSUME NEW v, NEW indices, Len(indices) \in Nat, NEW k \in 0 .. Len(indices)
    PROVE  Same(v, ActlScan(v, indices)[k])
  <1>1. PICK e : ActlScanPasses(e, v, indices)
    BY ActlScanChain
  <1>2. \A j \in 0 .. k - 1 : Same(e[j], e[j + 1])
    <2>1. \A j \in 0 .. k - 1 : j \in 0 .. Len(indices) - 1
      OBVIOUS
    <2> QED
      BY <1>1, <2>1, ActlSame DEF ActlScanPasses
  <1>3. k \in Nat
    OBVIOUS
  <1>4. Same(e[0], e[k])
    BY <1>2, <1>3, SameChain
  <1> QED
    BY <1>1, <1>4 DEF ActlScanPasses

LEMMA CrtcSame ==
    ASSUME NEW v, NEW port \in {0, 948, 980}, NEW i, NEW b
    PROVE  Same(v, Outb(v, port, i)) /\ Same(v, Outw(v, port, i, b))
  <1>1. \A x, c : Same(x, Outb(x, port, c)) /\ Same(x, Outb(x, port + 1, c))
    BY OutElsewhere DEF Outb, MemoryPorts
  <1> QED
    BY <1>1, SameAsSame DEF Outw

LEMMA CrtcWriteAllSame ==
    ASSUME NEW v, NEW port \in {0, 948, 980}, NEW first, NEW n \in Nat, NEW f
    PROVE  Same(v, WriteAll(v, port, first, n, f))
  <1>0. IsWritten(v, port, first, n, f)
    BY WriteAllChain
  <1>1. PICK e : WritePasses(e, v, port, first, n, f)
    BY <1>0 DEF IsWritten
  <1>2. \A k \in 0 .. n - 1 : Same(e[k], e[k + 1])
    BY <1>1, CrtcSame DEF WritePasses
  <1>3. Same(e[0], e[n])
    BY <1>2, SameChain
  <1> QED
    BY <1>1, <1>3 DEF WritePasses

LEMMA DacSame ==
    ASSUME NEW v, NEW data, NEW start, NEW count \in Nat
    PROVE  /\ Same(v, vgahw_set_dac_regs(v, data, start, count))
           /\ Same(v, vgahw_get_dac_regs(v, start, count).vga)
  <1>1. \A x, c : /\ Same(x, Outb(x, VGAREG_DAC_WRITE_ADDRESS, c))
                  /\ Same(x, Outb(x, VGAREG_DAC_READ_ADDRESS, c))
                  /\ Same(x, Outb(x, VGAREG_DAC_DATA, c))
                  /\ Same(x, AfterIn(x, VGAREG_DAC_DATA))
    BY OutElsewhere, AfterInSame DEF Outb, MemoryPorts
  <1>2. 3 * count \in Nat
    OBVIOUS
  <1>3. Same(v, vgahw_set_dac_regs(v, data, start, count))
    <2>1. PICK e : SetDacPasses(e, v, data, start, count)
      BY <1>2, SetDacChain
    <2>2. \A k \in 0 .. 3 * count - 1 : Same(e[k], e[k + 1])
      BY <1>1, <2>1 DEF SetDacPasses
    <2>3. Same(e[0], e[3 * count])
      BY <1>2, <2>2, SameChain
    <2> QED
      BY <1>1, <2>1, <2>3, SameAsSame DEF SetDacPasses
  <1>4. Same(v, vgahw_get_dac_regs(v, start, count).vga)
    <2>1. PICK e : GetDacPasses(e, v, start, count)
      BY <1>2, GetDacChain
    <2>2. \A k \in 0 .. 3 * count - 1 : Same(e[k], e[k + 1])
      BY <1>1, <2>1 DEF GetDacPasses
    <2>3. Same(e[0], e[3 * count])
      BY <1>2, <2>2, SameChain
    <2> QED
      BY <1>1, <2>1, <2>3, SameAsSame DEF GetDacPasses
  <1> QED
    BY <1>3, <1>4

-----------------------------------------------------------------------------
(* The registers of display memory. *)

\* f[i] in every register i from the first for n, the others as they were.
Filled(old, new, first, n, f) ==
    \A j \in DOMAIN old :
        new[j] = IF first <= j /\ j < first + n THEN f[j] ELSE old[j]

LEMMA SequFilled ==
    ASSUME NEW v, Whole(v), NEW first \in 0 .. 1, NEW n \in Nat, first + n = 5, NEW f,
           NEW w, w = WriteAll(v, VGAREG_SEQU_ADDRESS, first, n, f)
    PROVE  /\ Whole(w) /\ w.misc = v.misc /\ w.grdc = v.grdc /\ w.plane = v.plane
           /\ Filled(v.sequ, w.sequ, first, n, f)
  <1>0. IsWritten(v, VGAREG_SEQU_ADDRESS, first, n, f)
    BY WriteAllChain
  <1>1. PICK e : WritePasses(e, v, VGAREG_SEQU_ADDRESS, first, n, f)
    BY <1>0 DEF IsWritten
  <1> DEFINE Ok(m) == LET x == e[m]
                      IN  /\ Whole(x) /\ x.misc = v.misc /\ x.grdc = v.grdc
                          /\ x.plane = v.plane /\ Filled(v.sequ, x.sequ, first, m, f)
             T == {m \in Nat : m <= n => Ok(m)}
  <1>2. 0 \in T
    BY <1>1 DEF WritePasses, Filled, Whole
  <1>3. ASSUME NEW m \in Nat, m \in T
        PROVE  m + 1 \in T
    <2>1. SUFFICES ASSUME m + 1 <= n PROVE Ok(m + 1)
      OBVIOUS
    <2> DEFINE x == e[m]
               y == e[m + 1]
               i == first + m
               b == f[i]
    <2>2. /\ Whole(x) /\ x.misc = v.misc /\ x.grdc = v.grdc /\ x.plane = v.plane
          /\ Filled(v.sequ, x.sequ, first, m, f)
      BY <1>3, <2>1
    <2>3. m \in 0 .. n - 1
      BY <2>1
    <2>4. y = Outw(x, VGAREG_SEQU_ADDRESS, i, b)
      BY <1>1, <2>3 DEF WritePasses
    <2> HIDE DEF x, y, i, b
    <2>5. /\ Whole(y) /\ y.misc = x.misc /\ y.grdc = x.grdc /\ y.plane = x.plane
          /\ y.sequ = [x.sequ EXCEPT ![i] = b]
      <3>1. SequSet(x, i, b, y)
        BY <2>2, <2>4, SequWritten
      <3> QED
        BY <3>1 DEF SequSet
    <2>6. Filled(v.sequ, y.sequ, first, m + 1, f)
      <3>0. DOMAIN v.sequ = 0 .. 4
        BY DEF Whole
      <3>1. SUFFICES ASSUME NEW j \in DOMAIN v.sequ
                     PROVE  y.sequ[j] = IF first <= j /\ j < first + (m + 1)
                                        THEN f[j] ELSE v.sequ[j]
        BY Zenon DEF Filled
      <3>2. x.sequ[j] = IF first <= j /\ j < first + m THEN f[j] ELSE v.sequ[j]
        BY <2>2 DEF Filled, Whole
      <3>3. CASE j = first + m
        BY <2>1, <2>2, <2>5, <3>0, <3>3 DEF Whole, i, b
      <3>4. CASE j # first + m
        <4>1. y.sequ[j] = x.sequ[j]
          BY <2>2, <2>5, <3>0, <3>4 DEF Whole, i
        <4> QED
          BY <3>0, <3>2, <3>4, <4>1
      <3> QED
        BY <3>3, <3>4
    <2> QED
      BY <2>2, <2>5, <2>6 DEF y
  <1> HIDE DEF T, Ok
  <1>4. n \in T
    BY <1>2, <1>3, SetInduction
  <1>5. Ok(n)
    BY <1>4 DEF T
  <1> QED
    BY <1>1, <1>5 DEF Ok, WritePasses

LEMMA GrdcFilled ==
    ASSUME NEW v, Whole(v), NEW f, NEW w, w = WriteAll(v, VGAREG_GRDC_ADDRESS, 0, 9, f)
    PROVE  /\ Whole(w) /\ w.misc = v.misc /\ w.sequ = v.sequ /\ w.plane = v.plane
           /\ Filled(v.grdc, w.grdc, 0, 9, f)
  <1>0. IsWritten(v, VGAREG_GRDC_ADDRESS, 0, 9, f)
    BY WriteAllChain
  <1>1. PICK e : WritePasses(e, v, VGAREG_GRDC_ADDRESS, 0, 9, f)
    BY <1>0 DEF IsWritten
  <1> DEFINE Ok(m) == LET x == e[m]
                      IN  /\ Whole(x) /\ x.misc = v.misc /\ x.sequ = v.sequ
                          /\ x.plane = v.plane /\ Filled(v.grdc, x.grdc, 0, m, f)
             T == {m \in Nat : m <= 9 => Ok(m)}
  <1>2. 0 \in T
    BY <1>1 DEF WritePasses, Filled, Whole
  <1>3. ASSUME NEW m \in Nat, m \in T
        PROVE  m + 1 \in T
    <2>1. SUFFICES ASSUME m + 1 <= 9 PROVE Ok(m + 1)
      OBVIOUS
    <2> DEFINE x == e[m]
               y == e[m + 1]
    <2>2. /\ Whole(x) /\ x.misc = v.misc /\ x.sequ = v.sequ /\ x.plane = v.plane
          /\ Filled(v.grdc, x.grdc, 0, m, f)
      BY <1>3, <2>1
    <2>3. m \in 0 .. 9 - 1
      BY <2>1
    <2>4. y = Outw(x, VGAREG_GRDC_ADDRESS, 0 + m, f[0 + m])
      BY <1>1, <2>3 DEF WritePasses
    <2> HIDE DEF x, y
    <2>5. /\ Whole(y) /\ y.misc = x.misc /\ y.sequ = x.sequ /\ y.plane = x.plane
          /\ y.grdc = [x.grdc EXCEPT ![0 + m] = f[0 + m]]
      <3>1. GrdcSet(x, 0 + m, f[0 + m], y)
        BY <2>2, <2>4, GrdcWritten
      <3> QED
        BY <3>1 DEF GrdcSet
    <2>6. Filled(v.grdc, y.grdc, 0, m + 1, f)
      BY <2>1, <2>2, <2>5 DEF Filled, Whole
    <2> QED
      BY <2>2, <2>5, <2>6 DEF y
  <1> HIDE DEF T, Ok
  <1>4. 9 \in T
    BY <1>2, <1>3, SetInduction
  <1>5. Ok(9)
    BY <1>4 DEF T
  <1> QED
    BY <1>1, <1>5 DEF Ok, WritePasses

-----------------------------------------------------------------------------
(* The functions that leave display memory's registers alone. *)

LEMMA PaletteSame ==
    ASSUME NEW v, NEW i, NEW b
    PROVE  /\ Same(v, vgahw_screen_disable(v)) /\ Same(v, vgahw_screen_enable(v))
           /\ Same(v, vgahw_set_single_palette_reg(v, i, b))
           /\ Same(v, vgahw_set_overscan_border_color(v, b))
           /\ Same(v, vgahw_get_single_palette_reg(v, i).vga)
           /\ Same(v, vgahw_get_overscan_border_color(v).vga)
           /\ Same(v, vgahw_toggle_intensity(v, b))
  <1>1. \A x, j : Same(x, ActlSelect(x, j))
    BY ActlSame
  <1>2. \A x, j : Same(x, ActlIndex(x, j))
    BY ActlSame
  <1>3. \A x, c : Same(x, ActlData(x, c))
    BY ActlSame
  <1>4. \A x, j, c : Same(x, ActlData(ActlSelect(x, j), c))
    BY <1>1, <1>3, SameAsSame
  <1>5. \A x, j, c : Same(x, ActlIndex(ActlData(ActlSelect(x, j), c), 32))
    BY <1>2, <1>4, SameAsSame
  <1>6. \A x, j : Same(x, ActlSelect(ActlSelect(x, j), 32))
    BY <1>1, SameAsSame
  <1>7. \A x, j : vgahw_get_single_palette_reg(x, j).vga = ActlSelect(ActlSelect(x, j), 32)
    BY DEF vgahw_get_single_palette_reg
  <1>8. Same(v, vgahw_screen_disable(v)) /\ Same(v, vgahw_screen_enable(v))
    BY <1>1 DEF vgahw_screen_disable, vgahw_screen_enable
  <1>9. /\ Same(v, vgahw_set_single_palette_reg(v, i, b))
        /\ Same(v, vgahw_set_overscan_border_color(v, b))
    BY <1>5 DEF vgahw_set_single_palette_reg, vgahw_set_overscan_border_color
  <1>10. /\ Same(v, vgahw_get_single_palette_reg(v, i).vga)
         /\ Same(v, vgahw_get_overscan_border_color(v).vga)
    BY <1>6, <1>7 DEF vgahw_get_overscan_border_color
  <1>11. Same(v, vgahw_toggle_intensity(v, b))
    BY <1>5 DEF vgahw_toggle_intensity
  <1> QED
    BY <1>8, <1>9, <1>10, <1>11

LEMMA BorderSame ==
    ASSUME NEW v, NEW b
    PROVE  Same(v, vgahw_set_border_color(v, b)) /\ Same(v, vgahw_set_palette(v, b))
  <1>1. \A x, j, c : Same(x, ActlData(ActlIndex(x, j), c))
    BY ActlSame, SameAsSame
  <1>2. \A x, y, z, j : Same(x, y) /\ Same(y, z) => Same(x, ActlIndex(z, j))
    BY ActlSame, SameAsSame
  <1>3. Same(v, vgahw_set_border_color(v, b))
    <2> DEFINE low == (b % 16) + 8 * Bit(b, 3)
               EachColor(w, i) == LET x == ActlIndex(w, i)
                                  IN  ActlData(x, PutBit(ActlRead(x), 4, Bit(b, 4)))
               w0 == ActlData(ActlSelect(v, 0), low)
               w1 == EachColor(w0, 1)
               w2 == EachColor(w1, 2)
               w3 == EachColor(w2, 3)
    <2>1. vgahw_set_border_color(v, b) = ActlIndex(w3, 32)
      BY DEF vgahw_set_border_color
    <2>2. Same(v, w0)
      BY ActlSame, SameAsSame
    <2>3. \A w, i : Same(w, EachColor(w, i))
      BY <1>1
    <2> HIDE DEF low, w0, EachColor
    <2>4. Same(w0, w1) /\ Same(w1, w2) /\ Same(w2, w3)
      BY <2>3
    <2> HIDE DEF w1, w2, w3
    <2>5. Same(v, w3)
      BY <2>2, <2>4, SameAsSame
    <2>6. Same(w3, ActlIndex(w3, 32))
      BY ActlSame
    <2> QED
      BY <2>1, <2>5, <2>6, SameAsSame
  <1>4. Same(v, vgahw_set_palette(v, b))
    <2> DEFINE EachColor(w, i) == LET x == ActlIndex(w, i)
                                  IN  ActlData(x, PutBit(ActlRead(x), 0, b % 2))
               w0 == ActlReset(v)
               w1 == EachColor(w0, 1)
               w2 == EachColor(w1, 2)
               w3 == EachColor(w2, 3)
    <2>1. vgahw_set_palette(v, b) = ActlIndex(w3, 32)
      BY DEF vgahw_set_palette
    <2>2. Same(v, w0)
      BY ActlSame
    <2>3. \A w, i : Same(w, EachColor(w, i))
      BY <1>1
    <2> HIDE DEF w0, EachColor
    <2>4. Same(w0, w1) /\ Same(w1, w2) /\ Same(w2, w3)
      BY <2>3
    <2> HIDE DEF w1, w2, w3
    <2>5. Same(v, w3)
      BY <2>2, <2>4, SameAsSame
    <2>6. Same(w3, ActlIndex(w3, 32))
      BY ActlSame
    <2> QED
      BY <2>1, <2>5, <2>6, SameAsSame
  <1> QED
    BY <1>3, <1>4

LEMMA AllPaletteSame ==
    ASSUME NEW v, NEW data
    PROVE  /\ Same(v, vgahw_set_all_palette_reg(v, data))
           /\ Same(v, vgahw_get_all_palette_reg(v).vga)
  <1>1. Same(v, vgahw_set_all_palette_reg(v, data))
    <2> DEFINE row == [k \in 0 .. 15 |-> data[k + 1]]
               w0 == ActlReset(v)
               w1 == ActlWriteAll(w0, 0, 16, row)
               w2 == ActlPut(w1, 17, data[17])
    <2>1. vgahw_set_all_palette_reg(v, data) = ActlIndex(w2, 32)
      BY Zenon DEF vgahw_set_all_palette_reg
    <2> HIDE DEF row
    <2>2. Same(v, w0)
      BY ActlSame
    <2> HIDE DEF w0
    <2>3. Same(w0, w1)
      BY ActlWriteAllSame
    <2> HIDE DEF w1
    <2>4. Same(w1, w2)
      BY ActlSame
    <2> HIDE DEF w2
    <2>5. Same(w2, ActlIndex(w2, 32))
      BY ActlSame
    <2>6. Same(v, w2)
      BY <2>2, <2>3, <2>4, SameAsSame
    <2> QED
      BY <2>1, <2>5, <2>6, SameAsSame
  <1>2. Same(v, vgahw_get_all_palette_reg(v).vga)
    <2> DEFINE indices == [k \in 1 .. 17 |-> IF k = 17 THEN 17 ELSE k - 1]
               w == ActlScan(v, indices)[17]
    <2>1. vgahw_get_all_palette_reg(v).vga = ActlSelect(w, 32)
      BY DEF vgahw_get_all_palette_reg
    <2>2. Len(indices) = 17
      OBVIOUS
    <2> HIDE DEF indices
    <2>3. Same(v, w)
      <3>1. ASSUME NEW x, Len(x) = 17
            PROVE  Same(v, ActlScan(v, x)[17])
        <4>1. Len(x) \in Nat /\ 17 \in 0 .. Len(x)
          BY <3>1
        <4> QED
          BY <4>1, ActlScanSame
      <3> QED
        BY <2>2, <3>1
    <2> HIDE DEF w
    <2>4. Same(w, ActlSelect(w, 32))
      BY ActlSame
    <2> QED
      BY <2>1, <2>3, <2>4, SameAsSame
  <1> QED
    BY <1>1, <1>2

LEMMA ColorPageSame ==
    ASSUME NEW v, NEW flag, NEW data
    PROVE  /\ Same(v, vgahw_select_video_dac_color_page(v, flag, data))
           /\ Same(v, vgahw_read_video_dac_state(v).vga)
  <1> DEFINE w == ActlSelect(v, 16)
  <1>1. Same(v, w)
    BY ActlSame
  <1>2. \A x, c : Same(x, ActlIndex(ActlData(x, c), 32))
    BY ActlSame, SameAsSame
  <1>3. \A x, j : Same(x, ActlSelect(x, j))
    BY ActlSame
  <1>4. \A j, c : Same(v, ActlIndex(ActlData(w, c), 32))
                 /\ Same(v, ActlIndex(ActlData(ActlSelect(w, j), c), 32))
    <2> HIDE DEF w
    <2> QED
      BY <1>1, <1>2, <1>3, SameAsSame
  <1>5. Same(v, vgahw_select_video_dac_color_page(v, flag, data))
    BY <1>4 DEF vgahw_select_video_dac_color_page
  <1>6. vgahw_read_video_dac_state(v).vga = ActlSelect(ActlSelect(w, 20), 32)
    BY DEF vgahw_read_video_dac_state
  <1>7. Same(v, ActlSelect(ActlSelect(w, 20), 32))
    <2> HIDE DEF w
    <2>1. Same(w, ActlSelect(w, 20))
      BY <1>3
    <2>2. Same(ActlSelect(w, 20), ActlSelect(ActlSelect(w, 20), 32))
      BY <1>3
    <2> QED
      BY <1>1, <2>1, <2>2, SameAsSame
  <1> QED
    BY <1>5, <1>6, <1>7

LEMMA DacCallsSame ==
    ASSUME NEW v, NEW b, NEW i, DacSize \in Nat
    PROVE  /\ Same(v, vgahw_set_pel_mask(v, b))
           /\ Same(v, vgahw_save_dac_state(v).vga)
           /\ Same(v, vgahw_restore_dac_state(v, i))
  <1>1. \A x, c : Same(x, Outb(x, VGAREG_PEL_MASK, c))
    BY OutElsewhere DEF Outb, MemoryPorts
  <1>2. \A x, c : Same(x, Outb(x, VGAREG_DAC_WRITE_ADDRESS, c))
    BY OutElsewhere DEF Outb, MemoryPorts
  <1>3. Same(v, vgahw_set_pel_mask(v, b))
    BY <1>1 DEF vgahw_set_pel_mask
  <1>4. Same(v, vgahw_save_dac_state(v).vga)
    <2>1. vgahw_save_dac_state(v).vga = vgahw_get_dac_regs(v, 0, DacSize).vga
      BY DEF vgahw_save_dac_state
    <2> QED
      BY <2>1, DacSame
  <1>5. Same(v, vgahw_restore_dac_state(v, i))
    <2> DEFINE w0 == Outb(v, VGAREG_PEL_MASK, i.pelmask)
               w1 == vgahw_set_dac_regs(w0, i.dac, 0, DacSize)
    <2>1. vgahw_restore_dac_state(v, i) = Outb(w1, VGAREG_DAC_WRITE_ADDRESS, i.peladdr)
      BY DEF vgahw_restore_dac_state
    <2>2. Same(v, w0)
      BY <1>1
    <2> HIDE DEF w0
    <2>3. Same(w0, w1)
      BY DacSame
    <2> HIDE DEF w1
    <2>4. Same(w1, vgahw_restore_dac_state(v, i))
      BY <1>2, <2>1
    <2> QED
      BY <2>2, <2>3, <2>4, SameAsSame
  <1> QED
    BY <1>3, <1>4, <1>5

LEMMA CrtcCallsSame ==
    ASSUME NEW v, NEW a, NEW b
    PROVE  /\ Same(v, vgahw_set_cursor_shape(v, a, b))
           /\ Same(v, vgahw_set_active_page(v, a))
           /\ Same(v, vgahw_set_cursor_pos(v, a))
           /\ Same(v, vgahw_set_scan_lines(v, a))
           /\ Same(v, vgahw_get_vde(v).vga)
  <1>0. get_crtc = 0
    BY DEF get_crtc
  <1>1. \A x, i, c : Same(x, Outb(x, get_crtc, i)) /\ Same(x, Outw(x, get_crtc, i, c))
    BY <1>0, CrtcSame
  <1>2. ASSUME NEW x, NEW i, NEW c, NEW d
        PROVE  Same(x, CrtcPair(x, i, c, d))
    <2> DEFINE y == Outw(x, get_crtc, i, c)
               z == Outw(y, get_crtc, i + 1, d)
    <2>1. Same(x, y)
      BY <1>1
    <2>2. Same(y, z)
      <3> HIDE DEF y
      <3> QED
        BY <1>1
    <2>3. CrtcPair(x, i, c, d) = z
      BY DEF CrtcPair
    <2> HIDE DEF y, z
    <2> QED
      BY <2>1, <2>2, <2>3, SameAsSame
  <1>3. Same(v, vgahw_set_cursor_shape(v, a, b))
    BY <1>2 DEF vgahw_set_cursor_shape
  <1>4. Same(v, vgahw_set_active_page(v, a))
    BY <1>2 DEF vgahw_set_active_page
  <1>5. Same(v, vgahw_set_cursor_pos(v, a))
    BY <1>2 DEF vgahw_set_cursor_pos
  <1>6. Same(v, vgahw_set_scan_lines(v, a))
    BY <1>1 DEF vgahw_set_scan_lines
  <1>7. vgahw_get_vde(v).vga = Outb(Outb(v, get_crtc, 18), get_crtc, 7)
    BY DEF vgahw_get_vde
  <1>8. Same(v, Outb(Outb(v, get_crtc, 18), get_crtc, 7))
    BY <1>1, SameAsSame
  <1> QED
    BY <1>3, <1>4, <1>5, <1>6, <1>7, <1>8

\* Saving the state takes display memory's registers as they are.
LEMMA SavedState ==
    ASSUME NEW v, Whole(v), NEW s, s = vgahw_save_state(v)
    PROVE  /\ Same(v, s.vga) /\ s.info.crtc_addr = 0
           /\ s.info.sequ = [i \in 0 .. 4 |-> v.sequ[i]]
           /\ s.info.grdc = [i \in 0 .. 8 |-> v.grdc[i]]
  <1> DEFINE ar_index == Inb(ActlReset(v), VGAREG_ACTL_ADDRESS)
             indices == [k \in 1 .. 20 |-> k - 1 + 32 * Bit(ar_index, 5)]
             w == ActlScan(v, indices)[20]
             w1 == ActlReset(w)
             w2 == Outb(w1, VGAREG_SEQU_ADDRESS, 0)
             w3 == Outb(w2, get_crtc, 24)
             w4 == Outb(w3, VGAREG_GRDC_ADDRESS, 8)
  <1>1. /\ s.vga = w4 /\ s.info.crtc_addr = get_crtc
        /\ s.info.sequ = ReadAll(v, VGAREG_SEQU_ADDRESS, 5)
        /\ s.info.grdc = ReadAll(v, VGAREG_GRDC_ADDRESS, 9)
    BY DEF vgahw_save_state
  <1>2. Len(indices) = 20
    OBVIOUS
  <1> HIDE DEF ar_index, indices
  <1>3. Same(v, w)
    <2>1. ASSUME NEW x, Len(x) = 20
          PROVE  Same(v, ActlScan(v, x)[20])
      <3>1. Len(x) \in Nat /\ 20 \in 0 .. Len(x)
        BY <2>1
      <3> QED
        BY <3>1, ActlScanSame
    <2> QED
      BY <1>2, <2>1
  <1> HIDE DEF w
  <1>4. Same(w, w1)
    BY ActlSame
  <1> HIDE DEF w1
  <1>5. Same(w1, w2)
    BY OutElsewhere DEF Outb, MemoryPorts
  <1> HIDE DEF w2
  <1>6. Same(w2, w3)
    BY OutElsewhere DEF Outb, MemoryPorts, get_crtc
  <1> HIDE DEF w3
  <1>7. Same(w3, w4)
    BY OutElsewhere DEF Outb, MemoryPorts
  <1> HIDE DEF w4
  <1>8. Same(v, w4)
    BY <1>3, <1>4, <1>5, <1>6, <1>7, SameAsSame
  <1>9. ReadAll(v, VGAREG_SEQU_ADDRESS, 5) = [i \in 0 .. 4 |-> v.sequ[i]]
    BY SequRead DEF ReadAll
  <1>10. ReadAll(v, VGAREG_GRDC_ADDRESS, 9) = [i \in 0 .. 8 |-> v.grdc[i]]
    BY GrdcRead DEF ReadAll
  <1> QED
    BY <1>1, <1>8, <1>9, <1>10 DEF get_crtc

-----------------------------------------------------------------------------
(* The functions that write display memory's registers. *)

\* The adapter has the registers of an entry of the parameter table.
InMode(v, p) ==
    /\ Whole(v) /\ v.misc = p.miscreg /\ v.sequ[0] = 3
    /\ \A j \in 1 .. 4 : v.sequ[j] = p.sequ_regs[j]
    /\ \A j \in 0 .. 8 : v.grdc[j] = p.grdc_regs[j + 1]

LEMMA SetMode ==
    ASSUME NEW v, Whole(v), NEW p, p.miscreg \in Int, NEW w, w = vgahw_set_mode(v, p)
    PROVE  InMode(w, p) /\ w.plane = v.plane
  <1> DEFINE arow == FromZero(p.actl_regs, 20)
             grow == FromZero(p.grdc_regs, 9)
             crow == FromZero(p.crtc_regs, 25)
             addr == IF p.miscreg % 2 = 1 THEN VGAREG_VGA_CRTC_ADDRESS
                                          ELSE VGAREG_MDA_CRTC_ADDRESS
             a0 == ActlReset(v)
             a1 == ActlWriteAll(a0, 0, 20, arow)
             a2 == ActlPut(a1, 20, 0)
             s0 == Outw(a2, VGAREG_SEQU_ADDRESS, 0, 3)
             s1 == WriteAll(s0, VGAREG_SEQU_ADDRESS, 1, 4, p.sequ_regs)
             g == WriteAll(s1, VGAREG_GRDC_ADDRESS, 0, 9, grow)
             c0 == Outw(g, addr, 17, 0)
             c1 == WriteAll(c0, addr, 0, 25, crow)
             m == Outb(c1, VGAREG_WRITE_MISC_OUTPUT, p.miscreg)
             i == ActlIndex(m, 32)
  <1>1. w = ActlReset(i)
    BY DEF vgahw_set_mode
  <1>2. \A j \in 0 .. 8 : grow[j] = p.grdc_regs[j + 1]
    BY DEF FromZero
  <1>3. addr \in {948, 980}
    OBVIOUS
  <1> HIDE DEF arow, grow, crow, addr
  <1>0. /\ s0 = Outw(a2, VGAREG_SEQU_ADDRESS, 0, 3)
        /\ s1 = WriteAll(s0, VGAREG_SEQU_ADDRESS, 1, 4, p.sequ_regs)
        /\ g = WriteAll(s1, VGAREG_GRDC_ADDRESS, 0, 9, grow)
        /\ m = Outb(c1, VGAREG_WRITE_MISC_OUTPUT, p.miscreg)
    OBVIOUS
  <1>4. Same(v, a0)
    BY ActlSame
  <1> HIDE DEF a0
  <1>5. Same(a0, a1)
    BY ActlWriteAllSame
  <1> HIDE DEF a1
  <1>6. Same(a1, a2)
    BY ActlSame
  <1> HIDE DEF a2
  <1>7. Whole(a2) /\ a2.plane = v.plane
    BY <1>4, <1>5, <1>6 DEF Same
  <1> HIDE DEF s0, s1, g, m
  <1>8. SequSet(a2, 0, 3, s0)
    BY <1>0, <1>7, SequWritten
  <1>9. Whole(s0) /\ s0.plane = a2.plane /\ s0.sequ[0] = 3
    BY <1>7, <1>8 DEF Whole, SequSet
  <1>10. /\ Whole(s1) /\ s1.plane = s0.plane
         /\ Filled(s0.sequ, s1.sequ, 1, 4, p.sequ_regs)
    BY <1>0, <1>9, SequFilled
  <1>11. s1.sequ[0] = 3 /\ \A j \in 1 .. 4 : s1.sequ[j] = p.sequ_regs[j]
    BY <1>9, <1>10 DEF Filled, Whole
  <1>12. /\ Whole(g) /\ g.plane = s1.plane /\ g.sequ = s1.sequ
         /\ Filled(s1.grdc, g.grdc, 0, 9, grow)
    BY <1>0, <1>10, GrdcFilled
  <1>13. \A j \in 0 .. 8 : g.grdc[j] = grow[j]
    BY <1>10, <1>12 DEF Filled, Whole
  <1>14. Same(g, c0)
    BY <1>3, CrtcSame
  <1> HIDE DEF c0
  <1>15. Same(c0, c1)
    BY <1>3, CrtcWriteAllSame
  <1> HIDE DEF c1
  <1>16. /\ Whole(c1) /\ c1.sequ = s1.sequ /\ c1.grdc = g.grdc /\ c1.plane = v.plane
    BY <1>7, <1>9, <1>10, <1>12, <1>14, <1>15 DEF Same
  <1>17. /\ Whole(m) /\ m.misc = p.miscreg /\ m.sequ = c1.sequ /\ m.grdc = c1.grdc
         /\ m.plane = c1.plane
    BY <1>0, <1>16, MiscWritten
  <1>18. Same(m, i)
    BY ActlSame
  <1> HIDE DEF i
  <1>19. Same(i, w)
    BY <1>1, ActlSame
  <1>20. /\ Whole(w) /\ w.misc = p.miscreg /\ w.sequ = s1.sequ /\ w.grdc = g.grdc
         /\ w.plane = v.plane
    BY <1>16, <1>17, <1>18, <1>19 DEF Same
  <1> QED
    BY <1>2, <1>11, <1>13, <1>20 DEF InMode

\* Opening and closing the font memory.
LEMMA SequCall ==
    ASSUME NEW v, Whole(v), NEW i, NEW b
    PROVE  SequSet(v, i, b, vgahw_sequ_write(v, i, b))
  BY SequWritten DEF vgahw_sequ_write

LEMMA GrdcCall ==
    ASSUME NEW v, Whole(v), NEW i, NEW b
    PROVE  GrdcSet(v, i, b, vgahw_grdc_write(v, i, b))
  BY GrdcWritten DEF vgahw_grdc_write

LEMMA FontSequIs ==
    ASSUME NEW v, Whole(v), NEW mask, NEW memory, NEW w, w = FontSequ(v, mask, memory)
    PROVE  /\ Whole(w) /\ w.misc = v.misc /\ w.grdc = v.grdc /\ w.plane = v.plane
           /\ w.sequ[2] = mask /\ w.sequ[4] = memory
  <1> DEFINE w1 == vgahw_sequ_write(v, 0, 1)
             w2 == vgahw_sequ_write(w1, 2, mask)
             w3 == vgahw_sequ_write(w2, 4, memory)
  <1>1. w = vgahw_sequ_write(w3, 0, 3)
    BY DEF FontSequ
  <1>2. SequSet(v, 0, 1, w1)
    BY SequCall
  <1> HIDE DEF w1
  <1>3. SequSet(w1, 2, mask, w2)
    BY <1>2, SequCall DEF SequSet
  <1> HIDE DEF w2
  <1>4. SequSet(w2, 4, memory, w3)
    BY <1>3, SequCall DEF SequSet
  <1> HIDE DEF w3
  <1>5. SequSet(w3, 0, 3, w)
    BY <1>1, <1>4, SequCall DEF SequSet
  <1>6. w2.sequ[2] = mask
    BY <1>2, <1>3 DEF Whole, SequSet
  <1>7. w3.sequ[2] = mask /\ w3.sequ[4] = memory
    BY <1>3, <1>4, <1>6 DEF Whole, SequSet
  <1>8. w.sequ[2] = mask /\ w.sequ[4] = memory
    BY <1>4, <1>5, <1>7 DEF Whole, SequSet
  <1> QED
    BY <1>2, <1>3, <1>4, <1>5, <1>8 DEF SequSet

LEMMA FontOpened ==
    ASSUME NEW v, Whole(v), NEW w, w = get_font_access(v)
    PROVE  Whole(w) /\ w.misc = v.misc /\ w.plane = v.plane
  <1> DEFINE w1 == FontSequ(v, 4, 7)
             w2 == vgahw_grdc_write(w1, 4, 2)
             w3 == vgahw_grdc_write(w2, 5, 0)
  <1>1. w = vgahw_grdc_write(w3, 6, 4)
    BY DEF get_font_access
  <1>0. w1 = FontSequ(v, 4, 7)
    OBVIOUS
  <1> HIDE DEF w1
  <1>2. Whole(w1) /\ w1.misc = v.misc /\ w1.plane = v.plane
    BY <1>0, FontSequIs
  <1>3. GrdcSet(w1, 4, 2, w2)
    BY <1>2, GrdcCall
  <1> HIDE DEF w2
  <1>4. GrdcSet(w2, 5, 0, w3)
    BY <1>3, GrdcCall DEF GrdcSet
  <1> HIDE DEF w3
  <1>5. GrdcSet(w3, 6, 4, w)
    BY <1>1, <1>4, GrdcCall DEF GrdcSet
  <1> QED
    BY <1>2, <1>3, <1>4, <1>5 DEF GrdcSet

LEMMA FontReleased ==
    ASSUME NEW v, Whole(v), NEW w, w = release_font_access(v)
    PROVE  /\ Whole(w) /\ w.misc = v.misc /\ w.plane = v.plane
           /\ w.sequ[2] = 3 /\ w.sequ[4] = 3 /\ w.grdc[5] = 16
           /\ w.grdc[6] = 14 \/ (v.misc % 2 # 1 /\ w.grdc[6] = 10)
  <1> DEFINE w1 == FontSequ(v, 3, 3)
             map == IF Inb(w1, VGAREG_READ_MISC_OUTPUT) % 2 = 1 THEN 14 ELSE 10
             w2 == vgahw_grdc_write(w1, 6, map)
             w3 == vgahw_grdc_write(w2, 4, 0)
  <1>1. w = vgahw_grdc_write(w3, 5, 16)
    BY DEF release_font_access, FontRelease
  <1>0. w1 = FontSequ(v, 3, 3)
    OBVIOUS
  <1> HIDE DEF w1
  <1>2. /\ Whole(w1) /\ w1.misc = v.misc /\ w1.plane = v.plane
        /\ w1.sequ[2] = 3 /\ w1.sequ[4] = 3
    BY <1>0, FontSequIs
  <1>3. map = 14 \/ (v.misc % 2 # 1 /\ map = 10)
    BY <1>2, MiscRead
  <1> HIDE DEF map
  <1>4. GrdcSet(w1, 6, map, w2)
    BY <1>2, GrdcCall
  <1> HIDE DEF w2
  <1>5. GrdcSet(w2, 4, 0, w3)
    <2>1. Whole(w2)
      BY <1>4 DEF GrdcSet
    <2> QED
      BY <2>1, GrdcCall
  <1> HIDE DEF w3
  <1>6. GrdcSet(w3, 5, 16, w)
    BY <1>1, <1>5, GrdcCall DEF GrdcSet
  <1>7. w2.grdc[6] = map
    BY <1>2, <1>4 DEF Whole, GrdcSet
  <1>8. w3.grdc[6] = map
    BY <1>4, <1>5, <1>7 DEF Whole, GrdcSet
  <1>9. w.grdc[5] = 16 /\ w.grdc[6] = map
    BY <1>5, <1>6, <1>8 DEF Whole, GrdcSet
  <1> QED
    BY <1>2, <1>3, <1>4, <1>5, <1>6, <1>9 DEF GrdcSet

-----------------------------------------------------------------------------
(* The list of modes and the rows of the parameter table. *)

LEMMA Least ==
    ASSUME NEW S, S \subseteq Nat, S # {}
    PROVE  \E i \in S : \A j \in S : i <= j
  <1> DEFINE R == OpToRel(<, Nat)
  <1>1. IsWellFoundedOn(R, Nat)
    BY NatLessThanWellFounded
  <1>2. \A x, y \in Nat : x < y => <<x, y>> \in R
    BY DEF OpToRel
  <1> HIDE DEF R
  <1>3. PICK i \in S : \A j \in S : <<j, i>> \notin R
    BY <1>1, WFMin
  <1>4. \A j \in S : i <= j
    <2>1. SUFFICES ASSUME NEW j \in S PROVE i <= j
      OBVIOUS
    <2>2. i \in Nat /\ j \in Nat /\ ~(j < i)
      BY <1>2, <1>3
    <2> QED
      BY <2>2
  <1> QED
    BY <1>4

\* Where the two text rows of video_param_table send the adapter: colour text
\* at SEG_CTEXT, characters and colours by turns in planes 0 and 1.
TextRow(p) ==
    /\ p.miscreg = 103 /\ p.grdc_regs = <<0,0,0,0,0,16,14,15,255>>
    /\ p.sequ_regs[2] = 3 /\ p.sequ_regs[4] = 2

LEMMA ParamTable ==
    /\ \A i \in 0 .. 29 : video_param_table[i].miscreg \in Int
    /\ \A i \in {23, 24} : TextRow(video_param_table[i])
  <1>1. /\ \A i \in 1 .. 23 : params00[i].miscreg \in Int
        /\ \A i \in 1 .. 7 : params17[i].miscreg \in Int
    BY SMTT(30) DEF params00, params17, VideoParam_s, no_mode
  <1>2. TextRow(params17[1]) /\ TextRow(params17[2])
    BY DEF params17, VideoParam_s, TextRow
  <1> QED
    BY <1>1, <1>2 DEF video_param_table

LEMMA ModeList ==
    /\ DOMAIN vga_modes = 1 .. 16
    /\ \A i \in 1 .. 16 : vga_modes[i].vparam \in 0 .. 29
    /\ \A i \in 1 .. 16 : vga_modes[i].memmodel = "CTEXT" =>
          vga_modes[i].vparam \in {23, 24} /\ vga_modes[i].sstart = SEG_CTEXT
    /\ \A i \in 1 .. 16 : vga_modes[i].svgamode = 3 <=> i = 4
    /\ vga_modes[4].memmodel = "CTEXT" /\ vga_modes[4].vparam = 24
  BY DEF vga_modes, vgamode_s

LEMMA FindEntry ==
    ASSUME NEW m, find_vga_entry(m) # 0
    PROVE  find_vga_entry(m) \in 1 .. 16
  <1> DEFINE at == {i \in DOMAIN vga_modes : vga_modes[i].svgamode = m}
  <1>1. at \subseteq 1 .. 16
    BY ModeList
  <1>2. find_vga_entry(m) = IF at = {} THEN 0 ELSE CHOOSE i \in at : \A j \in at : i <= j
    BY DEF find_vga_entry
  <1> HIDE DEF at
  <1>3. at # {} /\ at \subseteq Nat
    BY <1>1, <1>2
  <1>4. \E i \in at : \A j \in at : i <= j
    BY <1>3, Least
  <1>5. (CHOOSE i \in at : \A j \in at : i <= j) \in at
    BY <1>4
  <1> QED
    BY <1>1, <1>2, <1>3, <1>5

LEMMA TextEntry ==
    find_vga_entry(3) = 4
  <1> DEFINE at == {i \in DOMAIN vga_modes : vga_modes[i].svgamode = 3}
  <1>1. at = {4}
    BY ModeList
  <1>2. find_vga_entry(3) = IF at = {} THEN 0 ELSE CHOOSE i \in at : \A j \in at : i <= j
    BY DEF find_vga_entry
  <1> HIDE DEF at
  <1>3. (CHOOSE i \in {4} : \A j \in {4} : i <= j) = 4
    OBVIOUS
  <1> QED
    BY <1>1, <1>2, <1>3

\* What TextReachable says of the registers of mode m.
Entry(m) == vga_modes[find_vga_entry(m)]
TextRegisters(v, m) ==
    Entry(m).memmodel = "CTEXT" =>
        /\ Window(v) \in {Entry(m).sstart, SEG_MTEXT}
        /\ OddEven(v) /\ ~Chain4(v) /\ v.sequ[2] = 3
InPlace(v, m) ==
    Entry(m).memmodel = "CTEXT" /\ v.misc % 2 = 1 => Window(v) = Entry(m).sstart
Listed == Modes \union {3}

LEMMA ModeRow ==
    ASSUME NEW m \in Listed,
           NEW p, p = video_param_table[Entry(m).vparam]
    PROVE  /\ p.miscreg \in Int
           /\ Entry(m).memmodel = "CTEXT" => TextRow(p) /\ Entry(m).sstart = SEG_CTEXT
  <1>1. find_vga_entry(m) # 0
    BY TextEntry, VgaAssumption DEF Listed
  <1>2. find_vga_entry(m) \in 1 .. 16
    BY <1>1, FindEntry
  <1> DEFINE i == find_vga_entry(m)
  <1>3. Entry(m) = vga_modes[i]
    BY DEF Entry
  <1> HIDE DEF i
  <1>4. i \in 1 .. 16
    BY <1>2 DEF i
  <1> QED
    BY <1>3, <1>4, ModeList, ParamTable

-----------------------------------------------------------------------------
(* What the functions leave of text mode. *)

LEMMA Bits ==
    ASSUME NEW x \in Int, NEW b \in {0, 1}
    PROVE  /\ Bit(x, 0) = x % 2 /\ Bit(x, 1) = (x \div 2) % 2
           /\ Bit(x, 2) = (x \div 4) % 2 /\ Bit(x, 3) = (x \div 8) % 2
           /\ Bit(x, 4) = (x \div 16) % 2
           /\ PutBit(x, 0, b) \in Int /\ PutBit(x, 0, b) % 2 = b
           /\ PutBit(x, 1, b) \in Int /\ PutBit(x, 1, b) % 2 = x % 2
  BY DEF Bit, PutBit, Weight

\* The registers text mode is about.
TextAs(v, w) ==
    /\ w.sequ[2] = v.sequ[2] /\ w.sequ[4] = v.sequ[4]
    /\ w.grdc[5] = v.grdc[5] /\ w.grdc[6] = v.grdc[6]

LEMMA TextKept ==
    ASSUME NEW v, NEW w, TextAs(v, w), NEW m, TextRegisters(v, m)
    PROVE  TextRegisters(w, m)
  BY DEF TextAs, TextRegisters, Window, OddEven, Chain4

LEMMA PlaceKept ==
    ASSUME NEW v, NEW w, TextAs(v, w), w.misc % 2 = v.misc % 2, NEW m, InPlace(v, m)
    PROVE  InPlace(w, m)
  BY DEF TextAs, InPlace, Window

LEMMA TextFromRow ==
    ASSUME NEW m \in Listed, NEW v, InMode(v, video_param_table[Entry(m).vparam])
    PROVE  TextRegisters(v, m) /\ InPlace(v, m)
  <1> DEFINE p == video_param_table[Entry(m).vparam]
  <1>1. Entry(m).memmodel = "CTEXT" => TextRow(p) /\ Entry(m).sstart = SEG_CTEXT
    BY ModeRow
  <1>2. InMode(v, p)
    OBVIOUS
  <1> HIDE DEF p
  <1>3. SUFFICES ASSUME Entry(m).memmodel = "CTEXT"
                 PROVE  /\ Window(v) = Entry(m).sstart
                        /\ OddEven(v) /\ ~Chain4(v) /\ v.sequ[2] = 3
    BY DEF TextRegisters, InPlace
  <1>4. v.sequ[2] = 3 /\ v.sequ[4] = 2 /\ v.grdc[6] = 14
    BY <1>1, <1>2, <1>3 DEF TextRow, InMode
  <1>5. Window(v) = SEG_CTEXT
    BY <1>4 DEF Window
  <1>6. Bit(2, 2) = 0 /\ Bit(2, 3) = 0
    BY DEF Bit, Weight
  <1>7. OddEven(v) /\ ~Chain4(v)
    BY <1>4, <1>6 DEF OddEven, Chain4
  <1> QED
    BY <1>1, <1>3, <1>4, <1>5, <1>7

\* release_font_access goes back to the registers of colour text but for the
\* fourth of the sequencer, which it leaves at 3, and in monochrome the window.
LEMMA TextReleased ==
    ASSUME NEW m \in Listed, NEW v, v.sequ[2] = 3, v.sequ[4] = 3, v.grdc[5] = 16,
           v.grdc[6] = 14 \/ (v.misc % 2 # 1 /\ v.grdc[6] = 10)
    PROVE  TextRegisters(v, m) /\ InPlace(v, m)
  <1>1. SUFFICES ASSUME Entry(m).memmodel = "CTEXT"
                 PROVE  /\ Window(v) = Entry(m).sstart
                           \/ (v.misc % 2 # 1 /\ Window(v) = SEG_MTEXT)
                        /\ OddEven(v) /\ ~Chain4(v)
    BY DEF TextRegisters, InPlace
  <1>2. Entry(m).sstart = SEG_CTEXT
    BY <1>1, ModeRow
  <1>3. v.grdc[6] = 14 => Window(v) = SEG_CTEXT
    BY DEF Window
  <1>4. v.grdc[6] = 10 => Window(v) = SEG_MTEXT
    BY DEF Window
  <1>5. Bit(3, 2) = 0 /\ Bit(3, 3) = 0
    BY DEF Bit, Weight
  <1>6. OddEven(v) /\ ~Chain4(v)
    BY <1>5 DEF OddEven, Chain4
  <1> QED
    BY <1>2, <1>3, <1>4, <1>6

LEMMA BlockSpecifier ==
    ASSUME NEW v, Whole(v), NEW b, NEW w, w = vgahw_set_text_block_specifier(v, b)
    PROVE  Whole(w) /\ w.misc = v.misc /\ w.plane = v.plane /\ TextAs(v, w)
  <1>1. SequSet(v, 3, b, w)
    BY SequWritten DEF vgahw_set_text_block_specifier
  <1> QED
    BY <1>1 DEF SequSet, Whole, TextAs

LEMMA Addressing ==
    ASSUME NEW v, Whole(v), NEW disable,
           NEW w, w = vgahw_enable_video_addressing(v, disable)
    PROVE  /\ Whole(w) /\ w.misc % 2 = v.misc % 2 /\ w.plane = v.plane
           /\ TextAs(v, w)
  <1> DEFINE on == IF disable % 2 = 1 THEN 0 ELSE 1
             b == PutBit(v.misc, 1, on)
  <1>1. w = Outb(v, VGAREG_WRITE_MISC_OUTPUT, b)
    BY MiscRead DEF vgahw_enable_video_addressing
  <1>2. v.misc \in Int /\ on \in {0, 1}
    BY DEF Whole
  <1> HIDE DEF on
  <1>3. b \in Int /\ b % 2 = v.misc % 2
    <2>1. \A x \in Int, c \in {0, 1} :
             PutBit(x, 1, c) \in Int /\ PutBit(x, 1, c) % 2 = x % 2
      BY Bits
    <2> QED
      BY <1>2, <2>1
  <1> HIDE DEF b
  <1>4. /\ Whole(w) /\ w.misc = b /\ w.sequ = v.sequ /\ w.grdc = v.grdc
        /\ w.plane = v.plane
    <2>1. ASSUME NEW c \in Int, w = Outb(v, VGAREG_WRITE_MISC_OUTPUT, c)
          PROVE  /\ Whole(w) /\ w.misc = c /\ w.sequ = v.sequ /\ w.grdc = v.grdc
                 /\ w.plane = v.plane
      BY <2>1, MiscWritten
    <2> QED
      BY <1>1, <1>3, <2>1
  <1> QED
    BY <1>3, <1>4 DEF TextAs

LEMMA Restored ==
    ASSUME NEW v, Whole(v), NEW i, i.crtc_addr = 0,
           NEW w, w = vgahw_restore_state(v, i)
    PROVE  Whole(w) /\ w.misc % 2 = 0 /\ w.plane = v.plane /\ TextAs(i, w)
  <1> DEFINE addr == i.crtc_addr
             colour == IF addr = VGAREG_VGA_CRTC_ADDRESS THEN 1 ELSE 0
             r == ActlReset(v)
             s1 == WriteAll(r, VGAREG_SEQU_ADDRESS, 1, 4, i.sequ)
             s2 == Outw(s1, VGAREG_SEQU_ADDRESS, 0, i.sequ[0])
             c0 == Outw(s2, addr, 17, 0)
             c1 == WriteAll(c0, addr, 0, 17, i.crtc)
             c2 == WriteAll(c1, addr, 18, 7, i.crtc)
             b == PutBit(Inb(c2, VGAREG_READ_MISC_OUTPUT), 0, colour)
             m == Outb(c2, VGAREG_WRITE_MISC_OUTPUT, b)
             l == Outw(m, addr, 17, i.crtc[17])
             a0 == ActlReset(l)
             a1 == ActlWriteAll(a0, 32 * Bit(i.actl_index, 5), 20, i.actl)
             a2 == ActlIndex(a1, i.actl_index)
             a3 == ActlReset(a2)
             g == WriteAll(a3, VGAREG_GRDC_ADDRESS, 0, 9, i.grdc)
             x1 == Outb(g, VGAREG_SEQU_ADDRESS, i.sequ_index)
             x2 == Outb(x1, addr, i.crtc_index)
             x3 == Outb(x2, VGAREG_GRDC_ADDRESS, i.grdc_index)
             x4 == Outb(x3, addr - 4 + 10, i.feature)
  <1>1. w = x4
    BY Zenon DEF vgahw_restore_state
  <1>2. /\ s1 = WriteAll(r, VGAREG_SEQU_ADDRESS, 1, 4, i.sequ)
        /\ s2 = Outw(s1, VGAREG_SEQU_ADDRESS, 0, i.sequ[0])
        /\ m = Outb(c2, VGAREG_WRITE_MISC_OUTPUT, b)
        /\ g = WriteAll(a3, VGAREG_GRDC_ADDRESS, 0, 9, i.grdc)
    BY Zenon
  <1>3. addr = 0 /\ colour = 0
    OBVIOUS
  <1>4. Same(v, r)
    BY ActlSame
  <1> HIDE DEF r, s1, s2
  <1>5. Whole(r) /\ r.plane = v.plane
    BY <1>4 DEF Same
  <1>6. /\ Whole(s1) /\ s1.plane = r.plane
        /\ \A j \in 1 .. 4 : s1.sequ[j] = i.sequ[j]
    <2>1. Whole(s1) /\ s1.plane = r.plane /\ Filled(r.sequ, s1.sequ, 1, 4, i.sequ)
      BY <1>2, <1>5, SequFilled
    <2> QED
      BY <1>5, <2>1 DEF Filled, Whole
  <1>7. SequSet(s1, 0, i.sequ[0], s2)
    BY <1>2, <1>6, SequWritten
  <1>8. /\ Whole(s2) /\ s2.plane = s1.plane
        /\ \A j \in 1 .. 4 : s2.sequ[j] = i.sequ[j]
    BY <1>6, <1>7 DEF SequSet, Whole
  <1>9. Same(s2, c0)
    BY <1>3, CrtcSame
  <1> HIDE DEF c0
  <1>10. Same(c0, c1)
    BY <1>3, CrtcWriteAllSame
  <1> HIDE DEF c1
  <1>11. Same(c1, c2)
    BY <1>3, CrtcWriteAllSame
  <1> HIDE DEF c2
  <1>12. Whole(c2) /\ c2.plane = s2.plane /\ c2.sequ = s2.sequ
    BY <1>8, <1>9, <1>10, <1>11 DEF Same
  <1>13. b \in Int /\ b % 2 = 0
    <2>1. ASSUME NEW x \in Int
          PROVE  PutBit(x, 0, 0) \in Int /\ PutBit(x, 0, 0) % 2 = 0
      BY Bits
    <2>2. c2.misc \in Int
      BY <1>12 DEF Whole
    <2>3. b = PutBit(Inb(c2, VGAREG_READ_MISC_OUTPUT), 0, 0)
      <3> HIDE DEF colour
      <3> QED
        BY <1>3
    <2> HIDE DEF b
    <2>4. Inb(c2, VGAREG_READ_MISC_OUTPUT) = c2.misc
      BY MiscRead
    <2>5. b = PutBit(c2.misc, 0, 0)
      BY <2>3, <2>4
    <2> QED
      BY <2>1, <2>2, <2>5
  <1> HIDE DEF b, m
  <1>14. /\ Whole(m) /\ m.misc = b /\ m.sequ = c2.sequ /\ m.plane = c2.plane
    <2>1. ASSUME NEW c \in Int, NEW y, y = Outb(c2, VGAREG_WRITE_MISC_OUTPUT, c)
          PROVE  /\ Whole(y) /\ y.misc = c /\ y.sequ = c2.sequ /\ y.plane = c2.plane
      <3>1. Whole(c2)
        BY <1>12
      <3> QED
        BY <2>1, <3>1, MiscWritten, SMTT(30)
    <2> QED
      BY <1>2, <1>13, <2>1
  <1>15. Same(m, l)
    BY <1>3, CrtcSame
  <1> HIDE DEF l
  <1>16. Same(l, a0)
    BY ActlSame
  <1> HIDE DEF a0
  <1>17. Same(a0, a1)
    BY ActlWriteAllSame
  <1> HIDE DEF a1
  <1>18. Same(a1, a2)
    BY ActlSame
  <1> HIDE DEF a2
  <1>19. Same(a2, a3)
    BY ActlSame
  <1> HIDE DEF a3, g
  <1>20. Whole(a3) /\ a3.misc = b /\ a3.plane = m.plane /\ a3.sequ = m.sequ
    BY <1>14, <1>15, <1>16, <1>17, <1>18, <1>19 DEF Same
  <1>21. /\ Whole(g) /\ g.misc = b /\ g.plane = a3.plane /\ g.sequ = a3.sequ
         /\ \A j \in 0 .. 8 : g.grdc[j] = i.grdc[j]
    <2>1. /\ Whole(g) /\ g.misc = a3.misc /\ g.sequ = a3.sequ /\ g.plane = a3.plane
          /\ Filled(a3.grdc, g.grdc, 0, 9, i.grdc)
      BY <1>2, <1>20, GrdcFilled
    <2> QED
      BY <1>20, <2>1 DEF Filled, Whole
  <1>22. \A x, c : Same(x, Outb(x, VGAREG_SEQU_ADDRESS, c))
                   /\ Same(x, Outb(x, VGAREG_GRDC_ADDRESS, c))
                   /\ Same(x, Outb(x, addr, c)) /\ Same(x, Outb(x, addr - 4 + 10, c))
    BY <1>3, OutElsewhere DEF Outb, MemoryPorts
  <1>23. Same(g, x1)
    BY <1>22
  <1> HIDE DEF x1
  <1>24. Same(x1, x2)
    BY <1>22
  <1> HIDE DEF x2
  <1>25. Same(x2, x3)
    BY <1>22
  <1> HIDE DEF x3
  <1>26. Same(x3, x4)
    BY <1>22
  <1> HIDE DEF x4
  <1>27. Same(g, x4)
    BY <1>23, <1>24, <1>25, <1>26, SameAsSame
  <1>28. /\ Whole(w) /\ w.misc = b /\ w.plane = g.plane /\ w.sequ = g.sequ
         /\ w.grdc = g.grdc
    BY <1>1, <1>21, <1>27 DEF Same
  <1>29. w.plane = v.plane
    BY <1>5, <1>6, <1>8, <1>12, <1>14, <1>20, <1>21, <1>28
  <1>30. w.sequ = s2.sequ
    BY <1>12, <1>14, <1>20, <1>21, <1>28
  <1>31. TextAs(i, w)
    BY <1>8, <1>21, <1>28, <1>30 DEF TextAs
  <1> QED
    BY <1>13, <1>28, <1>29, <1>31

-----------------------------------------------------------------------------
(* vgahw_init loads the font. *)

\* The adapter while the font is loaded: display memory at 0xA0000, plane 2
\* alone, one byte after another, as the processor stores them.
Linear(v) ==
    /\ Whole(v) /\ v.misc = 103 /\ v.sequ[2] = 4 /\ v.sequ[4] = 6
    /\ v.grdc[1] = 0 /\ v.grdc[3] = 0 /\ v.grdc[5] = 0 /\ v.grdc[6] = 5
    /\ v.grdc[8] = 255

\* Byte b is now in cell a of plane 2.
Stored(old, a, b, new) ==
    new = [c \in {<<2, a>>} \union DOMAIN old |-> IF c = <<2, a>> THEN b ELSE old[c]]

LEMMA LinearStore ==
    ASSUME NEW v, Linear(v), NEW a \in Nat, NEW b, NEW w, w = Store(v, a, b)
    PROVE  Linear(w) /\ Stored(v.plane, a, b, w.plane)
  <1>1. /\ Bit(6, 3) = 0 /\ Bit(6, 2) = 1 /\ Bit(0, 4) = 0
        /\ Bit(5, 1) = 0 /\ Bit(103, 1) = 1
    BY DEF Bit, Weight
  <1>2. \A p \in 0 .. 3 : Bit(4, p) = 1 <=> p = 2
    BY DEF Bit, Weight
  <1>3. Window(v) = SEG_GRAPH
    BY DEF Linear, Window
  <1>4. ~Chain4(v) /\ ~OddEven(v)
    BY <1>1 DEF Linear, Chain4, OddEven
  <1>5. Unaltered(v)
    BY DEF Linear, Unaltered
  <1> DEFINE step == IF Chain4(v) THEN 4 ELSE IF OddEven(v) THEN 2 ELSE 1
             hit == IF Window(v) = SEG_GRAPH /\ Bit(v.misc, 1) = 1
                    THEN {p \in 0 .. 3 : Bit(v.sequ[2], p) = 1 /\ p % step = a % step}
                    ELSE {}
             cells == {<<p, a \div step>> : p \in hit}
             plane == [c \in cells \union DOMAIN v.plane |->
                         IF c \notin cells THEN v.plane[c]
                         ELSE IF Unaltered(v) THEN b ELSE "altered"]
  <1>6. w = [v EXCEPT !.plane = plane]
    BY DEF Store
  <1>7. step = 1
    BY <1>4
  <1>8. hit = {2}
    <2>1. v.sequ[2] = 4 /\ Bit(v.misc, 1) = 1
      BY <1>1 DEF Linear
    <2> HIDE DEF step
    <2>2. \A p \in 0 .. 3 : p % step = a % step
      BY <1>7
    <2> QED
      BY <1>2, <1>3, <2>1, <2>2
  <1> HIDE DEF step, hit
  <1>9. cells = {<<2, a>>}
    BY <1>7, <1>8
  <1> HIDE DEF cells
  <1>10. plane = [c \in {<<2, a>>} \union DOMAIN v.plane |->
                    IF c = <<2, a>> THEN b ELSE v.plane[c]]
    BY <1>5, <1>9
  <1> HIDE DEF plane
  <1>11. Linear(w) /\ w.plane = plane
    BY <1>6 DEF Linear, Whole
  <1> QED
    BY <1>10, <1>11 DEF Stored

\* The cell of the font's byte k, and the planes once k of its bytes are there.
Cell(k) == (k \div 16) * 32 + (k % 16)
Loaded(k) ==
    [c \in {<<2, Cell(j)>> : j \in 0 .. k - 1} |-> vgafont16(c[2] \div 32, c[2] % 32)]

LEMMA FontStep ==
    ASSUME NEW k \in Nat, NEW plane, plane = Loaded(k), NEW new,
           Stored(plane, Cell(k), vgafont16(k \div 16, k % 16), new)
    PROVE  new = Loaded(k + 1)
  <1> DEFINE a == Cell(k)
             D == {<<2, Cell(j)>> : j \in 0 .. k - 1}
             E == {<<2, Cell(j)>> : j \in 0 .. (k + 1) - 1}
             Glyph(c) == vgafont16(c[2] \div 32, c[2] % 32)
  <1>1. E = {<<2, a>>} \union D
    <2>1. 0 .. (k + 1) - 1 = (0 .. k - 1) \union {k}
      OBVIOUS
    <2> HIDE DEF a
    <2> QED
      BY <2>1 DEF a
  <1>2. a \div 32 = k \div 16 /\ a % 32 = k % 16
    BY DEF Cell
  <1> HIDE DEF a
  <1>3. Glyph(<<2, a>>) = vgafont16(k \div 16, k % 16)
    BY <1>2
  <1>4. plane = [c \in D |-> Glyph(c)] /\ Loaded(k + 1) = [c \in E |-> Glyph(c)]
    BY DEF Loaded
  <1>5. new = [c \in {<<2, a>>} \union D |->
                 IF c = <<2, a>> THEN vgafont16(k \div 16, k % 16) ELSE plane[c]]
    BY <1>4 DEF a, Stored
  <1> HIDE DEF D, E, Glyph
  <1> QED
    BY <1>1, <1>3, <1>4, <1>5

FontPlane ==
    [c \in {2} \X {32 * ch + row : ch \in 0 .. Glyphs - 1, row \in 0 .. 15} |->
        vgafont16(c[2] \div 32, c[2] % 32)]

LEMMA FontWhole ==
    Loaded(16 * Glyphs) = FontPlane
  <1> DEFINE D == {<<2, Cell(j)>> : j \in 0 .. 16 * Glyphs - 1}
             G == {32 * ch + row : ch \in 0 .. Glyphs - 1, row \in 0 .. 15}
             E == {2} \X G
  <1>1. Glyphs \in Nat
    BY VgaAssumption
  <1>2. ASSUME NEW j \in 0 .. 16 * Glyphs - 1
        PROVE  <<2, Cell(j)>> \in E
    <2>1. j \div 16 \in 0 .. Glyphs - 1 /\ j % 16 \in 0 .. 15
      BY <1>1
    <2>2. Cell(j) = 32 * (j \div 16) + (j % 16)
      BY <2>1 DEF Cell
    <2>3. Cell(j) \in G
      BY <2>1, <2>2
    <2> HIDE DEF G
    <2> QED
      BY <2>3
  <1>3. ASSUME NEW ch \in 0 .. Glyphs - 1, NEW row \in 0 .. 15
        PROVE  <<2, 32 * ch + row>> \in D
    <2>1. 16 * ch + row \in 0 .. 16 * Glyphs - 1
      BY <1>1
    <2>2. (16 * ch + row) \div 16 = ch /\ (16 * ch + row) % 16 = row
      BY <1>1
    <2>3. Cell(16 * ch + row) = 32 * ch + row
      <3>1. Cell(16 * ch + row) = ch * 32 + row
        BY <2>2 DEF Cell
      <3>2. ch \in Int /\ row \in Int
        BY <1>1
      <3> QED
        BY <3>1, <3>2
    <2> QED
      BY <2>1, <2>3
  <1>4. D = E
    <2>1. D \subseteq E
      BY <1>2
    <2>2. E \subseteq D
      BY <1>3
    <2> QED
      BY <2>1, <2>2
  <1> HIDE DEF D, E
  <1>5. /\ Loaded(16 * Glyphs) = [c \in D |-> vgafont16(c[2] \div 32, c[2] % 32)]
        /\ FontPlane = [c \in E |-> vgafont16(c[2] \div 32, c[2] % 32)]
    BY DEF Loaded, FontPlane, D, E
  <1> QED
    BY <1>4, <1>5

LEMMA FontLoads ==
    ASSUME NEW v, Linear(v), v.plane = <<>>, NEW w, w = LoadFont(v)
    PROVE  Linear(w) /\ w.plane = FontPlane
  <1>1. 16 * Glyphs \in Nat
    BY VgaAssumption
  <1>2. PICK e : LoadFontPasses(e, v)
    BY <1>1, LoadFontChain
  <1> DEFINE T == {k \in Nat : k <= 16 * Glyphs => Linear(e[k]) /\ e[k].plane = Loaded(k)}
  <1>3. 0 \in T
    <2>1. Loaded(0) = <<>>
      BY DEF Loaded
    <2> QED
      BY <1>2, <2>1 DEF LoadFontPasses
  <1>4. ASSUME NEW k \in Nat, k \in T
        PROVE  k + 1 \in T
    <2>1. SUFFICES ASSUME k + 1 <= 16 * Glyphs
                   PROVE  Linear(e[k + 1]) /\ e[k + 1].plane = Loaded(k + 1)
      OBVIOUS
    <2>2. Linear(e[k]) /\ e[k].plane = Loaded(k)
      BY <1>1, <1>4, <2>1
    <2>3. k \in 0 .. 16 * Glyphs - 1
      BY <1>1, <2>1
    <2>4. e[k + 1] = Store(e[k], Cell(k), vgafont16(k \div 16, k % 16))
      BY <1>2, <2>3 DEF LoadFontPasses, Cell
    <2>5. Cell(k) \in Nat
      BY DEF Cell
    <2> DEFINE glyph == vgafont16(k \div 16, k % 16)
    <2>6. Linear(e[k + 1]) /\ Stored(e[k].plane, Cell(k), glyph, e[k + 1].plane)
      <3> HIDE DEF glyph
      <3> QED
        BY <2>2, <2>4, <2>5, LinearStore DEF glyph
    <2> QED
      BY <2>2, <2>6, FontStep
  <1> HIDE DEF T
  <1>5. 16 * Glyphs \in T
    BY <1>1, <1>3, <1>4, SetInduction
  <1>6. Linear(e[16 * Glyphs]) /\ e[16 * Glyphs].plane = Loaded(16 * Glyphs)
    BY <1>5 DEF T
  <1> QED
    BY <1>2, <1>6, FontWhole DEF LoadFontPasses

LEMMA Initialised ==
    ASSUME NEW v, Whole(v), v.plane = <<>>, NEW w, w = vgahw_init(v)
    PROVE  InMode(w, video_param_table[Entry(3).vparam]) /\ w.plane = FontPlane
  <1> DEFINE entry == vga_modes[find_vga_entry(3)]
             p == video_param_table[entry.vparam]
             c1 == vgahw_sequ_write(v, 0, 1)
             c2 == Outb(c1, VGAREG_WRITE_MISC_OUTPUT, 195)
             c3 == vgahw_sequ_write(c2, 0, 3)
             s1 == vgahw_set_mode(c3, p)
             s2 == vgahw_sequ_write(s1, 4, 6)
             byte == PutBit(p.sequ_regs[2], 5, 1)
             d == vgahw_sequ_write(s2, 1, byte)
             map == PutBit(p.grdc_regs[6], 4, 0)
             g1 == vgahw_grdc_write(d, 5, map)
             g2 == vgahw_grdc_write(g1, 6, 5)
             l == vgahw_sequ_write(g2, 2, 4)
             font == LoadFont(l)
             dac == vgahw_set_dac_regs(font, palettes(entry.dac), 0, PaletteSize)
             t == vgahw_sequ_write(dac, 4, 2)
  <1>1. w = vgahw_set_mode(t, p)
    BY Zenon DEF vgahw_init
  <1>2. p = video_param_table[Entry(3).vparam]
    BY DEF Entry
  <1>3. p.miscreg \in Int /\ TextRow(p)
    BY <1>2, TextEntry, ModeRow, ModeList DEF Entry, Listed
  <1>4. /\ c2 = Outb(c1, VGAREG_WRITE_MISC_OUTPUT, 195) /\ s1 = vgahw_set_mode(c3, p)
        /\ map = PutBit(p.grdc_regs[6], 4, 0) /\ font = LoadFont(l)
    BY Zenon
  <1> HIDE DEF entry, p, map, byte
  <1>5. map = 0
    <2>1. p.grdc_regs[6] = 16
      BY <1>3 DEF TextRow
    <2>2. PutBit(16, 4, 0) = 0
      BY DEF PutBit, Bit, Weight
    <2> QED
      BY <1>4, <2>1, <2>2
  <1>6. SequSet(v, 0, 1, c1)
    BY SequCall
  <1> HIDE DEF c1, c2
  <1>7. Whole(c1) /\ c1.plane = <<>>
    BY <1>6 DEF SequSet
  <1>8. Whole(c2) /\ c2.plane = <<>>
    <2>1. ASSUME NEW b \in Int, NEW y, y = Outb(c1, VGAREG_WRITE_MISC_OUTPUT, b)
          PROVE  Whole(y) /\ y.plane = c1.plane
      BY SMTT(30), <1>7, <2>1, MiscWritten
    <2> QED
      BY <1>4, <1>7, <2>1
  <1>9. SequSet(c2, 0, 3, c3)
    BY <1>8, SequCall
  <1> HIDE DEF c3, s1
  <1>10. Whole(c3) /\ c3.plane = <<>>
    BY <1>8, <1>9 DEF SequSet
  <1>11. InMode(s1, p) /\ s1.plane = <<>>
    BY <1>3, <1>4, <1>10, SetMode
  <1>12. /\ Whole(s1) /\ s1.misc = 103 /\ s1.grdc[1] = 0 /\ s1.grdc[3] = 0
         /\ s1.grdc[8] = 255
    BY <1>3, <1>11 DEF InMode, TextRow
  <1>13. SequSet(s1, 4, 6, s2)
    BY <1>12, SequCall
  <1> HIDE DEF s2
  <1>14. Whole(s2) /\ s2.sequ[4] = 6
    BY <1>12, <1>13 DEF SequSet, Whole
  <1>15. SequSet(s2, 1, byte, d)
    BY <1>14, SequCall
  <1> HIDE DEF d
  <1>16. Whole(d) /\ d.sequ[4] = 6
    BY <1>14, <1>15 DEF SequSet, Whole
  <1>17. GrdcSet(d, 5, map, g1)
    BY <1>16, GrdcCall
  <1> HIDE DEF g1
  <1>18. Whole(g1) /\ g1.sequ = d.sequ
    BY <1>17 DEF GrdcSet
  <1>19. GrdcSet(g1, 6, 5, g2)
    BY <1>18, GrdcCall
  <1> HIDE DEF g2
  <1>20. Whole(g2) /\ g2.sequ = d.sequ
    BY <1>18, <1>19 DEF GrdcSet
  <1>21. SequSet(g2, 2, 4, l)
    BY <1>20, SequCall
  <1> HIDE DEF l, font
  <1>22. Linear(l) /\ l.plane = <<>>
    <2>1. l.misc = 103 /\ l.plane = <<>>
      BY <1>11, <1>12, <1>13, <1>15, <1>17, <1>19, <1>21 DEF SequSet, GrdcSet
    <2>2. Whole(l) /\ l.sequ[2] = 4 /\ l.sequ[4] = 6
      BY <1>16, <1>20, <1>21 DEF SequSet, Whole
    <2>3. d.grdc = s1.grdc
      BY <1>13, <1>15 DEF SequSet
    <2>4. /\ g1.grdc[1] = 0 /\ g1.grdc[3] = 0 /\ g1.grdc[5] = 0 /\ g1.grdc[8] = 255
      BY <1>5, <1>12, <1>16, <1>17, <2>3 DEF GrdcSet, Whole
    <2>5. /\ g2.grdc[1] = 0 /\ g2.grdc[3] = 0 /\ g2.grdc[5] = 0 /\ g2.grdc[6] = 5
          /\ g2.grdc[8] = 255
      BY <1>18, <1>19, <2>4 DEF GrdcSet, Whole
    <2>6. l.grdc = g2.grdc
      BY <1>21 DEF SequSet
    <2> QED
      BY <2>1, <2>2, <2>5, <2>6 DEF Linear
  <1>23. Linear(font) /\ font.plane = FontPlane
    BY <1>4, <1>22, FontLoads
  <1>24. Same(font, dac)
    BY DacSame, VgaAssumption
  <1> HIDE DEF dac
  <1>25. Whole(dac) /\ dac.plane = FontPlane
    BY <1>23, <1>24 DEF Same, Linear
  <1>26. SequSet(dac, 4, 2, t)
    BY <1>25, SequCall
  <1> HIDE DEF t
  <1>27. Whole(t) /\ t.plane = FontPlane
    BY <1>25, <1>26 DEF SequSet
  <1>28. InMode(w, p) /\ w.plane = t.plane
    BY <1>1, <1>3, <1>27, SetMode
  <1> QED
    BY <1>2, <1>27, <1>28

-----------------------------------------------------------------------------
(* The invariant. *)

\* A mode set, and whether its font memory is open; what text mode asks of
\* registers (the adapter's, or saved ones) that belong to it.
Held == [m : Listed, fontOpen : BOOLEAN]
Ready(v, h) == ~h.fontOpen => TextRegisters(v, h.m)
Shown(v, h) == ~h.fontOpen => InPlace(v, h.m)

\* Until vgahw_init there is nothing in display memory; from then on the font
\* is whole, the registers are those of the mode set last, and an adapter in
\* colour answers where that mode's text is.  The saved state is that of the
\* mode it was taken in, with the address get_crtc gives.
VgaInv ==
    /\ Whole(vga)
    /\ \/ mode = <<>> /\ vga.plane = <<>>
       \/ /\ mode \in Held /\ vga.plane = FontPlane
          /\ Ready(vga, mode) /\ Shown(vga, mode)
    /\ \/ info = <<>>
       \/ /\ info.mode \in Held /\ info.state.crtc_addr = 0
          /\ Ready(info.state, info.mode)

\* A call that touches none of this.
Quiet ==
    mode # <<>> /\ Same(vga, vga') /\ UNCHANGED <<info, mode>>

LEMMA SetQuiet ==
    ASSUME NEW f, NEW a, NEW v, Set(f, a, v), Same(vga, v)
    PROVE  Quiet
  BY DEF Set, Call, Quiet

LEMMA GetQuiet ==
    ASSUME NEW f, NEW a, NEW r, Get(f, a, r), Same(vga, r.vga)
    PROVE  Quiet
  BY DEF Get, Call, Quiet

LEMMA AttributeQuiet ==
    ASSUME AttributeCall
    PROVE  Quiet
  <1>1. CASE Set("screen_disable", 0, vgahw_screen_disable(vga))
    BY <1>1, SetQuiet, PaletteSame
  <1>2. CASE Set("screen_enable", 0, vgahw_screen_enable(vga))
    BY <1>2, SetQuiet, PaletteSame
  <1>3. CASE Get("get_overscan_border_color", 0, vgahw_get_overscan_border_color(vga))
    BY <1>3, GetQuiet, PaletteSame
  <1>4. CASE Get("get_all_palette_reg", 0, vgahw_get_all_palette_reg(vga))
    BY <1>4, GetQuiet, AllPaletteSame
  <1>5. CASE Get("read_video_dac_state", 0, vgahw_read_video_dac_state(vga))
    BY <1>5, GetQuiet, ColorPageSame
  <1>6. ASSUME NEW i \in {2, 16},
               Get("get_single_palette_reg", i, vgahw_get_single_palette_reg(vga, i))
        PROVE  Quiet
    BY <1>6, GetQuiet, PaletteSame
  <1>7. ASSUME NEW b \in Values,
               Set("set_border_color", b, vgahw_set_border_color(vga, b))
        PROVE  Quiet
    BY <1>7, SetQuiet, BorderSame
  <1>8. ASSUME NEW b \in Values,
               Set("set_overscan_border_color", b, vgahw_set_overscan_border_color(vga, b))
        PROVE  Quiet
    BY <1>8, SetQuiet, PaletteSame
  <1>9. ASSUME NEW b \in Values, Set("set_palette", b, vgahw_set_palette(vga, b))
        PROVE  Quiet
    BY <1>9, SetQuiet, BorderSame
  <1>10. ASSUME NEW b \in Values,
                Set("set_all_palette_reg", Row(b), vgahw_set_all_palette_reg(vga, Row(b)))
         PROVE  Quiet
    BY <1>10, SetQuiet, AllPaletteSame
  <1>11. ASSUME NEW b \in Values,
                Set("toggle_intensity", b, vgahw_toggle_intensity(vga, b))
         PROVE  Quiet
    BY <1>11, SetQuiet, PaletteSame
  <1>12. ASSUME NEW b \in Values, NEW flag \in {0, 1},
                Set("select_video_dac_color_page", <<flag, b>>,
                    vgahw_select_video_dac_color_page(vga, flag, b))
         PROVE  Quiet
    BY <1>12, SetQuiet, ColorPageSame
  <1>13. ASSUME NEW b \in Values, NEW i \in {2, 16},
                Set("set_single_palette_reg", <<i, b>>,
                    vgahw_set_single_palette_reg(vga, i, b))
         PROVE  Quiet
    BY <1>13, SetQuiet, PaletteSame
  <1> QED
    BY <1>1, <1>2, <1>3, <1>4, <1>5, <1>6, <1>7, <1>8, <1>9, <1>10, <1>11, <1>12, <1>13
       DEF AttributeCall

LEMMA DacQuiet ==
    ASSUME DacCall
    PROVE  Quiet
  <1>1. CASE Get("get_pel_mask", 0, [vga |-> vga, result |-> vgahw_get_pel_mask(vga)])
    BY <1>1, GetQuiet, SameItself
  <1>2. ASSUME NEW start \in {0, DacSize - 2}, NEW b \in Values,
               Set("set_dac_regs", <<Colours(2, b), start>>,
                   vgahw_set_dac_regs(vga, Colours(2, b), start, 2))
        PROVE  Quiet
    BY <1>2, SetQuiet, DacSame
  <1>3. CASE Get("get_dac_regs", <<1, 2>>, vgahw_get_dac_regs(vga, 1, 2))
    BY <1>3, GetQuiet, DacSame
  <1>4. ASSUME NEW b \in Values, Set("set_pel_mask", b, vgahw_set_pel_mask(vga, b))
        PROVE  Quiet
    BY <1>4, SetQuiet, DacCallsSame, VgaAssumption
  <1>5. CASE LET s == vgahw_save_dac_state(vga)
             IN  /\ Call("save_dac_state", 0, s.vga, 0)
                 /\ dinfo' = s.info /\ UNCHANGED <<info, mode>>
    BY <1>5, DacCallsSame, VgaAssumption DEF Call, Quiet
  <1>6. CASE Set("restore_dac_state", 0, vgahw_restore_dac_state(vga, dinfo))
    BY <1>6, SetQuiet, DacCallsSame, VgaAssumption
  <1> QED
    BY <1>1, <1>2, <1>3, <1>4, <1>5, <1>6 DEF DacCall

LEMMA CrtcQuiet ==
    ASSUME CrtcCall
    PROVE  Quiet
  <1>1. CASE Get("get_vde", 0, vgahw_get_vde(vga))
    BY <1>1, GetQuiet, CrtcCallsSame
  <1>2. CASE Set("set_cursor_shape", <<13, 14>>, vgahw_set_cursor_shape(vga, 13, 14))
    BY <1>2, SetQuiet, CrtcCallsSame
  <1>3. CASE Set("set_active_page", 4000, vgahw_set_active_page(vga, 4000))
    BY <1>3, SetQuiet, CrtcCallsSame
  <1>4. CASE Set("set_cursor_pos", 1999, vgahw_set_cursor_pos(vga, 1999))
    BY <1>4, SetQuiet, CrtcCallsSame
  <1>5. CASE Set("set_scan_lines", 8, vgahw_set_scan_lines(vga, 8))
    BY <1>5, SetQuiet, CrtcCallsSame
  <1> QED
    BY <1>1, <1>2, <1>3, <1>4, <1>5 DEF CrtcCall

LEMMA QuietStep ==
    ASSUME VgaInv, Quiet
    PROVE  VgaInv'
  <1>1. Whole(vga') /\ vga'.misc = vga.misc /\ vga'.plane = vga.plane /\ TextAs(vga, vga')
    BY DEF VgaInv, Quiet, Same, TextAs
  <1>2. (Ready(vga, mode) => Ready(vga', mode)) /\ (Shown(vga, mode) => Shown(vga', mode))
    BY <1>1, TextKept, PlaceKept DEF Ready, Shown
  <1>3. mode \in Held /\ vga.plane = FontPlane /\ Ready(vga, mode) /\ Shown(vga, mode)
    BY DEF VgaInv, Quiet
  <1>4. /\ mode' \in Held /\ vga'.plane = FontPlane
        /\ Ready(vga', mode') /\ Shown(vga', mode')
    BY <1>1, <1>2, <1>3 DEF Quiet
  <1> QED
    BY <1>1, <1>4 DEF VgaInv, Quiet

LEMMA Starts ==
    ASSUME Init
    PROVE  VgaInv
  <1>1. PICK flip \in BOOLEAN, misc \in {0, 103}, b \in {0, 255} :
           vga = Adapter(flip, misc, b)
    BY DEF Init
  <1>2. DOMAIN Bytes(5, b) = 0 .. 4 /\ DOMAIN Bytes(9, b) = 0 .. 8
    BY DEF Bytes
  <1>3. Whole(vga) /\ vga.plane = <<>>
    BY <1>1, <1>2 DEF Adapter, Whole
  <1> QED
    BY <1>3 DEF Init, VgaInv

\* The adapter of a mode that a call just set.
LEMMA ModeSet ==
    ASSUME NEW m \in Listed, InMode(vga', video_param_table[Entry(m).vparam]),
           vga'.plane = FontPlane, mode' = [m |-> m, fontOpen |-> FALSE],
           VgaInv, info' = info
    PROVE  VgaInv'
  <1>1. mode' \in Held /\ mode'.m = m
    BY DEF Held
  <1>2. TextRegisters(vga', m) /\ InPlace(vga', m)
    BY TextFromRow
  <1>3. Whole(vga') /\ Ready(vga', mode') /\ Shown(vga', mode')
    BY <1>1, <1>2 DEF InMode, Ready, Shown
  <1> QED
    BY <1>1, <1>2, <1>3 DEF VgaInv

LEMMA MemoryStep ==
    ASSUME VgaInv, MemoryCall
    PROVE  VgaInv'
  <1>1. /\ Whole(vga) /\ mode \in Held /\ vga.plane = FontPlane
        /\ Ready(vga, mode) /\ Shown(vga, mode)
    BY DEF VgaInv, MemoryCall, Set, Call
  <1>2. /\ mode.m \in Listed
        /\ \A o \in BOOLEAN : SetFontOpen(o) \in Held /\ SetFontOpen(o).m = mode.m
                              /\ SetFontOpen(o).fontOpen = o
    BY <1>1 DEF Held, SetFontOpen
  \* The calls that change registers text mode is not about.
  <1>3. ASSUME NEW v, Whole(v), v.misc % 2 = vga.misc % 2, v.plane = vga.plane,
               TextAs(vga, v), vga' = v, UNCHANGED <<info, mode>>
        PROVE  VgaInv'
    <2>1. Ready(vga', mode) /\ Shown(vga', mode)
      BY <1>1, <1>3, TextKept, PlaceKept DEF Ready, Shown
    <2> QED
      BY <1>1, <1>3, <2>1 DEF VgaInv
  <1>4. ASSUME NEW b \in Values,
               Set("set_text_block_specifier", b, vgahw_set_text_block_specifier(vga, b))
        PROVE  VgaInv'
    <2> DEFINE v == vgahw_set_text_block_specifier(vga, b)
    <2>1. Whole(v) /\ v.misc = vga.misc /\ v.plane = vga.plane /\ TextAs(vga, v)
      BY <1>1, BlockSpecifier
    <2>2. vga' = v /\ UNCHANGED <<info, mode>>
      BY <1>4 DEF Set, Call
    <2> HIDE DEF v
    <2> QED
      BY <1>3, <2>1, <2>2
  <1>5. ASSUME Call("get_font_access", 0, get_font_access(vga), 0),
               mode' = SetFontOpen(TRUE), UNCHANGED <<info, dinfo>>
        PROVE  VgaInv'
    <2>1. Whole(vga') /\ vga'.misc = vga.misc /\ vga'.plane = vga.plane
      BY <1>1, <1>5, FontOpened DEF Call
    <2>2. mode' \in Held /\ mode'.m = mode.m /\ mode'.fontOpen
      BY <1>2, <1>5
    <2> QED
      BY <1>1, <1>5, <2>1, <2>2 DEF VgaInv, Ready, Shown
  <1>6. ASSUME Call("release_font_access", 0, release_font_access(vga), 0),
               mode' = SetFontOpen(FALSE), UNCHANGED <<info, dinfo>>
        PROVE  VgaInv'
    <2>1. /\ Whole(vga') /\ vga'.misc = vga.misc /\ vga'.plane = vga.plane
          /\ vga'.sequ[2] = 3 /\ vga'.sequ[4] = 3 /\ vga'.grdc[5] = 16
          /\ vga'.grdc[6] = 14 \/ (vga'.misc % 2 # 1 /\ vga'.grdc[6] = 10)
      BY <1>1, <1>6, FontReleased DEF Call
    <2>2. mode' \in Held /\ mode'.m = mode.m
      BY <1>2, <1>6
    <2>3. TextRegisters(vga', mode.m) /\ InPlace(vga', mode.m)
      BY <1>2, <2>1, TextReleased
    <2>4. Ready(vga', mode') /\ Shown(vga', mode')
      BY <2>2, <2>3 DEF Ready, Shown
    <2> QED
      BY <1>1, <1>6, <2>1, <2>2, <2>4 DEF VgaInv
  <1>7. ASSUME NEW disable \in {0, 1},
               Set("enable_video_addressing", disable,
                   vgahw_enable_video_addressing(vga, disable))
        PROVE  VgaInv'
    <2> DEFINE v == vgahw_enable_video_addressing(vga, disable)
    <2>1. Whole(v) /\ v.misc % 2 = vga.misc % 2 /\ v.plane = vga.plane /\ TextAs(vga, v)
      BY <1>1, Addressing
    <2>2. vga' = v /\ UNCHANGED <<info, mode>>
      BY <1>7 DEF Set, Call
    <2> HIDE DEF v
    <2> QED
      BY <1>3, <2>1, <2>2
  <1> QED
    BY <1>4, <1>5, <1>6, <1>7 DEF MemoryCall

LEMMA StateStep ==
    ASSUME VgaInv, StateCall
    PROVE  VgaInv'
  <1>1. /\ Whole(vga) /\ mode \in Held /\ vga.plane = FontPlane
        /\ Ready(vga, mode) /\ Shown(vga, mode)
    BY DEF VgaInv, StateCall, Call
  <1>2. CASE LET s == vgahw_save_state(vga)
             IN  /\ Call("save_state", 0, s.vga, 0)
                 /\ info' = [state |-> s.info, mode |-> mode] /\ UNCHANGED <<dinfo, mode>>
    <2> DEFINE s == vgahw_save_state(vga)
    <2>1. /\ vga' = s.vga /\ info' = [state |-> s.info, mode |-> mode] /\ mode' = mode
          /\ mode # <<>>
      BY <1>2 DEF Call
    <2>2. /\ Same(vga, s.vga) /\ s.info.crtc_addr = 0
          /\ s.info.sequ = [i \in 0 .. 4 |-> vga.sequ[i]]
          /\ s.info.grdc = [i \in 0 .. 8 |-> vga.grdc[i]]
      BY <1>1, SavedState
    <2> HIDE DEF s
    <2>3. TextAs(vga, s.info) /\ TextAs(vga, s.vga)
      BY <1>1, <2>2 DEF TextAs, Same
    <2>4. Whole(s.vga) /\ s.vga.misc = vga.misc /\ s.vga.plane = vga.plane
      BY <1>1, <2>2 DEF Same
    <2>5. Ready(s.info, mode) /\ Ready(s.vga, mode) /\ Shown(s.vga, mode)
      BY <1>1, <2>3, <2>4, TextKept, PlaceKept DEF Ready, Shown
    <2>6. info'.state = s.info /\ info'.mode = mode
      BY <2>1
    <2> QED
      BY <1>1, <2>1, <2>2, <2>4, <2>5, <2>6 DEF VgaInv
  <1>3. ASSUME info # <<>>,
               Call("restore_state", 0, vgahw_restore_state(vga, info.state), 0),
               mode' = info.mode, UNCHANGED <<info, dinfo>>
        PROVE  VgaInv'
    <2>1. /\ info.mode \in Held /\ info.state.crtc_addr = 0
          /\ Ready(info.state, info.mode)
      BY <1>3 DEF VgaInv
    <2>2. /\ Whole(vga') /\ vga'.misc % 2 = 0 /\ vga'.plane = vga.plane
          /\ TextAs(info.state, vga')
      BY <1>1, <1>3, <2>1, Restored DEF Call
    <2>3. Ready(vga', info.mode) /\ Shown(vga', info.mode)
      BY <2>1, <2>2, TextKept DEF Ready, Shown, InPlace
    <2> QED
      BY <1>1, <1>3, <2>1, <2>2, <2>3 DEF VgaInv
  <1>4. ASSUME NEW m \in Modes,
               Call("set_mode", m, vgahw_set_mode(vga,
                        video_param_table[vga_modes[find_vga_entry(m)].vparam]), 0),
               mode' = [m |-> m, fontOpen |-> FALSE], UNCHANGED <<info, dinfo>>
        PROVE  VgaInv'
    <2> DEFINE p == video_param_table[Entry(m).vparam]
    <2>1. m \in Listed /\ vga' = vgahw_set_mode(vga, p)
      BY <1>4 DEF Call, Listed, Entry
    <2>2. p.miscreg \in Int
      BY <2>1, ModeRow
    <2> HIDE DEF p
    <2>3. InMode(vga', p) /\ vga'.plane = vga.plane
      BY <1>1, <2>1, <2>2, SetMode
    <2> QED
      BY <1>1, <1>4, <2>1, <2>3, ModeSet DEF p
  <1> QED
    BY <1>2, <1>3, <1>4 DEF StateCall

\* In every sequence of calls after vgahw_init the registers that decide where
\* text is are those of the mode set last, in the adapter and in a saved state,
\* although a restored state leaves the adapter in monochrome.
THEOREM VgaInvHolds == Spec => []VgaInv
  <1>1. Init => VgaInv
    BY Starts
  <1>2. VgaInv /\ [Next]_vars => VgaInv'
    <2>1. SUFFICES ASSUME VgaInv, [Next]_vars PROVE VgaInv'
      OBVIOUS
    <2>2. CASE vgahw_init_call
      <3>1. Whole(vga) /\ vga.plane = <<>> /\ vga' = vgahw_init(vga) /\ info' = info
            /\ mode' = [m |-> 3, fontOpen |-> FALSE]
        BY <2>1, <2>2 DEF VgaInv, vgahw_init_call, Held
      <3>2. InMode(vga', video_param_table[Entry(3).vparam]) /\ vga'.plane = FontPlane
        BY <3>1, Initialised
      <3> QED
        BY <2>1, <3>1, <3>2, ModeSet DEF Listed
    <2>3. CASE AttributeCall
      BY <2>1, <2>3, AttributeQuiet, QuietStep
    <2>4. CASE DacCall
      BY <2>1, <2>4, DacQuiet, QuietStep
    <2>5. CASE MemoryCall
      BY <2>1, <2>5, MemoryStep
    <2>6. CASE CrtcCall
      BY <2>1, <2>6, CrtcQuiet, QuietStep
    <2>7. CASE StateCall
      BY <2>1, <2>7, StateStep
    <2>8. CASE UNCHANGED vars
      BY <2>1, <2>8 DEF vars, VgaInv
    <2> QED
      BY <2>1, <2>2, <2>3, <2>4, <2>5, <2>6, <2>7, <2>8 DEF Next
  <1> QED
    BY <1>1, <1>2, PTL DEF Spec

\* After vgahw_init, whatever the calls that follow: the font is in plane 2
\* byte for byte, and unless the font memory is open a colour text mode shows
\* characters and colours, never the font, where the list of modes says or,
\* after a restored state, at 0xb0000 (vgahw_init, vgahw_set_mode,
\* release_font_access and vgahw_restore_state of src/vgaio.c).
THEOREM TextModeReadyHolds == Spec => []TextModeReady
  <1>1. VgaInv => TextModeReady
    <2>1. FontLoaded <=> vga.plane = FontPlane
      BY DEF FontLoaded, FontPlane
    <2>2. Whole(vga) => (Colour(vga) <=> vga.misc % 2 = 1)
      <3>1. ASSUME NEW x \in Int PROVE Bit(x, 0) = x % 2
        BY Bits
      <3> QED
        BY <3>1 DEF Whole, Colour
    <2>3. Whole(vga) /\ Ready(vga, mode) /\ Shown(vga, mode) => TextReachable
      BY <2>2 DEF TextReachable, Ready, Shown, TextRegisters, InPlace, Entry
    <2> QED
      BY <2>1, <2>3 DEF VgaInv, TextModeReady
  <1> QED
    BY <1>1, VgaInvHolds, PTL

==============================================================================
