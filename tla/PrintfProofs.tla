----------------------------- MODULE PrintfProofs -----------------------------
(***************************************************************************)
(* Proofs about printf (src/printf.c) and what is written to the serial    *)
(* port (src/uart.c, src/crb.c), for every size of int and long, every     *)
(* format, every buffer and however slowly the UART takes the characters.  *)
(*                                                                         *)
(* The formats and the numerals are recursive functions: the first lemmas  *)
(* show that such functions exist and are what their equations say.  From  *)
(* them follows what one item gives (OutputsAre), and from that the        *)
(* inductive invariant SerialInv of the steps.                             *)
(***************************************************************************)
EXTENDS Serial, SequenceTheorems, FiniteSetTheorems, WellFoundedInduction, TLAPS

-----------------------------------------------------------------------------
(* Induction, and functions defined by recursion. *)

\* Induction over the naturals, about a set.
LEMMA SetInduction ==
    ASSUME NEW T, 0 \in T, \A n \in Nat : n \in T => n + 1 \in T
    PROVE  \A n \in Nat : n \in T
  <1> DEFINE R == OpToRel(<, Nat)
             U == Nat \ T
  <1>1. IsWellFoundedOn(R, Nat)
    BY NatLessThanWellFounded
  <1>2. \A x, y \in Nat : x < y => <<x, y>> \in R
    BY DEF OpToRel
  <1>3. ASSUME U # {}
        PROVE  FALSE
    <2>1. U \subseteq Nat
      OBVIOUS
    <2> HIDE DEF R, U
    <2>2. PICK x \in U : \A y \in U : <<y, x>> \notin R
      BY <1>1, <1>3, <2>1, WFMin
    <2> USE DEF U
    <2>3. x \in Nat /\ x # 0 /\ x - 1 \in Nat
      BY <2>2
    <2>4. <<x - 1, x>> \in R
      BY <1>2, <2>3
    <2>5. x - 1 \in T
      BY <2>2, <2>3, <2>4
    <2>6. (x - 1) + 1 \in T
      BY <2>3, <2>5
    <2> QED
      BY <2>3, <2>6
  <1> QED
    BY <1>3

\* Course of values.
LEMMA SetGeneralInduction ==
    ASSUME NEW T, \A n \in Nat : (\A m \in 0 .. (n - 1) : m \in T) => n \in T
    PROVE  \A n \in Nat : n \in T
  <1> DEFINE W == {n \in Nat : \A m \in 0 .. n : m \in T}
  <1>1. 0 \in W
    <2>1. 0 \in T
      <3>1. \A m \in 0 .. (0 - 1) : m \in T
        OBVIOUS
      <3> QED
        BY <3>1
    <2> QED
      BY <2>1
  <1>2. ASSUME NEW n \in Nat, n \in W
        PROVE  n + 1 \in W
    <2>1. \A m \in 0 .. ((n + 1) - 1) : m \in T
      BY <1>2
    <2>2. n + 1 \in T
      BY <2>1
    <2>3. \A m \in 0 .. (n + 1) : m \in 0 .. n \/ m = n + 1
      OBVIOUS
    <2> QED
      BY <1>2, <2>2, <2>3
  <1> HIDE DEF W
  <1>3. \A n \in Nat : n \in W
    BY <1>1, <1>2, SetInduction
  <1> QED
    BY <1>3 DEF W

\* A function defined by recursion from the value before.
Ascends(u, a, n, step) ==
    u[0] = a /\ \A i \in 1 .. n : u[i] = step[<<u[i - 1], i>>]

\* One that ascends from 0 exists.
LEMMA RecursionExists ==
    ASSUME NEW D, NEW a \in D, NEW n \in Nat, NEW step \in [D \X (1 .. n) -> D]
    PROVE  \E u \in [0 .. n -> D] : Ascends(u, a, n, step)
  <1> DEFINE Ok(m, u) == /\ u \in [0 .. n -> D] /\ u[0] = a
                         /\ \A i \in 1 .. n : i <= m => u[i] = step[<<u[i - 1], i>>]
             T == {m \in Nat : \E u \in [0 .. n -> D] : Ok(m, u)}
  <1>1. 0 \in T
    <2> DEFINE u == [i \in 0 .. n |-> a]
    <2>1. Ok(0, u) /\ u \in [0 .. n -> D]
      OBVIOUS
    <2> QED
      BY <2>1
  <1>2. ASSUME NEW m \in Nat, m \in T
        PROVE  m + 1 \in T
    <2>1. PICK u \in [0 .. n -> D] : Ok(m, u)
      BY <1>2
    <2>2. CASE m + 1 > n
      <3>1. Ok(m + 1, u)
        BY <2>1, <2>2
      <3> QED
        BY <3>1
    <2>3. CASE m + 1 <= n
      <3> DEFINE v == [u EXCEPT ![m + 1] = step[<<u[m], m + 1>>]]
      <3>1. m + 1 \in 1 .. n /\ m \in 0 .. n /\ u[m] \in D
        BY <2>3
      <3>2. step[<<u[m], m + 1>>] \in D
        BY <3>1
      <3>3. v \in [0 .. n -> D]
        BY <3>2
      <3>4. v[0] = a
        BY <2>1
      <3>5. v[m + 1] = step[<<u[m], m + 1>>] /\ \A i \in 0 .. n : i # m + 1 => v[i] = u[i]
        BY <3>1
      <3> HIDE DEF v
      <3>6. ASSUME NEW i \in 1 .. n, i <= m + 1
            PROVE  v[i] = step[<<v[i - 1], i>>]
        <4>1. CASE i <= m
          <5>1. i - 1 \in 0 .. n /\ i \in 0 .. n /\ i - 1 # m + 1 /\ i # m + 1
            BY <4>1
          <5>2. v[i] = u[i] /\ v[i - 1] = u[i - 1]
            BY <3>5, <5>1
          <5> QED
            BY <2>1, <4>1, <5>2
        <4>2. CASE i = m + 1
          <5>1. i - 1 = m /\ v[m] = u[m]
            BY <3>1, <3>5, <4>2
          <5> QED
            BY <3>5, <4>2, <5>1
        <4> QED
          BY <3>6, <4>1, <4>2
      <3>7. Ok(m + 1, v)
        BY <3>3, <3>4, <3>6
      <3> QED
        BY <3>3, <3>7
    <2> QED
      BY <2>2, <2>3
  <1> HIDE DEF T
  <1>3. n \in T
    BY <1>1, <1>2, SetInduction
  <1> QED
    BY <1>3 DEF T, Ascends

\* A function defined by recursion from the value at a smaller argument.
Descends(u, base, next, Stop, step) ==
    \A n \in Nat :
        u[n] = IF n \in Stop THEN base[n] ELSE step[<<u[next[n]], n>>]

\* One that goes down to a smaller number, and stops somewhere, exists.
LEMMA DescentExists ==
    ASSUME NEW D, NEW base \in [Nat -> D], NEW next \in [Nat -> Nat],
           NEW Stop, \A n \in Nat : n \in Stop \/ next[n] < n,
           NEW step \in [D \X Nat -> D]
    PROVE  \E u \in [Nat -> D] : Descends(u, base, next, Stop, step)
  <1> DEFINE Eq(u, n) ==
               u[n] = IF n \in Stop THEN base[n] ELSE step[<<u[next[n]], n>>]
             Ok(m, u) == \A n \in 0 .. m : Eq(u, n)
  \* Right up to any m.
  <1>1. \A m \in Nat : \E u \in [Nat -> D] : Ok(m, u)
    <2> DEFINE T == {m \in Nat : \E u \in [Nat -> D] : Ok(m, u)}
    <2>1. ASSUME NEW u \in [Nat -> D], NEW k \in Nat, NEW lower \in Nat,
                 Ok(lower, u), k = lower + 1
          PROVE  \E v \in [Nat -> D] : Ok(k, v)
      <3> DEFINE x == IF k \in Stop THEN base[k] ELSE step[<<u[next[k]], k>>]
                 v == [u EXCEPT ![k] = x]
      <3>1. x \in D
        BY <2>1
      <3>2. v \in [Nat -> D] /\ v[k] = x /\ \A n \in Nat : n # k => v[n] = u[n]
        BY <3>1
      <3>3. x = IF k \in Stop THEN base[k] ELSE step[<<u[next[k]], k>>]
        OBVIOUS
      <3> HIDE DEF x, v
      <3>4. Eq(v, k)
        <4>1. CASE k \in Stop
          BY <3>2, <3>3, <4>1
        <4>2. CASE k \notin Stop
          <5>1. next[k] \in Nat /\ next[k] # k
            BY <4>2
          <5>2. v[next[k]] = u[next[k]]
            BY <3>2, <5>1
          <5> QED
            BY <3>2, <3>3, <4>2, <5>2
        <4> QED
          BY <4>1, <4>2
      <3>5. ASSUME NEW n \in 0 .. k
            PROVE  Eq(v, n)
        <4>1. CASE n = k
          BY <3>4, <4>1
        <4>2. CASE n # k
          <5>1. n \in 0 .. lower /\ n \in Nat /\ v[n] = u[n]
            BY <2>1, <3>2, <3>5, <4>2
          <5>2. CASE n \in Stop
            BY <2>1, <5>1, <5>2
          <5>3. CASE n \notin Stop
            <6>1. next[n] \in Nat /\ next[n] # k
              BY <2>1, <3>5, <5>1, <5>3
            <6>2. v[next[n]] = u[next[n]]
              BY <3>2, <6>1
            <6>3. u[n] = step[<<u[next[n]], n>>]
              BY <2>1, <5>1, <5>3
            <6> QED
              BY <5>1, <5>3, <6>2, <6>3
          <5> QED
            BY <5>2, <5>3
        <4> QED
          BY <4>1, <4>2
      <3> QED
        BY <3>2, <3>5
    <2>2. 0 \in T
      <3> PICK y : y = base[0]
        OBVIOUS
      <3> DEFINE u == [n \in Nat |-> IF n = 0 /\ 0 \notin Stop THEN y ELSE base[n]]
      <3>1. 0 \in Stop
        OBVIOUS
      <3>2. u \in [Nat -> D] /\ u[0] = base[0]
        BY <3>1
      <3>3. Ok(0, u)
        <4>1. \A n \in 0 .. 0 : n = 0
          OBVIOUS
        <4> HIDE DEF u
        <4> QED
          BY <3>1, <3>2, <4>1
      <3> HIDE DEF u
      <3> QED
        BY <3>2, <3>3
    <2>3. ASSUME NEW m \in Nat, m \in T
          PROVE  m + 1 \in T
      <3>1. PICK u \in [Nat -> D] : Ok(m, u)
        BY <2>3
      <3> HIDE DEF Ok
      <3> DEFINE k == m + 1
      <3>2. k \in Nat /\ k = m + 1
        OBVIOUS
      <3> HIDE DEF k
      <3>3. \E v \in [Nat -> D] : Ok(k, v)
        BY <2>1, <3>1, <3>2
      <3> QED
        BY <3>2, <3>3
    <2> HIDE DEF T
    <2>4. \A m \in Nat : m \in T
      BY <2>2, <2>3, SetInduction
    <2> QED
      BY <2>4 DEF T
  \* Two such functions agree where both are right.
  <1>2. ASSUME NEW u \in [Nat -> D], NEW v \in [Nat -> D], NEW k \in Nat,
               Ok(k, u), Ok(k, v)
        PROVE  \A n \in 0 .. k : u[n] = v[n]
    <2> DEFINE T == {n \in Nat : n <= k => u[n] = v[n]}
    <2>1. ASSUME NEW n \in Nat, \A m \in 0 .. (n - 1) : m \in T
          PROVE  n \in T
      <3>1. SUFFICES ASSUME n <= k PROVE u[n] = v[n]
        OBVIOUS
      <3>2. Eq(u, n) /\ Eq(v, n)
        BY <1>2, <3>1
      <3>3. CASE n \in Stop
        BY <3>2, <3>3
      <3>4. CASE n \notin Stop
        <4>1. next[n] \in 0 .. (n - 1) /\ next[n] <= k
          BY <3>1, <3>4
        <4>2. u[next[n]] = v[next[n]]
          BY <2>1, <4>1
        <4> QED
          BY <3>2, <3>4, <4>2
      <3> QED
        BY <3>3, <3>4
    <2> HIDE DEF T
    <2>2. \A n \in Nat : n \in T
      BY <2>1, SetGeneralInduction
    <2> QED
      BY <2>2 DEF T
  \* The diagonal is right everywhere.
  <1> HIDE DEF Ok
  <1> DEFINE w == [m \in Nat |-> CHOOSE u \in [Nat -> D] : Ok(m, u)]
             d == [n \in Nat |-> w[n][n]]
  <1>3. \A m \in Nat : w[m] \in [Nat -> D] /\ Ok(m, w[m])
    BY <1>1
  <1> HIDE DEF w
  <1>4. d \in [Nat -> D] /\ \A n \in Nat : d[n] = w[n][n]
    BY <1>3
  <1> HIDE DEF d
  <1>5. ASSUME NEW n \in Nat
        PROVE  Eq(d, n)
    <2>1. Eq(w[n], n)
      BY <1>3 DEF Ok
    <2>2. CASE n \in Stop
      BY <1>4, <2>1, <2>2
    <2>3. CASE n \notin Stop
      <3> DEFINE k == next[n]
      <3>1. k \in Nat /\ k < n
        BY <2>3
      <3>2. Ok(k, w[n])
        BY <1>3, <3>1 DEF Ok
      <3>3. w[n][k] = w[k][k]
        <4>1. k \in 0 .. k /\ Ok(k, w[k]) /\ w[n] \in [Nat -> D] /\ w[k] \in [Nat -> D]
          BY <1>3, <3>1
        <4> HIDE DEF k
        <4> QED
          BY <1>2, <3>1, <3>2, <4>1
      <3>4. d[k] = w[n][k] /\ d[n] = w[n][n]
        BY <1>4, <3>1, <3>3
      <3> QED
        BY <2>1, <2>3, <3>4
    <2> QED
      BY <2>2, <2>3
  <1> QED
    BY <1>4, <1>5 DEF Descends

-----------------------------------------------------------------------------
(* Division by 10. *)

\* A quotient is the only number that leaves a remainder below the divisor.
LEMMA QuotientUnique ==
    ASSUME NEW n \in Nat, NEW d \in Nat \ {0}, NEW q \in Nat, NEW rem \in Nat,
           n = d * q + rem, rem < d
    PROVE  n \div d = q
  <1> DEFINE k == n \div d
             m == n % d
  <1>1. k \in Int /\ m \in 0 .. (d - 1) /\ n = d * k + m
    OBVIOUS
  <1> HIDE DEF k, m
  <1>2. d * (q - k) = m - rem
    BY <1>1
  <1>3. CASE q >= k + 1
    <2>1. d * (q - k) >= d
      BY <1>1, <1>3
    <2> QED
      BY <1>1, <1>2, <2>1
  <1>4. CASE q <= k - 1
    <2>1. d * (k - q) >= d
      BY <1>1, <1>4
    <2>2. d * (k - q) = rem - m
      BY <1>1
    <2> QED
      BY <1>1, <2>1, <2>2
  <1>5. k = q
    BY <1>1, <1>3, <1>4
  <1> QED
    BY <1>5 DEF k

\* print_decimal divides by ten with one multiplication and a shift, and is
\* right for every unsigned long (src/printf.c:61-64).
THEOREM Div10IsExact == \A val \in 0 .. (LongSize - 1) : Div10(val) = val \div 10
  <1> SUFFICES ASSUME NEW val \in 0 .. (LongSize - 1)
               PROVE  Div10(val) = val \div 10
    OBVIOUS
  <1> DEFINE q == val \div 10
             rem == val % 10
             M == Multiplier
             L == LongSize
             e == 2 * q + rem * M
  <1>1. L \in Nat /\ L > 4 /\ M \in Nat /\ 10 * M = 8 * L + 2
    BY PrintfAssumption
  <1>2. q \in Nat /\ rem \in 0 .. 9 /\ val = 10 * q + rem /\ val \in Nat /\ val < L
    BY <1>1
  <1>3. Div10(val) = ((val * M) \div L) \div 8
    BY DEF Div10, umulh
  <1> HIDE DEF q, rem, M, L
  <1>4. val * M = (8 * L) * q + e
    <2>1. val * M = (10 * M) * q + rem * M
      BY <1>1, <1>2
    <2>2. (10 * M) * q = (8 * L) * q + 2 * q
      BY <1>1, <1>2
    <2> DEFINE product == val * M
               tens == (10 * M) * q
               eights == (8 * L) * q
               rest == rem * M
    <2>3. product = tens + rest /\ tens = eights + 2 * q
      BY <2>1, <2>2
    <2>4. tens \in Int /\ eights \in Int /\ rest \in Int
      BY <1>1, <1>2
    <2> HIDE DEF product, tens, eights, rest
    <2>5. product = eights + (2 * q + rest)
      BY <1>2, <2>3, <2>4
    <2> QED
      BY <2>5 DEF product, eights, rest
  <1>5. e \in Nat /\ e < 8 * L
    <2>1. rem * M <= 9 * M /\ rem * M \in Nat
      BY <1>1, <1>2
    <2>2. 10 * q < L
      BY <1>1, <1>2
    <2> DEFINE rM == rem * M
    <2> HIDE DEF rM
    <2>3. e = 2 * q + rM
      BY DEF rM
    <2> HIDE DEF e
    <2> QED
      BY <1>1, <1>2, <2>1, <2>2, <2>3 DEF rM
  <1> HIDE DEF e
  <1> DEFINE h == e \div L
             low == e % L
  <1>6. h \in 0 .. 7 /\ low \in 0 .. (L - 1) /\ e = L * h + low
    <2>1. h \in Int /\ low \in 0 .. (L - 1) /\ e = L * h + low
      BY <1>1, <1>5
    <2> HIDE DEF h, low
    <2>2. CASE h >= 8
      <3>1. L * h >= 8 * L
        BY <1>1, <2>1, <2>2
      <3> QED
        BY <1>1, <1>5, <2>1, <3>1
    <2>3. CASE h <= -1
      <3>1. L * h <= -L
        BY <1>1, <2>1, <2>3
      <3> QED
        BY <1>1, <1>5, <2>1, <3>1
    <2> QED
      BY <2>1, <2>2, <2>3
  <1> HIDE DEF h, low
  <1>7. (val * M) \div L = 8 * q + h
    <2>1. val * M = L * (8 * q + h) + low
      BY <1>1, <1>2, <1>4, <1>6
    <2>2. val * M \in Nat
      BY <1>1, <1>2
    <2>3. L \in Nat \ {0} /\ 8 * q + h \in Nat /\ low \in Nat /\ low < L
      BY <1>1, <1>2, <1>6
    <2> DEFINE product == val * M
               whole == 8 * q + h
    <2> HIDE DEF product, whole
    <2>4. product \div L = whole
      BY <2>1, <2>2, <2>3, QuotientUnique DEF product, whole
    <2> QED
      BY <2>4 DEF product, whole
  <1>8. (8 * q + h) \div 8 = q
    BY <1>2, <1>6
  <1> QED
    BY <1>3, <1>7, <1>8 DEF q

-----------------------------------------------------------------------------
(* Powers and numerals. *)

\* Powers are numbers, each the base's multiple of the one before.
LEMMA PowerIs ==
    ASSUME NEW b \in Nat
    PROVE  /\ Power(b, 0) = 1
           /\ \A n \in Nat : Power(b, n) \in Nat /\ Power(b, n + 1) = b * Power(b, n)
  <1> DEFINE P0 == CHOOSE P : P = [k \in Nat |-> IF k = 0 THEN 1 ELSE b * P[k - 1]]
  <1>1. \A n : Power(b, n) = P0[n]
    BY Zenon DEF Power
  <1> DEFINE start == [n \in Nat |-> 1]
             next == [n \in Nat |-> IF n = 0 THEN 0 ELSE n - 1]
             step == [p \in Nat \X Nat |-> b * p[1]]
  <1>2. PICK u \in [Nat -> Nat] : \A n \in Nat :
           u[n] = IF n \in {0} THEN start[n] ELSE step[<<u[next[n]], n>>]
    <2>1. start \in [Nat -> Nat] /\ next \in [Nat -> Nat]
      OBVIOUS
    <2>2. \A n \in Nat : n \in {0} \/ next[n] < n
      OBVIOUS
    <2>3. step \in [Nat \X Nat -> Nat]
      OBVIOUS
    <2> DEFINE D == Nat
               stop == {0}
    <2>4. start \in [Nat -> D] /\ step \in [D \X Nat -> D]
      BY <2>1, <2>3
    <2>5. \A n \in Nat : n \in stop \/ next[n] < n
      BY <2>2
    <2> HIDE DEF start, next, step, D, stop, P0
    <2>6. \E u \in [Nat -> D] : Descends(u, start, next, stop, step)
      BY <2>1, <2>4, <2>5, DescentExists
    <2> QED
      BY <2>6 DEF D, stop, Descends
  <1>3. u = [k \in Nat |-> IF k = 0 THEN 1 ELSE b * u[k - 1]]
    <2>1. ASSUME NEW k \in Nat
          PROVE  u[k] = IF k = 0 THEN 1 ELSE b * u[k - 1]
      <3>1. CASE k = 0
        BY <1>2, <3>1
      <3>2. CASE k # 0
        <4>1. next[k] = k - 1 /\ k - 1 \in Nat /\ k \notin {0}
          BY <3>2
        <4>2. u[k - 1] \in Nat
          BY <4>1
        <4>3. step[<<u[k - 1], k>>] = b * u[k - 1]
          BY <4>2
        <4> HIDE DEF next, step, start
        <4>4. u[k] = step[<<u[next[k]], k>>]
          BY <1>2, <4>1
        <4> QED
          BY <3>2, <4>1, <4>3, <4>4
      <3> QED
        BY <3>1, <3>2
    <2> QED
      BY <2>1
  <1>4. P0 = [k \in Nat |-> IF k = 0 THEN 1 ELSE b * P0[k - 1]]
    BY <1>3, Zenon
  <1> HIDE DEF P0
  <1>5. P0[0] = 1 /\ \A n \in Nat : P0[n + 1] = b * P0[n]
    <2>1. P0[0] = 1
      BY <1>4
    <2>2. ASSUME NEW n \in Nat
          PROVE  P0[n + 1] = b * P0[n]
      <3>1. n + 1 \in Nat /\ n + 1 # 0 /\ (n + 1) - 1 = n
        OBVIOUS
      <3> QED
        BY <1>4, <3>1
    <2> QED
      BY <2>1, <2>2
  <1>6. \A n \in Nat : P0[n] \in Nat
    <2> DEFINE T == {n \in Nat : P0[n] \in Nat}
    <2>1. 0 \in T
      BY <1>5
    <2>2. \A n \in Nat : n \in T => n + 1 \in T
      BY <1>5
    <2> HIDE DEF T
    <2>3. \A n \in Nat : n \in T
      BY <2>1, <2>2, SetInduction
    <2> QED
      BY <2>3 DEF T
  <1> QED
    BY <1>1, <1>5, <1>6

\* The characters that are written.
Glyph == STRING \cup {DigitChar[i] : i \in Int} \cup {Space, "%", "-", "0", "l"}

\* Both divisions leave less, or nothing.
LEMMA Shrinks ==
    /\ \A val \in Nat : Div10(val) \in Nat /\ (Div10(val) = 0 \/ Div10(val) < val)
    /\ \A val \in Nat : val \div 16 \in Nat /\ (val \div 16 = 0 \/ val \div 16 < val)
  <1>1. ASSUME NEW val \in Nat
        PROVE  Div10(val) \in Nat /\ (Div10(val) = 0 \/ Div10(val) < val)
    <2> DEFINE M == Multiplier
               L == LongSize
               p == val * M
               q == p \div L
    <2>1. L \in Nat /\ L > 4 /\ M \in Nat /\ 10 * M = 8 * L + 2 /\ M <= L
      BY PrintfAssumption
    <2>2. p \in Nat /\ p <= val * L
      <3> HIDE DEF L, M
      <3>1. val * M \in Nat /\ val * (L - M) \in Nat
        BY <2>1
      <3>2. val * L = val * M + val * (L - M)
        BY <2>1
      <3>3. val * L \in Nat
        BY <2>1
      <3> QED
        BY <3>1, <3>2, <3>3
    <2>3. q \in Nat /\ L * q <= p
      <3> HIDE DEF L, p
      <3> QED
        BY <2>1, <2>2
    <2>4. Div10(val) = q \div 8
      BY DEF Div10, umulh
    <2> HIDE DEF M, L, p, q
    <2>5. q <= val
      <3>1. SUFFICES ASSUME q >= val + 1 PROVE FALSE
        BY <2>3
      <3>2. L * (q - val) >= L
        BY <2>1, <2>3, <3>1
      <3>3. L * q = L * (q - val) + val * L
        BY <2>1, <2>3
      <3>4. L * q \in Int /\ val * L \in Int /\ L * (q - val) \in Int
        BY <2>1, <2>3
      <3> QED
        BY <2>1, <2>2, <2>3, <3>2, <3>3, <3>4
    <2> QED
      BY <2>3, <2>4, <2>5
  <1>2. \A val \in Nat : val \div 16 \in Nat /\ (val \div 16 = 0 \/ val \div 16 < val)
    OBVIOUS
  <1> QED
    BY <1>1, <1>2

\* Digits are characters, and texts are joined to texts.
LEMMA DigitSeq ==
    /\ \A i \in Int : <<DigitChar[i]>> \in Seq(Glyph)
    /\ \A s, t \in Seq(Glyph) : s \o t \in Seq(Glyph)
  <1>1. \A i \in Int : DigitChar[i] \in Glyph
    BY Zenon DEF Glyph
  <1> DEFINE D == Glyph
  <1>2. \A s, t \in Seq(D) : s \o t \in Seq(D)
    <2> HIDE DEF D
    <2> QED
      BY ConcatProperties
  <1>3. \A x : x \in D => <<x>> \in Seq(D)
    <2> HIDE DEF D
    <2> QED
      OBVIOUS
  <1> QED
    BY <1>1, <1>2, <1>3

\* A text whose last character follows the text of a smaller number.
LEMMA NumeralsExist ==
    ASSUME NEW digit \in [Nat -> Seq(Glyph)], NEW next \in [Nat -> Nat],
           \A n \in Nat : next[n] = 0 \/ next[n] < n
    PROVE  \E u \in [Nat -> Seq(Glyph)] : \A n \in Nat :
             u[n] = IF next[n] = 0 THEN digit[n] ELSE u[next[n]] \o digit[n]
  <1> DEFINE D == Seq(Glyph)
             Stop == {n \in Nat : next[n] = 0}
             step == [p \in D \X Nat |-> p[1] \o digit[p[2]]]
  <1>1. step \in [D \X Nat -> D]
    <2>1. \A s, t \in D : s \o t \in D
      BY DigitSeq
    <2>2. \A n \in Nat : digit[n] \in D
      OBVIOUS
    <2> HIDE DEF D
    <2> QED
      BY <2>1, <2>2
  <1>2. \A n \in Nat : n \in Stop \/ next[n] < n
    OBVIOUS
  <1>3. PICK u \in [Nat -> D] : Descends(u, digit, next, Stop, step)
    <2>1. digit \in [Nat -> D]
      OBVIOUS
    <2> HIDE DEF Stop, step, D
    <2> QED
      BY <1>1, <1>2, <2>1, DescentExists
  <1>4. ASSUME NEW n \in Nat
        PROVE  u[n] = IF next[n] = 0 THEN digit[n] ELSE u[next[n]] \o digit[n]
    <2>1. u[n] = IF n \in Stop THEN digit[n] ELSE step[<<u[next[n]], n>>]
      BY <1>3 DEF Descends
    <2>2. u[next[n]] \in D
      OBVIOUS
    <2>3. step[<<u[next[n]], n>>] = u[next[n]] \o digit[n]
      <3> HIDE DEF D
      <3> QED
        BY <2>2
    <2>4. n \in Stop <=> next[n] = 0
      OBVIOUS
    <2> HIDE DEF step, Stop, D
    <2> QED
      BY <2>1, <2>3, <2>4
  <1> QED
    BY <1>4

\* print_decimal and print_hex are the functions their equations say.
LEMMA PrintDecimalIs ==
    \A val \in Nat :
        print_decimal[val] =
            LET digit == <<DigitChar[val - Div10(val) * 10 + 1]>>
            IN  IF Div10(val) = 0 THEN digit ELSE print_decimal[Div10(val)] \o digit
  <1> DEFINE Body(P, val) ==
               LET d == Div10(val)
                   digit == <<DigitChar[val - d * 10 + 1]>>
               IN  IF d = 0 THEN digit ELSE P[d] \o digit
             F == CHOOSE P : P = [val \in Nat |-> Body(P, val)]
             digit == [n \in Nat |-> <<DigitChar[n - Div10(n) * 10 + 1]>>]
             next == [n \in Nat |-> Div10(n)]
  <1>1. print_decimal = F
    BY Zenon DEF print_decimal
  <1>2. digit \in [Nat -> Seq(Glyph)] /\ next \in [Nat -> Nat]
    <2>1. \A n \in Nat : n - Div10(n) * 10 + 1 \in Int
      BY Shrinks
    <2> QED
      BY <2>1, Shrinks, DigitSeq
  <1>3. \A n \in Nat : next[n] = 0 \/ next[n] < n
    BY Shrinks
  <1>4. PICK u \in [Nat -> Seq(Glyph)] : \A n \in Nat :
           u[n] = IF next[n] = 0 THEN digit[n] ELSE u[next[n]] \o digit[n]
    <2> HIDE DEF digit, next, F
    <2> QED
      BY <1>2, <1>3, NumeralsExist
  <1>5. u = [val \in Nat |-> Body(u, val)]
    <2>1. \A val \in Nat : u[val] = Body(u, val)
      BY <1>4
    <2> HIDE DEF Body
    <2> QED
      BY <2>1
  <1>6. F = [val \in Nat |-> Body(F, val)]
    <2> HIDE DEF Body
    <2> QED
      BY <1>5, Zenon
  <1>7. \A val \in Nat : F[val] = Body(F, val)
    <2> HIDE DEF Body, F
    <2> QED
      BY <1>6
  <1> HIDE DEF F
  <1> QED
    BY <1>1, <1>7, Zenon

\* The same for print_hex.
LEMMA PrintHexIs ==
    \A val \in Nat :
        print_hex[val] =
            LET digit == <<DigitChar[(val % 16) + 1]>>
            IN  IF val \div 16 = 0 THEN digit ELSE print_hex[val \div 16] \o digit
  <1> DEFINE Body(P, val) ==
               LET digit == <<DigitChar[(val % 16) + 1]>>
               IN  IF val \div 16 = 0 THEN digit ELSE P[val \div 16] \o digit
             F == CHOOSE P : P = [val \in Nat |-> Body(P, val)]
             digit == [n \in Nat |-> <<DigitChar[(n % 16) + 1]>>]
             next == [n \in Nat |-> n \div 16]
  <1>1. print_hex = F
    BY Zenon DEF print_hex
  <1>2. digit \in [Nat -> Seq(Glyph)] /\ next \in [Nat -> Nat]
    <2>1. \A n \in Nat : (n % 16) + 1 \in Int
      OBVIOUS
    <2> QED
      BY <2>1, DigitSeq
  <1>3. \A n \in Nat : next[n] = 0 \/ next[n] < n
    OBVIOUS
  <1>4. PICK u \in [Nat -> Seq(Glyph)] : \A n \in Nat :
           u[n] = IF next[n] = 0 THEN digit[n] ELSE u[next[n]] \o digit[n]
    <2> HIDE DEF digit, next, F
    <2> QED
      BY <1>2, <1>3, NumeralsExist
  <1>5. u = [val \in Nat |-> Body(u, val)]
    <2>1. \A val \in Nat : u[val] = Body(u, val)
      BY <1>4
    <2> HIDE DEF Body
    <2> QED
      BY <2>1
  <1>6. F = [val \in Nat |-> Body(F, val)]
    <2> HIDE DEF Body
    <2> QED
      BY <1>5, Zenon
  <1>7. \A val \in Nat : F[val] = Body(F, val)
    <2> HIDE DEF Body, F
    <2> QED
      BY <1>6
  <1> HIDE DEF F
  <1> QED
    BY <1>1, <1>7, Zenon

\* Powers grow.
LEMMA PowerGrows ==
    ASSUME NEW b \in Nat, b >= 2
    PROVE  /\ \A n \in Nat : Power(b, n) \in Nat /\ Power(b, n) >= n + 1
           /\ \A m, n \in Nat : m <= n => Power(b, m) <= Power(b, n)
  <1>1. ASSUME NEW n \in Nat
        PROVE  /\ Power(b, n) \in Nat /\ Power(b, n + 1) \in Nat
               /\ Power(b, n + 1) >= 2 * Power(b, n)
    <2> DEFINE p == Power(b, n)
    <2>1. p \in Nat /\ Power(b, n + 1) = b * p
      BY PowerIs
    <2> HIDE DEF p
    <2>2. b * p = 2 * p + (b - 2) * p /\ (b - 2) * p \in Nat
      BY <2>1
    <2> QED
      BY <2>1, <2>2 DEF p
  <1>2. \A n \in Nat : Power(b, n) >= n + 1
    <2> DEFINE T == {n \in Nat : Power(b, n) >= n + 1}
    <2>1. 0 \in T
      BY PowerIs
    <2>2. \A n \in Nat : n \in T => n + 1 \in T
      BY <1>1
    <2> HIDE DEF T
    <2>3. \A n \in Nat : n \in T
      BY <2>1, <2>2, SetInduction
    <2> QED
      BY <2>3 DEF T
  <1>3. ASSUME NEW m \in Nat
        PROVE  \A n \in Nat : m <= n => Power(b, m) <= Power(b, n)
    <2> DEFINE T == {n \in Nat : m <= n => Power(b, m) <= Power(b, n)}
    <2>1. 0 \in T
      BY PowerIs
    <2>2. ASSUME NEW n \in Nat, n \in T
          PROVE  n + 1 \in T
      <3>1. CASE m <= n
        BY <1>1, <2>2, <3>1
      <3>2. CASE m = n + 1
        <4>1. Power(b, m) = Power(b, n + 1) /\ Power(b, n + 1) \in Nat
          BY <1>1, <3>2
        <4> QED
          BY <4>1
      <3> QED
        BY <3>1, <3>2
    <2> HIDE DEF T
    <2>3. \A n \in Nat : n \in T
      BY <2>1, <2>2, SetInduction
    <2> QED
      BY <2>3 DEF T
  <1> QED
    BY <1>1, <1>2, <1>3

\* Dividing twice is dividing by the product.
LEMMA DivideTwice ==
    ASSUME NEW a \in Nat, NEW b \in Nat \ {0}, NEW c \in Nat \ {0}
    PROVE  (a \div b) \div c = a \div (b * c)
  <1> DEFINE q == a \div b
             e == a % b
             h == q \div c
             g == q % c
             m == b * c
             low == b * g + e
  <1>1. q \in Nat /\ e \in 0 .. (b - 1) /\ a = b * q + e
    OBVIOUS
  <1> HIDE DEF q, e
  <1>2. h \in Nat /\ g \in 0 .. (c - 1) /\ q = c * h + g
    BY <1>1
  <1> HIDE DEF h, g
  <1>3. m \in Nat \ {0}
    OBVIOUS
  <1>4. low \in Nat /\ low < m
    <2>1. g + 1 <= c /\ b * (g + 1) <= b * c
      <3>1. b * c = b * (g + 1) + b * (c - g - 1) /\ b * (c - g - 1) \in Nat /\ b * (g + 1) \in Nat
        BY <1>2
      <3> QED
        BY <1>2, <3>1
    <2>2. b * (g + 1) = b * g + b /\ b * g \in Nat
      BY <1>2
    <2> QED
      BY <1>1, <1>2, <2>1, <2>2
  <1>5. a = m * h + low
    <2>1. b * (c * h + g) = (b * c) * h + b * g
      BY <1>2
    <2>2. (b * c) * h \in Nat /\ b * g \in Nat
      BY <1>2
    <2> QED
      BY <1>1, <1>2, <2>1, <2>2
  <1> HIDE DEF m, low
  <1>6. a \div m = h
    BY <1>2, <1>3, <1>4, <1>5, QuotientUnique
  <1> QED
    BY <1>6 DEF m, h, q

\* What Digits looks for: the number's length and its digits.
IsNumeral(t, val, b) ==
    /\ t \in Seq(Glyph) /\ Len(t) \in 1 .. val + 1
    /\ val < Power(b, Len(t)) /\ (Len(t) = 1 \/ val >= Power(b, Len(t) - 1))
    /\ \A i \in 1 .. Len(t) :
        t[i] = DigitChar[((val \div Power(b, Len(t) - i)) % b) + 1]

\* There is one numeral: the one that Digits picks.
LEMMA NumeralIsDigits ==
    ASSUME NEW b \in {10, 16}, NEW val \in Nat, NEW t, IsNumeral(t, val, b)
    PROVE  t = Digits(val, b)
  <1> DEFINE L(k) == val < Power(b, k) /\ (k = 1 \/ val >= Power(b, k - 1))
             n == CHOOSE k \in 1 .. val + 1 : L(k)
             m == Len(t)
  <1>1. m \in 1 .. val + 1 /\ L(m)
    BY DEF IsNumeral
  <1>2. n \in 1 .. val + 1 /\ L(n)
    <2> HIDE DEF m, L
    <2> QED
      BY <1>1
  <1> HIDE DEF n
  <1>3. n = m
    <2>0. b \in Nat /\ b >= 2
      OBVIOUS
    <2>1. \A i, j \in Nat : i <= j => Power(b, i) <= Power(b, j)
      BY <2>0, PowerGrows
    <2>2. \A i \in Nat : Power(b, i) \in Nat
      BY <2>0, PowerGrows
    <2>3. n - 1 \in Nat /\ m - 1 \in Nat /\ n \in Nat /\ m \in Nat
      BY <1>1, <1>2
    <2> HIDE DEF m
    <2>4. CASE n < m
      <3>1. n <= m - 1
        BY <2>3, <2>4
      <3>2. Power(b, n) <= Power(b, m - 1) /\ Power(b, n) \in Nat /\ Power(b, m - 1) \in Nat
        BY <2>1, <2>2, <2>3, <3>1
      <3> QED
        BY <1>1, <1>2, <2>3, <2>4, <3>2
    <2>5. CASE m < n
      <3>1. m <= n - 1
        BY <2>3, <2>5
      <3>2. Power(b, m) <= Power(b, n - 1) /\ Power(b, m) \in Nat /\ Power(b, n - 1) \in Nat
        BY <2>1, <2>2, <2>3, <3>1
      <3> QED
        BY <1>1, <1>2, <2>3, <2>5, <3>2
    <2> QED
      BY <2>3, <2>4, <2>5
  <1>4. Digits(val, b) = [i \in 1 .. m |-> DigitChar[((val \div Power(b, m - i)) % b) + 1]]
    <2>1. Digits(val, b) = [i \in 1 .. n |-> DigitChar[((val \div Power(b, n - i)) % b) + 1]]
      BY Zenon DEF Digits, n
    <2> HIDE DEF m
    <2> QED
      BY <1>3, <2>1
  <1>5. t = [i \in 1 .. m |-> t[i]]
    BY DEF IsNumeral
  <1> QED
    BY <1>4, <1>5 DEF IsNumeral

\* One digit more.
LEMMA AppendDigit ==
    ASSUME NEW b \in {10, 16}, NEW val \in Nat, val \div b # 0,
           NEW s, IsNumeral(s, val \div b, b)
    PROVE  IsNumeral(s \o <<DigitChar[(val % b) + 1]>>, val, b)
  <1> DEFINE d == val \div b
             c == DigitChar[(val % b) + 1]
             t == s \o <<c>>
             n == Len(s)
             W(k, i) == DigitChar[((val \div Power(b, k - i)) % b) + 1]
  <1>1. /\ b \in Nat /\ b >= 2 /\ d \in Nat /\ val % b \in 0 .. (b - 1)
        /\ val = b * d + (val % b) /\ d >= 1
    OBVIOUS
  <1>2. s \in Seq(Glyph) /\ <<c>> \in Seq(Glyph) /\ n \in 1 .. d + 1
    <2>1. s \in Seq(Glyph) /\ n \in 1 .. d + 1
      BY DEF IsNumeral
    <2>2. (val % b) + 1 \in Int
      BY <1>1
    <2> QED
      BY <2>1, <2>2, DigitSeq
  <1>3. /\ t \in Seq(Glyph) /\ Len(t) = n + 1 /\ t[n + 1] = c
        /\ \A i \in 1 .. n : t[i] = s[i]
    <2> HIDE DEF c
    <2> QED
      BY <1>2, ConcatProperties
  <1>4. \A k \in Nat : Power(b, k) \in Nat /\ Power(b, k + 1) = b * Power(b, k)
    BY <1>1, PowerIs
  <1>5. val < Power(b, n + 1)
    <2> DEFINE p == Power(b, n)
    <2>1. p \in Nat /\ d < p /\ Power(b, n + 1) = b * p
      BY <1>2, <1>4 DEF IsNumeral
    <2> HIDE DEF p, d
    <2>2. CASE b = 10
      BY <1>1, <2>1, <2>2
    <2>3. CASE b = 16
      BY <1>1, <2>1, <2>3
    <2> QED
      BY <2>2, <2>3
  <1>6. val >= Power(b, n)
    <2>1. CASE n = 1
      <3>1. Power(b, 1) = b
        <4>1. Power(b, 0) = 1 /\ 0 + 1 = 1 /\ 0 \in Nat
          BY <1>1, PowerIs
        <4>2. Power(b, 1) = b * 1
          BY <1>4, <4>1
        <4> QED
          BY <1>1, <4>2
      <3> HIDE DEF d
      <3>2. CASE b = 10
        BY <1>1, <2>1, <3>1, <3>2
      <3>3. CASE b = 16
        BY <1>1, <2>1, <3>1, <3>3
      <3> QED
        BY <3>2, <3>3
    <2>2. CASE n # 1
      <3> DEFINE p == Power(b, n - 1)
      <3>1. n - 1 \in Nat /\ (n - 1) + 1 = n
        BY <1>2
      <3>2. p \in Nat /\ d >= p /\ Power(b, n) = b * p
        BY <1>2, <1>4, <2>2, <3>1 DEF IsNumeral
      <3> HIDE DEF p, d
      <3>3. CASE b = 10
        BY <1>1, <3>2, <3>3
      <3>4. CASE b = 16
        BY <1>1, <3>2, <3>4
      <3> QED
        BY <3>3, <3>4
    <2> QED
      BY <2>1, <2>2
  <1>7. n + 1 \in 1 .. val + 1
    <2> HIDE DEF d, n
    <2>1. CASE b = 10
      BY <1>1, <1>2, <2>1
    <2>2. CASE b = 16
      BY <1>1, <1>2, <2>2
    <2> QED
      BY <2>1, <2>2
  <1>8. ASSUME NEW i \in 1 .. n + 1
        PROVE  t[i] = W(n + 1, i)
    <2>1. CASE i = n + 1
      <3>1. n + 1 - i = 0 /\ Power(b, 0) = 1 /\ val \div 1 = val
        BY <1>1, <1>2, <2>1, PowerIs
      <3> QED
        BY <1>3, <2>1, <3>1
    <2>2. CASE i <= n
      <3> DEFINE p == Power(b, n - i)
      <3>1. i \in 1 .. n /\ n - i \in Nat /\ (n - i) + 1 = n + 1 - i
        BY <1>2, <2>2
      <3>2. p \in Nat \ {0}
        <4>1. \A k \in Nat : Power(b, k) \in Nat /\ Power(b, k) >= k + 1
          BY <1>1, PowerGrows
        <4>2. p \in Nat /\ p >= (n - i) + 1
          BY <3>1, <4>1
        <4> QED
          BY <3>1, <4>2
      <3>3. Power(b, n + 1 - i) = b * p
        BY <1>4, <3>1
      <3>4. d \div p = val \div (b * p)
        <4>1. b \in Nat \ {0}
          BY <1>1
        <4> HIDE DEF p
        <4> QED
          BY <3>2, <4>1, DivideTwice
      <3>5. s[i] = DigitChar[((d \div p) % b) + 1]
        BY <3>1 DEF IsNumeral
      <3> QED
        BY <1>3, <3>1, <3>3, <3>4, <3>5
    <2> QED
      BY <1>2, <2>1, <2>2
  <1> HIDE DEF t, n
  <1>9. (n + 1) - 1 = n
    BY <1>2
  <1>10. Len(t) = 1 \/ val >= Power(b, Len(t) - 1)
    BY <1>3, <1>6, <1>9
  <1>11. \A i \in 1 .. Len(t) : t[i] = DigitChar[((val \div Power(b, Len(t) - i)) % b) + 1]
    <2> HIDE DEF W, c
    <2>1. \A i \in 1 .. Len(t) : t[i] = W(Len(t), i)
      BY <1>3, <1>8
    <2> QED
      BY <2>1 DEF W
  <1>12. IsNumeral(t, val, b)
    BY <1>3, <1>5, <1>7, <1>10, <1>11 DEF IsNumeral
  <1> QED
    BY <1>12 DEF t

\* One digit.
LEMMA FirstDigit ==
    ASSUME NEW b \in {10, 16}, NEW val \in Nat, val \div b = 0
    PROVE  IsNumeral(<<DigitChar[(val % b) + 1]>>, val, b)
  <1> DEFINE c == DigitChar[(val % b) + 1]
             t == <<c>>
  <1>1. b \in Nat /\ val < b /\ val % b \in Int
    OBVIOUS
  <1>2. t \in Seq(Glyph) /\ Len(t) = 1 /\ t[1] = c
    BY <1>1, DigitSeq
  <1>3. Power(b, 0) = 1 /\ Power(b, 1) = b
    <2>1. Power(b, 0) = 1 /\ Power(b, 0 + 1) = b * Power(b, 0)
      BY <1>1, PowerIs
    <2> QED
      BY <1>1, <2>1
  <1>4. t[1] = DigitChar[((val \div Power(b, 1 - 1)) % b) + 1]
    <2>1. 1 - 1 = 0 /\ val \div 1 = val
      OBVIOUS
    <2> QED
      BY <1>2, <1>3, <2>1
  <1> HIDE DEF t
  <1>5. \A i \in 1 .. 1 : i = 1
    OBVIOUS
  <1>6. \A i \in 1 .. Len(t) : t[i] = DigitChar[((val \div Power(b, Len(t) - i)) % b) + 1]
    BY <1>2, <1>4, <1>5
  <1>7. IsNumeral(t, val, b)
    BY <1>1, <1>2, <1>3, <1>6 DEF IsNumeral
  <1> QED
    BY <1>7 DEF t

\* What print_decimal and print_hex write.
LEMMA PrintedNumerals ==
    \A val \in 0 .. (LongSize - 1) :
        /\ IsNumeral(print_decimal[val], val, 10)
        /\ IsNumeral(print_hex[val], val, 16)
  <1> DEFINE Ok(val) == /\ IsNumeral(print_decimal[val], val, 10)
                        /\ IsNumeral(print_hex[val], val, 16)
             T == {val \in Nat : val < LongSize => Ok(val)}
  <1>1. ASSUME NEW val \in Nat, \A v \in 0 .. (val - 1) : v \in T
        PROVE  val \in T
    <2> SUFFICES ASSUME val < LongSize PROVE Ok(val)
      OBVIOUS
    <2>1. LongSize \in Nat /\ val \in 0 .. (LongSize - 1)
      BY PrintfAssumption
    <2>2. IsNumeral(print_decimal[val], val, 10)
      <3> DEFINE d == val \div 10
      <3>1. d = Div10(val) /\ d \in Nat /\ val - d * 10 = val % 10 /\ (d # 0 => d < val)
        BY <2>1, Div10IsExact
      <3>2. print_decimal[val] =
              LET digit == <<DigitChar[(val % 10) + 1]>>
              IN  IF d = 0 THEN digit ELSE print_decimal[d] \o digit
        BY <3>1, PrintDecimalIs
      <3>3. CASE d = 0
        BY <3>2, <3>3, FirstDigit
      <3>4. CASE d # 0
        <4>1. d \in 0 .. (val - 1) /\ d < LongSize
          BY <2>1, <3>1, <3>4
        <4>2. IsNumeral(print_decimal[d], d, 10)
          BY <1>1, <4>1
        <4>3. IsNumeral(print_decimal[d] \o <<DigitChar[(val % 10) + 1]>>, val, 10)
          BY <3>4, <4>2, AppendDigit
        <4> QED
          BY <3>2, <3>4, <4>3
      <3> QED
        BY <3>3, <3>4
    <2>3. IsNumeral(print_hex[val], val, 16)
      <3> DEFINE d == val \div 16
      <3>1. d \in Nat /\ (d # 0 => d < val)
        OBVIOUS
      <3>2. print_hex[val] =
              LET digit == <<DigitChar[(val % 16) + 1]>>
              IN  IF d = 0 THEN digit ELSE print_hex[d] \o digit
        BY PrintHexIs
      <3>3. CASE d = 0
        BY <3>2, <3>3, FirstDigit
      <3>4. CASE d # 0
        <4>1. d \in 0 .. (val - 1) /\ d < LongSize
          BY <2>1, <3>1, <3>4
        <4>2. IsNumeral(print_hex[d], d, 16)
          BY <1>1, <4>1
        <4>3. IsNumeral(print_hex[d] \o <<DigitChar[(val % 16) + 1]>>, val, 16)
          BY <3>4, <4>2, AppendDigit
        <4> QED
          BY <3>2, <3>4, <4>3
      <3> QED
        BY <3>3, <3>4
    <2> QED
      BY <2>2, <2>3
  <1> HIDE DEF T
  <1>2. \A val \in Nat : val \in T
    BY <1>1, SetGeneralInduction
  <1> QED
    <2> SUFFICES ASSUME NEW val \in 0 .. (LongSize - 1)
                 PROVE  Ok(val)
      OBVIOUS
    <2>1. val \in Nat /\ val < LongSize
      BY PrintfAssumption
    <2> QED
      BY <1>2, <2>1 DEF T

\* print_decimal and print_hex write the digits of every unsigned long
\* (src/printf.c:47-95).
THEOREM NumbersArePrinted ==
    \A val \in 0 .. (LongSize - 1) :
        print_decimal[val] = Digits(val, 10) /\ print_hex[val] = Digits(val, 16)
  <1> SUFFICES ASSUME NEW val \in 0 .. (LongSize - 1)
               PROVE  /\ print_decimal[val] = Digits(val, 10)
                      /\ print_hex[val] = Digits(val, 16)
    OBVIOUS
  <1>1. val \in Nat
    BY PrintfAssumption
  <1> QED
    BY <1>1, PrintedNumerals, NumeralIsDigits

-----------------------------------------------------------------------------
(* The width of a field. *)

\* No number needs the whole buffer.
LEMMA NumeralFits ==
    ASSUME NEW b \in {10, 16}, NEW val \in 0 .. (LongSize - 1),
           NEW t, IsNumeral(t, val, b)
    PROVE  t \in Seq(Glyph) /\ Len(t) \in 1 .. BufSize - 1
  <1> DEFINE n == Len(t)
             k == BufSize - 1
  <1>1. b \in Nat /\ b >= 2 /\ b >= 10 /\ val \in Nat /\ val < LongSize /\ LongSize \in Nat
    BY PrintfAssumption
  <1>2. /\ \A i \in Nat : Power(b, i) \in Nat
        /\ \A i, j \in Nat : i <= j => Power(b, i) <= Power(b, j)
        /\ \A i \in Nat : Power(b, i + 1) = b * Power(b, i)
        /\ Power(b, 0) = 1
    BY <1>1, PowerGrows, PowerIs
  <1>3. /\ \A i \in Nat : Power(10, i) \in Nat /\ Power(10, i + 1) = 10 * Power(10, i)
        /\ Power(10, 0) = 1
    BY PowerIs
  <1>4. \A i \in Nat : Power(10, i) <= Power(b, i)
    <2> DEFINE T == {i \in Nat : Power(10, i) <= Power(b, i)}
    <2>1. 0 \in T
      BY <1>2, <1>3
    <2>2. ASSUME NEW i \in Nat, i \in T
          PROVE  i + 1 \in T
      <3> DEFINE p == Power(10, i)
                 q == Power(b, i)
      <3>1. p \in Nat /\ q \in Nat /\ p <= q
        BY <1>2, <1>3, <2>2
      <3>2. Power(10, i + 1) = 10 * p /\ Power(b, i + 1) = b * q
        BY <1>2, <1>3
      <3> HIDE DEF p, q
      <3>3. 10 * p <= b * q
        <4>1. CASE b = 10
          BY <3>1, <4>1
        <4>2. CASE b = 16
          BY <3>1, <4>2
        <4> QED
          BY <4>1, <4>2
      <3> QED
        BY <3>2, <3>3
    <2> HIDE DEF T
    <2>3. \A i \in Nat : i \in T
      BY <2>1, <2>2, SetInduction
    <2> QED
      BY <2>3 DEF T
  <1>5. k \in Nat /\ LongSize <= Power(10, k) /\ LongSize > 4
    BY PrintfAssumption
  <1>6. k >= 1
    <2>1. CASE k = 0
      BY <1>1, <1>3, <1>5, <2>1
    <2> HIDE DEF k
    <2> QED
      BY <1>5, <2>1
  <1>7. t \in Seq(Glyph) /\ n \in 1 .. val + 1
    BY DEF IsNumeral
  <1>8. n <= k
    <2> SUFFICES ASSUME n >= k + 1 PROVE FALSE
      BY <1>5, <1>7
    <2>1. val >= Power(b, n - 1)
      <3>1. n # 1
        <4> HIDE DEF n, k
        <4> QED
          BY <1>5, <1>6, <1>7
      <3> QED
        BY <3>1 DEF IsNumeral
    <2>2. k <= n - 1 /\ n - 1 \in Nat
      <3> HIDE DEF n, k
      <3> QED
        BY <1>5, <1>7
    <2> HIDE DEF n, k
    <2>3. Power(b, k) <= Power(b, n - 1)
      BY <1>2, <1>5, <2>2
    <2>4. Power(10, k) <= Power(b, k)
      BY <1>4, <1>5
    <2>5. /\ Power(b, k) \in Nat /\ Power(b, n - 1) \in Nat /\ Power(10, k) \in Nat
      BY <1>2, <1>3, <1>5, <2>2
    <2> QED
      BY <1>1, <1>5, <2>1, <2>3, <2>4, <2>5
  <1> HIDE DEF n, k
  <1>9. n \in 1 .. k
    BY <1>5, <1>7, <1>8
  <1> QED
    BY <1>7, <1>9 DEF n, k

\* A character so many times.
LEMMA RepeatIs ==
    ASSUME NEW S, NEW c \in S
    PROVE  \A n \in Nat : /\ Repeat(c, n) \in Seq(S) /\ Len(Repeat(c, n)) = n
                          /\ \A i \in 1 .. n : Repeat(c, n)[i] = c
  BY DEF Repeat

\* Padding in pieces.
LEMMA PaddingJoins ==
    ASSUME NEW S, NEW c \in S
    PROVE  /\ \A p \in Seq(S) : \A a, b \in Nat :
                /\ Repeat(c, a) \o (Repeat(c, b) \o p) = Repeat(c, a + b) \o p
                /\ Repeat(c, a) \o p \in Seq(S) /\ Len(Repeat(c, a) \o p) = a + Len(p)
           /\ <<c>> = Repeat(c, 1) /\ Repeat(c, 0) = <<>>
  <1>0. <<c>> = Repeat(c, 1) /\ Repeat(c, 0) = <<>>
    BY DEF Repeat
  <1> SUFFICES ASSUME NEW p \in Seq(S), NEW a \in Nat, NEW b \in Nat
               PROVE  /\ Repeat(c, a) \o (Repeat(c, b) \o p) = Repeat(c, a + b) \o p
                      /\ Repeat(c, a) \o p \in Seq(S)
                      /\ Len(Repeat(c, a) \o p) = a + Len(p)
    BY <1>0
  <1> DEFINE x == Repeat(c, a)
             y == Repeat(c, b)
             z == Repeat(c, a + b)
  <1>4. \A n \in Nat : /\ Repeat(c, n) \in Seq(S) /\ Len(Repeat(c, n)) = n
                       /\ \A i \in 1 .. n : Repeat(c, n)[i] = c
    BY RepeatIs
  <1>1. x \in Seq(S) /\ Len(x) = a /\ \A i \in 1 .. a : x[i] = c
    BY <1>4
  <1>2. y \in Seq(S) /\ Len(y) = b /\ \A i \in 1 .. b : y[i] = c
    BY <1>4
  <1>3. z \in Seq(S) /\ Len(z) = a + b /\ \A i \in 1 .. a + b : z[i] = c
    BY <1>4
  <1> HIDE DEF x, y, z
  <1>5. /\ x \o y \in Seq(S) /\ Len(x \o y) = a + b
        /\ \A i \in 1 .. a + b : (x \o y)[i] = IF i <= a THEN x[i] ELSE y[i - a]
    BY <1>1, <1>2, ConcatProperties
  <1>6. x \o y = z
    <2>1. \A i \in 1 .. a + b : (x \o y)[i] = z[i]
      BY <1>1, <1>2, <1>3, <1>5
    <2> QED
      BY <1>3, <1>5, <2>1, SeqEqual
  <1>7. x \o (y \o p) = (x \o y) \o p
    BY <1>1, <1>2, ConcatAssociative
  <1>8. x \o p \in Seq(S) /\ Len(x \o p) = Len(x) + Len(p)
    BY <1>1, ConcatProperties
  <1> QED
    BY <1>1, <1>6, <1>7, <1>8 DEF x, y, z

\* print_buf_pad writes the padding and the text, and counts both.
LEMMA PaddingIs ==
    ASSUME NEW p \in Seq(Glyph), Len(p) \in 1 .. BufSize - 1,
           NEW width \in Nat, NEW pad \in Glyph
    PROVE  \E text \in Seq(Glyph) :
             /\ text = Repeat(pad, IF width > Len(p) THEN width - Len(p) ELSE 0) \o p
             /\ print_buf_pad(p, width, pad) = [text |-> text, r |-> Len(text)]
  <1> DEFINE len == Len(p)
             first == IF width > len THEN <<pad>> \o p ELSE p
             early == IF width > len /\ width > BufSize THEN width - BufSize ELSE 0
             filled == Repeat(pad, width - early - Len(first)) \o first
             text == Repeat(first[1], early) \o filled
  <1>1. len \in Nat /\ BufSize \in Nat /\ len >= 1 /\ len <= BufSize - 1
    BY PrintfAssumption
  <1>2. print_buf_pad(p, width, pad) = [text |-> text, r |-> early + Len(filled)]
    BY Zenon DEF print_buf_pad
  <1>3. \A q \in Seq(Glyph) : <<>> \o q = q
    BY ConcatEmptySeq
  <1> DEFINE D == Glyph
  <1>9. \A q \in Seq(D) : \A m, n \in Nat :
          /\ Repeat(pad, m) \o (Repeat(pad, n) \o q) = Repeat(pad, m + n) \o q
          /\ Repeat(pad, m) \o q \in Seq(D) /\ Len(Repeat(pad, m) \o q) = m + Len(q)
    BY PaddingJoins
  <1>10. <<pad>> = Repeat(pad, 1) /\ Repeat(pad, 0) = <<>>
    BY PaddingJoins
  <1>4. CASE ~(width > len)
    <2>1. first = p /\ early = 0
      BY <1>4
    <2>2. filled = p
      <3>1. Repeat(pad, width - early - Len(first)) = <<>>
        <4>1. 1 .. (width - early - Len(first)) = {}
          BY <1>1, <1>4, <2>1
        <4>2. 1 .. 0 = {}
          OBVIOUS
        <4>3. Repeat(pad, width - early - Len(first)) = Repeat(pad, 0)
          BY <4>1, <4>2, Zenon DEF Repeat
        <4> QED
          BY <4>3, PaddingJoins
      <3> QED
        BY <1>3, <2>1, <3>1
    <2>3. Repeat(first[1], early) = <<>>
      <3> HIDE DEF first, early
      <3>1. Repeat(first[1], 0) = <<>>
        BY DEF Repeat
      <3> QED
        BY <2>1, <3>1
    <2>4. text = p /\ early + Len(filled) = Len(p)
      <3>1. text = <<>> \o filled
        BY <2>3
      <3> HIDE DEF text, filled, early
      <3> QED
        BY <1>1, <1>3, <2>1, <2>2, <3>1
    <2>5. Repeat(pad, IF width > Len(p) THEN width - Len(p) ELSE 0) \o p = p
      <3>1. Repeat(pad, 0) = <<>>
        BY PaddingJoins
      <3> QED
        BY <1>3, <1>4, <3>1
    <2> HIDE DEF text, filled, early, first
    <2> QED
      BY <1>2, <2>4, <2>5
  <1>5. CASE width > len
    <2>1. first = <<pad>> \o p
      BY <1>5
    <2>2. first = Repeat(pad, 1) \o p /\ first \in Seq(Glyph) /\ Len(first) = 1 + len
      <3> HIDE DEF first
      <3>1. first = Repeat(pad, 1) \o p
        BY <1>10, <2>1
      <3> QED
        BY <1>9, <3>1
    <2>3. first[1] = pad
      <3>1. <<pad>> \in Seq(Glyph) /\ Len(<<pad>>) = 1 /\ <<pad>>[1] = pad
        OBVIOUS
      <3>2. (<<pad>> \o p)[1] = pad
        BY <1>1, <3>1, ConcatProperties
      <3> QED
        BY <2>1, <3>2
    <2> DEFINE gap == width - early - Len(first)
    <2>4. early \in Nat /\ gap \in Nat /\ gap + 1 \in Nat /\ early + (gap + 1) = width - len
      <3>0. gap = width - early - Len(first)
        OBVIOUS
      <3> HIDE DEF first, len, gap
      <3>1. CASE width > BufSize
        <4>1. early = width - BufSize
          BY <1>5, <3>1
        <4> HIDE DEF early
        <4> QED
          BY <1>1, <1>5, <2>2, <3>0, <3>1, <4>1
      <3>2. CASE ~(width > BufSize)
        <4>1. early = 0
          BY <1>5, <3>2
        <4> HIDE DEF early
        <4> QED
          BY <1>1, <1>5, <2>2, <3>0, <3>2, <4>1
      <3> QED
        BY <3>1, <3>2
    <2>5. filled = Repeat(pad, gap) \o (Repeat(pad, 1) \o p)
      BY <2>2
    <2>6. text = Repeat(pad, early) \o filled
      BY <2>3
    <2> HIDE DEF first, early, gap, filled, text
    <2>7. filled = Repeat(pad, gap + 1) \o p
      BY <2>4, <2>5, <1>9
    <2>8. filled \in Seq(Glyph) /\ Len(filled) = (gap + 1) + len
      BY <2>4, <2>7, <1>9
    <2>9. text = Repeat(pad, early + (gap + 1)) \o p
      BY <2>4, <2>6, <2>7, <1>9
    <2>10. text \in Seq(Glyph) /\ Len(text) = early + Len(filled)
      BY <2>4, <2>6, <2>8, <1>9
    <2>11. text = Repeat(pad, IF width > Len(p) THEN width - Len(p) ELSE 0) \o p
      BY <1>5, <2>4, <2>9
    <2> QED
      BY <1>2, <2>10, <2>11
  <1> QED
    BY <1>4, <1>5

-----------------------------------------------------------------------------
(* The characters of a directive. *)

\* What the characters of a directive set.
FlagSet == [is_long : BOOLEAN, pad : {Space, "0"}, width : Nat, inWidth : BOOLEAN]

\* The digits have values.
LEMMA DigitValues == \A c \in FlagChars : c # "l" => DigitValue(c) \in 0 .. 9
  <1> SUFFICES ASSUME NEW c \in FlagChars, c # "l"
               PROVE  DigitValue(c) \in 0 .. 9
    OBVIOUS
  <1>1. PICK j \in 1 .. 10 : c = DigitChar[j]
    BY DEF FlagChars
  <1>2. j - 1 \in 0 .. 9 /\ (j - 1) + 1 = j
    OBVIOUS
  <1>3. \E k \in 0 .. 9 : DigitChar[k + 1] = c
    BY <1>1, <1>2
  <1> QED
    BY <1>3 DEF DigitValue

\* What one more character of a directive means.
LEMMA FlagEffect ==
    ASSUME NEW f \in FlagSet, NEW c \in FlagChars
    PROVE  /\ Flag(f, c) \in FlagSet
           /\ c = "l" => /\ Flag(f, c).is_long /\ ~Flag(f, c).inWidth
                         /\ Flag(f, c).pad = f.pad /\ Flag(f, c).width = f.width
           /\ c # "l" =>
                /\ Flag(f, c).is_long = f.is_long /\ Flag(f, c).inWidth
                /\ f.inWidth => /\ Flag(f, c).width = 10 * f.width + DigitValue(c)
                                /\ Flag(f, c).pad = f.pad
                /\ ~f.inWidth => /\ Flag(f, c).width = DigitValue(c)
                                 /\ Flag(f, c).pad = IF c = "0" THEN c ELSE f.pad
  <1>1. CASE c = "l"
    BY <1>1 DEF Flag, FlagSet
  <1>2. CASE c # "l" /\ f.inWidth
    <2>1. DigitValue(c) \in Nat
      BY <1>2, DigitValues
    <2> QED
      BY <1>2, <2>1 DEF Flag, FlagSet
  <1>3. CASE c # "l" /\ ~f.inWidth
    <2>1. DigitValue(c) \in Nat
      BY <1>3, DigitValues
    <2> QED
      BY <1>3, <2>1 DEF Flag, FlagSet
  <1> QED
    BY <1>1, <1>2, <1>3

\* A function of an interval whose first value is in a set and whose next ones
\* stay in it.
LEMMA AscendTypes ==
    ASSUME NEW D, NEW n \in Nat, NEW F, F = [i \in 0 .. n |-> F[i]], F[0] \in D,
           \A i \in 1 .. n : F[i - 1] \in D => F[i] \in D
    PROVE  F \in [0 .. n -> D]
  <1> DEFINE T == {i \in Nat : i <= n => F[i] \in D}
  <1>1. 0 \in T
    OBVIOUS
  <1>2. ASSUME NEW i \in Nat, i \in T
        PROVE  i + 1 \in T
    <2> SUFFICES ASSUME i + 1 <= n PROVE F[i + 1] \in D
      OBVIOUS
    <2>1. F[i] \in D /\ i + 1 \in 1 .. n /\ (i + 1) - 1 = i
      BY <1>2
    <2> QED
      BY <2>1
  <1> HIDE DEF T
  <1>3. \A i \in Nat : i \in T
    BY <1>1, <1>2, SetInduction
  <1>4. \A i \in 0 .. n : F[i] \in D
    BY <1>3 DEF T
  <1> QED
    BY <1>4

\* The characters are read from the first to the last.
LEMMA FlagsUptoIs ==
    ASSUME NEW cs \in Seq(FlagChars)
    PROVE  /\ FlagsUpto(cs) \in [0 .. Len(cs) -> FlagSet]
           /\ FlagsUpto(cs)[0] = NoFlags
           /\ \A i \in 1 .. Len(cs) : FlagsUpto(cs)[i] = Flag(FlagsUpto(cs)[i - 1], cs[i])
  <1> DEFINE n == Len(cs)
             F == CHOOSE U : U = [i \in 0 .. n |-> IF i = 0 THEN NoFlags ELSE Flag(U[i - 1], cs[i])]
             D == FlagSet
             step == [p \in D \X (1 .. n) |-> Flag(p[1], cs[p[2]])]
  <1>1. FlagsUpto(cs) = F
    BY Zenon DEF FlagsUpto
  <1>2. NoFlags \in D /\ n \in Nat
    BY DEF NoFlags, FlagSet
  <1>3. step \in [D \X (1 .. n) -> D]
    <2>1. \A f \in D, i \in 1 .. n : Flag(f, cs[i]) \in D
      BY FlagEffect
    <2> HIDE DEF D, n
    <2> QED
      BY <2>1
  <1>4. PICK u \in [0 .. n -> D] : Ascends(u, NoFlags, n, step)
    <2> HIDE DEF F, D, n, step
    <2> QED
      BY <1>2, <1>3, RecursionExists
  <1>5. \A i \in 1 .. n : u[i] = Flag(u[i - 1], cs[i]) /\ i # 0
    <2> SUFFICES ASSUME NEW i \in 1 .. n PROVE u[i] = Flag(u[i - 1], cs[i]) /\ i # 0
      OBVIOUS
    <2>1. u[i] = step[<<u[i - 1], i>>]
      BY <1>4 DEF Ascends
    <2>2. u[i - 1] \in D
      BY <1>2
    <2> HIDE DEF D, n
    <2> QED
      BY <2>1, <2>2
  <1>6. u = [i \in 0 .. n |-> IF i = 0 THEN NoFlags ELSE Flag(u[i - 1], cs[i])]
    <2>1. u[0] = NoFlags
      BY <1>4 DEF Ascends
    <2> HIDE DEF D, n, step
    <2>2. \A i \in 0 .. n : u[i] = IF i = 0 THEN NoFlags ELSE Flag(u[i - 1], cs[i])
      BY <1>2, <1>5, <2>1
    <2> QED
      BY <2>2
  <1>7. F = [i \in 0 .. n |-> IF i = 0 THEN NoFlags ELSE Flag(F[i - 1], cs[i])]
    BY <1>6, Zenon
  <1> HIDE DEF F
  <1>8. F[0] = NoFlags /\ \A i \in 1 .. n : F[i] = Flag(F[i - 1], cs[i])
    <2> HIDE DEF n
    <2> QED
      BY <1>2, <1>7
  <1>9. F \in [0 .. n -> D]
    <2>1. \A i \in 1 .. n : F[i - 1] \in D => F[i] \in D
      BY <1>8, FlagEffect
    <2>2. F = [i \in 0 .. n |-> F[i]] /\ F[0] \in D
      BY <1>2, <1>7, <1>8
    <2> HIDE DEF D, n
    <2> QED
      BY <1>2, <2>1, <2>2, AscendTypes
  <1> QED
    BY <1>1, <1>8, <1>9, Zenon

\* The value of the number that begins at s, up to each character.
LEMMA NumeralUptoIs ==
    ASSUME NEW cs \in Seq(FlagChars), NEW s \in 1 .. Len(cs)
    PROVE  /\ NumeralUpto(cs, s) \in [0 .. Len(cs) -> Nat]
           /\ \A k \in 0 .. s - 1 : NumeralUpto(cs, s)[k] = 0
           /\ \A k \in s .. Len(cs) :
                NumeralUpto(cs, s)[k] =
                  IF cs[k] = "l" THEN NumeralUpto(cs, s)[k - 1]
                  ELSE 10 * NumeralUpto(cs, s)[k - 1] + DigitValue(cs[k])
  <1> DEFINE n == Len(cs)
             D == Nat
             Value(v, k) == IF cs[k] = "l" THEN v ELSE 10 * v + DigitValue(cs[k])
             F == CHOOSE U : U = [k \in 0 .. n |-> IF k < s THEN 0 ELSE Value(U[k - 1], k)]
             step == [p \in D \X (1 .. n) |-> IF p[2] < s THEN 0 ELSE Value(p[1], p[2])]
  <1>1. NumeralUpto(cs, s) = F
    BY Zenon DEF NumeralUpto
  <1>2. n \in Nat /\ 0 \in D /\ s \in 1 .. n
    OBVIOUS
  <1>3. \A k \in 1 .. n, v \in D : Value(v, k) \in D
    <2> SUFFICES ASSUME NEW k \in 1 .. n, NEW v \in D PROVE Value(v, k) \in D
      OBVIOUS
    <2>1. cs[k] = "l" \/ DigitValue(cs[k]) \in Nat
      BY DigitValues
    <2> QED
      BY <2>1
  <1> HIDE DEF Value
  <1>4. step \in [D \X (1 .. n) -> D]
    <2> HIDE DEF n
    <2> QED
      BY <1>3
  <1>5. PICK u \in [0 .. n -> D] : Ascends(u, 0, n, step)
    <2> HIDE DEF F, D, n, step
    <2> QED
      BY <1>2, <1>4, RecursionExists
  <1>6. \A k \in 1 .. n : u[k] = IF k < s THEN 0 ELSE Value(u[k - 1], k)
    <2> SUFFICES ASSUME NEW k \in 1 .. n
                 PROVE  u[k] = IF k < s THEN 0 ELSE Value(u[k - 1], k)
      OBVIOUS
    <2>1. u[k] = step[<<u[k - 1], k>>]
      BY <1>5 DEF Ascends
    <2>2. u[k - 1] \in D
      BY <1>2
    <2> HIDE DEF D, n
    <2> QED
      BY <2>1, <2>2
  <1>7. u = [k \in 0 .. n |-> IF k < s THEN 0 ELSE Value(u[k - 1], k)]
    <2>1. u[0] = 0
      BY <1>5 DEF Ascends
    <2> HIDE DEF D, n, step
    <2>2. \A k \in 0 .. n : u[k] = IF k < s THEN 0 ELSE Value(u[k - 1], k)
      BY <1>2, <1>6, <2>1
    <2> QED
      BY <2>2
  <1>8. F = [k \in 0 .. n |-> IF k < s THEN 0 ELSE Value(F[k - 1], k)]
    BY <1>7, Zenon
  <1> HIDE DEF F
  <1>9. \A k \in 0 .. n : F[k] = IF k < s THEN 0 ELSE Value(F[k - 1], k)
    <2> HIDE DEF n
    <2> QED
      BY <1>8
  <1>10. F \in [0 .. n -> D]
    <2>1. ASSUME NEW k \in 1 .. n, F[k - 1] \in D
          PROVE  F[k] \in D
      <3>1. F[k] = IF k < s THEN 0 ELSE Value(F[k - 1], k)
        BY <1>9
      <3>2. Value(F[k - 1], k) \in D
        BY <1>3, <2>1
      <3> QED
        BY <1>2, <3>1, <3>2
    <2>2. F = [k \in 0 .. n |-> F[k]]
      <3> HIDE DEF n
      <3> QED
        BY <1>8
    <2>3. F[0] \in D
      BY <1>2, <1>9
    <2> HIDE DEF D, n
    <2> QED
      BY <1>2, <2>1, <2>2, <2>3, AscendTypes
  <1>11. /\ \A k \in 0 .. s - 1 : F[k] = 0
         /\ \A k \in s .. n : F[k] = Value(F[k - 1], k)
    <2> HIDE DEF n
    <2> QED
      BY <1>2, <1>9
  <1> QED
    BY <1>1, <1>10, <1>11, Zenon DEF Value

\* What the characters of a directive mean to printf is what they mean.
LEMMA FlagsAre ==
    ASSUME NEW cs \in Seq(FlagChars)
    PROVE  /\ Flags(cs) \in FlagSet
           /\ Flags(cs).is_long <=> \E i \in 1 .. Len(cs) : cs[i] = "l"
           /\ Flags(cs).pad = IF \E i \in Starts(cs) : cs[i] = "0" THEN "0" ELSE Space
           /\ Flags(cs).width =
                IF Starts(cs) = {} THEN 0
                ELSE Numeral(cs, CHOOSE i \in Starts(cs) : \A j \in Starts(cs) : j <= i)
  <1> DEFINE n == Len(cs)
             f(k) == FlagsUpto(cs)[k]
             S == Starts(cs)
             Last(s, k) == s \in S /\ s <= k /\ \A j \in S : j <= k => j <= s
             Long(k) == f(k).is_long <=> \E j \in 1 .. k : cs[j] = "l"
             In(k) == f(k).inWidth <=> (k # 0 /\ cs[k] # "l")
             Pad(k) == f(k).pad = IF \E j \in S : j <= k /\ cs[j] = "0" THEN "0" ELSE Space
             None(k) == (\A j \in S : j > k) => f(k).width = 0
             Some(k) == \A s : Last(s, k) => f(k).width = NumeralUpto(cs, s)[k]
             Ok(k) == Long(k) /\ In(k) /\ Pad(k) /\ None(k) /\ Some(k)
             T == {k \in Nat : k <= n => Ok(k)}
  <1>1. n \in Nat /\ S \subseteq 1 .. n
    BY DEF Starts
  <1>2. /\ \A k \in 0 .. n : f(k) \in FlagSet
        /\ f(0) = NoFlags
        /\ \A k \in 1 .. n : f(k) = Flag(f(k - 1), cs[k])
    BY FlagsUptoIs
  <1>3. \A k \in 1 .. n : k \in S <=> cs[k] # "l" /\ (k = 1 \/ cs[k - 1] = "l")
    BY DEF Starts
  <1>4. \A s \in S :
          /\ \A k \in 0 .. s - 1 : NumeralUpto(cs, s)[k] = 0
          /\ \A k \in s .. n :
               NumeralUpto(cs, s)[k] =
                 IF cs[k] = "l" THEN NumeralUpto(cs, s)[k - 1]
                 ELSE 10 * NumeralUpto(cs, s)[k - 1] + DigitValue(cs[k])
    BY <1>1, NumeralUptoIs
  <1> HIDE DEF S, f
  <1>5. 0 \in T
    <2>1. /\ ~NoFlags.is_long /\ ~NoFlags.inWidth /\ NoFlags.pad = Space
          /\ NoFlags.width = 0
      BY DEF NoFlags
    <2>2. \A j \in S : ~(j <= 0)
      BY <1>1
    <2>3. Long(0) /\ In(0)
      BY <1>2, <2>1
    <2>4. Pad(0) /\ None(0) /\ Some(0)
      BY <1>2, <2>1, <2>2
    <2> QED
      BY <2>3, <2>4
  <1>6. ASSUME NEW m \in Nat, m \in T
        PROVE  m + 1 \in T
    <2> SUFFICES ASSUME m + 1 <= n PROVE Ok(m + 1)
      OBVIOUS
    <2> DEFINE k == m + 1
               c == cs[k]
               g == f(m)
               h == f(k)
    <2>1. /\ k \in 1 .. n /\ k - 1 = m /\ m \in 0 .. n /\ k # 0
          /\ c \in FlagChars /\ Ok(m) /\ g \in FlagSet /\ h = Flag(g, c)
      <3>1. k \in 1 .. n /\ k - 1 = m /\ m \in 0 .. n /\ m <= n /\ k # 0
        BY <1>1
      <3>2. Ok(m)
        BY <1>6, <3>1
      <3>3. h = Flag(f(k - 1), cs[k])
        BY <1>2, <3>1
      <3>4. g \in FlagSet /\ c \in FlagChars
        BY <1>2, <3>1
      <3> QED
        BY <3>1, <3>2, <3>3, <3>4
    <2> HIDE DEF c, g, h
    <2>2. /\ c = "l" => /\ h.is_long /\ ~h.inWidth
                        /\ h.pad = g.pad /\ h.width = g.width
          /\ c # "l" => /\ h.is_long = g.is_long /\ h.inWidth
          /\ (c # "l" /\ g.inWidth) =>
                h.width = 10 * g.width + DigitValue(c) /\ h.pad = g.pad
          /\ (c # "l" /\ ~g.inWidth) =>
                h.width = DigitValue(c) /\ h.pad = IF c = "0" THEN c ELSE g.pad
      BY <2>1, FlagEffect
    <2>3. k \in S <=> c # "l" /\ ~g.inWidth
      <3>1. k \in S <=> c # "l" /\ (k = 1 \/ cs[m] = "l")
        BY <1>3, <2>1 DEF c
      <3>2. g.inWidth <=> (m # 0 /\ cs[m] # "l")
        BY <2>1 DEF g
      <3>3. k = 1 <=> m = 0
        OBVIOUS
      <3> QED
        BY <3>1, <3>2, <3>3
    <2>4. \A j \in S : j <= k <=> (j <= m \/ j = k)
      BY <1>1
    <2>5. \A j : j \in 1 .. k <=> (j \in 1 .. m \/ j = k)
      OBVIOUS
    <2>6. Long(k)
      <3>1. g.is_long <=> \E j \in 1 .. m : cs[j] = "l"
        BY <2>1 DEF g
      <3>2. c = "l" => h.is_long
        BY <2>2
      <3>3. c # "l" => h.is_long = g.is_long
        BY <2>2
      <3> HIDE DEF k
      <3>4. h.is_long <=> \E j \in 1 .. k : cs[j] = "l"
        <4>1. CASE c = "l"
          BY <2>1, <2>5, <3>2, <4>1 DEF c
        <4>2. CASE c # "l"
          BY <2>5, <3>1, <3>3, <4>2, Zenon DEF c
        <4> QED
          BY <4>1, <4>2
      <3> QED
        BY <3>4 DEF h
    <2>7. In(k)
      <3>1. h.inWidth <=> c # "l"
        BY <2>2
      <3> QED
        BY <2>1, <3>1 DEF c, h
    <2>8. Pad(k)
      <3>1. g.pad = IF \E j \in S : j <= m /\ cs[j] = "0" THEN "0" ELSE Space
        BY <2>1 DEF g
      <3>2. CASE k \in S /\ c = "0"
        <4>1. h.pad = "0"
          BY <2>2, <2>3, <3>2
        <4>2. \E j \in S : j <= k /\ cs[j] = "0"
          BY <2>1, <3>2 DEF c
        <4> QED
          BY <4>1, <4>2 DEF h
      <3>3. CASE ~(k \in S /\ c = "0")
        <4>1. h.pad = g.pad
          BY <2>2, <2>3, <3>3
        <4>2. (\E j \in S : j <= k /\ cs[j] = "0") <=> (\E j \in S : j <= m /\ cs[j] = "0")
          BY <2>4, <3>3 DEF c
        <4> QED
          BY <3>1, <4>1, <4>2 DEF h
      <3> QED
        BY <3>2, <3>3
    <2>9. None(k)
      <3> SUFFICES ASSUME \A j \in S : j > k PROVE h.width = 0
        BY DEF h
      <3>1. k \notin S /\ \A j \in S : j > m
        BY <1>1
      <3>2. g.width = 0
        BY <2>1, <3>1 DEF g
      <3>3. c = "l"
        <4>1. ASSUME g.inWidth, c # "l"
              PROVE  FALSE
          <5>1. f(m).inWidth /\ m # 0 /\ cs[m] # "l"
            BY <2>1, <4>1 DEF g
          <5> DEFINE U == {i \in Nat : i \in 1 .. m => cs[i] = "l"}
          <5>2. 0 \in U
            OBVIOUS
          <5>3. ASSUME NEW i \in Nat, i \in U
                PROVE  i + 1 \in U
            <6> SUFFICES ASSUME i + 1 \in 1 .. m PROVE cs[i + 1] = "l"
              OBVIOUS
            <6>1. i + 1 \in 1 .. n /\ i + 1 \notin S /\ (i + 1) - 1 = i
              BY <2>1, <3>1
            <6>2. i + 1 = 1 \/ cs[i] = "l"
              BY <5>3
            <6> QED
              BY <1>3, <6>1, <6>2
          <5> HIDE DEF U
          <5>4. \A i \in Nat : i \in U
            BY <5>2, <5>3, SetInduction
          <5>5. m \in 1 .. m
            BY <5>1
          <5> QED
            BY <5>1, <5>4, <5>5 DEF U
        <4> QED
          BY <2>3, <3>1, <4>1
      <3> QED
        BY <2>2, <3>2, <3>3
    <2>10. Some(k)
      <3> SUFFICES ASSUME NEW s, Last(s, k) PROVE h.width = NumeralUpto(cs, s)[k]
        BY DEF h
      <3> DEFINE v == NumeralUpto(cs, s)
      <3>1. s \in S /\ s \in 1 .. k
        BY <1>1
      <3>2. v[k] = IF c = "l" THEN v[m] ELSE 10 * v[m] + DigitValue(c)
        <4>1. k \in s .. n
          BY <2>1, <3>1
        <4> QED
          BY <1>4, <2>1, <3>1, <4>1 DEF c
      <3>3. CASE s = k
        <4>1. v[m] = 0
          <5>1. m \in 0 .. s - 1
            BY <3>3
          <5> QED
            BY <1>4, <3>1, <5>1
        <4>2. c # "l" /\ h.width = DigitValue(c)
          BY <2>2, <2>3, <3>1, <3>3
        <4>3. DigitValue(c) \in Nat
          BY <2>1, <4>2, DigitValues
        <4> HIDE DEF v
        <4>4. v[k] = DigitValue(c)
          BY <3>2, <4>1, <4>2, <4>3
        <4> QED
          BY <4>2, <4>4 DEF v
      <3>4. CASE s # k
        <4>1. k \notin S /\ s <= m
          BY <2>1, <3>1, <3>4
        <4>2. Last(s, m)
          BY <2>4, <3>1, <4>1
        <4>3. g.width = v[m]
          BY <2>1, <4>2 DEF g
        <4>4. c = "l" \/ g.inWidth
          BY <2>3, <4>1
        <4> HIDE DEF v
        <4>5. h.width = v[k]
          BY <2>2, <3>2, <4>3, <4>4
        <4> QED
          BY <4>5 DEF v
      <3> QED
        BY <3>3, <3>4
    <2> QED
      BY <2>6, <2>7, <2>8, <2>9, <2>10
  <1> HIDE DEF T
  <1>7. \A k \in Nat : k \in T
    BY <1>5, <1>6, SetInduction
  <1>8. Ok(n)
    BY <1>1, <1>7 DEF T
  <1>9. Flags(cs) = f(n)
    BY Zenon DEF Flags, f
  <1>10. /\ f(n) \in FlagSet
         /\ f(n).is_long <=> \E i \in 1 .. n : cs[i] = "l"
    BY <1>1, <1>2, <1>8
  <1>11. f(n).pad = IF \E i \in S : cs[i] = "0" THEN "0" ELSE Space
    <2>1. (\E j \in S : j <= n /\ cs[j] = "0") <=> (\E j \in S : cs[j] = "0")
      BY <1>1
    <2> QED
      BY <1>8, <2>1
  <1>12. f(n).width =
           IF S = {} THEN 0
           ELSE NumeralUpto(cs, CHOOSE i \in S : \A j \in S : j <= i)[n]
    <2>1. CASE S = {}
      BY <1>8, <2>1
    <2>2. CASE S # {}
      <3>1. \E i \in S : \A j \in S : j <= i
        <4> DEFINE U == {x \in Nat : \A j \in S : j <= n - x}
        <4>1. PICK i \in S : TRUE
          BY <2>2
        <4>2. ASSUME ~\E e \in S : \A j \in S : j <= e
              PROVE  FALSE
          <5>1. 0 \in U
            BY <1>1
          <5>2. ASSUME NEW x \in Nat, x \in U
                PROVE  x + 1 \in U
            <6>1. n - x \notin S
              BY <4>2, <5>2
            <6>2. \A j \in S : j <= n - (x + 1)
              BY <1>1, <5>2, <6>1
            <6> QED
              BY <6>2
          <5> HIDE DEF U
          <5>3. \A x \in Nat : x \in U
            BY <5>1, <5>2, SetInduction
          <5>4. i <= n - n
            BY <1>1, <5>3 DEF U
          <5> QED
            BY <1>1, <5>4
        <4> QED
          BY <4>2
      <3> DEFINE s == CHOOSE i \in S : \A j \in S : j <= i
      <3>2. s \in S /\ \A j \in S : j <= s
        BY <3>1
      <3> HIDE DEF s
      <3>3. Last(s, n)
        BY <1>1, <3>2
      <3>4. f(n).width = NumeralUpto(cs, s)[n]
        BY <1>8, <3>3
      <3> QED
        BY <2>2, <3>4 DEF s
    <2> QED
      BY <2>1, <2>2
  <1> QED
    BY <1>9, <1>10, <1>11, <1>12, Zenon DEF S, Numeral

-----------------------------------------------------------------------------
(* What an item gives. *)

\* The characters that are written are characters.
LEMMA Strings ==
    /\ Space \in Glyph
    /\ \A t \in Seq(STRING) : t \in Seq(Glyph)
    /\ \A t \in Seq(FlagChars) : t \in Seq(Glyph)
    /\ <<"%">> \in Seq(Glyph) /\ <<"-">> \in Seq(Glyph) /\ "0" \in Glyph
  <1>2. FlagChars \subseteq Glyph
    <2>1. \A k \in 1 .. 10 : k \in Int
      OBVIOUS
    <2> QED
      BY <2>1, Zenon DEF FlagChars, Glyph
  <1>3. STRING \subseteq Glyph
    BY DEF Glyph
  <1>4. Space \in Glyph /\ "%" \in Glyph /\ "-" \in Glyph /\ "0" \in Glyph
    BY DEF Glyph
  <1>5. \A t \in Seq(STRING) : t \in Seq(Glyph)
    BY <1>3, SeqMonotonic
  <1>6. \A t \in Seq(FlagChars) : t \in Seq(Glyph)
    BY <1>2, SeqMonotonic
  <1> QED
    BY <1>3, <1>4, <1>5, <1>6

\* A number is written in the field that its directive asks for.
LEMMA FieldIs ==
    ASSUME NEW p \in Seq(Glyph), Len(p) \in 1 .. BufSize - 1, NEW cs \in Seq(FlagChars)
    PROVE  /\ print_buf_pad(p, Flags(cs).width, Flags(cs).pad) =
                [text |-> Field(p, cs), r |-> Len(Field(p, cs))]
           /\ Field(p, cs) \in Seq(Glyph)
  <1> DEFINE width == Flags(cs).width
             pad == Flags(cs).pad
  <1>1. Flags(cs) \in FlagSet
    BY FlagsAre
  <1>2. width \in Nat /\ pad \in Glyph
    BY <1>1, Strings DEF FlagSet
  <1> DEFINE W == IF Starts(cs) = {} THEN 0
                  ELSE Numeral(cs, CHOOSE i \in Starts(cs) : \A j \in Starts(cs) : j <= i)
             P == IF \E i \in Starts(cs) : cs[i] = "0" THEN "0" ELSE Space
  <1>3. width = W /\ pad = P
    BY FlagsAre, Zenon
  <1>4. Field(p, cs) = Repeat(P, IF W > Len(p) THEN W - Len(p) ELSE 0) \o p
    BY Zenon DEF Field
  <1> HIDE DEF width, pad, W, P
  <1>5. Field(p, cs) = Repeat(pad, IF width > Len(p) THEN width - Len(p) ELSE 0) \o p
    BY <1>3, <1>4
  <1>6. PICK text \in Seq(Glyph) :
          /\ text = Repeat(pad, IF width > Len(p) THEN width - Len(p) ELSE 0) \o p
          /\ print_buf_pad(p, width, pad) = [text |-> text, r |-> Len(text)]
    BY <1>2, PaddingIs
  <1>7. text = Field(p, cs)
    BY <1>5, <1>6
  <1> QED
    BY <1>6, <1>7 DEF width, pad

\* A number's field.
LEMMA NumberField ==
    ASSUME NEW val \in 0 .. (LongSize - 1), NEW cs \in Seq(FlagChars)
    PROVE  /\ print_buf_pad(print_decimal[val], Flags(cs).width, Flags(cs).pad) =
                [text |-> Field(Digits(val, 10), cs), r |-> Len(Field(Digits(val, 10), cs))]
           /\ print_buf_pad(print_hex[val], Flags(cs).width, Flags(cs).pad) =
                [text |-> Field(Digits(val, 16), cs), r |-> Len(Field(Digits(val, 16), cs))]
           /\ Field(Digits(val, 10), cs) \in Seq(Glyph)
           /\ Field(Digits(val, 16), cs) \in Seq(Glyph)
  <1>1. print_decimal[val] = Digits(val, 10) /\ print_hex[val] = Digits(val, 16)
    BY NumbersArePrinted
  <1>2. /\ print_decimal[val] \in Seq(Glyph) /\ Len(print_decimal[val]) \in 1 .. BufSize - 1
        /\ print_hex[val] \in Seq(Glyph) /\ Len(print_hex[val]) \in 1 .. BufSize - 1
    BY PrintedNumerals, NumeralFits
  <1> QED
    BY <1>1, <1>2, FieldIs

\* The arguments that printf takes from the list are unsigned longs.
LEMMA ArgumentTypes ==
    ASSUME NEW item \in Items
    PROVE  /\ item.flags \in Seq(FlagChars) /\ item.num \in Int
           /\ item.text \in Seq(STRING)
           /\ Flags(item.flags).is_long <=> IsLong(item)
           /\ Flags(item.flags) \in FlagSet
           /\ item.num % (IF IsLong(item) THEN LongSize ELSE IntSize) \in 0 .. (LongSize - 1)
           /\ Unsigned(Flags(item.flags), item.num) =
                item.num % (IF IsLong(item) THEN LongSize ELSE IntSize)
           /\ item.conv = "d" =>
                /\ (IF item.num < 0 THEN -item.num ELSE item.num) \in 0 .. (LongSize - 1)
                /\ LongSize + item.num \in 0 .. (LongSize - 1) \/ item.num >= 0
  <1>1. /\ item.flags \in Seq(FlagChars) /\ item.num \in Int
        /\ item.text \in Seq(STRING)
    BY DEF Items
  <1>2. Flags(item.flags).is_long <=> IsLong(item)
    BY <1>1, FlagsAre DEF IsLong
  <1>3. Flags(item.flags) \in FlagSet
    BY <1>1, FlagsAre
  <1> DEFINE size == IF IsLong(item) THEN LongSize ELSE IntSize
             d == item.num
  <1>4. LongSize \in Nat /\ IntSize \in Nat /\ size \in Nat /\ size >= 4 /\ size <= LongSize
    BY PrintfAssumption
  <1>5. d % size \in 0 .. (LongSize - 1)
    <2> HIDE DEF size, d
    <2>1. d \in Int
      BY <1>1 DEF d
    <2> QED
      BY <1>4, <2>1
  <1>6. Unsigned(Flags(item.flags), d) = d % size
    BY <1>2, <1>3 DEF Unsigned, FlagSet
  <1>7. ASSUME item.conv = "d"
        PROVE  /\ (IF d < 0 THEN -d ELSE d) \in 0 .. (LongSize - 1)
               /\ LongSize + d \in 0 .. (LongSize - 1) \/ d >= 0
    <2>1. -(size \div 2) <= d /\ d < size \div 2
      BY <1>7 DEF Items
    <2> HIDE DEF size, d
    <2>2. d \in Int
      BY <1>1 DEF d
    <2> QED
      BY <1>4, <2>1, <2>2
  <1> QED
    BY <1>1, <1>2, <1>3, <1>5, <1>6, <1>7

Uncounted(item) == IF NegativeLong(item) THEN 1 ELSE 0

\* What printf writes for an item, and counts, is the text of the item: all but
\* the least int, whose minus is undefined, and the sign of a long, which is not
\* counted (src/printf.c:97-201).
LEMMA OutputsAre ==
    ASSUME NEW item \in Items
    PROVE  /\ RefText(item) \in Seq(Glyph)
           /\ \A out \in Outputs(item) : out.text \in Seq(Glyph) /\ out.r \in Int
           /\ ~LeastInt(item) =>
                \A out \in Outputs(item) :
                    out.text = RefText(item) /\ out.r = Len(RefText(item)) - Uncounted(item)
  <1> DEFINE cs == item.flags
             f == Flags(cs)
             d == item.num
             abs == IF d < 0 THEN -d ELSE d
             val == d % (IF IsLong(item) THEN LongSize ELSE IntSize)
             Padded(digits) == print_buf_pad(digits, f.width, f.pad)
             Text(t) == /\ RefText(item) = t /\ t \in Seq(Glyph)
                        /\ Outputs(item) = {[text |-> t, r |-> Len(t)]}
                        /\ item.conv # "d"
  <1>1. /\ cs \in Seq(FlagChars) /\ d \in Int /\ item.text \in Seq(STRING)
        /\ f.is_long <=> IsLong(item)
        /\ f \in FlagSet /\ val \in 0 .. (LongSize - 1) /\ Unsigned(f, d) = val
    BY ArgumentTypes
  <1>2. ASSUME NEW t, Text(t)
        PROVE  /\ RefText(item) \in Seq(Glyph)
               /\ \A out \in Outputs(item) : out.text \in Seq(Glyph) /\ out.r \in Int
               /\ ~LeastInt(item) =>
                    \A out \in Outputs(item) :
                        /\ out.text = RefText(item)
                        /\ out.r = Len(RefText(item)) - Uncounted(item)
    <2>1. Uncounted(item) = 0 /\ Len(t) \in Nat
      BY <1>2 DEF Uncounted, NegativeLong
    <2> QED
      BY <1>2, <2>1
  <1>3. CASE item.conv \in {"char", "s"}
    <2>1. item.text \in Seq(Glyph)
      BY <1>1, Strings
    <2>2. Text(item.text)
      BY <1>3, <2>1 DEF Outputs, RefText
    <2> QED
      BY <1>2, <2>2
  <1>4. CASE item.conv = "%"
    <2>1. Text(<<"%">>)
      BY <1>4, Strings DEF Outputs, RefText
    <2> QED
      BY <1>2, <2>1
  <1>5. CASE item.conv = "u"
    <2> DEFINE t == Field(Digits(val, 10), cs)
    <2>1. Padded(print_decimal[val]) = [text |-> t, r |-> Len(t)] /\ t \in Seq(Glyph)
      BY <1>1, NumberField
    <2>2. Outputs(item) = {Padded(print_decimal[val])} /\ RefText(item) = t
      BY <1>1, <1>5 DEF Outputs, RefText
    <2>3. Text(t)
      BY <1>5, <2>1, <2>2
    <2> QED
      BY <1>2, <2>3
  <1>6. CASE item.conv = "x"
    <2> DEFINE t == Field(Digits(val, 16), cs)
    <2>1. Padded(print_hex[val]) = [text |-> t, r |-> Len(t)] /\ t \in Seq(Glyph)
      BY <1>1, NumberField
    <2>2. Outputs(item) = {Padded(print_hex[val])} /\ RefText(item) = t
      BY <1>1, <1>6 DEF Outputs, RefText
    <2>3. Text(t)
      BY <1>6, <2>1, <2>2
    <2> QED
      BY <1>2, <2>3
  <1>7. CASE item.conv \notin {"char", "s", "%", "d", "u", "x"}
    <2>1. <<"%">> \o cs \in Seq(Glyph)
      BY <1>1, Strings, ConcatProperties
    <2>2. Text(<<"%">> \o cs)
      BY <1>7, <2>1 DEF Outputs, RefText
    <2> QED
      BY <1>2, <2>2
  <1>8. CASE item.conv = "d"
    <2> DEFINE t == Field(Digits(abs, 10), cs)
               Out(v) == IF d < 0
                         THEN Sum(<<"-">>, IF f.is_long THEN 0 ELSE 1, Padded(print_decimal[v]))
                         ELSE Padded(print_decimal[v])
    <2>1. /\ abs \in 0 .. (LongSize - 1)
          /\ LongSize + d \in 0 .. (LongSize - 1) \/ d >= 0
      BY <1>8, ArgumentTypes
    <2>2. Outputs(item) = {Out(v) : v \in Magnitudes(f, d)}
      BY <1>8 DEF Outputs
    <2>3. RefText(item) = (IF d < 0 THEN <<"-">> ELSE <<>>) \o t
      BY <1>8 DEF RefText
    <2>4. Padded(print_decimal[abs]) = [text |-> t, r |-> Len(t)] /\ t \in Seq(Glyph)
      BY <1>1, <2>1, NumberField
    <2>5. Magnitudes(f, d) \subseteq {abs, LongSize + d} /\ (d >= 0 => Magnitudes(f, d) = {d})
      BY <1>1 DEF Magnitudes
    <2>6. ~LeastInt(item) => Magnitudes(f, d) = {abs}
      BY <1>1, <1>8 DEF Magnitudes, LeastInt
    <2>7. CASE d >= 0
      <3>1. abs = d /\ RefText(item) = <<>> \o t /\ <<>> \o t = t
        BY <1>1, <2>3, <2>4, <2>7, ConcatEmptySeq
      <3>2. Outputs(item) = {[text |-> t, r |-> Len(t)]}
        <4>1. ~(d < 0)
          BY <1>1, <2>7
        <4>2. Out(d) = Padded(print_decimal[d])
          BY <4>1
        <4>3. Out(d) = [text |-> t, r |-> Len(t)]
          BY <2>4, <3>1, <4>2
        <4>4. Magnitudes(f, d) = {d}
          BY <2>5, <2>7
        <4> HIDE DEF Out, t, f
        <4> QED
          BY <2>2, <4>3, <4>4
      <3>3. Uncounted(item) = 0 /\ Len(t) \in Nat
        BY <1>1, <2>4, <2>7 DEF Uncounted, NegativeLong
      <3> HIDE DEF t
      <3> QED
        BY <2>4, <3>1, <3>2, <3>3
    <2>8. CASE d < 0
      <3>1. ASSUME NEW v \in 0 .. (LongSize - 1)
            PROVE  /\ Out(v).text = <<"-">> \o Field(Digits(v, 10), cs)
                   /\ Out(v).text \in Seq(Glyph)
                   /\ Out(v).r = (IF f.is_long THEN 0 ELSE 1) + Len(Field(Digits(v, 10), cs))
                   /\ Out(v).r \in Int
        <4> DEFINE w == Field(Digits(v, 10), cs)
        <4>1. Padded(print_decimal[v]) = [text |-> w, r |-> Len(w)] /\ w \in Seq(Glyph)
          BY <1>1, NumberField
        <4>2. Out(v) = Sum(<<"-">>, IF f.is_long THEN 0 ELSE 1, Padded(print_decimal[v]))
          BY <2>8
        <4>3. <<"-">> \o w \in Seq(Glyph)
          BY <4>1, Strings, ConcatProperties
        <4> HIDE DEF w, Padded, Out
        <4> QED
          BY <4>1, <4>2, <4>3 DEF Sum, w
      <3>2. \A v \in Magnitudes(f, d) : v \in 0 .. (LongSize - 1)
        <4>1. LongSize + d \in 0 .. (LongSize - 1)
          BY <1>1, <2>1, <2>8
        <4> HIDE DEF abs, f
        <4> QED
          BY <2>1, <2>5, <4>1
      <3>3. RefText(item) = <<"-">> \o t
        BY <2>3, <2>8
      <3>4. RefText(item) \in Seq(Glyph) /\ Len(RefText(item)) = 1 + Len(t) /\ Len(t) \in Nat
        <4>1. Len(<<"-">>) = 1
          OBVIOUS
        <4> HIDE DEF t
        <4> QED
          BY <2>4, <3>3, <4>1, Strings, ConcatProperties
      <3>5. f.is_long <=> Uncounted(item) = 1
        <4>1. NegativeLong(item) <=> IsLong(item)
          BY <1>8, <2>8 DEF NegativeLong
        <4> HIDE DEF f
        <4>2. CASE IsLong(item)
          BY <1>1, <4>1, <4>2 DEF Uncounted
        <4>3. CASE ~IsLong(item)
          <5>1. Uncounted(item) = 0
            BY <4>1, <4>3 DEF Uncounted
          <5>2. Uncounted(item) # 1
            BY <5>1
          <5> QED
            BY <1>1, <4>3, <5>2, Zenon
        <4> QED
          BY <4>2, <4>3
      <3>6. Uncounted(item) \in {0, 1}
        BY DEF Uncounted
      <3> HIDE DEF Out, t, f
      <3>7. \A out \in Outputs(item) : out.text \in Seq(Glyph) /\ out.r \in Int
        BY <2>2, <3>1, <3>2
      <3>8. ASSUME ~LeastInt(item), NEW out \in Outputs(item)
            PROVE  /\ out.text = RefText(item)
                   /\ out.r = Len(RefText(item)) - Uncounted(item)
        <4>1. out = Out(abs)
          BY <2>2, <2>6, <3>8
        <4>2. out.text = <<"-">> \o t /\ out.r = (IF f.is_long THEN 0 ELSE 1) + Len(t)
          BY <2>1, <3>1, <4>1 DEF t
        <4>3. out.r = Len(RefText(item)) - Uncounted(item)
          <5>1. CASE f.is_long
            BY <3>4, <3>5, <4>2, <5>1
          <5>2. CASE ~f.is_long
            BY <3>4, <3>5, <3>6, <4>2, <5>2
          <5> QED
            BY <5>1, <5>2
        <4> QED
          BY <3>3, <4>2, <4>3
      <3> QED
        BY <3>4, <3>7, <3>8
    <2> QED
      BY <1>1, <2>7, <2>8
  <1> QED
    BY <1>3, <1>4, <1>5, <1>6, <1>7, <1>8

-----------------------------------------------------------------------------
(* The text of a format. *)

\* Where texts are joined does not matter.
Joined(a, b, c) == (a \o b) \o c = a \o (b \o c)

\* That is so of any three texts.
LEMMA JoinedAnywhere ==
    ASSUME NEW D, NEW a \in Seq(D), NEW b \in Seq(D), NEW c \in Seq(D)
    PROVE  Joined(a, b, c)
  <1>1. (a \o b) \o c = a \o (b \o c)
    BY ConcatAssociative
  <1> QED
    BY <1>1, Zenon DEF Joined

\* The text of a format grows by an item at a time.
LEMMA TextUptoIs ==
    ASSUME NEW fmt \in Seq(Items)
    PROVE  /\ TextUpto(fmt) \in [0 .. Len(fmt) -> Seq(Glyph)]
           /\ TextUpto(fmt)[0] = <<>>
           /\ \A i \in 1 .. Len(fmt) :
                TextUpto(fmt)[i] = TextUpto(fmt)[i - 1] \o RefText(fmt[i])
  <1> DEFINE n == Len(fmt)
             F == CHOOSE U : U = [i \in 0 .. n |-> IF i = 0 THEN <<>> ELSE U[i - 1] \o RefText(fmt[i])]
             D == Seq(Glyph)
             step == [p \in D \X (1 .. n) |-> p[1] \o RefText(fmt[p[2]])]
  <1>1. TextUpto(fmt) = F
    BY Zenon DEF TextUpto
  <1>2. <<>> \in D /\ n \in Nat
    OBVIOUS
  <1>3. \A t \in D, i \in 1 .. n : t \o RefText(fmt[i]) \in D
    <2>1. \A i \in 1 .. n : RefText(fmt[i]) \in D
      BY OutputsAre
    <2> HIDE DEF n
    <2> QED
      BY <2>1, ConcatProperties
  <1>4. step \in [D \X (1 .. n) -> D]
    <2> HIDE DEF D, n
    <2> QED
      BY <1>3
  <1>5. PICK u \in [0 .. n -> D] : Ascends(u, <<>>, n, step)
    <2> HIDE DEF F, D, n, step
    <2> QED
      BY <1>2, <1>4, RecursionExists
  <1>6. \A i \in 1 .. n : u[i] = u[i - 1] \o RefText(fmt[i]) /\ i # 0
    <2> SUFFICES ASSUME NEW i \in 1 .. n
                 PROVE  u[i] = u[i - 1] \o RefText(fmt[i]) /\ i # 0
      OBVIOUS
    <2>1. u[i] = step[<<u[i - 1], i>>]
      BY <1>5 DEF Ascends
    <2>2. u[i - 1] \in D
      BY <1>2
    <2>3. i # 0
      BY <1>2
    <2> HIDE DEF D, n
    <2>4. step[<<u[i - 1], i>>] = u[i - 1] \o RefText(fmt[i])
      BY <2>2
    <2> QED
      BY <2>1, <2>3, <2>4
  <1>7. u = [i \in 0 .. n |-> IF i = 0 THEN <<>> ELSE u[i - 1] \o RefText(fmt[i])]
    <2>1. u[0] = <<>>
      BY <1>5 DEF Ascends
    <2>2. ASSUME NEW i \in 0 .. n
          PROVE  u[i] = IF i = 0 THEN <<>> ELSE u[i - 1] \o RefText(fmt[i])
      <3>1. i = 0 \/ i \in 1 .. n
        BY <1>2
      <3> HIDE DEF D, n, step
      <3> QED
        BY <1>6, <2>1, <3>1
    <2>3. u = [i \in 0 .. n |-> u[i]]
      <3> HIDE DEF D, n, step
      <3> QED
        BY <1>5
    <2> HIDE DEF D, n, step
    <2> QED
      BY <2>2, <2>3
  <1>8. F = [i \in 0 .. n |-> IF i = 0 THEN <<>> ELSE F[i - 1] \o RefText(fmt[i])]
    BY <1>7, Zenon
  <1> HIDE DEF F
  <1>9. F[0] = <<>> /\ \A i \in 1 .. n : F[i] = F[i - 1] \o RefText(fmt[i])
    <2>1. 0 \in 0 .. n /\ \A i \in 1 .. n : i \in 0 .. n /\ i # 0
      BY <1>2
    <2> HIDE DEF n
    <2> DEFINE G == [i \in 0 .. n |-> IF i = 0 THEN <<>> ELSE F[i - 1] \o RefText(fmt[i])]
    <2>2. \A i \in 0 .. n : G[i] = IF i = 0 THEN <<>> ELSE F[i - 1] \o RefText(fmt[i])
      BY Zenon
    <2>3. F = G
      BY <1>8
    <2> HIDE DEF G
    <2>4. F[0] = <<>>
      BY <2>1, <2>2, <2>3
    <2>5. ASSUME NEW i \in 1 .. n
          PROVE  F[i] = F[i - 1] \o RefText(fmt[i])
      <3>1. i \in 0 .. n /\ i # 0
        BY <2>1
      <3>2. G[i] = F[i - 1] \o RefText(fmt[i])
        BY <2>2, <3>1, Zenon
      <3> QED
        BY <2>3, <3>2
    <2> QED
      BY <2>4, <2>5
  <1>10. F \in [0 .. n -> D]
    <2>1. \A i \in 1 .. n : F[i - 1] \in D => F[i] \in D
      <3> HIDE DEF D, n
      <3> QED
        BY <1>3, <1>9
    <2>2. F = [i \in 0 .. n |-> F[i]]
      <3> HIDE DEF n
      <3> QED
        BY <1>8
    <2>3. F[0] \in D
      BY <1>9
    <2> HIDE DEF D, n
    <2> QED
      BY <1>2, <2>1, <2>2, <2>3, AscendTypes
  <1> QED
    BY <1>1, <1>9, <1>10, Zenon

\* The text of a format is a text, and no items give none.
LEMMA TextTypes ==
    /\ \A fmt \in Seq(Items) : TextOf(fmt) \in Seq(Glyph)
    /\ TextOf(<<>>) = <<>>
  <1>1. ASSUME NEW fmt \in Seq(Items)
        PROVE  TextOf(fmt) \in Seq(Glyph)
    <2>1. Len(fmt) \in 0 .. Len(fmt)
      OBVIOUS
    <2> QED
      BY <2>1, TextUptoIs DEF TextOf
  <1>2. <<>> \in Seq(Items) /\ Len(<<>>) = 0
    OBVIOUS
  <1> QED
    BY <1>1, <1>2, TextUptoIs DEF TextOf

\* One item more.
LEMMA TextAppend ==
    ASSUME NEW s \in Seq(Items), NEW e \in Items
    PROVE  TextOf(Append(s, e)) = TextOf(s) \o RefText(e)
  <1> DEFINE t == Append(s, e)
             n == Len(s)
             U == TextUpto(s)
             V == TextUpto(t)
             T == {i \in Nat : i <= n => U[i] = V[i]}
  <1>1. t \in Seq(Items) /\ Len(t) = n + 1 /\ t[n + 1] = e /\ n \in Nat
        /\ \A i \in 1 .. n : t[i] = s[i]
    OBVIOUS
  <1>2. U[0] = <<>> /\ \A i \in 1 .. n : U[i] = U[i - 1] \o RefText(s[i])
    BY TextUptoIs
  <1>3. V[0] = <<>> /\ \A i \in 1 .. n + 1 : V[i] = V[i - 1] \o RefText(t[i])
    <2> HIDE DEF t
    <2> QED
      BY <1>1, TextUptoIs
  <1> HIDE DEF t, U, V, n
  <1>4. 0 \in T
    BY <1>2, <1>3
  <1>5. ASSUME NEW i \in Nat, i \in T
        PROVE  i + 1 \in T
    <2> SUFFICES ASSUME i + 1 <= n PROVE U[i + 1] = V[i + 1]
      OBVIOUS
    <2>1. i + 1 \in 1 .. n /\ i + 1 \in 1 .. n + 1 /\ (i + 1) - 1 = i /\ U[i] = V[i]
      BY <1>1, <1>5
    <2> QED
      BY <1>1, <1>2, <1>3, <2>1
  <1> HIDE DEF T
  <1>6. \A i \in Nat : i \in T
    BY <1>4, <1>5, SetInduction
  <1>7. U[n] = V[n]
    BY <1>1, <1>6 DEF T
  <1>8. V[n + 1] = V[n] \o RefText(e)
    <2>1. n + 1 \in 1 .. n + 1 /\ (n + 1) - 1 = n
      BY <1>1
    <2> QED
      BY <1>1, <1>3, <2>1
  <1>9. TextOf(t) = V[n + 1] /\ TextOf(s) = U[n]
    BY <1>1 DEF TextOf, U, V, n
  <1> QED
    BY <1>7, <1>8, <1>9 DEF t

\* The first item and the rest.
LEMMA TextTail ==
    ASSUME NEW s \in Seq(Items), s # <<>>
    PROVE  TextOf(s) = RefText(Head(s)) \o TextOf(Tail(s))
  <1> DEFINE t == Tail(s)
             n == Len(t)
             h == RefText(Head(s))
             U == TextUpto(t)
             V == TextUpto(s)
             T == {i \in Nat : i <= n => V[i + 1] = h \o U[i]}
  <1>1. t \in Seq(Items) /\ Len(s) = n + 1 /\ s[1] = Head(s) /\ Head(s) \in Items /\ n \in Nat
        /\ \A i \in 1 .. n : t[i] = s[i + 1]
    OBVIOUS
  <1>2. U \in [0 .. n -> Seq(Glyph)] /\ U[0] = <<>>
        /\ \A i \in 1 .. n : U[i] = U[i - 1] \o RefText(t[i])
    <2> HIDE DEF t
    <2> QED
      BY <1>1, TextUptoIs
  <1>3. V[0] = <<>> /\ \A i \in 1 .. n + 1 : V[i] = V[i - 1] \o RefText(s[i])
    BY <1>1, TextUptoIs
  <1>4. h \in Seq(Glyph) /\ \A i \in 1 .. n : RefText(t[i]) \in Seq(Glyph)
    BY <1>1, OutputsAre
  <1> HIDE DEF t, U, V, n, h
  <1>5. 0 \in T
    <2>0. 1 \in 1 .. n + 1 /\ 1 - 1 = 0
      BY <1>1
    <2>1. V[1] = <<>> \o RefText(Head(s))
      BY <1>1, <1>3, <2>0
    <2>2. <<>> \o h = h /\ h \o <<>> = h
      BY <1>4, ConcatEmptySeq
    <2>3. V[0 + 1] = h \o U[0]
      BY <1>2, <2>1, <2>2 DEF h
    <2> QED
      BY <2>3
  <1>6. ASSUME NEW i \in Nat, i \in T
        PROVE  i + 1 \in T
    <2> SUFFICES ASSUME i + 1 <= n PROVE V[(i + 1) + 1] = h \o U[i + 1]
      OBVIOUS
    <2> DEFINE k == i + 1
    <2>1. k \in 1 .. n /\ k + 1 \in 1 .. n + 1 /\ (k + 1) - 1 = k /\ k - 1 = i /\ i \in 0 .. n
          /\ V[k] = h \o U[i]
      BY <1>1, <1>6
    <2> HIDE DEF k
    <2>2. V[k + 1] = (h \o U[i]) \o RefText(t[k])
      BY <1>1, <1>3, <2>1
    <2>3. U[k] = U[i] \o RefText(t[k])
      BY <1>2, <2>1
    <2>4. Joined(h, U[i], RefText(t[k]))
      <3>1. h \in Seq(Glyph) /\ U[i] \in Seq(Glyph) /\ RefText(t[k]) \in Seq(Glyph)
        BY <1>2, <1>4, <2>1
      <3> QED
        BY <3>1, JoinedAnywhere
    <2>5. (h \o U[i]) \o RefText(t[k]) = h \o (U[i] \o RefText(t[k]))
      BY <2>4, Zenon DEF Joined
    <2> QED
      BY <2>2, <2>3, <2>5 DEF k
  <1> HIDE DEF T
  <1>7. \A i \in Nat : i \in T
    BY <1>5, <1>6, SetInduction
  <1>8. V[n + 1] = h \o U[n]
    BY <1>1, <1>7 DEF T
  <1>9. TextOf(s) = V[n + 1] /\ TextOf(t) = U[n]
    BY <1>1 DEF TextOf, U, V, n
  <1> QED
    BY <1>8, <1>9 DEF t, h

\* How many signs printf does not count.
SignsLost(fmt) == Cardinality({i \in DOMAIN fmt : NegativeLong(fmt[i])})

\* Its first item and the rest.
LEMMA SignsTail ==
    ASSUME NEW s \in Seq(Items)
    PROVE  /\ SignsLost(s) \in Nat
           /\ s = <<>> => SignsLost(s) = 0
           /\ s # <<>> => SignsLost(s) = Uncounted(Head(s)) + SignsLost(Tail(s))
  <1> DEFINE N(fmt) == {i \in DOMAIN fmt : NegativeLong(fmt[i])}
  <1>1. ASSUME NEW fmt \in Seq(Items)
        PROVE  IsFiniteSet(N(fmt)) /\ Cardinality(N(fmt)) \in Nat
    <2>1. N(fmt) \in SUBSET (1 .. Len(fmt)) /\ Len(fmt) \in Nat
      OBVIOUS
    <2> HIDE DEF N
    <2>2. IsFiniteSet(1 .. Len(fmt))
      BY <2>1, FS_Interval
    <2>3. IsFiniteSet(N(fmt))
      BY <2>1, <2>2, FS_Subset
    <2> QED
      BY <2>3, FS_CardinalityType
  <1>2. ASSUME s = <<>>
        PROVE  SignsLost(s) = 0
    <2>1. N(s) = {}
      BY <1>2
    <2> HIDE DEF N
    <2> QED
      BY <2>1, FS_EmptySet DEF SignsLost, N
  <1>3. ASSUME s # <<>>
        PROVE  SignsLost(s) = Uncounted(Head(s)) + SignsLost(Tail(s))
    <2> DEFINE t == Tail(s)
               S == N(t)
               R == N(s) \ {1}
               f == [i \in S |-> i + 1]
    <2>1. t \in Seq(Items) /\ Len(s) = Len(t) + 1 /\ s[1] = Head(s) /\ Len(t) \in Nat
          /\ DOMAIN s = 1 .. Len(s) /\ DOMAIN t = 1 .. Len(t)
          /\ \A i \in 1 .. Len(t) : t[i] = s[i + 1]
      BY <1>3
    <2> HIDE DEF t
    <2>2. S \subseteq 1 .. Len(t) /\ R \subseteq 2 .. Len(s)
      BY <2>1
    <2>3. \A i \in 1 .. Len(t) : i \in S <=> i + 1 \in R
      BY <2>1
    <2>4. (1 \in N(s)) <=> NegativeLong(Head(s))
      BY <2>1
    <2>5. IsFiniteSet(S) /\ Cardinality(S) \in Nat /\ IsFiniteSet(N(s)) /\ Cardinality(N(s)) \in Nat
      BY <1>1, <2>1
    <2> HIDE DEF S, R, N
    <2>6. f \in Bijection(S, R)
      <3>1. f \in [S -> R]
        BY <2>2, <2>3
      <3>2. \A a, b \in S : f[a] = f[b] => a = b
        BY <2>2
      <3>3. \A b \in R : \E a \in S : f[a] = b
        <4> SUFFICES ASSUME NEW b \in R PROVE \E a \in S : f[a] = b
          OBVIOUS
        <4>1. b - 1 \in 1 .. Len(t) /\ (b - 1) + 1 = b
          BY <2>1, <2>2
        <4>2. b - 1 \in S
          BY <2>3, <4>1
        <4>3. f[b - 1] = b
          BY <4>1, <4>2
        <4> QED
          BY <4>2, <4>3
      <3> HIDE DEF f
      <3> QED
        BY <3>1, <3>2, <3>3 DEF Bijection, Injection, Surjection, IsInjective
    <2>7. Cardinality(R) = Cardinality(S)
      <3>1. ExistsBijection(S, R)
        BY <2>6 DEF ExistsBijection
      <3> QED
        BY <2>5, <3>1, FS_Bijection
    <2>8. Cardinality(R) = IF 1 \in N(s) THEN Cardinality(N(s)) - 1 ELSE Cardinality(N(s))
      BY <2>5, FS_RemoveElement DEF R
    <2>9. SignsLost(s) = Cardinality(N(s)) /\ SignsLost(t) = Cardinality(S)
      BY DEF SignsLost, S, N
    <2>10. Uncounted(Head(s)) = IF 1 \in N(s) THEN 1 ELSE 0
      BY <2>4 DEF Uncounted
    <2> QED
      BY <2>5, <2>7, <2>8, <2>9, <2>10 DEF t
  <1>4. SignsLost(s) \in Nat
    BY <1>1 DEF SignsLost
  <1> QED
    BY <1>2, <1>3, <1>4

-----------------------------------------------------------------------------
(* The steps. *)

\* The callbacks, the selectors that are none among them.
Callbacks ==
    DOMAIN Constant \cup DOMAIN Unsupported
        \cup {"GETC", "PUTS", "RESET_TERM", "SET_TERM_INT", "CLOSE"}
\* The UART's registers.
Uarts == [lcr : Int, mcr : Int, dll : Int, dlm : Int, thr : Seq(Glyph),
          rbr : {<<>>} \cup {<<c>> : c \in Keys}]
SerialTypeOK ==
    /\ uart \in Uarts /\ line \in Seq(Glyph) /\ todo \in Seq(Glyph)
    /\ items \in Seq(Items) /\ asked \in Seq(Items)
    /\ r \in Int /\ made \in Nat
    /\ fn \in {"boot", "idle", "printf"} \cup Callbacks

\* What each function leaves to be written, and that nothing was before printf.
Phases ==
    /\ fn = "boot" => made = 0
    /\ fn # "boot" => uart.lcr = 7
    /\ made = 0 => /\ fn \in {"boot", "idle"} /\ line = <<>> /\ uart.thr = <<>> /\ todo = <<>>
                   /\ asked = <<>> /\ call = <<>>
    /\ fn # "printf" => items = <<>>
    /\ fn \notin {"printf", "PUTS"} => todo = <<>>

\* While printf runs, its count and what is left make the whole count.
Counting ==
    /\ Defined(asked) => Defined(items)
    /\ fn = "printf" =>
         /\ call = <<"printf", asked>>
         /\ Defined(asked) =>
              r + Len(TextOf(items)) - SignsLost(items) = Len(TextOf(asked)) - SignsLost(asked)
    /\ fn \in Callbacks => call[1] = fn /\ (fn = "PUTS" => call[3] \in Buffers)

\* The kernel's registers, saved while a callback runs.
SavedRegisters ==
    fn \in Callbacks => /\ DOMAIN frame = VMStoUNIX
                        /\ \A i \in 2..8 : frame[i] = "kernel"
                        /\ \A i \in 9..15 : regs[i] = "kernel"

SerialInv ==
    SerialTypeOK /\ Phases /\ Counting /\ SavedRegisters /\ OutputComplete /\ AnswersRight

\* The arguments of a call follow its function.
LEMMA Tuples ==
    \A a, b, c :
        /\ <<a>> \o <<b, c>> = <<a, b, c>>
        /\ <<a>> \o <<b>> = <<a, b>>
        /\ <<a>> \o <<>> = <<a>>
  <1> SUFFICES ASSUME NEW a, NEW b, NEW c
               PROVE  /\ <<a>> \o <<b, c>> = <<a, b, c>>
                      /\ <<a>> \o <<b>> = <<a, b>>
                      /\ <<a>> \o <<>> = <<a>>
    OBVIOUS
  <1> DEFINE D == {a, b, c}
  <1>1. a \in D /\ b \in D /\ c \in D
    OBVIOUS
  <1> HIDE DEF D
  <1>2. /\ <<a>> \in Seq(D) /\ <<b>> \in Seq(D) /\ <<b, c>> \in Seq(D)
        /\ <<a, b>> \in Seq(D) /\ <<a, b, c>> \in Seq(D)
        /\ Len(<<a>>) = 1 /\ Len(<<b>>) = 1 /\ Len(<<b, c>>) = 2
        /\ Len(<<a, b>>) = 2 /\ Len(<<a, b, c>>) = 3
    BY <1>1
  <1>3. <<a>> \o <<>> = <<a>>
    BY <1>2, ConcatEmptySeq
  <1>4. <<a>> \o <<b>> = <<a, b>>
    <2> DEFINE t == <<a>> \o <<b>>
    <2>1. t \in Seq(D) /\ Len(t) = 2
          /\ \A i \in 1 .. 2 : t[i] = IF i <= 1 THEN <<a>>[i] ELSE <<b>>[i - 1]
      BY <1>2, ConcatProperties
    <2> HIDE DEF t
    <2>2. t[1] = a /\ t[2] = b
      BY <2>1
    <2>3. t = <<a, b>>
      BY <1>2, <2>1, <2>2
    <2> QED
      BY <2>3 DEF t
  <1>5. <<a>> \o <<b, c>> = <<a, b, c>>
    <2> DEFINE t == <<a>> \o <<b, c>>
    <2>1. t \in Seq(D) /\ Len(t) = 3
          /\ \A i \in 1 .. 3 : t[i] = IF i <= 1 THEN <<a>>[i] ELSE <<b, c>>[i - 1]
      BY <1>2, ConcatProperties
    <2> HIDE DEF t
    <2>2. t[1] = a /\ t[2] = b /\ t[3] = c
      BY <2>1
    <2>3. t = <<a, b, c>>
      BY <1>2, <2>1, <2>2
    <2> QED
      BY <2>3 DEF t
  <1> QED
    BY <1>3, <1>4, <1>5

\* The UART's line is set to 8 bits, and what it holds is not lost.
LEMMA LineIsSet ==
    ASSUME NEW u \in Uarts
    PROVE  /\ uart_init_line(u, 9600) \in Uarts
           /\ uart_init_line(u, 9600).lcr = 7
           /\ uart_init_line(u, 9600).thr = u.thr
  <1> DEFINE b == Baudconst(9600) % 256
             u1 == [u EXCEPT !.lcr = 135]
             u2 == [u1 EXCEPT !.dlm = 0]
             u3 == [u2 EXCEPT !.dll = b]
             u4 == [u3 EXCEPT !.lcr = 7]
             u5 == [u4 EXCEPT !.mcr = 15]
             u6 == [u5 EXCEPT !.rbr = <<>>]
  <1>1. b \in Int
    BY DEF Baudconst
  <1> HIDE DEF b
  <1>2. u1 \in Uarts /\ u1.lcr = 135 /\ u1.thr = u.thr /\ outb(u, Lcr, 135) = u1
    BY DEF Uarts, outb, Lcr, Thr
  <1> HIDE DEF u1
  <1>3. u2 \in Uarts /\ u2.lcr = 135 /\ u2.thr = u.thr /\ outb(u1, "Dlm", 0) = u2
    BY <1>2 DEF Uarts, outb, Lcr, Thr, Dlab
  <1> HIDE DEF u2
  <1>4. u3 \in Uarts /\ u3.thr = u.thr /\ outb(u2, Thr, b) = u3
    BY <1>1, <1>3 DEF Uarts, outb, Lcr, Thr, Dlab
  <1> HIDE DEF u3
  <1>5. u4 \in Uarts /\ u4.lcr = 7 /\ u4.thr = u.thr /\ outb(u3, Lcr, 7) = u4
    BY <1>4 DEF Uarts, outb, Lcr, Thr
  <1> HIDE DEF u4
  <1>6. u5 \in Uarts /\ u5.lcr = 7 /\ u5.thr = u.thr /\ outb(u4, "Mcr", 15) = u5
    BY <1>5 DEF Uarts, outb, Lcr, Thr
  <1> HIDE DEF u5
  <1>7. u6 \in Uarts /\ u6.lcr = 7 /\ u6.thr = u.thr
    BY <1>6 DEF Uarts
  <1>8. uart_init_line(u, 9600) = u6
    BY <1>2, <1>3, <1>4, <1>5, <1>6 DEF uart_init_line, b
  <1> HIDE DEF u6
  <1> QED
    BY <1>7, <1>8

\* A callback begins.
Enters(select, args) ==
    /\ select \in Callbacks \ {"PUTS"} /\ Kernel(select, args)
    /\ (<<select>> \o args)[1] = select
\* A callback returns.
Leaves(result, u) ==
    /\ fn \in Callbacks /\ Returns(fn, result, u)
    /\ u \in Uarts /\ u.lcr = 7 /\ u.thr = uart.thr
    /\ fn = "PUTS" => result = IF call[2] # 0 THEN ERR ELSE Len(call[3]) % IntSize

\* Each callback returns that way, and keeps what the UART holds.
LEMMA CallbacksReturn ==
    ASSUME SerialTypeOK, Phases,
           crb_getc \/ crb_puts \/ crb_reset_term \/ crb_set_term_int \/ crb_constant
    PROVE  \E result, u : Leaves(result, u)
  <1> USE DEF Leaves
  <1>1. uart \in Uarts
    BY DEF SerialTypeOK
  <1>2. fn # "boot" => uart.lcr = 7
    BY DEF Phases
  <1>3. CASE crb_getc
    <2>1. CASE fn = "GETC" /\ call[2] # 0 /\ Returns("GETC", ERR, uart)
      <3>1. Leaves(ERR, uart)
        BY <1>1, <1>2, <2>1 DEF Callbacks
      <3> QED
        BY <3>1
    <2>2. CASE fn = "GETC" /\ Returns("GETC", Head(uart.rbr), [uart EXCEPT !.rbr = <<>>])
      <3> DEFINE u == [uart EXCEPT !.rbr = <<>>]
      <3>1. u \in Uarts /\ u.lcr = uart.lcr /\ u.thr = uart.thr
        BY <1>1 DEF Uarts
      <3> HIDE DEF u
      <3>2. Returns("GETC", Head(uart.rbr), u)
        BY <2>2 DEF u
      <3>3. Leaves(Head(uart.rbr), u)
        BY <1>2, <2>2, <3>1, <3>2 DEF Callbacks
      <3> QED
        BY <3>3
    <2> QED
      BY <1>3, <2>1, <2>2 DEF crb_getc
  <1>4. CASE crb_puts
    <2> DEFINE v == IF call[2] # 0 THEN ERR ELSE Len(call[3]) % IntSize
    <2>1. Returns("PUTS", v, uart) /\ fn = "PUTS"
      BY <1>4 DEF crb_puts, Returns
    <2>2. Leaves(v, uart)
      BY <1>1, <1>2, <2>1 DEF Callbacks
    <2> QED
      BY <2>2
  <1>5. CASE crb_reset_term
    <2>1. CASE fn = "RESET_TERM" /\ Returns("RESET_TERM", ERR, uart)
      <3>1. Leaves(ERR, uart)
        BY <1>1, <1>2, <2>1 DEF Callbacks
      <3> QED
        BY <3>1
    <2>2. CASE fn = "RESET_TERM" /\ Returns("RESET_TERM", 0, uart_init_line(uart, 9600))
      <3>1. Leaves(0, uart_init_line(uart, 9600))
        BY <1>1, <2>2, LineIsSet DEF Callbacks
      <3> QED
        BY <3>1
    <2> QED
      BY <1>5, <2>1, <2>2 DEF crb_reset_term
  <1>6. CASE crb_set_term_int
    <2> DEFINE v == IF call[2] # 0 \/ HasBit(call[3], 2) \/ HasBit(call[3], 32) THEN ERR ELSE 0
    <2>1. Returns("SET_TERM_INT", v, uart) /\ fn = "SET_TERM_INT"
      BY <1>6 DEF crb_set_term_int, Returns
    <2> HIDE DEF v
    <2>2. Leaves(v, uart)
      BY <1>1, <1>2, <2>1 DEF Callbacks
    <2> QED
      BY <2>2
  <1>7. CASE crb_constant
    <2>1. CASE fn \in DOMAIN Constant /\ Returns(fn, Constant[fn], uart)
      <3>1. fn # "PUTS" /\ fn # "boot" /\ fn \in Callbacks
        BY <2>1 DEF Constant, Callbacks
      <3>2. Leaves(Constant[fn], uart)
        BY <1>1, <1>2, <2>1, <3>1
      <3> QED
        BY <3>2
    <2>2. CASE fn \in DOMAIN Unsupported /\ Returns(fn, Unsupported[fn], uart)
      <3>1. fn # "PUTS" /\ fn # "boot" /\ fn \in Callbacks
        BY <2>2 DEF Unsupported, Callbacks
      <3>2. Leaves(Unsupported[fn], uart)
        BY <1>1, <1>2, <2>2, <3>1
      <3> QED
        BY <3>2
    <2>3. CASE Returns("CLOSE", 0, uart)
      <3>1. fn = "CLOSE"
        BY <2>3 DEF Returns
      <3>2. Leaves(0, uart)
        BY <1>1, <1>2, <2>3, <3>1 DEF Callbacks
      <3> QED
        BY <3>2
    <2> QED
      BY <1>7, <2>1, <2>2, <2>3 DEF crb_constant
  <1> QED
    BY <1>3, <1>4, <1>5, <1>6, <1>7

\* The steps, with the callbacks that change the same state taken together.
LEMMA SerialActions ==
    ASSUME SerialTypeOK, Phases, SerialNext
    PROVE  \/ Sent \/ (\E c \in Keys : Typed(c)) \/ uart_putchar_raw \/ uart_init
           \/ (\E fmt \in Formats : printf(fmt)) \/ PrintItem \/ PrintfReturns
           \/ (\E unit \in Units, buf \in Buffers : PutsCall(unit, buf))
           \/ (\E select, args : Enters(select, args))
           \/ (\E result, u : Leaves(result, u))
  <1>1. ASSUME NEW unit \in Units, NEW select \in {"GETC", "RESET_TERM"}, Kernel(select, <<unit>>)
        PROVE  Enters(select, <<unit>>)
    <2>1. (<<select>> \o <<unit>>)[1] = select
      BY Tuples
    <2> QED
      BY <1>1, <2>1 DEF Enters, Callbacks
  <1>2. ASSUME NEW unit \in Units, NEW mask \in {0, 1, 2, 32},
               Kernel("SET_TERM_INT", <<unit, mask>>)
        PROVE  Enters("SET_TERM_INT", <<unit, mask>>)
    <2>1. (<<"SET_TERM_INT">> \o <<unit, mask>>)[1] = "SET_TERM_INT"
      BY Tuples
    <2> QED
      BY <1>2, <2>1 DEF Enters, Callbacks
  <1>3. ASSUME NEW select \in DOMAIN Constant \cup DOMAIN Unsupported \cup {"CLOSE"},
               Kernel(select, <<>>)
        PROVE  Enters(select, <<>>)
    <2>1. (<<select>> \o <<>>)[1] = select
      BY Tuples
    <2>2. select \in Callbacks \ {"PUTS"}
      BY DEF Callbacks, Constant, Unsupported
    <2> QED
      BY <1>3, <2>1, <2>2 DEF Enters
  <1>4. ASSUME crb_getc \/ crb_puts \/ crb_reset_term \/ crb_set_term_int \/ crb_constant
        PROVE  \E result, u : Leaves(result, u)
    BY <1>4, CallbacksReturn
  <1> QED
    BY <1>1, <1>2, <1>3, <1>4 DEF SerialNext

\* What a call of PUTS asks for is an item with its characters for text.
PutsItem(buf) == [conv |-> "s", flags |-> <<>>, num |-> 0, text |-> buf]

\* It is written unchanged, and its length fits an int.
LEMMA PutsItemIs ==
    ASSUME NEW buf \in Buffers
    PROVE  /\ PutsItem(buf) \in Items /\ RefText(PutsItem(buf)) = buf
           /\ ~LeastInt(PutsItem(buf)) /\ buf \in Seq(Glyph) /\ Len(buf) % IntSize = Len(buf)
  <1>1. buf \in Seq(STRING) /\ Len(buf) < IntSize /\ Len(buf) \in Nat /\ IntSize \in Nat
    BY SerialAssumption, PrintfAssumption
  <1>2. <<>> \in Seq(FlagChars)
    OBVIOUS
  <1>3. PutsItem(buf) \in [conv : Conversions, flags : Seq(FlagChars), num : Int, text : Seq(STRING)]
    BY <1>1, <1>2 DEF PutsItem, Conversions
  <1>4. PutsItem(buf).conv = "s" /\ PutsItem(buf).text = buf
    BY DEF PutsItem
  <1>5. PutsItem(buf) \in Items
    BY <1>3, <1>4 DEF Items
  <1>6. Len(buf) % IntSize = Len(buf)
    <2> DEFINE k == Len(buf)
    <2>1. k \in Nat /\ k < IntSize /\ IntSize \in Nat
      BY <1>1
    <2> HIDE DEF k
    <2>2. k % IntSize = k
      BY <2>1
    <2> QED
      BY <2>2 DEF k
  <1> QED
    BY <1>1, <1>4, <1>5, <1>6, Strings DEF RefText, LeastInt

\* What THR holds is replaced; with DLAB clear, what is written goes there.
LEMMA HolderIsReplaced ==
    ASSUME NEW u \in Uarts
    PROVE  /\ \A t \in Seq(Glyph) :
                /\ [u EXCEPT !.thr = t] \in Uarts
                /\ [u EXCEPT !.thr = t].lcr = u.lcr /\ [u EXCEPT !.thr = t].thr = t
           /\ u.lcr = 7 =>
                \A c \in Glyph : /\ outb(u, Thr, c) \in Uarts
                                 /\ outb(u, Thr, c).lcr = 7 /\ outb(u, Thr, c).thr = <<c>>
  <1>1. ASSUME NEW t \in Seq(Glyph)
        PROVE  /\ [u EXCEPT !.thr = t] \in Uarts
               /\ [u EXCEPT !.thr = t].lcr = u.lcr /\ [u EXCEPT !.thr = t].thr = t
    BY DEF Uarts
  <1>2. ASSUME u.lcr = 7, NEW c \in Glyph
        PROVE  /\ outb(u, Thr, c) \in Uarts
               /\ outb(u, Thr, c).lcr = 7 /\ outb(u, Thr, c).thr = <<c>>
    <2> DEFINE t == <<c>>
    <2>1. ~Dlab(u)
      BY <1>2 DEF Dlab
    <2>2. outb(u, Thr, c) = [u EXCEPT !.thr = t]
      BY <2>1, SMT DEF outb, Thr, Lcr
    <2>3. t \in Seq(Glyph)
      OBVIOUS
    <2> HIDE DEF t
    <2>4. outb(u, Thr, c) \in Uarts /\ outb(u, Thr, c).lcr = 7 /\ outb(u, Thr, c).thr = t
      BY <1>1, <1>2, <2>2, <2>3
    <2> QED
      BY <2>4 DEF t
  <1> QED
    BY <1>1, <1>2

\* Every step keeps the types: what is written is made of characters.
LEMMA TypesKept ==
    ASSUME SerialTypeOK, Phases, SerialNext
    PROVE  SerialTypeOK'
  <1> USE DEF SerialTypeOK
  <1> DEFINE G == Seq(Glyph)
  <1>1. CASE Sent
    <2>1. uart.thr \in G
      BY DEF Uarts
    <2>2. line \o uart.thr \in G
      BY <2>1, ConcatProperties
    <2>3. uart' \in Uarts
      <3>1. <<>> \in Seq(Glyph)
        OBVIOUS
      <3> QED
        BY <1>1, <3>1, HolderIsReplaced DEF Sent
    <2> QED
      BY <1>1, <2>2, <2>3 DEF Sent
  <1>2. ASSUME NEW c \in Keys, Typed(c)
        PROVE  SerialTypeOK'
    <2>1. uart' \in Uarts
      BY <1>2 DEF Typed, Uarts
    <2> QED
      BY <1>2, <2>1 DEF Typed
  <1>3. CASE uart_putchar_raw
    <2>1. Head(todo) \in Glyph /\ Tail(todo) \in G
      BY <1>3 DEF uart_putchar_raw
    <2>3. uart.lcr = 7
      BY <1>3 DEF uart_putchar_raw, Phases
    <2>4. uart' = outb(uart, Thr, Head(todo))
      BY <1>3 DEF uart_putchar_raw
    <2>5. uart' \in Uarts
      BY <2>1, <2>3, <2>4, HolderIsReplaced
    <2> QED
      BY <1>3, <2>1, <2>5 DEF uart_putchar_raw
  <1>4. CASE uart_init
    <2>1. uart' \in Uarts
      BY <1>4, LineIsSet DEF uart_init
    <2> QED
      BY <1>4, <2>1 DEF uart_init
  <1>5. ASSUME NEW fmt \in Formats, printf(fmt)
        PROVE  SerialTypeOK'
    <2>1. fmt \in Seq(Items)
      BY SerialAssumption
    <2>2. asked \o fmt \in Seq(Items)
      BY <2>1, ConcatProperties
    <2> QED
      BY <1>5, <2>1, <2>2 DEF printf
  <1>6. CASE PrintItem
    <2>1. Head(items) \in Items /\ Tail(items) \in Seq(Items)
      BY <1>6 DEF PrintItem
    <2>2. todo' \in G /\ r' \in Int
      BY <1>6, <2>1, OutputsAre DEF PrintItem
    <2> QED
      BY <1>6, <2>1, <2>2 DEF PrintItem
  <1>7. CASE PrintfReturns
    BY <1>7 DEF PrintfReturns
  <1>8. ASSUME NEW unit \in Units, NEW buf \in Buffers, PutsCall(unit, buf)
        PROVE  SerialTypeOK'
    <2> DEFINE e == PutsItem(buf)
    <2>1. e \in Items /\ buf \in G
      BY PutsItemIs
    <2>2. todo' \in G
      BY <1>8, <2>1 DEF PutsCall
    <2>3. asked' = IF unit = 0 THEN Append(asked, e) ELSE asked
      BY <1>8 DEF PutsCall, PutsItem
    <2> HIDE DEF e
    <2>4. asked' \in Seq(Items)
      BY <2>1, <2>3
    <2> QED
      BY <1>8, <2>2, <2>4 DEF PutsCall, crb_dispatch, Callbacks
  <1>9. ASSUME NEW select, NEW args, Enters(select, args)
        PROVE  SerialTypeOK'
    BY <1>9 DEF Enters, Kernel, crb_dispatch
  <1>10. ASSUME NEW result, NEW u, Leaves(result, u)
         PROVE  SerialTypeOK'
    BY <1>10 DEF Leaves, Returns
  <1> QED
    BY <1>1, <1>2, <1>3, <1>4, <1>5, <1>6, <1>7, <1>8, <1>9, <1>10, SerialActions

\* No step leaves characters behind for another function.
LEMMA PhasesKept ==
    ASSUME SerialTypeOK, Phases, SerialNext
    PROVE  Phases'
  <1> USE DEF Phases
  <1>0. uart \in Uarts /\ made \in Nat
    BY DEF SerialTypeOK
  <1>1. CASE Sent
    <2>1. uart'.lcr = uart.lcr /\ uart'.thr = <<>>
      <3>1. <<>> \in Seq(Glyph)
        OBVIOUS
      <3> QED
        BY <1>0, <1>1, <3>1, HolderIsReplaced DEF Sent
    <2>2. made # 0
      BY <1>1 DEF Sent
    <2> QED
      BY <1>1, <2>1, <2>2 DEF Sent
  <1>2. ASSUME NEW c \in Keys, Typed(c)
        PROVE  Phases'
    <2>1. uart'.lcr = uart.lcr /\ uart'.thr = uart.thr
      BY <1>0, <1>2 DEF Typed, Uarts
    <2> QED
      BY <1>2, <2>1 DEF Typed
  <1>3. CASE uart_putchar_raw
    <2>1. uart.lcr = 7 /\ made # 0 /\ fn \in {"printf", "PUTS"}
      BY <1>3 DEF uart_putchar_raw
    <2>2. Head(todo) \in Glyph /\ uart' = outb(uart, Thr, Head(todo))
      BY <1>3 DEF uart_putchar_raw, SerialTypeOK
    <2>3. uart'.lcr = 7
      BY <1>0, <2>1, <2>2, HolderIsReplaced
    <2> QED
      BY <1>3, <2>1, <2>3 DEF uart_putchar_raw
  <1>4. CASE uart_init
    <2>1. uart'.lcr = 7 /\ uart'.thr = uart.thr
      BY <1>0, <1>4, LineIsSet DEF uart_init
    <2> QED
      BY <1>4, <2>1 DEF uart_init
  <1>5. ASSUME NEW fmt \in Formats, printf(fmt)
        PROVE  Phases'
    BY <1>0, <1>5 DEF printf
  <1>6. CASE PrintItem
    BY <1>0, <1>6 DEF PrintItem
  <1>7. CASE PrintfReturns
    BY <1>0, <1>7 DEF PrintfReturns
  <1>8. ASSUME NEW unit \in Units, NEW buf \in Buffers, PutsCall(unit, buf)
        PROVE  Phases'
    BY <1>0, <1>8 DEF PutsCall, crb_dispatch
  <1>9. ASSUME NEW select, NEW args, Enters(select, args)
        PROVE  Phases'
    <2>1. fn' = select /\ select \in Callbacks \ {"PUTS"} /\ fn = "idle" /\ made' = made + 1
          /\ UNCHANGED <<uart, line, items, todo>>
      BY <1>9 DEF Enters, Kernel, crb_dispatch
    <2>2. select \notin {"boot", "printf"}
      BY <2>1 DEF Callbacks, Constant, Unsupported
    <2> QED
      BY <1>0, <2>1, <2>2
  <1>10. ASSUME NEW result, NEW u, Leaves(result, u)
         PROVE  Phases'
    <2>1. fn \notin {"boot", "idle", "printf"}
      BY <1>10 DEF Leaves, Callbacks, Constant, Unsupported
    <2> QED
      BY <1>0, <1>10, <2>1 DEF Leaves, Returns
  <1> QED
    BY <1>1, <1>2, <1>3, <1>4, <1>5, <1>6, <1>7, <1>8, <1>9, <1>10, SerialActions

\* The same for four.
JoinedIn(a, b, c, d) == ((a \o b) \o c) \o d = ((a \o <<>>) \o (b \o c)) \o d
JoinedOut(a, b, c, d) == ((a \o b) \o c) \o d = ((a \o b) \o <<>>) \o (c \o d)

\* Of four, the inner two first.
LEMMA JoinedInside ==
    ASSUME NEW D, NEW a \in Seq(D), NEW b \in Seq(D), NEW c \in Seq(D), NEW d \in Seq(D)
    PROVE  JoinedIn(a, b, c, d)
  <1>1. a \o <<>> = a
    BY ConcatEmptySeq
  <1>2. Joined(a, b, c)
    BY JoinedAnywhere
  <1> QED
    BY <1>1, <1>2, Zenon DEF Joined, JoinedIn

\* Of four, the last two first.
LEMMA JoinedOutside ==
    ASSUME NEW D, NEW a \in Seq(D), NEW b \in Seq(D), NEW c \in Seq(D), NEW d \in Seq(D)
    PROVE  JoinedOut(a, b, c, d)
  <1> DEFINE ab == a \o b
  <1>1. ab \in Seq(D)
    BY ConcatProperties
  <1> HIDE DEF ab
  <1>2. Joined(ab, c, d)
    BY <1>1, JoinedAnywhere
  <1>3. ab \o <<>> = ab
    BY <1>1, ConcatEmptySeq
  <1> QED
    BY <1>2, <1>3, Zenon DEF Joined, JoinedOut, ab

\* Empty texts add nothing.
LEMMA JoinedEmpty ==
    ASSUME NEW D, NEW a \in Seq(D), NEW b \in Seq(D), NEW c \in Seq(D)
    PROVE  /\ ((a \o b) \o c) \o <<>> = (((a \o b) \o <<>>) \o <<>>) \o c
           /\ (a \o b) \o <<>> = a \o b
           /\ ((<<>> \o <<>>) \o <<>>) \o a = a
  <1> DEFINE ab == a \o b
  <1>1. ab \in Seq(D) /\ <<>> \in Seq(D)
    BY ConcatProperties
  <1> HIDE DEF ab
  <1>2. ab \o c \in Seq(D)
    BY <1>1, ConcatProperties
  <1>3. ab \o <<>> = ab /\ (ab \o c) \o <<>> = ab \o c
    BY <1>1, <1>2, ConcatEmptySeq
  <1>4. <<>> \o <<>> = <<>> /\ <<>> \o a = a
    BY <1>1, ConcatEmptySeq
  <1>5. ((<<>> \o <<>>) \o <<>>) \o a = a
    BY <1>4, Zenon
  <1>6. (ab \o c) \o <<>> = ((ab \o <<>>) \o <<>>) \o c
    BY <1>3, Zenon
  <1> QED
    BY <1>3, <1>5, <1>6 DEF ab

\* No step loses, repeats or moves a character (src/printf.c:97-201, src/uart.c:64-69).
LEMMA OutputKept ==
    ASSUME SerialTypeOK, Phases, Counting, OutputComplete, SerialNext
    PROVE  OutputComplete'
  <1> DEFINE held == uart.thr
             rest == TextOf(items)
  <1>1. /\ uart \in Uarts /\ held \in Seq(Glyph) /\ line \in Seq(Glyph) /\ todo \in Seq(Glyph)
        /\ items \in Seq(Items) /\ asked \in Seq(Items) /\ rest \in Seq(Glyph)
        /\ <<>> \in Seq(Glyph)
    BY TextTypes DEF SerialTypeOK, Uarts
  <1>2. Defined(asked) => ((line \o held) \o todo) \o rest = TextOf(asked)
    BY DEF OutputComplete
  <1>3. ASSUME asked' = asked, Defined(asked)
                 => (((line' \o uart'.thr) \o todo') \o TextOf(items')
                       = ((line \o held) \o todo) \o rest)
        PROVE  OutputComplete'
    BY <1>2, <1>3 DEF OutputComplete
  <1> HIDE DEF held, rest
  <1>4. CASE Sent
    <2>1. uart'.thr = <<>> /\ line' = line \o held /\ UNCHANGED <<todo, items, asked>>
      BY <1>1, <1>4, HolderIsReplaced DEF Sent, held
    <2>2. ((line' \o uart'.thr) \o todo') \o TextOf(items') = ((line \o held) \o todo) \o rest
      <3>1. (line \o held) \o <<>> = line \o held
        BY <1>1, JoinedEmpty
      <3> QED
        BY <2>1, <3>1 DEF rest
    <2> QED
      BY <1>3, <2>1, <2>2
  <1>5. ASSUME NEW c \in Keys, Typed(c)
        PROVE  OutputComplete'
    <2>1. uart'.thr = held /\ UNCHANGED <<line, todo, items, asked>>
      BY <1>1, <1>5 DEF Typed, Uarts, held
    <2> QED
      BY <1>3, <2>1 DEF rest
  <1>6. CASE uart_putchar_raw
    <2>1. Head(todo) \in Glyph /\ Tail(todo) \in Seq(Glyph) /\ held = <<>>
          /\ todo = <<Head(todo)>> \o Tail(todo) /\ uart.lcr = 7
      <3>1. todo # <<>>
        BY <1>6 DEF uart_putchar_raw
      <3>2. todo = <<Head(todo)>> \o Tail(todo)
        BY <1>1, <3>1
      <3> QED
        BY <1>1, <1>6, <3>1, <3>2 DEF uart_putchar_raw, Phases, held
    <2>2. /\ uart'.thr = <<Head(todo)>> /\ todo' = Tail(todo) /\ UNCHANGED <<line, items, asked>>
      BY <1>1, <1>6, <2>1, HolderIsReplaced DEF uart_putchar_raw
    <2> DEFINE h == <<Head(todo)>>
               t == Tail(todo)
    <2>3. h \in Seq(Glyph) /\ t \in Seq(Glyph)
      BY <2>1
    <2> HIDE DEF h, t
    <2>4. JoinedIn(line, h, t, rest)
      BY <1>1, <2>3, JoinedInside
    <2>5. ((line \o h) \o t) \o rest = ((line \o <<>>) \o (h \o t)) \o rest
      BY <2>4, Zenon DEF JoinedIn
    <2>6. todo = h \o t /\ uart'.thr = h /\ todo' = t
      BY <2>1, <2>2 DEF h, t
    <2> QED
      BY <1>3, <2>1, <2>2, <2>5, <2>6 DEF rest
  <1>7. CASE uart_init
    <2>1. uart'.thr = held /\ UNCHANGED <<line, todo, items, asked>>
      BY <1>1, <1>7, LineIsSet DEF uart_init, held
    <2> QED
      BY <1>3, <2>1 DEF rest
  <1>8. ASSUME NEW fmt \in Formats, printf(fmt)
        PROVE  OutputComplete'
    <2>1. fmt \in Seq(Items)
      BY SerialAssumption
    <2>2. asked' = fmt /\ items' = fmt /\ line' = <<>> /\ uart'.thr = <<>> /\ todo' = <<>>
      <3>1. asked = <<>> /\ line = <<>> /\ uart.thr = <<>> /\ todo = <<>>
        BY <1>8 DEF printf, Phases
      <3>2. <<>> \o fmt = fmt
        BY <2>1, ConcatEmptySeq
      <3> QED
        BY <1>8, <3>1, <3>2 DEF printf
    <2>3. ((<<>> \o <<>>) \o <<>>) \o TextOf(fmt) = TextOf(fmt)
      BY <2>1, TextTypes, JoinedEmpty
    <2> QED
      BY <2>2, <2>3 DEF OutputComplete
  <1>9. CASE PrintItem
    <2> DEFINE e == Head(items)
               more == TextOf(Tail(items))
    <2>1. /\ e \in Items /\ Tail(items) \in Seq(Items) /\ rest = RefText(e) \o more
          /\ todo = <<>> /\ items' = Tail(items) /\ UNCHANGED <<uart, line, asked>>
      <3>1. items # <<>>
        BY <1>9 DEF PrintItem
      <3>2. rest = RefText(e) \o more
        BY <1>1, <3>1, TextTail DEF rest
      <3> QED
        BY <1>1, <1>9, <3>1, <3>2 DEF PrintItem
    <2>2. more \in Seq(Glyph) /\ RefText(e) \in Seq(Glyph)
      BY <2>1, TextTypes, OutputsAre
    <2>3. ASSUME Defined(asked)
          PROVE  todo' = RefText(e)
      <3>1. ~LeastInt(e)
        <4>1. Defined(items) /\ items # <<>> /\ 1 \in 1 .. Len(items) /\ items[1] = Head(items)
          BY <1>1, <1>9, <2>3 DEF Counting, PrintItem
        <4> QED
          BY <4>1 DEF Defined
      <3>2. \E out \in Outputs(e) : todo' = out.text
        BY <1>9 DEF PrintItem
      <3> QED
        BY <2>1, <3>1, <3>2, OutputsAre
    <2>4. ((line \o held) \o RefText(e)) \o more
            = ((line \o held) \o <<>>) \o (RefText(e) \o more)
      <3>1. JoinedOut(line, held, RefText(e), more)
        BY <1>1, <2>2, JoinedOutside
      <3> QED
        BY <3>1, Zenon DEF JoinedOut
    <2>5. uart'.thr = held
      BY <2>1 DEF held
    <2> HIDE DEF e
    <2> QED
      BY <1>3, <2>1, <2>3, <2>4, <2>5
  <1>10. CASE PrintfReturns
    <2>1. uart'.thr = held /\ UNCHANGED <<line, todo, items, asked>>
      BY <1>10 DEF PrintfReturns, held
    <2> QED
      BY <1>3, <2>1 DEF rest
  <1>11. ASSUME NEW unit \in Units, NEW buf \in Buffers, PutsCall(unit, buf)
         PROVE  OutputComplete'
    <2> DEFINE e == PutsItem(buf)
    <2>1. /\ e \in Items /\ RefText(e) = buf /\ buf \in Seq(Glyph)
      BY PutsItemIs
    <2>2. /\ asked' = IF unit = 0 THEN Append(asked, e) ELSE asked
          /\ todo' = IF unit = 0 THEN buf ELSE <<>>
          /\ UNCHANGED <<uart, line, items>>
          /\ todo = <<>> /\ items = <<>>
      BY <1>11 DEF PutsCall, crb_dispatch, PutsItem, Phases
    <2>3. uart'.thr = held /\ TextOf(items) = <<>> /\ rest = <<>>
      BY <2>2, TextTypes DEF held, rest
    <2> HIDE DEF e
    <2>4. CASE unit = 0
      <3>1. TextOf(asked') = TextOf(asked) \o buf
        BY <1>1, <2>1, <2>2, <2>4, TextAppend
      <3>2. Defined(asked') => Defined(asked)
        <4>1. \A i \in 1 .. Len(asked) : i \in 1 .. Len(asked') /\ asked'[i] = asked[i]
          BY <1>1, <2>1, <2>2, <2>4
        <4> QED
          BY <4>1 DEF Defined
      <3>3. ((line \o held) \o buf) \o <<>> = (((line \o held) \o <<>>) \o <<>>) \o buf
        BY <1>1, <2>1, JoinedEmpty
      <3> QED
        BY <1>2, <2>2, <2>3, <2>4, <3>1, <3>2, <3>3 DEF OutputComplete
    <2>5. CASE unit # 0
      BY <1>3, <2>2, <2>3, <2>5
    <2> QED
      BY <2>4, <2>5
  <1>12. ASSUME NEW select, NEW args, Enters(select, args)
         PROVE  OutputComplete'
    <2>1. uart'.thr = held /\ UNCHANGED <<line, todo, items, asked>>
      BY <1>12 DEF Enters, Kernel, crb_dispatch, held
    <2> QED
      BY <1>3, <2>1 DEF rest
  <1>13. ASSUME NEW result, NEW u, Leaves(result, u)
         PROVE  OutputComplete'
    <2>1. uart'.thr = held /\ UNCHANGED <<line, todo, items, asked>>
      BY <1>13 DEF Leaves, Returns, held
    <2> QED
      BY <1>3, <2>1 DEF rest
  <1> QED
    BY <1>4, <1>5, <1>6, <1>7, <1>8, <1>9, <1>10, <1>11, <1>12, <1>13, SerialActions

\* Each item adds to the count what it takes from what is left (src/printf.c:97-201).
LEMMA CountingKept ==
    ASSUME SerialTypeOK, Phases, Counting, SerialNext
    PROVE  Counting'
  <1> DEFINE Total == Len(TextOf(asked)) - SignsLost(asked)
             Left(s) == Len(TextOf(s)) - SignsLost(s)
  <1>1. /\ items \in Seq(Items) /\ asked \in Seq(Items) /\ r \in Int
        /\ "printf" \notin Callbacks /\ "idle" \notin Callbacks /\ "boot" \notin Callbacks
    BY DEF SerialTypeOK, Callbacks, Constant, Unsupported
  <1>2. \A s \in Seq(Items) : Left(s) \in Int
    <2>1. ASSUME NEW s \in Seq(Items)
          PROVE  Left(s) \in Int
      <3>1. Len(TextOf(s)) \in Nat /\ SignsLost(s) \in Nat
        BY TextTypes, SignsTail, LenProperties
      <3> QED
        BY <3>1
    <2> QED
      BY <2>1
  <1>3. ASSUME UNCHANGED <<fn, items, r, call, asked>>
        PROVE  Counting'
    BY <1>3 DEF Counting
  <1>4. CASE Sent
    BY <1>3, <1>4 DEF Sent
  <1>5. ASSUME NEW c \in Keys, Typed(c)
        PROVE  Counting'
    BY <1>3, <1>5 DEF Typed
  <1>6. CASE uart_putchar_raw
    BY <1>3, <1>6 DEF uart_putchar_raw
  <1>7. CASE uart_init
    BY <1>1, <1>7 DEF uart_init, Counting
  <1>8. ASSUME NEW fmt \in Formats, printf(fmt)
        PROVE  Counting'
    <2>1. fmt \in Seq(Items)
      BY SerialAssumption
    <2>2. asked' = fmt /\ items' = fmt /\ r' = 0 /\ call' = <<"printf", fmt>> /\ fn' = "printf"
      <3>1. asked = <<>>
        BY <1>8 DEF printf, Phases
      <3>2. <<>> \o fmt = fmt
        BY <2>1, ConcatEmptySeq
      <3> QED
        BY <1>8, <3>1, <3>2 DEF printf
    <2>3. Len(TextOf(fmt)) \in Nat /\ SignsLost(fmt) \in Nat
      BY <2>1, TextTypes, SignsTail, LenProperties
    <2>4. 0 + Len(TextOf(fmt)) - SignsLost(fmt) = Len(TextOf(fmt)) - SignsLost(fmt)
      BY <2>3
    <2> QED
      BY <1>1, <2>2, <2>4 DEF Counting
  <1>9. CASE PrintItem
    <2> DEFINE e == Head(items)
               rest == Tail(items)
    <2>1. /\ items # <<>> /\ fn = "printf" /\ fn' = "printf" /\ items' = rest
          /\ UNCHANGED <<call, asked>> /\ call = <<"printf", asked>>
      BY <1>9 DEF PrintItem, Counting
    <2>2. e \in Items /\ rest \in Seq(Items) /\ TextOf(items) = RefText(e) \o TextOf(rest)
          /\ SignsLost(items) = Uncounted(e) + SignsLost(rest)
      BY <1>1, <2>1, TextTail, SignsTail
    <2>3. ASSUME Defined(asked)
          PROVE  /\ Defined(rest)
                 /\ r' + Len(TextOf(rest)) - SignsLost(rest) = Total
      <3>1. Defined(items) /\ r + Len(TextOf(items)) - SignsLost(items) = Total
        BY <2>1, <2>3 DEF Counting
      <3>2. ~LeastInt(e) /\ Defined(rest)
        <4>1. Len(items) = Len(rest) + 1 /\ Len(rest) \in Nat /\ items[1] = e
              /\ \A i \in 1 .. Len(rest) : rest[i] = items[i + 1]
          BY <1>1, <2>1
        <4> HIDE DEF e, rest
        <4>2. 1 \in 1 .. Len(items) /\ \A i \in 1 .. Len(rest) : i + 1 \in 1 .. Len(items)
          BY <4>1
        <4> QED
          BY <3>1, <4>1, <4>2 DEF Defined
      <3>3. r' = r + (Len(RefText(e)) - Uncounted(e))
        <4>1. \E out \in Outputs(e) : r' = r + out.r
          BY <1>9 DEF PrintItem
        <4> QED
          BY <2>2, <3>2, <4>1, OutputsAre
      <3>4. Len(TextOf(items)) = Len(RefText(e)) + Len(TextOf(rest))
            /\ Len(RefText(e)) \in Nat /\ Len(TextOf(rest)) \in Nat
        <4> DEFINE a == RefText(e)
                   b == TextOf(rest)
                   D == Glyph
        <4>1. a \in Seq(D) /\ b \in Seq(D)
          BY <2>2, TextTypes, OutputsAre
        <4>2. TextOf(items) = a \o b
          BY <2>2
        <4> HIDE DEF a, b, D
        <4>3. Len(a \o b) = Len(a) + Len(b) /\ Len(a) \in Nat /\ Len(b) \in Nat
          BY <4>1, ConcatProperties, LenProperties
        <4>4. Len(TextOf(items)) = Len(a) + Len(b)
          BY <4>2, <4>3
        <4> QED
          BY <4>3, <4>4 DEF a, b
      <3>5. SignsLost(rest) \in Nat /\ Uncounted(e) \in Nat /\ Total \in Int
        BY <1>1, <1>2, <2>2, SignsTail DEF Uncounted
      <3> HIDE DEF e, rest, Total
      <3> QED
        BY <1>1, <2>2, <3>1, <3>2, <3>3, <3>4, <3>5
    <2> HIDE DEF rest
    <2> QED
      BY <1>1, <2>1, <2>3 DEF Counting
  <1>10. CASE PrintfReturns
    BY <1>1, <1>10 DEF PrintfReturns, Counting
  <1>11. ASSUME NEW unit \in Units, NEW buf \in Buffers, PutsCall(unit, buf)
         PROVE  Counting'
    <2> DEFINE e == PutsItem(buf)
    <2>1. e \in Items /\ ~LeastInt(e)
      BY PutsItemIs
    <2>2. /\ asked' = IF unit = 0 THEN Append(asked, e) ELSE asked
          /\ fn' = "PUTS" /\ UNCHANGED items /\ items = <<>>
      BY <1>11 DEF PutsCall, crb_dispatch, PutsItem, Phases
    <2>3. call' = <<"PUTS", unit, buf>>
      BY <1>11, Tuples, Zenon DEF PutsCall, crb_dispatch
    <2>4. Defined(items')
      BY <2>2 DEF Defined
    <2> QED
      BY <2>2, <2>3, <2>4 DEF Counting
  <1>12. ASSUME NEW select, NEW args, Enters(select, args)
         PROVE  Counting'
    <2>1. /\ fn' = select /\ select \in Callbacks \ {"PUTS"} /\ call'[1] = select
          /\ UNCHANGED <<items, r, asked>>
      BY <1>12 DEF Enters, Kernel, crb_dispatch
    <2> QED
      BY <1>1, <2>1 DEF Counting
  <1>13. ASSUME NEW result, NEW u, Leaves(result, u)
         PROVE  Counting'
    <2>1. fn' = "idle" /\ UNCHANGED <<items, r, asked>>
      BY <1>13 DEF Leaves, Returns
    <2> QED
      BY <1>1, <2>1 DEF Counting
  <1> QED
    BY <1>4, <1>5, <1>6, <1>7, <1>8, <1>9, <1>10, <1>11, <1>12, <1>13, SerialActions

\* The kernel's registers are saved before C code runs and restored (src/crb.c:226-258).
LEMMA RegistersKept ==
    ASSUME SerialTypeOK, Phases, SavedRegisters, AnswersRight, SerialNext
    PROVE  /\ SavedRegisters'
           /\ fn' \in {"idle", "boot", "printf"} => \A i \in 2..15 : regs'[i] = "kernel"
  <1> DEFINE Own == /\ SavedRegisters'
                    /\ fn' \in {"idle", "boot", "printf"} =>
                         \A i \in 2..15 : regs'[i] = "kernel"
  <1>1. /\ fn \in {"idle", "boot", "printf"} => \A i \in 2..15 : regs[i] = "kernel"
        /\ "printf" \notin Callbacks /\ "idle" \notin Callbacks /\ "boot" \notin Callbacks
    BY DEF AnswersRight, Callbacks, Constant, Unsupported
  <1>2. ASSUME UNCHANGED <<fn, regs, frame>>
        PROVE  Own
    BY <1>1, <1>2 DEF SavedRegisters
  <1>3. ASSUME UNCHANGED <<regs, frame>>, fn \in {"idle", "boot", "printf"},
               fn' \in {"idle", "printf"}
        PROVE  Own
    BY <1>1, <1>3 DEF SavedRegisters
  <1>4. ASSUME NEW select, NEW args, crb_dispatch(select, args), select \in Callbacks
        PROVE  Own
    <2>1. /\ fn = "idle" /\ fn' = select
          /\ frame' = [i \in VMStoUNIX |-> regs[i]]
          /\ regs' = [i \in 0..30 |-> IF i \in CKept THEN regs[i] ELSE "C"]
      BY <1>4 DEF crb_dispatch
    <2>2. \A i \in 2..15 : regs[i] = "kernel"
      BY <1>1, <2>1
    <2>3. DOMAIN frame' = VMStoUNIX
      BY <2>1
    <2>4. ASSUME NEW i \in 2..8
          PROVE  frame'[i] = "kernel"
      BY <2>1, <2>2 DEF VMStoUNIX
    <2>5. ASSUME NEW i \in 9..15
          PROVE  regs'[i] = "kernel"
      BY <2>1, <2>2 DEF CKept
    <2> QED
      BY <1>1, <1>4, <2>1, <2>3, <2>4, <2>5 DEF SavedRegisters
  <1>5. ASSUME NEW result, NEW u, Leaves(result, u)
        PROVE  Own
    <2>1. /\ fn \in Callbacks /\ fn' = "idle" /\ frame' = frame
          /\ regs' = [i \in 0..30 |-> IF i \in DOMAIN frame THEN frame[i] ELSE regs[i]]
      BY <1>5 DEF Leaves, Returns
    <2>2. /\ DOMAIN frame = VMStoUNIX
          /\ \A i \in 2..8 : frame[i] = "kernel"
          /\ \A i \in 9..15 : regs[i] = "kernel"
      BY <2>1 DEF SavedRegisters
    <2>3. ASSUME NEW i \in 2..15
          PROVE  regs'[i] = "kernel"
      <3>1. i \in 0..30 /\ (i \in 2..8 \/ i \in 9..15) /\ (i \in 2..8 <=> i \in VMStoUNIX)
        BY DEF VMStoUNIX
      <3> QED
        BY <2>1, <2>2, <3>1
    <2> QED
      BY <1>1, <2>1, <2>3 DEF SavedRegisters
  <1> HIDE DEF Own
  <1>6. ASSUME Sent
        PROVE  Own
    BY <1>2, <1>6 DEF Sent
  <1>7. ASSUME NEW c \in Keys, Typed(c)
        PROVE  Own
    BY <1>2, <1>7 DEF Typed
  <1>8. ASSUME uart_putchar_raw
        PROVE  Own
    BY <1>2, <1>8 DEF uart_putchar_raw
  <1>9. ASSUME uart_init
        PROVE  Own
    BY <1>3, <1>9 DEF uart_init
  <1>10. ASSUME NEW fmt \in Formats, printf(fmt)
         PROVE  Own
    BY <1>3, <1>10 DEF printf
  <1>11. ASSUME PrintItem
        PROVE  Own
    BY <1>2, <1>11 DEF PrintItem
  <1>12. ASSUME PrintfReturns
        PROVE  Own
    BY <1>3, <1>12 DEF PrintfReturns
  <1>13. ASSUME NEW unit \in Units, NEW buf \in Buffers, PutsCall(unit, buf)
         PROVE  Own
    BY <1>4, <1>13 DEF PutsCall, Callbacks
  <1>14. ASSUME NEW select, NEW args, Enters(select, args)
         PROVE  Own
    BY <1>4, <1>14 DEF Enters, Kernel
  <1> QED
    BY <1>5, <1>6, <1>7, <1>8, <1>9, <1>10, <1>11, <1>12, <1>13, <1>14, SerialActions DEF Own

\* What the last call returned.
LastAnswer ==
    fn = "idle" /\ call # <<>> =>
      /\ call[1] = "printf" /\ Defined(call[2]) =>
           answer = <<Len(TextOf(call[2]))
                       - Cardinality({i \in DOMAIN call[2] : NegativeLong(call[2][i])})>>
      /\ call[1] = "PUTS" =>
           answer = <<IF call[2] = 0 THEN Len(call[3]) ELSE ERR>>

\* The count that is returned is the whole count (src/printf.c:199, src/crb.c:51-66).
LEMMA AnswersKept ==
    ASSUME SerialTypeOK, Phases, Counting, LastAnswer, SerialNext
    PROVE  LastAnswer'
  <1>1. /\ "printf" \notin Callbacks /\ "idle" \notin Callbacks /\ "boot" \notin Callbacks
        /\ r \in Int /\ asked \in Seq(Items)
    BY DEF SerialTypeOK, Callbacks, Constant, Unsupported
  <1>2. ASSUME UNCHANGED <<fn, call, answer>>
        PROVE  LastAnswer'
    BY <1>2 DEF LastAnswer
  <1>3. ASSUME fn' # "idle"
        PROVE  LastAnswer'
    BY <1>3 DEF LastAnswer
  <1>4. CASE Sent
    BY <1>2, <1>4 DEF Sent
  <1>5. ASSUME NEW c \in Keys, Typed(c)
        PROVE  LastAnswer'
    BY <1>2, <1>5 DEF Typed
  <1>6. CASE uart_putchar_raw
    BY <1>2, <1>6 DEF uart_putchar_raw
  <1>7. CASE uart_init
    <2>1. call' = <<>>
      BY <1>7 DEF uart_init, Phases
    <2> QED
      BY <2>1 DEF LastAnswer
  <1>8. ASSUME NEW fmt \in Formats, printf(fmt)
        PROVE  LastAnswer'
    BY <1>3, <1>8 DEF printf
  <1>9. CASE PrintItem
    <2>1. fn' # "idle"
      BY <1>9 DEF PrintItem
    <2> QED
      BY <1>3, <2>1
  <1>10. CASE PrintfReturns
    <2>1. /\ items = <<>> /\ answer' = <<r>> /\ call' = call /\ call = <<"printf", asked>>
      BY <1>10 DEF PrintfReturns, Counting
    <2>2. TextOf(items) = <<>> /\ SignsLost(items) = 0 /\ Len(<<>>) = 0
      BY <2>1, TextTypes, SignsTail, EmptySeq
    <2>3. Defined(asked) => r = Len(TextOf(asked)) - SignsLost(asked)
      BY <1>1, <1>10, <2>2 DEF Counting, PrintfReturns
    <2>4. call'[1] = "printf" /\ call'[2] = asked
      BY <2>1
    <2> QED
      BY <2>1, <2>3, <2>4 DEF LastAnswer, SignsLost
  <1>11. ASSUME NEW unit \in Units, NEW buf \in Buffers, PutsCall(unit, buf)
         PROVE  LastAnswer'
    BY <1>3, <1>11 DEF PutsCall, crb_dispatch
  <1>12. ASSUME NEW select, NEW args, Enters(select, args)
         PROVE  LastAnswer'
    <2>1. fn' # "idle"
      BY <1>1, <1>12 DEF Enters, Kernel, crb_dispatch
    <2> QED
      BY <1>3, <2>1
  <1>13. ASSUME NEW result, NEW u, Leaves(result, u)
         PROVE  LastAnswer'
    <2>1. /\ fn \in Callbacks /\ call' = call /\ answer' = <<result>>
          /\ call[1] = fn /\ (fn = "PUTS" => call[3] \in Buffers)
          /\ fn = "PUTS" => result = IF call[2] # 0 THEN ERR ELSE Len(call[3]) % IntSize
      BY <1>13 DEF Leaves, Returns, Counting
    <2>2. fn = "PUTS" => Len(call[3]) % IntSize = Len(call[3])
      BY <2>1, PutsItemIs
    <2>3. call'[1] # "printf"
      BY <1>1, <2>1
    <2>4. call'[1] = "PUTS" => answer' = <<IF call'[2] = 0 THEN Len(call'[3]) ELSE ERR>>
      BY <2>1, <2>2
    <2> QED
      BY <2>3, <2>4 DEF LastAnswer
  <1> QED
    BY <1>4, <1>5, <1>6, <1>7, <1>8, <1>9, <1>10, <1>11, <1>12, <1>13, SerialActions

\* The two parts of AnswersRight.
LEMMA AnswersAre ==
    AnswersRight <=> /\ LastAnswer
                     /\ fn \in {"idle", "boot", "printf"} => \A i \in 2..15 : regs[i] = "kernel"
  BY Zenon DEF AnswersRight, LastAnswer

\* The invariant holds in every state.
THEOREM SerialInvariant == SerialSpec => []SerialInv
  <1>1. SerialInit => SerialInv
    <2> SUFFICES ASSUME SerialInit PROVE SerialInv
      OBVIOUS
    <2> USE DEF SerialInit
    <2>1. SerialTypeOK
      BY DEF SerialTypeOK, Uarts
    <2>2. Phases
      BY DEF Phases
    <2>3. Counting /\ SavedRegisters
      <3>1. fn \notin Callbacks
        BY DEF Callbacks, Constant, Unsupported
      <3> QED
        BY <3>1 DEF Counting, SavedRegisters, Defined
    <2>4. OutputComplete
      <3>1. TextOf(<<>>) = <<>>
        BY TextTypes
      <3>2. ((<<>> \o <<>>) \o <<>>) \o <<>> = <<>>
        BY EmptySeq, ConcatEmptySeq
      <3>3. uart.thr = <<>>
        OBVIOUS
      <3> QED
        BY <3>1, <3>2, <3>3 DEF OutputComplete
    <2>5. AnswersRight
      BY DEF AnswersRight
    <2> QED
      BY <2>1, <2>2, <2>3, <2>4, <2>5 DEF SerialInv
  <1>2. SerialInv /\ [SerialNext]_serialVars => SerialInv'
    <2> SUFFICES ASSUME SerialInv, [SerialNext]_serialVars PROVE SerialInv'
      OBVIOUS
    <2>1. /\ SerialTypeOK /\ Phases /\ Counting /\ SavedRegisters
          /\ OutputComplete /\ AnswersRight
      BY DEF SerialInv
    <2>2. CASE SerialNext
      <3>1. SerialTypeOK' /\ Phases' /\ Counting' /\ OutputComplete'
        BY <2>1, <2>2, TypesKept, PhasesKept, CountingKept, OutputKept
      <3>2. SavedRegisters'
            /\ (fn' \in {"idle", "boot", "printf"} => \A i \in 2..15 : regs'[i] = "kernel")
        BY <2>1, <2>2, RegistersKept
      <3>3. LastAnswer'
        BY <2>1, <2>2, AnswersKept, AnswersAre
      <3>4. AnswersRight'
        BY <3>2, <3>3, Zenon DEF AnswersRight, LastAnswer
      <3> QED
        BY <3>1, <3>2, <3>4 DEF SerialInv
    <2>3. CASE UNCHANGED serialVars
      <3> USE <2>3 DEF serialVars
      <3>1. SerialTypeOK' /\ Phases'
        BY <2>1 DEF SerialTypeOK, Phases
      <3>2. Counting' /\ SavedRegisters'
        BY <2>1 DEF Counting, SavedRegisters
      <3>3. OutputComplete'
        BY <2>1 DEF OutputComplete
      <3>4. AnswersRight'
        BY <2>1 DEF AnswersRight
      <3> QED
        BY <3>1, <3>2, <3>3, <3>4 DEF SerialInv
    <2> QED
      BY <2>2, <2>3
  <1> QED
    BY <1>1, <1>2, PTL DEF SerialSpec

\* Every character of every text comes out once, in order and right: those that
\* were sent, held, being written and left of the format are together the text
\* that was asked for (src/printf.c:24-201, src/crb.c:51-66, src/uart.c:64-69).
THEOREM OutputIsComplete == SerialSpec => []OutputComplete
  <1>1. SerialInv => OutputComplete
    BY DEF SerialInv
  <1> QED
    BY <1>1, SerialInvariant, PTL

\* printf and PUTS return how many characters they wrote, but for the sign of a
\* long, and a callback returns with the registers that VMS code keeps
\* (src/printf.c:97-201, src/crb.c:51-66, src/crb.c:226-258).
THEOREM AnswersAreRight == SerialSpec => []AnswersRight
  <1>1. SerialInv => AnswersRight
    BY DEF SerialInv
  <1> QED
    BY <1>1, SerialInvariant, PTL
===============================================================================
