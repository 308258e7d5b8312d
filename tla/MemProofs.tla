------------------------------- MODULE MemProofs -------------------------------
(***************************************************************************)
(* Proofs, for any memory, any blocks and any alignment of them, that      *)
(* memset, memcpy and strlen access memory legally and give what loops     *)
(* over single bytes would give.                                           *)
(***************************************************************************)
EXTENDS MemRoutines, TLAPS

Placed(a) == IF req.routine = "memset" THEN req.fill
                                       ELSE req.mem[req.src + (a - req.dest)]

\* The bytes before d are done, and no other byte has changed.
Progress ==
    /\ d \in Nat /\ n \in Nat /\ d >= req.dest /\ d + n = req.dest + req.n
    /\ mem = [a \in Addr |-> IF a \in req.dest .. (d - 1) THEN Placed(a) ELSE req.mem[a]]

\* memset: how far d is aligned, and how little may be left, at each place.
SetInv ==
    /\ Progress
    /\ at \in {"memset", "byte", "short", "int", "longs", "rest_4", "tail_3",
               "tail_1", "done"}
    /\ at \notin {"memset", "done"} => word = [i \in 0..7 |-> req.fill]
    /\ at = "byte" => n >= 1
    /\ at = "short" => d % 2 = 0
    /\ at = "int" => d % 4 = 0
    /\ at \in {"longs", "rest_4"} => d % 8 = 0
    /\ at = "rest_4" => n < 8
    /\ at = "tail_3" => d % 4 = 0 /\ n < 4
    /\ at = "tail_1" => n < 2
    /\ at = "done" => n = 0

\* memcpy: the source keeps its distance; the word kept holds what follows s.
CopyInv ==
    /\ Progress
    /\ at \in {"memcpy", "aligned", "low", "high", "rest", "done"}
    /\ s \in Nat /\ s - req.src = d - req.dest
    /\ at \in {"aligned", "low", "high"} => d % 8 = 0
    /\ at = "aligned" => s % 8 = 0
    /\ at \in {"low", "high"} => s % 8 # 0
    /\ at = "high" /\ n >= 8 =>
         \A i \in 0..7 : i >= s % 8 => word[i] = req.mem[8 * (s \div 8) + i]
    /\ at = "done" => n = 0

\* strlen: no zero byte before the quadword in word, of which the bytes before
\* the string are masked.
LenInv ==
    /\ mem = req.mem /\ s \in Nat
    /\ at \in {"strlen", "loop", "found", "done"}
    /\ at = "strlen" => s = req.src
    /\ at \in {"loop", "found"} =>
         /\ s % 8 = 0 /\ s >= 8 * (req.src \div 8)
         /\ \A c \in req.src .. (s - 1) : mem[c] # {}
         /\ word = [i \in 0..7 |-> IF s + i < req.src THEN Bits ELSE mem[s + i]]
    /\ at = "loop" => Zeros(word) = {}
    /\ at = "found" => Zeros(word) # {}
    /\ at = "done" =>
         /\ len \in Nat /\ mem[req.src + len] = {}
         /\ \A k \in 0..len - 1 : mem[req.src + k] # {}

MemInv ==
    /\ req \in Requests /\ Legal(req) /\ AccessesLegal
    /\ req.routine = "memset" => SetInv
    /\ req.routine = "memcpy" => CopyInv
    /\ req.routine = "strlen" => LenInv

-----------------------------------------------------------------------------
(* Operators. *)

\* The byte doubled three times is in all eight places (src/memset.c:32-38).
LEMMA FillAll ==
    ASSUME NEW c
    PROVE  Fill(c) = [i \in 0..7 |-> c]
  <1> DEFINE v1 == [i \in 0..7 |-> IF i = 0 THEN c ELSE {}]
             v2 == Or(v1, ShiftLeft(v1, 1))
             v4 == Or(v2, ShiftLeft(v2, 2))
  <1>1. v2 = [i \in 0..7 |-> IF i < 2 THEN c ELSE {}]
    BY DEF Or, ShiftLeft
  <1> HIDE DEF v2
  <1>2. v4 = [i \in 0..7 |-> IF i < 4 THEN c ELSE {}]
    BY <1>1 DEF Or, ShiftLeft
  <1> HIDE DEF v4
  <1>3. Or(v4, ShiftLeft(v4, 4)) = [i \in 0..7 |-> c]
    BY <1>2 DEF Or, ShiftLeft
  <1> QED
    BY <1>3 DEF Fill, v2, v4

\* The two halves of an unaligned word together are the eight bytes from s on
\* (src/memcpy.c:82-90).
LEMMA Extracted ==
    ASSUME NEW low, NEW high, NEW a \in Nat, a % 8 # 0, NEW i \in 0..7
    PROVE  Or(extql(low, a), extqh(high, a))[i] =
             IF i + (a % 8) < 8 THEN low[i + (a % 8)] ELSE high[i + (a % 8) - 8]
  <1>1. a % 8 \in 1..7
    OBVIOUS
  <1>2. extql(low, a)[i] = IF i + (a % 8) < 8 THEN low[i + (a % 8)] ELSE {}
    BY DEF extql
  <1>3. extqh(high, a)[i] =
          IF i + (a % 8) >= 8 THEN high[i + (a % 8) - 8] ELSE {}
    BY <1>1 DEF extqh
  <1>4. Or(extql(low, a), extqh(high, a))[i] =
          extql(low, a)[i] \cup extqh(high, a)[i]
    BY DEF Or
  <1>5. CASE i + (a % 8) < 8
    BY <1>1, <1>2, <1>3, <1>4, <1>5
  <1>6. CASE i + (a % 8) >= 8
    BY <1>1, <1>2, <1>3, <1>4, <1>6
  <1> QED
    BY <1>1, <1>5, <1>6

\* strlen's binary search by masks finds the lowest zero byte
\* (src/strlen.S:40-54).
LEMMA SearchLowest ==
    ASSUME NEW z \in SUBSET (0..7), z # {}
    PROVE  Search(z) \in z /\ \A j \in z : Search(z) <= j
  <1>0. \A j \in z : j \in 0..7
    OBVIOUS
  <1>1. PICK m \in z : \A j \in z : m <= j
    <2>1. PICK x \in z : TRUE
      OBVIOUS
    <2>2. \/ 0 \in z \/ 1 \in z \/ 2 \in z \/ 3 \in z
          \/ 4 \in z \/ 5 \in z \/ 6 \in z \/ 7 \in z
      <3>1. x \in {0, 1, 2, 3, 4, 5, 6, 7}
        BY <1>0
      <3> QED
        BY <3>1
    <2> QED
      BY <1>0, <2>2
  <1>2. Lowest(z) = {m}
    <2>1. \A i \in z : (\A j \in z : i <= j) <=> i = m
      BY <1>0, <1>1
    <2> QED
      BY <2>1 DEF Lowest
  <1>3. m \in 0..7 /\ (0 \in z => m = 0)
    BY <1>1
  <1>4. CASE m = 0
    BY <1>1, <1>4 DEF Search
  <1>5. CASE m # 0
    <2>1. 0 \notin z
      BY <1>1, <1>3, <1>5
    <2>2. Search(z) = (IF {m} \cap {0, 1, 2, 3} = {} THEN 4 ELSE 0)
                      + (IF {m} \cap {0, 1, 4, 5} = {} THEN 2 ELSE 0)
                      + (IF {m} \cap {0, 2, 4, 6} = {} THEN 1 ELSE 0)
      BY <1>2, <2>1 DEF Search
    <2>3. \A mask : ({m} \cap mask = {}) <=> m \notin mask
      OBVIOUS
    <2>4. m \in {1, 2, 3, 4, 5, 6, 7}
      BY <1>3, <1>5
    <2>5. Search(z) = (IF m \notin {0, 1, 2, 3} THEN 4 ELSE 0)
                      + (IF m \notin {0, 1, 4, 5} THEN 2 ELSE 0)
                      + (IF m \notin {0, 2, 4, 6} THEN 1 ELSE 0)
      BY <2>2, <2>3
    <2>6. Search(z) = m
      BY <2>4, <2>5
    <2> QED
      BY <1>1, <2>6
  <1> QED
    BY <1>4, <1>5

-----------------------------------------------------------------------------
(* One store. *)

\* What a store of the right bytes at d does: the bytes up to the new d are
\* done, and the store was inside the destination.
LEMMA PutProgress ==
    ASSUME Legal(req), req.routine \in {"memset", "memcpy"}, Progress,
           NEW q, NEW w \in 1..8, w <= n,
           \A i \in 0..w - 1 : d + i \in Addr => q[i] = Placed(d + i),
           Put(q, w)
    PROVE  Progress' /\ StoreInside' /\ store' = <<d, w>> /\ d' = d + w /\ n' = n - w
  <1>1. store' = <<d, w>> /\ d' = d + w /\ n' = n - w /\ req' = req
    BY DEF Put
  <1>2. d \in Nat /\ n \in Nat /\ d >= req.dest /\ d + n = req.dest + req.n
    BY DEF Progress
  <1>3. req.dest \in Nat /\ req.n \in Nat
    BY DEF Legal
  <1>4. d' \in Nat /\ n' \in Nat /\ d' >= req.dest /\ d' + n' = req.dest + req.n
    BY <1>1, <1>2, <1>3
  <1>5. StoreInside'
    <2>1. \A b \in d .. (d + w - 1) : b \in req.dest .. (req.dest + req.n - 1)
      BY <1>2, <1>3
    <2> QED
      BY <1>1, <2>1 DEF StoreInside, Block
  <1>6. mem' = [a \in Addr |->
                  IF a \in req.dest .. (d' - 1) THEN Placed(a) ELSE req.mem[a]]
    <2>1. mem' = [a \in Addr |-> IF a \in d .. (d + w - 1) THEN q[a - d] ELSE mem[a]]
      BY DEF Put, Block
    <2>2. mem = [a \in Addr |->
                   IF a \in req.dest .. (d - 1) THEN Placed(a) ELSE req.mem[a]]
      BY DEF Progress
    <2> SUFFICES ASSUME NEW a \in Addr
                 PROVE  (IF a \in d .. (d + w - 1) THEN q[a - d] ELSE mem[a])
                        = IF a \in req.dest .. (d' - 1) THEN Placed(a) ELSE req.mem[a]
      BY <2>1
    <2>3. a \in Nat
      BY MemAssumption
    <2>4. CASE a \in d .. (d + w - 1)
      <3>1. a - d \in 0..w - 1 /\ d + (a - d) = a
        BY <1>2, <2>3, <2>4
      <3>2. q[a - d] = Placed(a)
        BY <3>1
      <3> QED
        BY <1>1, <1>2, <1>3, <2>3, <2>4, <3>2
    <2>5. CASE a \notin d .. (d + w - 1)
      <3>1. a \in req.dest .. (d' - 1) <=> a \in req.dest .. (d - 1)
        BY <1>1, <1>2, <1>3, <2>3, <2>5
      <3> QED
        BY <2>2, <2>5, <3>1
    <2> QED
      BY <2>4, <2>5
  <1>7. Progress'
    <2>1. \A a : Placed(a)' = Placed(a)
      BY <1>1 DEF Placed
    <2> QED
      BY <1>1, <1>4, <1>6, <2>1 DEF Progress
  <1> QED
    BY <1>1, <1>5, <1>7

\* A step without an access is legal, and keeps what is done.
LEMMA GotoProgress ==
    ASSUME NEW place, Goto(place)
    PROVE  /\ at' = place /\ AccessesLegal' /\ UNCHANGED <<mem, d, s, n, word, req, len>>
           /\ Progress => Progress'
  <1>1. at' = place /\ load' = <<0, 0>> /\ store' = <<0, 0>>
        /\ UNCHANGED <<mem, d, s, n, word, req, len>>
    BY DEF Goto, None
  <1>2. AccessesLegal'
    BY <1>1 DEF AccessesLegal, AccessesAligned, StoreInside, LoadTouches
  <1>3. Progress => Progress'
    BY <1>1 DEF Progress, Placed
  <1> QED
    BY <1>1, <1>2, <1>3

-----------------------------------------------------------------------------
(* memset. *)

\* A store of w bytes of the pattern, where d is aligned to w.
LEMMA SetStepProgress ==
    ASSUME MemInv, req.routine = "memset", word = [i \in 0..7 |-> req.fill],
           NEW w \in {1, 2, 4, 8}, NEW next, w <= n, d % w = 0, SetStep(w, next)
    PROVE  /\ Progress' /\ AccessesLegal' /\ at' = next /\ word' = word
           /\ d' = d + w /\ n' = n - w /\ req' = req
  <1>1. /\ Put(word, w) /\ at' = next /\ load' = <<0, 0>> /\ word' = word
    BY DEF SetStep, None
  <1>2. \A i \in 0..w - 1 : word[i] = Placed(d + i)
    BY DEF Placed
  <1>3. Progress' /\ StoreInside' /\ store' = <<d, w>> /\ d' = d + w /\ n' = n - w
    BY <1>1, <1>2, PutProgress DEF MemInv, SetInv
  <1>4. AccessesAligned'
    BY <1>1, <1>3 DEF AccessesAligned
  <1>5. LoadTouches'
    BY <1>1 DEF LoadTouches
  <1> QED
    BY <1>1, <1>3, <1>4, <1>5 DEF AccessesLegal, Put

\* A step of memset without an access keeps what is done.
LEMMA SetGoto ==
    ASSUME MemInv, req.routine = "memset", NEW place, Goto(place)
    PROVE  /\ at' = place /\ AccessesLegal' /\ Progress'
           /\ UNCHANGED <<mem, d, s, n, word, req, len>>
  BY GotoProgress DEF MemInv, SetInv

\* memset, statement by statement (src/memset.c:29-95).
LEMMA MemsetStep ==
    ASSUME MemInv, memset
    PROVE  MemInv'
  <1>1. req.routine = "memset"
    <2>1. at \in {"memset", "byte", "short", "int", "longs", "rest_4", "tail_3",
                  "tail_1"}
      BY DEF memset, Align, Rest
    <2>2. req.routine \in {"memset", "memcpy", "strlen"}
      BY DEF MemInv, Legal, Routines
    <2> QED
      BY <2>1, <2>2 DEF MemInv, CopyInv, LenInv
  <1>2. d \in Nat /\ n \in Nat /\ SetInv /\ req \in Requests /\ Legal(req)
    BY <1>1 DEF MemInv, SetInv, Progress
  <1> SUFFICES /\ req' = req /\ AccessesLegal' /\ SetInv'
    BY <1>1, <1>2 DEF MemInv
  <1>3. CASE at = "memset" /\ n = 0 /\ Goto("done")
    BY <1>1, <1>2, <1>3, SetGoto DEF SetInv
  <1>4. CASE /\ at = "memset" /\ n # 0 /\ at' = "byte" /\ word' = Fill(req.fill)
             /\ UNCHANGED <<mem, d, s, n, load, store, req, len>>
    <2>1. word' = [i \in 0..7 |-> req.fill]
      BY <1>4, FillAll
    <2>2. Progress'
      BY <1>2, <1>4 DEF SetInv, Progress, Placed
    <2>3. AccessesLegal'
      BY <1>4 DEF MemInv, AccessesLegal, AccessesAligned, StoreInside, LoadTouches
    <2> QED
      BY <1>2, <1>4, <2>1, <2>2, <2>3 DEF SetInv
  <1>5. CASE Align("byte", 1, "short", "done")
    <2>1. at = "byte" /\ n >= 1 /\ word = [i \in 0..7 |-> req.fill]
      BY <1>2, <1>5 DEF Align, SetInv
    <2>2. CASE ~BitSet(d, 1) /\ Goto("short")
      BY <1>1, <1>2, <2>1, <2>2, SetGoto DEF SetInv, BitSet
    <2>3. CASE BitSet(d, 1) /\ n >= 1 /\ SetStep(1, "short")
      <3>1. d % 1 = 0 /\ (d + 1) % 2 = 0
        BY <1>2, <2>3 DEF BitSet
      <3> QED
        BY <1>1, <1>2, <2>1, <2>3, <3>1, SetStepProgress DEF SetInv
    <2> QED
      BY <1>2, <1>5, <2>1, <2>2, <2>3 DEF Align
  <1>6. CASE Align("short", 2, "int", "tail_1")
    <2>1. at = "short" /\ d % 2 = 0 /\ word = [i \in 0..7 |-> req.fill]
      BY <1>2, <1>6 DEF Align, SetInv
    <2>2. CASE ~BitSet(d, 2) /\ Goto("int")
      BY <1>1, <1>2, <2>1, <2>2, SetGoto DEF SetInv, BitSet
    <2>3. CASE n < 2 /\ Goto("tail_1")
      BY <1>1, <1>2, <2>1, <2>3, SetGoto DEF SetInv
    <2>4. CASE BitSet(d, 2) /\ n >= 2 /\ SetStep(2, "int")
      <3>1. (d + 2) % 4 = 0
        BY <1>2, <2>1, <2>4 DEF BitSet
      <3> QED
        BY <1>1, <1>2, <2>1, <2>4, <3>1, SetStepProgress DEF SetInv
    <2> QED
      BY <1>6, <2>2, <2>3, <2>4 DEF Align
  <1>7. CASE Align("int", 4, "longs", "tail_3")
    <2>1. at = "int" /\ d % 4 = 0 /\ word = [i \in 0..7 |-> req.fill]
      BY <1>2, <1>7 DEF Align, SetInv
    <2>2. CASE ~BitSet(d, 4) /\ Goto("longs")
      BY <1>1, <1>2, <2>1, <2>2, SetGoto DEF SetInv, BitSet
    <2>3. CASE n < 4 /\ Goto("tail_3")
      BY <1>1, <1>2, <2>1, <2>3, SetGoto DEF SetInv
    <2>4. CASE BitSet(d, 4) /\ n >= 4 /\ SetStep(4, "longs")
      <3>1. (d + 4) % 8 = 0
        BY <1>2, <2>1, <2>4 DEF BitSet
      <3> QED
        BY <1>1, <1>2, <2>1, <2>4, <3>1, SetStepProgress DEF SetInv
    <2> QED
      BY <1>7, <2>2, <2>3, <2>4 DEF Align
  <1>8. CASE at = "longs" /\ n >= 8 /\ SetStep(8, "longs")
    <2>1. d % 8 = 0 /\ word = [i \in 0..7 |-> req.fill] /\ (d + 8) % 8 = 0
      BY <1>2, <1>8 DEF SetInv
    <2> QED
      BY <1>1, <1>2, <1>8, <2>1, SetStepProgress DEF SetInv
  <1>9. CASE at = "longs" /\ n < 8 /\ Goto("rest_4")
    BY <1>1, <1>2, <1>9, SetGoto DEF SetInv
  <1>10. CASE Rest("rest_4", 4, "tail_3")
    <2>1. at = "rest_4" /\ d % 8 = 0 /\ n < 8 /\ word = [i \in 0..7 |-> req.fill]
          /\ d % 4 = 0 /\ (d + 4) % 4 = 0
      BY <1>2, <1>10 DEF Rest, SetInv
    <2>2. CASE n >= 4 /\ SetStep(4, "tail_3")
      BY <1>1, <1>2, <2>1, <2>2, SetStepProgress DEF SetInv
    <2>3. CASE n < 4 /\ Goto("tail_3")
      BY <1>1, <1>2, <2>1, <2>3, SetGoto DEF SetInv
    <2> QED
      BY <1>10, <2>2, <2>3 DEF Rest
  <1>11. CASE Rest("tail_3", 2, "tail_1")
    <2>1. at = "tail_3" /\ d % 4 = 0 /\ n < 4 /\ word = [i \in 0..7 |-> req.fill]
          /\ d % 2 = 0
      BY <1>2, <1>11 DEF Rest, SetInv
    <2>2. CASE n >= 2 /\ SetStep(2, "tail_1")
      BY <1>1, <1>2, <2>1, <2>2, SetStepProgress DEF SetInv
    <2>3. CASE n < 2 /\ Goto("tail_1")
      BY <1>1, <1>2, <2>1, <2>3, SetGoto DEF SetInv
    <2> QED
      BY <1>11, <2>2, <2>3 DEF Rest
  <1>12. CASE Rest("tail_1", 1, "done")
    <2>1. at = "tail_1" /\ n < 2 /\ word = [i \in 0..7 |-> req.fill] /\ d % 1 = 0
      BY <1>2, <1>12 DEF Rest, SetInv
    <2>2. CASE n >= 1 /\ SetStep(1, "done")
      BY <1>1, <1>2, <2>1, <2>2, SetStepProgress DEF SetInv
    <2>3. CASE n < 1 /\ Goto("done")
      BY <1>1, <1>2, <2>1, <2>3, SetGoto DEF SetInv
    <2> QED
      BY <1>12, <2>2, <2>3 DEF Rest
  <1> QED
    BY <1>3, <1>4, <1>5, <1>6, <1>7, <1>8, <1>9, <1>10, <1>11, <1>12 DEF memset

-----------------------------------------------------------------------------
(* memcpy. *)

\* What lies in the source is not in the destination, so that it is still what
\* it was at the call.
LEMMA SourceKept ==
    ASSUME MemInv, req.routine = "memcpy", NEW a \in Nat,
           a >= req.src, a < req.src + req.n
    PROVE  mem[a] = req.mem[a]
  <1>1. /\ Block(req.src, req.n) \subseteq Addr /\ req.src \in Nat /\ req.n \in Nat
        /\ Block(req.dest, req.n) \cap Block(req.src, req.n) = {}
        /\ req.dest \in Nat
    BY DEF MemInv, Legal
  <1>2. a \in Block(req.src, req.n)
    BY <1>1 DEF Block
  <1>3. a \in Addr /\ a \notin Block(req.dest, req.n)
    BY <1>1, <1>2
  <1>4. Progress
    BY DEF MemInv, CopyInv
  <1>5. a \notin req.dest .. (d - 1)
    BY <1>1, <1>3, <1>4 DEF Block, Progress
  <1> QED
    BY <1>3, <1>4, <1>5 DEF Progress

\* Both pointers are as far from the ends of their blocks.
LEMMA CopyTypes ==
    ASSUME MemInv, req.routine = "memcpy"
    PROVE  /\ d \in Nat /\ n \in Nat /\ s \in Nat /\ s - req.src = d - req.dest
           /\ req.src \in Nat /\ req.dest \in Nat /\ req.n \in Nat
           /\ s >= req.src /\ s + n = req.src + req.n
           /\ d >= req.dest /\ d + n = req.dest + req.n
  BY DEF MemInv, CopyInv, Progress, Legal

\* One byte is copied, with the source and the destination aligned in any way.
LEMMA CopyByteStep ==
    ASSUME MemInv, req.routine = "memcpy", at \in {"memcpy", "rest"}, n > 0, CopyByte
    PROVE  MemInv'
  <1>1. /\ Put([i \in 0..7 |-> mem[s]], 1) /\ s' = s + 1 /\ load' = <<s, 1>>
        /\ at' = at
    BY DEF CopyByte
  <1>2. /\ d \in Nat /\ n \in Nat /\ s \in Nat /\ s - req.src = d - req.dest
        /\ req.src \in Nat /\ req.dest \in Nat /\ req.n \in Nat
        /\ s >= req.src /\ s + n = req.src + req.n
    BY CopyTypes
  <1>3. \A i \in 0..1 - 1 : [j \in 0..7 |-> mem[s]][i] = Placed(d + i)
    <2>1. mem[s] = req.mem[s]
      BY <1>2, SourceKept
    <2>2. Placed(d + 0) = req.mem[s]
      BY <1>2 DEF Placed
    <2> QED
      BY <2>1, <2>2
  <1>4. Progress' /\ StoreInside' /\ store' = <<d, 1>> /\ d' = d + 1 /\ n' = n - 1
    BY <1>1, <1>2, <1>3, PutProgress DEF MemInv, CopyInv
  <1>5. AccessesAligned'
    BY <1>1, <1>2, <1>4 DEF AccessesAligned
  <1>6. LoadTouches'
    <2>1. s \in Block(s, 1)
      BY <1>2 DEF Block
    <2>2. req' = req
      BY <1>1 DEF Put
    <2> QED
      BY <1>1, <1>2, <2>1, <2>2 DEF LoadTouches
  <1> QED
    BY <1>1, <1>2, <1>4, <1>5, <1>6 DEF MemInv, CopyInv, AccessesLegal, Put

\* One aligned quadword is copied.
LEMMA CopyQuadStep ==
    ASSUME MemInv, req.routine = "memcpy", at = "aligned", n >= 8,
           Put(Quad(s), 8), s' = s + 8, load' = <<s, 8>>, at' = at
    PROVE  MemInv'
  <1>1. /\ d \in Nat /\ n \in Nat /\ s \in Nat /\ s - req.src = d - req.dest
        /\ req.src \in Nat /\ req.dest \in Nat /\ req.n \in Nat
        /\ s >= req.src /\ s + n = req.src + req.n
    BY CopyTypes
  <1>2. d % 8 = 0 /\ s % 8 = 0 /\ 8 * (s \div 8) = s
        /\ (d + 8) % 8 = 0 /\ (s + 8) % 8 = 0
    BY <1>1 DEF MemInv, CopyInv
  <1>3. \A i \in 0..8 - 1 : Quad(s)[i] = Placed(d + i)
    <2> SUFFICES ASSUME NEW i \in 0..7
                 PROVE  Quad(s)[i] = Placed(d + i)
      OBVIOUS
    <2>1. Quad(s)[i] = mem[s + i]
      BY <1>2 DEF Quad
    <2>2. mem[s + i] = req.mem[s + i]
      BY <1>1, SourceKept
    <2>3. Placed(d + i) = req.mem[s + i]
      <3>1. req.src + ((d + i) - req.dest) = s + i
        BY <1>1
      <3> QED
        BY <3>1 DEF Placed
    <2> QED
      BY <2>1, <2>2, <2>3
  <1>4. Progress' /\ StoreInside' /\ store' = <<d, 8>> /\ d' = d + 8 /\ n' = n - 8
    BY <1>1, <1>3, PutProgress DEF MemInv, CopyInv
  <1>5. AccessesAligned'
    BY <1>2, <1>4 DEF AccessesAligned
  <1>6. LoadTouches'
    <2>1. s \in Block(s, 8)
      BY <1>1 DEF Block
    <2>2. req' = req
      BY DEF Put
    <2> QED
      BY <1>1, <2>1, <2>2 DEF LoadTouches
  <1> QED
    BY <1>1, <1>2, <1>4, <1>5, <1>6 DEF MemInv, CopyInv, AccessesLegal, Put

\* One quadword is put together from the word kept and the next one loaded.
LEMMA CopyUnalignedStep ==
    ASSUME MemInv, req.routine = "memcpy", at = "high", n >= 8,
           Put(Or(extql(word, s), extqh(Quad(s + 8), s)), 8),
           s' = s + 8, word' = Quad(s + 8), load' = <<8 * ((s + 8) \div 8), 8>>,
           at' = at
    PROVE  MemInv'
  <1>1. /\ d \in Nat /\ n \in Nat /\ s \in Nat /\ s - req.src = d - req.dest
        /\ req.src \in Nat /\ req.dest \in Nat /\ req.n \in Nat
        /\ s >= req.src /\ s + n = req.src + req.n
    BY CopyTypes
  <1> DEFINE k == s % 8
             base == 8 * (s \div 8)
             q == Or(extql(word, s), extqh(Quad(s + 8), s))
  <1>2. /\ d % 8 = 0 /\ (d + 8) % 8 = 0 /\ k \in 1..7 /\ (s + 8) % 8 = k
        /\ base + k = s /\ base \in Nat /\ 8 * ((s + 8) \div 8) = base + 8
        /\ \A i \in 0..7 : i >= k => word[i] = req.mem[base + i]
    BY <1>1 DEF MemInv, CopyInv
  <1>3. \A i \in 0..7 : Quad(s + 8)[i] = mem[base + 8 + i]
    BY <1>2 DEF Quad
  <1>4. \A i \in 0..8 - 1 : q[i] = Placed(d + i)
    <2> SUFFICES ASSUME NEW i \in 0..7
                 PROVE  q[i] = Placed(d + i)
      OBVIOUS
    <2>1. Placed(d + i) = req.mem[s + i]
      <3>1. req.src + ((d + i) - req.dest) = s + i
        BY <1>1
      <3> QED
        BY <3>1 DEF Placed
    <2>2. q[i] = IF i + k < 8 THEN word[i + k] ELSE Quad(s + 8)[i + k - 8]
      BY <1>1, <1>2, Extracted
    <2>3. CASE i + k < 8
      <3>1. i + k \in 0..7 /\ i + k >= k /\ base + (i + k) = s + i
        BY <1>1, <1>2, <2>3
      <3> QED
        BY <1>2, <2>1, <2>2, <2>3, <3>1
    <2>4. CASE i + k >= 8
      <3>1. i + k - 8 \in 0..7 /\ base + 8 + (i + k - 8) = s + i
        BY <1>1, <1>2, <2>4
      <3>2. q[i] = mem[s + i]
        BY <1>2, <1>3, <2>2, <2>4, <3>1
      <3>3. mem[s + i] = req.mem[s + i]
        BY <1>1, SourceKept
      <3> QED
        BY <2>1, <3>2, <3>3
    <2> QED
      BY <1>2, <2>3, <2>4
  <1>5. Progress' /\ StoreInside' /\ store' = <<d, 8>> /\ d' = d + 8 /\ n' = n - 8
    <2> HIDE DEF q
    <2>1. Put(q, 8)
      BY DEF q
    <2> QED
      BY <1>1, <1>4, <2>1, PutProgress DEF MemInv, CopyInv
  <1>6. req' = req
    BY DEF Put
  <1>7. AccessesAligned'
    BY <1>2, <1>5 DEF AccessesAligned
  <1>8. LoadTouches'
    <2>1. base + 8 \in Block(base + 8, 8) /\ base + 8 >= req.src
          /\ base + 8 < req.src + req.n
      BY <1>1, <1>2 DEF Block
    <2> QED
      BY <1>2, <1>6, <2>1 DEF LoadTouches
  <1>9. n' >= 8 => \A i \in 0..7 : i >= s' % 8 =>
                     word'[i] = req.mem[8 * (s' \div 8) + i]
    <2> SUFFICES ASSUME n' >= 8, NEW i \in 0..7, i >= k
                 PROVE  mem[base + 8 + i] = req.mem[base + 8 + i]
      BY <1>2, <1>3
    <2>1. base + 8 + i >= req.src /\ base + 8 + i < req.src + req.n
          /\ base + 8 + i \in Nat
      BY <1>1, <1>2, <1>5
    <2> QED
      BY <2>1, SourceKept
  <1> QED
    BY <1>1, <1>2, <1>5, <1>6, <1>7, <1>8, <1>9 DEF MemInv, CopyInv, AccessesLegal

\* The first quadword of an unaligned source is loaded: it holds the byte at s.
LEMMA CopyFirstStep ==
    ASSUME MemInv, req.routine = "memcpy", at = "low", n >= 8, at' = "high",
           word' = Quad(s), load' = <<8 * (s \div 8), 8>>, store' = None,
           UNCHANGED <<mem, d, s, n, req, len>>
    PROVE  MemInv'
  <1>1. /\ d \in Nat /\ n \in Nat /\ s \in Nat /\ s - req.src = d - req.dest
        /\ req.src \in Nat /\ req.dest \in Nat /\ req.n \in Nat
        /\ s >= req.src /\ s + n = req.src + req.n
    BY CopyTypes
  <1> DEFINE base == 8 * (s \div 8)
  <1>2. base \in Nat /\ base + (s % 8) = s /\ s % 8 \in 1..7 /\ d % 8 = 0
        /\ base % 8 = 0
    BY <1>1 DEF MemInv, CopyInv
  <1>3. \A i \in 0..7 : i >= s % 8 => word'[i] = req.mem[base + i]
    <2> SUFFICES ASSUME NEW i \in 0..7, i >= s % 8
                 PROVE  mem[base + i] = req.mem[base + i]
      BY DEF Quad
    <2>1. base + i \in Nat /\ base + i >= req.src /\ base + i < req.src + req.n
      BY <1>1, <1>2
    <2> QED
      BY <2>1, SourceKept
  <1>4. AccessesLegal'
    <2>1. s \in Block(base, 8) /\ s >= req.src /\ s < req.src + req.n
      BY <1>1, <1>2 DEF Block
    <2>2. LoadTouches'
      BY <1>1, <2>1 DEF LoadTouches
    <2>3. AccessesAligned' /\ StoreInside'
      BY <1>2 DEF AccessesAligned, StoreInside, None
    <2> QED
      BY <2>2, <2>3 DEF AccessesLegal
  <1>5. Progress'
    BY DEF MemInv, CopyInv, Progress, Placed
  <1> QED
    BY <1>1, <1>2, <1>3, <1>4, <1>5 DEF MemInv, CopyInv

\* A step of memcpy without an access.
LEMMA CopyGoto ==
    ASSUME MemInv, req.routine = "memcpy", NEW place \in {"aligned", "low", "rest", "done"},
           Goto(place), place = "done" => n = 0,
           place = "aligned" => d % 8 = 0 /\ s % 8 = 0,
           place = "low" => d % 8 = 0 /\ s % 8 # 0
    PROVE  MemInv'
  BY GotoProgress DEF MemInv, CopyInv

\* memcpy, statement by statement (src/memcpy.c:24-164).
LEMMA MemcpyStep ==
    ASSUME MemInv, memcpy
    PROVE  MemInv'
  <1>1. req.routine = "memcpy"
    <2>1. at \in {"memcpy", "aligned", "low", "high", "rest"}
      BY DEF memcpy, ALIGN_DEST_TO8_UP, __memcpy_aligned_up, __memcpy_unaligned_up,
             DO_REST_UP
    <2>2. req.routine \in {"memset", "memcpy", "strlen"}
      BY DEF MemInv, Legal, Routines
    <2> QED
      BY <2>1, <2>2 DEF MemInv, SetInv, LenInv
  <1>2. /\ d \in Nat /\ n \in Nat /\ s \in Nat /\ s - req.src = d - req.dest
        /\ req.src \in Nat /\ req.dest \in Nat
    BY <1>1, CopyTypes
  <1>3. CASE ALIGN_DEST_TO8_UP
    <2>1. CASE d % 8 # 0 /\ n <= 0 /\ Goto("done")
      <3>1. n = 0
        BY <1>2, <2>1
      <3> QED
        BY <1>1, <2>1, <3>1, CopyGoto
    <2>2. CASE d % 8 # 0 /\ n > 0 /\ CopyByte
      BY <1>1, <1>3, <2>2, CopyByteStep DEF ALIGN_DEST_TO8_UP
    <2>3. CASE d % 8 = 0 /\ (req.dest - req.src) % 8 = 0 /\ Goto("aligned")
      <3>1. s = d - (req.dest - req.src) /\ s % 8 = 0
        BY <1>2, <2>3
      <3> QED
        BY <1>1, <2>3, <3>1, CopyGoto
    <2>4. CASE d % 8 = 0 /\ (req.dest - req.src) % 8 # 0 /\ Goto("low")
      <3>1. req.dest - req.src = d - s
        BY <1>2
      <3>2. s % 8 # 0
        BY <1>2, <2>4, <3>1
      <3> QED
        BY <1>1, <2>4, <3>2, CopyGoto
    <2> QED
      BY <1>3, <2>1, <2>2, <2>3, <2>4 DEF ALIGN_DEST_TO8_UP
  <1>4. CASE __memcpy_aligned_up
    <2>1. CASE /\ at = "aligned" /\ n >= 8 /\ Put(Quad(s), 8) /\ s' = s + 8
               /\ load' = <<s, 8>> /\ at' = at
      BY <1>1, <2>1, CopyQuadStep
    <2>2. CASE Goto("rest")
      BY <1>1, <2>2, CopyGoto
    <2> QED
      BY <1>4, <2>1, <2>2 DEF __memcpy_aligned_up
  <1>5. CASE __memcpy_unaligned_up
    <2>1. CASE /\ at = "low" /\ n >= 8 /\ at' = "high" /\ word' = Quad(s)
               /\ load' = <<8 * (s \div 8), 8>> /\ store' = None
               /\ UNCHANGED <<mem, d, s, n, req, len>>
      BY <1>1, <2>1, CopyFirstStep
    <2>2. CASE Goto("rest")
      BY <1>1, <2>2, CopyGoto
    <2>3. CASE /\ at = "high" /\ n >= 8
               /\ Put(Or(extql(word, s), extqh(Quad(s + 8), s)), 8)
               /\ s' = s + 8 /\ word' = Quad(s + 8)
               /\ load' = <<8 * ((s + 8) \div 8), 8>> /\ at' = at
      BY <1>1, <2>3, CopyUnalignedStep
    <2> QED
      BY <1>5, <2>1, <2>2, <2>3 DEF __memcpy_unaligned_up
  <1>6. CASE DO_REST_UP
    <2>1. CASE at = "rest" /\ n > 0 /\ CopyByte
      BY <1>1, <2>1, CopyByteStep
    <2>2. CASE n <= 0 /\ Goto("done")
      <3>1. n = 0
        BY <1>2, <2>2
      <3> QED
        BY <1>1, <2>2, <3>1, CopyGoto
    <2> QED
      BY <1>6, <2>1, <2>2 DEF DO_REST_UP
  <1> QED
    BY <1>3, <1>4, <1>5, <1>6 DEF memcpy

-----------------------------------------------------------------------------
(* strlen. *)

\* A quadword is looked at, and no zero byte is before it.
LEMMA LookStep ==
    ASSUME MemInv, req.routine = "strlen", NEW here, NEW a \in Nat, NEW q,
           Look(here, a, q), a % 8 = 0, a >= 8 * (req.src \div 8),
           \A c \in req.src .. (a - 1) : mem[c] # {},
           q = [i \in 0..7 |-> IF a + i < req.src THEN Bits ELSE mem[a + i]],
           NEW b \in a .. a + 7, b >= req.src, \A c \in req.src .. (b - 1) : mem[c] # {}
    PROVE  MemInv'
  <1>1. /\ word' = q /\ s' = a /\ load' = <<a, 8>> /\ store' = <<0, 0>>
        /\ at' = IF Zeros(q) = {} THEN "loop" ELSE "found"
        /\ UNCHANGED <<mem, d, n, req, len>>
    BY DEF Look, None
  <1>2. mem = req.mem
    BY DEF MemInv, LenInv
  <1>3. AccessesAligned' /\ StoreInside'
    BY <1>1 DEF AccessesAligned, StoreInside
  <1>4. LoadTouches'
    <2>1. b \in Block(a, 8)
      BY DEF Block
    <2> QED
      BY <1>1, <1>2, <2>1 DEF LoadTouches
  <1>5. Zeros(word') = {} <=> at' = "loop"
    BY <1>1
  <1>6. at' \in {"loop", "found"}
    BY <1>1
  <1>7. LenInv'
    <2>1. Zeros(word)' = Zeros(word')
      BY DEF Zeros
    <2> HIDE DEF Zeros
    <2> QED
      BY <1>1, <1>2, <1>5, <1>6, <2>1 DEF LenInv
  <1> QED
    BY <1>1, <1>3, <1>4, <1>7 DEF MemInv, AccessesLegal

\* strlen, step by step (src/strlen.S:26-57).
LEMMA StrlenStep ==
    ASSUME MemInv, strlen
    PROVE  MemInv'
  <1>1. req.routine = "strlen"
    <2>1. at \in {"strlen", "loop", "found"}
      BY DEF strlen, Look
    <2>2. req.routine \in {"memset", "memcpy", "strlen"}
      BY DEF MemInv, Legal, Routines
    <2> QED
      BY <2>1, <2>2 DEF MemInv, SetInv, CopyInv
  <1>2. LenInv /\ s \in Nat /\ req.src \in Nat /\ mem = req.mem
    BY <1>1 DEF MemInv, LenInv, Legal
  <1>3. CASE Look("strlen", 8 * (s \div 8), FirstQuad(s))
    <2>1. s = req.src
      BY <1>2, <1>3 DEF Look, LenInv
    <2> DEFINE base == 8 * (s \div 8)
    <2>2. /\ base \in Nat /\ base % 8 = 0 /\ base + (s % 8) = s /\ s % 8 \in 0..7
          /\ 8 * (base \div 8) = base /\ base >= 8 * (req.src \div 8)
      BY <1>2, <2>1
    <2> HIDE DEF base
    <2>3. FirstQuad(s) = [i \in 0..7 |-> IF base + i < req.src THEN Bits
                                         ELSE mem[base + i]]
      <3>1. \A i \in 0..7 : i < s % 8 <=> base + i < req.src
        BY <1>2, <2>1, <2>2
      <3> QED
        BY <2>2, <3>1 DEF FirstQuad, Quad, base
    <2>4. s \in base .. base + 7
      BY <1>2, <2>2
    <2>5. /\ \A c \in req.src .. (s - 1) : mem[c] # {}
          /\ \A c \in req.src .. (base - 1) : mem[c] # {}
      <3>1. \A c \in Int : c >= req.src => ~(c <= s - 1) /\ ~(c <= base - 1)
        BY <1>2, <2>1, <2>2
      <3> QED
        BY <3>1
    <2>7. s >= req.src
      BY <1>2, <2>1
    <2>6. Look("strlen", base, FirstQuad(s))
      BY <1>3 DEF base
    <2> QED
      BY <1>1, <2>2, <2>3, <2>4, <2>5, <2>6, <2>7, LookStep
  <1>4. CASE Look("loop", s + 8, Quad(s + 8))
    <2>1. /\ s % 8 = 0 /\ s >= 8 * (req.src \div 8) /\ Zeros(word) = {}
          /\ \A c \in req.src .. (s - 1) : mem[c] # {}
          /\ word = [i \in 0..7 |-> IF s + i < req.src THEN Bits ELSE mem[s + i]]
      BY <1>2, <1>4 DEF Look, LenInv
    <2>2. /\ s + 8 \in Nat /\ (s + 8) % 8 = 0 /\ s + 8 >= req.src
          /\ 8 * ((s + 8) \div 8) = s + 8
          /\ s + 8 >= 8 * (req.src \div 8)
      BY <1>2, <2>1
    <2>3. Quad(s + 8) = [i \in 0..7 |-> IF (s + 8) + i < req.src THEN Bits
                                        ELSE mem[(s + 8) + i]]
      BY <1>2, <2>2 DEF Quad
    <2>4. \A c \in req.src .. ((s + 8) - 1) : mem[c] # {}
      <3> SUFFICES ASSUME NEW c \in req.src .. ((s + 8) - 1), c >= s
                   PROVE  mem[c] # {}
        BY <1>2, <2>1
      <3>1. c - s \in 0..7 /\ ~(s + (c - s) < req.src) /\ s + (c - s) = c
        BY <1>2
      <3>2. word[c - s] = mem[c]
        BY <2>1, <3>1
      <3> QED
        BY <2>1, <3>1, <3>2 DEF Zeros
    <2>5. s + 8 \in (s + 8) .. (s + 8) + 7
      BY <1>2
    <2> QED
      BY <1>1, <1>4, <2>2, <2>3, <2>4, <2>5, LookStep
  <1>5. CASE /\ at = "found" /\ at' = "done"
             /\ len' = s + Search(Zeros(word)) - req.src
             /\ load' = None /\ store' = None /\ UNCHANGED <<mem, d, s, n, word, req>>
    <2>1. /\ \A c \in req.src .. (s - 1) : mem[c] # {}
          /\ word = [i \in 0..7 |-> IF s + i < req.src THEN Bits ELSE mem[s + i]]
          /\ Zeros(word) # {}
      BY <1>2, <1>5 DEF LenInv
    <2> DEFINE z == Search(Zeros(word))
    <2>2. z \in Zeros(word) /\ \A j \in Zeros(word) : z <= j
      <3>1. Zeros(word) \in SUBSET (0..7)
        BY DEF Zeros
      <3> QED
        BY <2>1, <3>1, SearchLowest
    <2> HIDE DEF z
    <2>3. z \in 0..7 /\ word[z] = {} /\ \A j \in 0..7 : j < z => word[j] # {}
      BY <2>2 DEF Zeros
    <2>4. s + z >= req.src /\ mem[s + z] = {}
      <3>1. Bits # {}
        BY MemAssumption
      <3> QED
        BY <1>2, <2>1, <2>3, <3>1
    <2>5. len' = s + z - req.src /\ len' \in Nat /\ req.src + len' = s + z
      BY <1>2, <1>5, <2>3, <2>4 DEF z
    <2>6. \A k \in 0..len' - 1 : mem[req.src + k] # {}
      <3> SUFFICES ASSUME NEW k \in 0..len' - 1
                   PROVE  mem[req.src + k] # {}
        OBVIOUS
      <3> DEFINE c == req.src + k
      <3>1. c \in Nat /\ c >= req.src /\ c < s + z
        BY <1>2, <2>3, <2>5
      <3>2. CASE c < s
        BY <1>2, <2>1, <3>1, <3>2
      <3>3. CASE c >= s
        <4> HIDE DEF c
        <4>1. c - s \in 0..7 /\ c - s < z /\ s + (c - s) = c
          BY <1>2, <2>3, <3>1, <3>3
        <4>2. word[c - s] = IF s + (c - s) < req.src THEN Bits ELSE mem[s + (c - s)]
          BY <2>1, <4>1
        <4>3. word[c - s] = mem[c]
          BY <1>2, <3>1, <4>1, <4>2
        <4> QED
          BY <2>3, <4>1, <4>3 DEF c
      <3> QED
        BY <1>2, <3>1, <3>2, <3>3 DEF c
    <2>7. AccessesLegal'
      BY <1>5 DEF AccessesLegal, AccessesAligned, StoreInside, LoadTouches, None
    <2>8. LenInv'
      BY <1>2, <1>5, <2>4, <2>5, <2>6 DEF LenInv
    <2> QED
      BY <1>1, <1>5, <2>7, <2>8 DEF MemInv
  <1> QED
    BY <1>3, <1>4, <1>5 DEF strlen

-----------------------------------------------------------------------------
(* The routines together. *)

\* A call starts with nothing done.
LEMMA MemStart ==
    ASSUME MemInit
    PROVE  MemInv
  <1>1. req \in Requests /\ Legal(req)
    BY MemAssumption DEF MemInit
  <1>2. AccessesLegal
    BY DEF MemInit, None, AccessesLegal, AccessesAligned, StoreInside, LoadTouches
  <1>3. req.dest \in Nat /\ req.n \in Nat /\ req.src \in Nat /\ mem \in [Addr -> Byte]
        /\ mem = req.mem /\ d = req.dest /\ s = req.src /\ n = req.n /\ at = req.routine
    BY <1>1 DEF MemInit, Legal
  <1>4. Progress
    <2>1. req.dest .. (d - 1) = {}
      BY <1>3
    <2> QED
      BY <1>3, <2>1 DEF Progress
  <1> QED
    BY <1>1, <1>2, <1>3, <1>4 DEF MemInv, SetInv, CopyInv, LenInv

\* Every step of every routine keeps the invariant.
LEMMA MemStep ==
    ASSUME MemInv, [MemNext]_memVars
    PROVE  MemInv'
  <1>1. CASE UNCHANGED memVars
    <2>1. UNCHANGED <<mem, at, d, s, n, word, load, store, req, len>>
      BY <1>1 DEF memVars
    <2>2. AccessesLegal' <=> AccessesLegal
      BY <2>1 DEF AccessesLegal, AccessesAligned, StoreInside, LoadTouches
    <2>3. Progress' <=> Progress
      BY <2>1 DEF Progress, Placed
    <2>4. SetInv => SetInv'
      BY <2>1, <2>3 DEF SetInv
    <2>5. CopyInv => CopyInv'
      BY <2>1, <2>3 DEF CopyInv
    <2>6. Zeros(word)' = Zeros(word)
      BY <2>1 DEF Zeros
    <2>7. LenInv => LenInv'
      BY <2>1, <2>6 DEF LenInv
    <2> QED
      BY <2>1, <2>2, <2>4, <2>5, <2>7 DEF MemInv
  <1> QED
    BY <1>1, MemsetStep, MemcpyStep, StrlenStep DEF MemNext, Returned

\* The invariant says what the caller finds.
LEMMA MemReturns ==
    ASSUME MemInv
    PROVE  Result
  <1> SUFFICES ASSUME at = "done"
               PROVE  /\ mem = AfterCall(req)
                      /\ req.routine = "strlen" =>
                           /\ len \in Nat /\ mem[req.src + len] = {}
                           /\ \A k \in 0..len - 1 : mem[req.src + k] # {}
    BY DEF Result
  <1>1. /\ req.routine \in {"memset", "memcpy", "strlen"} /\ req.mem \in [Addr -> Byte]
        /\ req.dest \in Nat /\ req.n \in Nat
    BY DEF MemInv, Legal, Routines
  <1>2. CASE req.routine = "strlen"
    BY <1>1, <1>2 DEF MemInv, LenInv, AfterCall
  <1>3. CASE req.routine \in {"memset", "memcpy"}
    <2>1. Progress /\ n = 0
      BY <1>3 DEF MemInv, SetInv, CopyInv
    <2>2. Block(req.dest, req.n) = req.dest .. (d - 1)
      BY <1>1, <2>1 DEF Progress, Block
    <2> QED
      BY <1>3, <2>1, <2>2 DEF Progress, Placed, AfterCall
  <1> QED
    BY <1>1, <1>2, <1>3

\* No access of memset, memcpy or strlen is unaligned, no store leaves the block
\* asked for, and no load is of a quadword the caller's data is not in: for any
\* memory, addresses and lengths (src/memset.c, src/memcpy.c, src/strlen.S).
THEOREM MemAccessesLegal == MemSpec => []AccessesLegal
  <1>1. MemInit => MemInv
    BY MemStart
  <1>2. MemInv /\ [MemNext]_memVars => MemInv'
    BY MemStep
  <1>3. MemInv => AccessesLegal
    BY DEF MemInv
  <1> QED
    BY <1>1, <1>2, <1>3, PTL DEF MemSpec

\* memset and memcpy leave in memory what a loop over single bytes would leave,
\* and strlen returns the place of the first zero byte.
THEOREM MemResult == MemSpec => []Result
  <1>1. MemInit => MemInv
    BY MemStart
  <1>2. MemInv /\ [MemNext]_memVars => MemInv'
    BY MemStep
  <1>3. MemInv => Result
    BY MemReturns
  <1> QED
    BY <1>1, <1>2, <1>3, PTL DEF MemSpec

=============================================================================
