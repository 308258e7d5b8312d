----------------------------- MODULE MemRoutines -----------------------------
(***************************************************************************)
(* memset (src/memset.c), memcpy (src/memcpy.c) and strlen (src/strlen.S), *)
(* one memory access a step.  The Alpha traps on an access that is not     *)
(* aligned to its width, and the firmware has no handler that mends it;    *)
(* ldq_u alone rounds its address down.  A byte is the set of its bits, so *)
(* that a zero byte is {} and a bitwise or is a union.                     *)
(***************************************************************************)
EXTENDS Integers

CONSTANTS Addr,     \* the addresses of memory, whole quadwords
          Bits,     \* the bits of a byte
          Requests  \* the calls: routine, dest, src, n, fill and memory

VARIABLES mem,
          at,       \* where the routine is
          d, s, n,  \* destination, source and bytes left
          word,     \* memset's val, memcpy's low_word, strlen's quadword
          load, store, \* the addresses and widths of the last step's accesses
          req,      \* the call
          len       \* what strlen returned, or -1

memVars == <<mem, at, d, s, n, word, load, store, req, len>>

Byte == SUBSET Bits
Routines == {"memset", "memcpy", "strlen"}

\* What a caller may ask: memory there is, and for memcpy no overlap, for
\* strlen a terminated string.
Block(first, count) == first .. first + count - 1
Legal(r) ==
    /\ r.routine \in Routines
    /\ r.dest \in Nat /\ r.src \in Nat /\ r.n \in Nat
    /\ r.fill \in Byte /\ r.mem \in [Addr -> Byte]
    /\ r.routine \in {"memset", "memcpy"} => Block(r.dest, r.n) \subseteq Addr
    /\ r.routine = "memcpy" =>
         /\ Block(r.src, r.n) \subseteq Addr
         /\ Block(r.dest, r.n) \cap Block(r.src, r.n) = {}
    /\ r.routine = "strlen" =>
         \E a \in Addr : a >= r.src /\ r.src..a \subseteq Addr /\ r.mem[a] = {}
ASSUME MemAssumption ==
    /\ Addr \subseteq Nat /\ Bits # {}
    /\ \A a \in Addr : Block(8 * (a \div 8), 8) \subseteq Addr
    /\ \A r \in Requests : Legal(r)

-----------------------------------------------------------------------------
(* Quadwords: byte 0 is the lowest. *)
Quad(a) == [i \in 0..7 |-> mem[8 * (a \div 8) + i]]
Or(p, q) == [i \in 0..7 |-> p[i] \cup q[i]]
ShiftLeft(q, k) == [i \in 0..7 |-> IF i >= k THEN q[i - k] ELSE {}]
extql(q, a) == [i \in 0..7 |-> IF i + (a % 8) < 8 THEN q[i + (a % 8)] ELSE {}]
extqh(q, a) == [i \in 0..7 |-> IF a % 8 = 0 THEN q[i]
                               ELSE IF i + (a % 8) >= 8 THEN q[i + (a % 8) - 8] ELSE {}]

\* val & 0xff, doubled three times.
Fill(c) ==
    LET v1 == [i \in 0..7 |-> IF i = 0 THEN c ELSE {}]
        v2 == Or(v1, ShiftLeft(v1, 1))
        v4 == Or(v2, ShiftLeft(v2, 2))
    IN  Or(v4, ShiftLeft(v4, 4))

-----------------------------------------------------------------------------
(* Steps. *)
None == <<0, 0>>
Goto(place) ==
    /\ at' = place /\ load' = None /\ store' = None
    /\ UNCHANGED <<mem, d, s, n, word, req, len>>

\* Store the w low bytes of q at d.
Put(q, w) ==
    /\ mem' = [a \in Addr |-> IF a \in Block(d, w) THEN q[a - d] ELSE mem[a]]
    /\ store' = <<d, w>> /\ d' = d + w /\ n' = n - w
    /\ UNCHANGED <<req, len>>

(* memset *)
BitSet(x, w) == (x \div w) % 2 = 1
SetStep(w, next) ==
    Put(word, w) /\ at' = next /\ load' = None /\ UNCHANGED <<s, word>>
\* if (ptr & w) { if (size < w) goto tail; store; }
Align(here, w, next, tail) ==
    /\ at = here
    /\ \/ ~BitSet(d, w) /\ Goto(next)
       \/ BitSet(d, w) /\ n < w /\ Goto(tail)
       \/ BitSet(d, w) /\ n >= w /\ SetStep(w, next)
\* if (size >= w) store;
Rest(here, w, next) ==
    /\ at = here
    /\ \/ n >= w /\ SetStep(w, next)
       \/ n < w /\ Goto(next)
memset ==
    \/ at = "memset" /\ n = 0 /\ Goto("done")
    \/ /\ at = "memset" /\ n # 0 /\ at' = "byte" /\ word' = Fill(req.fill)
       /\ UNCHANGED <<mem, d, s, n, load, store, req, len>>
    \/ Align("byte", 1, "short", "done")
    \/ Align("short", 2, "int", "tail_1")
    \/ Align("int", 4, "longs", "tail_3")
    \/ at = "longs" /\ n >= 8 /\ SetStep(8, "longs")
    \/ at = "longs" /\ n < 8 /\ Goto("rest_4")
    \/ Rest("rest_4", 4, "tail_3")
    \/ Rest("tail_3", 2, "tail_1")
    \/ Rest("tail_1", 1, "done")

(* memcpy *)
CopyByte ==
    /\ Put([i \in 0..7 |-> mem[s]], 1) /\ s' = s + 1 /\ load' = <<s, 1>>
    /\ UNCHANGED <<at, word>>
ALIGN_DEST_TO8_UP ==
    /\ at = "memcpy"
    /\ \/ d % 8 # 0 /\ n <= 0 /\ Goto("done")
       \/ d % 8 # 0 /\ n > 0 /\ CopyByte
       \/ d % 8 = 0 /\ Goto(IF (req.dest - req.src) % 8 = 0 THEN "aligned" ELSE "low")
__memcpy_aligned_up ==
    /\ at = "aligned"
    /\ \/ /\ n >= 8 /\ Put(Quad(s), 8) /\ s' = s + 8 /\ load' = <<s, 8>>
          /\ UNCHANGED <<at, word>>
       \/ n < 8 /\ Goto("rest")
\* A bug: the quadword just loaded is not kept for the next turn.
__memcpy_unaligned_upLow ==
    \/ /\ at = "low" /\ n >= 8 /\ at' = "high" /\ word' = Quad(s)
       /\ load' = <<8 * (s \div 8), 8>> /\ store' = None
       /\ UNCHANGED <<mem, d, s, n, req, len>>
    \/ at \in {"low", "high"} /\ n < 8 /\ Goto("rest")
    \/ /\ at = "high" /\ n >= 8
       /\ Put(Or(extql(word, s), extqh(Quad(s + 8), s)), 8)
       /\ s' = s + 8 /\ load' = <<8 * ((s + 8) \div 8), 8>> /\ UNCHANGED <<at, word>>
\* Each quadword of the source is loaded once, by ldq_u.
__memcpy_unaligned_up ==
    \/ /\ at = "low" /\ n >= 8 /\ at' = "high" /\ word' = Quad(s)
       /\ load' = <<8 * (s \div 8), 8>> /\ store' = None
       /\ UNCHANGED <<mem, d, s, n, req, len>>
    \/ at \in {"low", "high"} /\ n < 8 /\ Goto("rest")
    \/ /\ at = "high" /\ n >= 8
       /\ Put(Or(extql(word, s), extqh(Quad(s + 8), s)), 8)
       /\ s' = s + 8 /\ word' = Quad(s + 8) /\ load' = <<8 * ((s + 8) \div 8), 8>>
       /\ UNCHANGED at
DO_REST_UP ==
    /\ at = "rest"
    /\ \/ n > 0 /\ CopyByte
       \/ n <= 0 /\ Goto("done")
\* A bug: the choice of the loop looks at the destination alone.
memcpyByDest ==
    \/ at = "memcpy" /\ d % 8 = 0 /\ Goto("aligned")
    \/ at = "memcpy" /\ d % 8 # 0 /\ ALIGN_DEST_TO8_UP
    \/ __memcpy_aligned_up \/ __memcpy_unaligned_up \/ DO_REST_UP
memcpy ==
    ALIGN_DEST_TO8_UP \/ __memcpy_aligned_up \/ __memcpy_unaligned_up \/ DO_REST_UP

(* strlen: s is $0, the address of the quadword in word. *)
Zeros(q) == {i \in 0..7 : q[i] = {}}
FirstQuad(a) == [i \in 0..7 |-> IF i < a % 8 THEN Bits ELSE Quad(a)[i]]
\* $2 and -$2: the lowest bit alone; then a binary search by masks.
Lowest(z) == {i \in z : \A j \in z : i <= j}
Search(z) ==
    LET one == Lowest(z)
        Add(mask, k) == IF one \cap mask = {} THEN k ELSE 0
    IN  IF 0 \in z THEN 0
        ELSE Add({0, 1, 2, 3}, 4) + Add({0, 1, 4, 5}, 2) + Add({0, 2, 4, 6}, 1)
Look(here, a, q) ==
    /\ at = here /\ word' = q /\ s' = a /\ load' = <<a, 8>> /\ store' = None
    /\ at' = IF Zeros(q) = {} THEN "loop" ELSE "found"
    /\ UNCHANGED <<mem, d, n, req, len>>
strlen ==
    \/ Look("strlen", 8 * (s \div 8), FirstQuad(s))
    \/ Look("loop", s + 8, Quad(s + 8))
    \/ /\ at = "found" /\ at' = "done" /\ len' = s + Search(Zeros(word)) - req.src
       /\ load' = None /\ store' = None /\ UNCHANGED <<mem, d, s, n, word, req>>

MemInit ==
    /\ req \in Requests /\ mem = req.mem /\ at = req.routine
    /\ d = req.dest /\ s = req.src /\ n = req.n
    /\ word = [i \in 0..7 |-> {}] /\ load = None /\ store = None /\ len = -1
Returned == at = "done" /\ UNCHANGED memVars
MemNext == memset \/ memcpy \/ strlen \/ Returned
MemSpec == MemInit /\ [][MemNext]_memVars

-----------------------------------------------------------------------------
(* Properties. *)

\* Every load and store is aligned to its width, so none of them traps; every
\* store is inside the block that was asked for; and every load touches a byte
\* of the source or of the string: one that is wider than what is left never
\* reaches a quadword the caller did not pass (src/memset.c:43-95,
\* src/memcpy.c:24-160, src/strlen.S:26-57).
AccessesAligned == \A a \in {load, store} : a[2] # 0 => a[1] % a[2] = 0
StoreInside ==
    store[2] # 0 => Block(store[1], store[2]) \subseteq Block(req.dest, req.n)
LoadTouches ==
    load[2] # 0 =>
        \E b \in Block(load[1], load[2]) :
            /\ b >= req.src
            /\ IF req.routine = "strlen" THEN \A c \in req.src..b - 1 : req.mem[c] # {}
                                         ELSE b < req.src + req.n
AccessesLegal == AccessesAligned /\ StoreInside /\ LoadTouches

\* What is in the memory when the routine returns.
AfterCall(r) ==
    [a \in Addr |->
        IF r.routine = "strlen" \/ a \notin Block(r.dest, r.n) THEN r.mem[a]
        ELSE IF r.routine = "memset" THEN r.fill ELSE r.mem[r.src + (a - r.dest)]]

\* When a routine returns, every byte is what a loop over single bytes would
\* have left, and strlen's answer is the place of the first zero byte.
Result ==
    at = "done" =>
        /\ mem = AfterCall(req)
        /\ req.routine = "strlen" =>
             /\ len \in Nat /\ mem[req.src + len] = {}
             /\ \A k \in 0..len - 1 : mem[req.src + k] # {}
=============================================================================
