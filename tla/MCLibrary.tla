------------------------------ MODULE MCLibrary ------------------------------
(***************************************************************************)
(* The routines that the rest of the firmware calls, for TLC: the VGA      *)
(* functions, memset, memcpy and strlen, and the output to the serial      *)
(* port.  They share no state: each behaviour runs one of the parts.       *)
(***************************************************************************)
EXTENDS Vga, MemRoutines, Serial

VARIABLE part
partVars == <<vars, memVars, serialVars, part>>

\* Memory for memset, memcpy and strlen.
const_Addr == 0..71
const_Bits == 0..6
Number(x) == {b \in const_Bits : (x \div 2^b) % 2 = 1}
Distinct == [a \in const_Addr |-> Number(a + 1)]
Request(f, dst, src, count, c, m) ==
    [routine |-> f, dest |-> dst, src |-> src, n |-> count, fill |-> c, mem |-> m]
const_Requests ==
    {Request("memset", dst, 0, k, c, Distinct) :
        dst \in 8..15, k \in 0..20, c \in {{}, {0, 3}}}
    \cup {Request("memcpy", dst, src, k, {}, Distinct) :
        dst \in 8..15, src \in 40..47, k \in 0..20}
    \* the destination begins where the source ends
    \cup {Request("memcpy", src + k, src, k, {}, Distinct) : src \in 8..15, k \in 0..20}
    \* zero bytes before the string and after it
    \cup {Request("strlen", 0, src, 0, {},
              [a \in const_Addr |-> IF a \in Block(src, k) THEN {a % 7} ELSE {}]) :
        src \in 8..15, k \in 0..20}

\* Formats for printf, with ints of 8 bits and longs of 12: every conversion
\* with every width and the edges of its range, and any two of the items that
\* take no number.
NumberItem(c, flags, n_) == [conv |-> c, flags |-> flags, num |-> n_, text |-> <<>>]
TextItem(c, flags, t) == [conv |-> c, flags |-> flags, num |-> 0, text |-> t]
FlagSets == {<<>>, <<"4">>, <<"0", "3">>, <<"1", "0">>, <<"0", "1", "0">>, <<"2", "l", "0", "7">>}
Long(flags) == flags \o <<"l">>
Ints == {-128, -127, -10, -1, 0, 99, 127}
Longs == {-2048, -1000, -1, 0, 999, 2047}
Unsigneds == {0, 9, 10, 171, 255, 256, 4095}
Singles ==
    {NumberItem("d", f, a) : f \in FlagSets, a \in Ints}
    \cup {NumberItem("d", Long(f), a) : f \in FlagSets, a \in Longs}
    \cup {NumberItem(c, f, a) : c \in {"u", "x"}, f \in FlagSets, a \in Unsigneds}
    \cup {NumberItem(c, Long(f), a) : c \in {"u", "x"}, f \in FlagSets, a \in Unsigneds}
Pairs == {TextItem("char", <<>>, <<"k">>), TextItem("%", <<>>, <<>>),
          TextItem("?", <<"5", "l">>, <<>>), TextItem("?", <<>>, <<>>),
          TextItem("s", <<>>, <<"a", "b">>), TextItem("s", <<>>, <<>>),
          NumberItem("d", <<"l">>, -31), NumberItem("x", <<"0", "2">>, 171)}
const_Formats == {<<>>} \cup {<<i>> : i \in Singles} \cup {<<i, j>> : i, j \in Pairs}
const_Buffers == {<<>>, <<"a">>, <<"b", "c", "d">>}

VgaIdle == /\ vga = Adapter(FALSE, 0, 0) /\ info = <<>> /\ dinfo = <<>>
           /\ mode = <<>> /\ last = <<>> /\ calls = 0
MemIdle == /\ mem = <<>> /\ at = "idle" /\ d = 0 /\ s = 0 /\ n = 0 /\ word = <<>>
           /\ load = None /\ store = None /\ req = <<>> /\ len = -1
MCInit ==
    \/ part = "vga" /\ Init /\ MemIdle /\ SerialInit
    \/ part = "mem" /\ VgaIdle /\ MemInit /\ SerialInit
    \/ part = "serial" /\ VgaIdle /\ MemIdle /\ SerialInit
\* The callers make no more calls.
Finished ==
    /\ \/ part = "vga" /\ calls = MaxCalls
       \/ part = "serial" /\ fn = "idle" /\ made = MaxSerialCalls
    /\ UNCHANGED partVars
MCNext ==
    \/ Finished
    \/ part = "vga" /\ Next /\ UNCHANGED <<memVars, serialVars, part>>
    \/ part = "mem" /\ MemNext /\ UNCHANGED <<vars, serialVars, part>>
    \/ part = "serial" /\ SerialNext /\ UNCHANGED <<vars, memVars, part>>
MCSpec == MCInit /\ [][MCNext]_partVars
=============================================================================
