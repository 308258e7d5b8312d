-------------------------------- MODULE Printf --------------------------------
(***************************************************************************)
(* The conversions of printf (src/printf.c).  A format is a sequence of    *)
(* items: a character, or a directive with the characters between its      *)
(* percent sign and its conversion and with its argument, a number or a    *)
(* text.                                                                   *)
(***************************************************************************)
EXTENDS Integers, Sequences

CONSTANTS LongSize,     \* 2^64
          IntSize,      \* 2^32
          Multiplier,   \* 0xcccccccccccccccd
          BufSize       \* sizeof(buf)

Power(b, n) == LET P[k \in Nat] == IF k = 0 THEN 1 ELSE b * P[k - 1] IN P[n]

\* The buffer holds the digits of any long, and one character more.
ASSUME PrintfAssumption ==
    /\ LongSize \in Nat /\ IntSize \in Nat /\ BufSize \in Nat \ {0}
    /\ 3 < IntSize /\ IntSize < LongSize
    /\ Multiplier \in Nat /\ 10 * Multiplier = 8 * LongSize + 2
    /\ LongSize <= Power(10, BufSize - 1)

DigitChar == <<"0", "1", "2", "3", "4", "5", "6", "7", "8", "9",
               "a", "b", "c", "d", "e", "f">>
Repeat(c, n) == [i \in 1..n |-> c]

\* The high half of the product, shifted right by 3.
umulh(a, b) == (a * b) \div LongSize
\* A bug: the multiplier is rounded down.
Div10Down(val) == umulh(val, Multiplier - 1) \div 8
Div10(val) == umulh(val, Multiplier) \div 8

print_decimal[val \in Nat] ==
    LET d == Div10(val)
        digit == <<DigitChar[val - d * 10 + 1]>>
    IN  IF d = 0 THEN digit ELSE print_decimal[d] \o digit
print_hex[val \in Nat] ==
    LET digit == <<DigitChar[(val % 16) + 1]>>
    IN  IF val \div 16 = 0 THEN digit ELSE print_hex[val \div 16] \o digit

\* What is written and what is returned.  The buffer holds BufSize characters;
\* what a wider field has more is written before them, one at a time.
\* A bug: those characters are not counted.
print_buf_pad_uncounted(p, width, pad) ==
    LET first == IF width > Len(p) THEN <<pad>> \o p ELSE p
        early == IF width > Len(p) /\ width > BufSize THEN width - BufSize ELSE 0
        filled == Repeat(pad, width - early - Len(first)) \o first
    IN  [text |-> Repeat(first[1], early) \o filled, r |-> Len(filled)]
print_buf_pad(p, width, pad) ==
    LET first == IF width > Len(p) THEN <<pad>> \o p ELSE p
        early == IF width > Len(p) /\ width > BufSize THEN width - BufSize ELSE 0
        filled == Repeat(pad, width - early - Len(first)) \o first
    IN  [text |-> Repeat(first[1], early) \o filled, r |-> early + Len(filled)]

(* The characters between the percent sign and the conversion. *)
Space == " "
NoFlags == [is_long |-> FALSE, pad |-> Space, width |-> 0, inWidth |-> FALSE]
DigitValue(c) == CHOOSE k \in 0..9 : DigitChar[k + 1] = c
Flag(f, c) ==
    IF c = "l" THEN [f EXCEPT !.is_long = TRUE, !.inWidth = FALSE]
    ELSE IF f.inWidth THEN [f EXCEPT !.width = 10 * @ + DigitValue(c)]
    ELSE [f EXCEPT !.inWidth = TRUE, !.width = DigitValue(c),
                   !.pad = IF c = "0" THEN c ELSE @]
FlagsUpto(cs) ==
    LET Upto[i \in 0..Len(cs)] == IF i = 0 THEN NoFlags ELSE Flag(Upto[i - 1], cs[i])
    IN  Upto
Flags(cs) == FlagsUpto(cs)[Len(cs)]

\* d = -d, then an unsigned long.  Minus the least int is undefined: it may
\* become its absolute value or be extended with its sign.
Magnitudes(f, d) ==
    IF d >= 0 THEN {d}
    ELSE IF ~f.is_long /\ -d = IntSize \div 2 THEN {-d, LongSize + d}
    ELSE {-d}
\* va_arg (args, unsigned int) or unsigned long.
Unsigned(f, arg) == arg % (IF f.is_long THEN LongSize ELSE IntSize)

Sum(text, r, more) == [text |-> text \o more.text, r |-> r + more.r]
\* The texts and counts an item may give.  Only the minus sign of an int counts.
Outputs(item) ==
    LET f == Flags(item.flags)
        Padded(digits) == print_buf_pad(digits, f.width, f.pad)
        Whole(text) == {[text |-> text, r |-> Len(text)]}
    IN  CASE item.conv = "char" -> Whole(item.text)
          [] item.conv = "%" -> Whole(<<"%">>)
          [] item.conv = "d" ->
               {IF item.num < 0
                THEN Sum(<<"-">>, IF f.is_long THEN 0 ELSE 1, Padded(print_decimal[val]))
                ELSE Padded(print_decimal[val]) : val \in Magnitudes(f, item.num)}
          [] item.conv = "u" -> {Padded(print_decimal[Unsigned(f, item.num)])}
          [] item.conv = "x" -> {Padded(print_hex[Unsigned(f, item.num)])}
          [] item.conv = "s" -> Whole(item.text)
          \* the unknown conversion's own character is left out
          [] OTHER -> Whole(<<"%">> \o item.flags)
===============================================================================
