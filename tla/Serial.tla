-------------------------------- MODULE Serial --------------------------------
(***************************************************************************)
(* What is written to the serial port: by printf while the firmware sets   *)
(* the machine up, later by the operating system through the console       *)
(* callbacks (src/crb.c), a character at a time as the UART (src/uart.c)   *)
(* takes them.  The UART, external, sends the one character it holds when  *)
(* it likes; while its LCR has DLAB set, the data port is the divisor.     *)
(***************************************************************************)
EXTENDS Printf, FiniteSets

CONSTANTS Formats,  \* what printf is called with: sequences of items
          Buffers,  \* what the operating system writes: sequences of characters
          Keys, Units,
          MaxSerialCalls  \* bound on the calls, of which printf is the first

\* A directive has its width and its l's in any order; a conversion that there is
\* not is "?".
Conversions == {"char", "%", "d", "u", "x", "s", "?"}
FlagChars == {DigitChar[k] : k \in 1..10} \cup {"l"}
IsLong(item) == \E i \in 1..Len(item.flags) : item.flags[i] = "l"
Items ==
    {item \in [conv : Conversions, flags : Seq(FlagChars), num : Int, text : Seq(STRING)] :
        item.conv = "d" =>
            LET half == (IF IsLong(item) THEN LongSize ELSE IntSize) \div 2
            IN  -half <= item.num /\ item.num < half}
ASSUME SerialAssumption ==
    /\ Formats \subseteq Seq(Items)
    /\ Buffers \subseteq Seq(STRING) /\ \A buf \in Buffers : Len(buf) < IntSize

VARIABLES
    uart,       \* lcr, mcr, dll, dlm, thr, rbr
    line,       \* the characters that were sent
    fn,         \* the function that runs
    items,      \* what is left of printf's format
    todo,       \* the characters of the current crb_puts
    r,          \* printf's count
    call,       \* the last call: its function and arguments
    answer,     \* what it returned
    regs,       \* whose value each register holds
    frame,      \* what VMStoUNIX saved
    asked,      \* auxiliary: all items and buffers that were to be written
    made        \* how many calls
serialVars == <<uart, line, fn, items, todo, r, call, answer, regs, frame, asked, made>>

-----------------------------------------------------------------------------
(* The UART.  LSR bits 0 and 5: a character came; THR is empty. *)
Thr == "Thr"
Lcr == "Lcr"
Dlab(u) == u.lcr >= 128
outb(u, port, b) ==
    CASE port = Thr -> IF Dlab(u) THEN [u EXCEPT !.dll = b] ELSE [u EXCEPT !.thr = <<b>>]
      [] port = "Dlm" -> IF Dlab(u) THEN [u EXCEPT !.dlm = b] ELSE u
      [] port = Lcr -> [u EXCEPT !.lcr = b]
      [] port = "Mcr" -> [u EXCEPT !.mcr = b]
uart_charav == uart.rbr # <<>>
Sent ==
    /\ uart.thr # <<>>
    /\ line' = line \o uart.thr /\ uart' = [uart EXCEPT !.thr = <<>>]
    /\ UNCHANGED <<fn, items, todo, r, call, answer, regs, frame, asked, made>>
Typed(c) ==
    /\ ~uart_charav /\ uart' = [uart EXCEPT !.rbr = <<c>>]
    /\ UNCHANGED <<line, fn, items, todo, r, call, answer, regs, frame, asked, made>>

\* The character is stored when THR is empty.
uart_putchar_raw ==
    /\ todo # <<>> /\ uart.thr = <<>>
    /\ uart' = outb(uart, Thr, Head(todo)) /\ todo' = Tail(todo)
    /\ UNCHANGED <<line, fn, items, r, call, answer, regs, frame, asked, made>>

Baudconst(baud) ==
    CASE baud = 56000 -> 2 [] baud = 38400 -> 3 [] baud = 19200 -> 6 [] baud = 9600 -> 12
      [] baud = 4800 -> 24 [] baud = 2400 -> 48 [] baud = 1200 -> 96
      [] baud = 300 -> 384 [] baud = 150 -> 768 [] OTHER -> 12
\* In the end what was received is read and dropped.
uart_init_line(u, baud) ==
    LET divisor == outb(outb(outb(u, Lcr, 135), "Dlm", 0), Thr, Baudconst(baud) % 256)
    IN  [outb(outb(divisor, Lcr, 7), "Mcr", 15) EXCEPT !.rbr = <<>>]

-----------------------------------------------------------------------------
(* printf, before the operating system runs. *)
uart_init ==
    /\ fn = "boot" /\ fn' = "idle" /\ uart' = uart_init_line(uart, 9600)
    /\ UNCHANGED <<line, items, todo, r, call, answer, regs, frame, asked, made>>
printf(fmt) ==
    /\ fn = "idle" /\ made = 0
    /\ fn' = "printf" /\ items' = fmt /\ r' = 0 /\ call' = <<"printf", fmt>>
    /\ asked' = asked \o fmt /\ made' = made + 1
    /\ UNCHANGED <<uart, line, todo, answer, regs, frame>>
PrintItem ==
    /\ fn = "printf" /\ todo = <<>> /\ items # <<>>
    /\ \E out \in Outputs(Head(items)) : todo' = out.text /\ r' = r + out.r
    /\ items' = Tail(items)
    /\ UNCHANGED <<uart, line, fn, call, answer, regs, frame, asked, made>>
PrintfReturns ==
    /\ fn = "printf" /\ todo = <<>> /\ items = <<>>
    /\ fn' = "idle" /\ answer' = <<r>>
    /\ UNCHANGED <<uart, line, items, todo, r, call, regs, frame, asked, made>>

-----------------------------------------------------------------------------
(* The callbacks: crb_dispatch saves the registers that VMS code expects  *)
(* back and C code does not keep; int_crb_dispatch is C code.             *)
ERR == LongSize \div 2
NotSupported == ERR + LongSize \div 4
CKept == (9..15) \cup {30}
VMStoUNIX == {26} \cup (2..8)
crb_dispatch(select, args) ==
    /\ fn = "idle" /\ made < MaxSerialCalls
    /\ fn' = select /\ call' = <<select>> \o args /\ made' = made + 1
    /\ frame' = [i \in VMStoUNIX |-> regs[i]]
    /\ regs' = [i \in 0..30 |-> IF i \in CKept THEN regs[i] ELSE "C"]
    /\ UNCHANGED <<uart, line, items, r, answer>>
Kernel(select, args) == crb_dispatch(select, args) /\ UNCHANGED <<todo, asked>>
PutsCall(unit, buf) ==
    /\ crb_dispatch("PUTS", <<unit, buf>>)
    /\ todo' = (IF unit = 0 THEN buf ELSE <<>>)
    /\ asked' = (IF unit = 0 THEN Append(asked, [conv |-> "s", flags |-> <<>>, num |-> 0,
                                               text |-> buf])
                             ELSE asked)
Returns(select, result, u) ==
    /\ fn = select /\ todo = <<>>
    /\ fn' = "idle" /\ answer' = <<result>> /\ uart' = u
    /\ regs' = [i \in 0..30 |-> IF i \in DOMAIN frame THEN frame[i] ELSE regs[i]]
    /\ UNCHANGED <<line, items, todo, r, call, frame, asked, made>>
crb_getc ==
    \/ fn = "GETC" /\ call[2] # 0 /\ Returns("GETC", ERR, uart)
    \/ fn = "GETC" /\ call[2] = 0 /\ uart_charav /\ Returns("GETC", Head(uart.rbr), [uart EXCEPT !.rbr = <<>>])
crb_puts ==
    Returns("PUTS", IF call[2] # 0 THEN ERR ELSE Len(call[3]) % IntSize, uart)
crb_reset_term ==
    \/ fn = "RESET_TERM" /\ call[2] # 0 /\ Returns("RESET_TERM", ERR, uart)
    \/ fn = "RESET_TERM" /\ call[2] = 0 /\ Returns("RESET_TERM", 0, uart_init_line(uart, 9600))
HasBit(x, b) == (x \div b) % 2 = 1
crb_set_term_int ==
    Returns("SET_TERM_INT",
            IF call[2] # 0 \/ HasBit(call[3], 2) \/ HasBit(call[3], 32) THEN ERR ELSE 0, uart)
\* The routines that are not there, and the selectors that are none.
Constant ==
    [s \in {"SET_TERM_CTL", "OPEN", "IOCTL", "READ", "WRITE", "PSWITCH", "none"} |-> ERR]
Unsupported ==
    [s \in {"PROCESS_KEYCODE", "GET_ENV", "SET_ENV", "RESET_ENV", "SAVE_ENV"} |-> NotSupported]
crb_constant ==
    \/ fn \in DOMAIN Constant /\ Returns(fn, Constant[fn], uart)
    \/ fn \in DOMAIN Unsupported /\ Returns(fn, Unsupported[fn], uart)
    \/ Returns("CLOSE", 0, uart)

SerialInit ==
    /\ uart = [lcr |-> 0, mcr |-> 0, dll |-> 0, dlm |-> 0, thr |-> <<>>, rbr |-> <<>>]
    /\ line = <<>> /\ fn = "boot" /\ items = <<>> /\ todo = <<>> /\ r = 0
    /\ call = <<>> /\ answer = <<>> /\ asked = <<>> /\ made = 0
    /\ regs = [i \in 0..30 |-> "kernel"] /\ frame = <<>>
SerialNext ==
    \/ Sent \/ (\E c \in Keys : Typed(c)) \/ uart_putchar_raw \/ uart_init
    \/ (\E fmt \in Formats : printf(fmt)) \/ PrintItem \/ PrintfReturns
    \/ \E unit \in Units :
          \/ \E buf \in Buffers : PutsCall(unit, buf)
          \/ \E select \in {"GETC", "RESET_TERM"} : Kernel(select, <<unit>>)
          \/ \E mask \in {0, 1, 2, 32} : Kernel("SET_TERM_INT", <<unit, mask>>)
    \/ \E select \in DOMAIN Constant \cup DOMAIN Unsupported \cup {"CLOSE"} :
          Kernel(select, <<>>)
    \/ crb_getc \/ crb_puts \/ crb_reset_term \/ crb_set_term_int \/ crb_constant
SerialSpec == SerialInit /\ [][SerialNext]_serialVars

-----------------------------------------------------------------------------
(* Properties. *)

\* What the characters of a directive mean: an l anywhere, and the numbers
\* between them, of which the last is the width.
Starts(cs) == {i \in 1..Len(cs) : cs[i] # "l" /\ (i = 1 \/ cs[i - 1] = "l")}
NumeralUpto(cs, i) ==
    LET Value[k \in 0..Len(cs)] ==
            IF k < i THEN 0
            ELSE IF cs[k] = "l" THEN Value[k - 1] ELSE 10 * Value[k - 1] + DigitValue(cs[k])
    IN  Value
Numeral(cs, i) == NumeralUpto(cs, i)[Len(cs)]
Field(digits, cs) ==
    LET width == IF Starts(cs) = {} THEN 0
                 ELSE Numeral(cs, CHOOSE i \in Starts(cs) : \A j \in Starts(cs) : j <= i)
    IN  Repeat(IF \E i \in Starts(cs) : cs[i] = "0" THEN "0" ELSE Space,
               IF width > Len(digits) THEN width - Len(digits) ELSE 0) \o digits
\* The text that an item stands for.
Digits(val, base) ==
    LET n == CHOOSE k \in 1..val + 1 :
                val < Power(base, k) /\ (k = 1 \/ val >= Power(base, k - 1))
    IN  [i \in 1..n |-> DigitChar[((val \div Power(base, n - i)) % base) + 1]]
RefText(item) ==
    LET val == item.num % (IF IsLong(item) THEN LongSize ELSE IntSize)
        abs == IF item.num < 0 THEN -item.num ELSE item.num
    IN  CASE item.conv \in {"char", "s"} -> item.text
          [] item.conv = "%" -> <<"%">>
          [] item.conv = "d" -> (IF item.num < 0 THEN <<"-">> ELSE <<>>)
                                  \o Field(Digits(abs, 10), item.flags)
          [] item.conv = "u" -> Field(Digits(val, 10), item.flags)
          [] item.conv = "x" -> Field(Digits(val, 16), item.flags)
          [] OTHER -> <<"%">> \o item.flags
TextUpto(fmt) ==
    LET Upto[i \in 0..Len(fmt)] == IF i = 0 THEN <<>> ELSE Upto[i - 1] \o RefText(fmt[i])
    IN  Upto
TextOf(fmt) == TextUpto(fmt)[Len(fmt)]
\* The least int, whose minus is undefined; and the sign that is not counted.
LeastInt(item) ==
    item.conv = "d" /\ ~IsLong(item) /\ -item.num = IntSize \div 2
NegativeLong(item) == item.conv = "d" /\ IsLong(item) /\ item.num < 0
Defined(fmt) == \A i \in 1..Len(fmt) : ~LeastInt(fmt[i])

\* Every character of every text comes out once, in order and right, however
\* slowly the UART takes them and whatever the operating system made between:
\* what was sent, what the UART holds, what is being written and what is left
\* of the format are together the text that was asked for (src/printf.c:24-201,
\* src/crb.c:51-66, src/uart.c:64-69).
OutputComplete ==
    Defined(asked) => line \o uart.thr \o todo \o TextOf(items) = TextOf(asked)

\* A caller is told how many characters were written, except for the minus
\* sign of a long; a unit that is not there is an error; and after a callback
\* the registers that VMS code keeps, $2 to $15, are the kernel's again
\* (src/printf.c:97-201, src/crb.c:51-66, src/crb.c:226-258).
AnswersRight ==
    /\ fn = "idle" /\ call # <<>> =>
         /\ call[1] = "printf" /\ Defined(call[2]) =>
              answer = <<Len(TextOf(call[2]))
                          - Cardinality({i \in DOMAIN call[2] : NegativeLong(call[2][i])})>>
         /\ call[1] = "PUTS" =>
              answer = <<IF call[2] = 0 THEN Len(call[3]) ELSE ERR>>
    /\ fn \in {"idle", "boot", "printf"} => \A i \in 2..15 : regs[i] = "kernel"
=============================================================================
