------------------------------ MODULE Console -------------------------------
(***************************************************************************)
(* printk, the console and the framebuffer.  Kernel paths that print, a    *)
(* task in sys_wait or in a panic and the scheduler, share the cursor and  *)
(* the pixels; the timer may switch between them.  A character is put out  *)
(* in three steps: its glyph, the cursor, the test for the end of the      *)
(* line.                                                                   *)
(*                                                                         *)
(* Pixels are grouped: line y of the framebuffer has one group per text    *)
(* column, which is line h of a character's glyph, blank, or what the boot *)
(* loader left there.  Colours are left out.                               *)
(***************************************************************************)
EXTENDS Common, Sequences, SequencesExt

CONSTANTS
    Writers,
    Messages,           \* what may be printed: sequences of [ch, arg]
    Glyphs,             \* characters of the font
    MaxMessages,        \* bound on how many of them are
    FbHeight,           \* pixel lines
    ConsWidth,          \* text columns
    FONT_HEIGHT,
    PRINTK_BUF_SIZE,
    INT_BITS,           \* width of int
    MaxGarbage,         \* bound on what an uninitialised size says
    SwitchInside        \* whether the timer may strike inside a character

ConsHeight == FbHeight \div FONT_HEIGHT

digits == <<"0", "1", "2", "3", "4", "5", "6", "7", "8", "9", "a", "b", "c", "d", "e", "f">>

Digits == {digits[i] : i \in 1 .. 16}
Numeric == {"u", "x", "d", "p"}
Textual == {"s", "i"}
Text == Glyphs \cup {"nl", "cr"}

\* A character of a format string.  One that can be a conversion comes with the
\* argument that it takes if it is one: uint32_t, int32_t, a pointer or a string.
Item ==
    [ch : (Text \cup {"%"}) \ (Numeric \cup Textual), arg : {0}]
        \cup [ch : {"u", "x"}, arg : 0 .. Pow2[INT_BITS] - 1]
        \cup [ch : {"d"}, arg : -Pow2[INT_BITS - 1] .. Pow2[INT_BITS - 1] - 1]
        \cup [ch : {"p"}, arg : Nat]
        \cup [ch : Textual, arg : Seq(Text)]

ASSUME ConsoleAssumption ==
    /\ FONT_HEIGHT \in Nat \ {0, 1} /\ FbHeight \in Nat /\ FbHeight >= FONT_HEIGHT
    /\ ConsWidth \in Nat \ {0} /\ MaxMessages \in Nat
    /\ PRINTK_BUF_SIZE \in Nat \ {0, 1} /\ INT_BITS \in Nat \ {0} /\ MaxGarbage \in Nat
    /\ SwitchInside \in BOOLEAN
    /\ Digits \cup Numeric \cup Textual \cup {"(", "n", "l", ")", "-", "?"} \subseteq Glyphs
    /\ {"nl", "cr"} \cap Glyphs = {}
    /\ \A m \in Messages : m \in Seq(Item)

VARIABLES
    screen,     \* [px, row, col]: framebuffer and cursor
    writer,     \* the calls of vprintk_color
    started     \* messages so far

vars == <<screen, writer, started>>

Lines == 0 .. FbHeight - 1
Blank == <<"none", 0>>
Leftover == <<"leftover", 0>>

-----------------------------------------------------------------------------
(* drivers/fb.c *)

fb_draw_glyph(px, ch, x, y) ==
    [l \in Lines |-> IF l \in y .. y + FONT_HEIGHT - 1 THEN [px[l] EXCEPT ![x] = <<ch, l - y>>]
                     ELSE px[l]]

\* Mutant: the lines move up by one line less.
fb_scroll_up_Short(px, height) ==
    [l \in Lines |-> IF l < FbHeight - height THEN px[l + height - 1]
                     ELSE [x \in 0 .. ConsWidth - 1 |-> Blank]]

fb_scroll_up(px, height) ==
    [l \in Lines |-> IF l < FbHeight - height THEN px[l + height]
                     ELSE [x \in 0 .. ConsWidth - 1 |-> Blank]]

-----------------------------------------------------------------------------
(* kernel/console.c *)

cons_newline_and_return(s) ==
    IF s.row + 1 = ConsHeight
    THEN [px |-> fb_scroll_up(s.px, FONT_HEIGHT), row |-> s.row, col |-> 0]
    ELSE [px |-> s.px, row |-> s.row + 1, col |-> 0]

draw_char(s, ch) == [s EXCEPT !.px = fb_draw_glyph(@, ch, s.col, FONT_HEIGHT * s.row)]

Advanced(s) == [s EXCEPT !.col = @ + 1]

Wrapped(s) == IF s.col = ConsWidth THEN cons_newline_and_return(s) ELSE s

-----------------------------------------------------------------------------
(* kernel/printk.c: what a conversion leaves in buf *)

\* What is left of a after i rounds of the loop that divides by base.
Quotient(a, base) == LET q[i \in Nat] == IF i = 0 THEN a ELSE q[i - 1] \div base IN q

\* A single digit for 0.
NumDigits(a, base) ==
    CHOOSE n \in 1 .. a + 1 : Quotient(a, base)[n] = 0 /\ \A i \in 1 .. n - 1 : Quotient(a, base)[i] # 0

LowestFirst(a, base) ==
    [i \in 1 .. NumDigits(a, base) |-> digits[(Quotient(a, base)[i - 1] % base) + 1]]

\* Mutant: the digits stay in the order in which they are computed.
bprintu64_Backwards(a, base) == LowestFirst(a, base)

\* The digits, the lowest first, then reversed.
bprintu64(a, base) == Reverse(LowestFirst(a, base))

\* Mutant: the string is terminated.
bprints64_Terminated(a, base) ==
    (IF a < 0 THEN <<"-">> \o bprintu64(-a, base) ELSE bprintu64(a, base)) \o <<"nul">>

bprints64(a, base) == IF a < 0 THEN <<"-">> \o bprintu64(-a, base) ELSE bprintu64(a, base)

bprintptr(ptr) ==
    IF ptr = 0 THEN <<"(", "n", "i", "l", ")">> ELSE <<"0", "x">> \o bprintu64(ptr, 16)

Converted(kind, val) ==
    CASE kind = "u" -> bprintu64(val, 10)
      [] kind = "x" -> bprintu64(val, 16)
      [] kind = "d" -> bprints64(val, 10)
      [] kind = "p" -> bprintptr(val)

-----------------------------------------------------------------------------
\* A call with its local variables.  size starts out as anything (-1).
Call(pc, fmt) ==
    [pc |-> pc, fmt |-> fmt, idle |-> TRUE, buf |-> <<>>, size |-> -1, out |-> <<>>, num |-> <<>>]

Quiet == Call("quiet", <<>>)

Init ==
    /\ screen = [px |-> [l \in Lines |-> [x \in 0 .. ConsWidth - 1 |-> Leftover]], row |-> 0, col |-> 0]
    /\ writer = [w \in Writers |-> Quiet]
    /\ started = 0

InCharacter(w) == writer[w].pc \in {"drawn", "advanced"}

\* The CPU is at w: nobody else was stopped inside a character, unless the
\* timer may strike there.
At(w, pc) == writer[w].pc = pc /\ (SwitchInside \/ \A v \in Writers \ {w} : ~InCharacter(v))

vprintk_color(w) ==
    /\ At(w, "quiet") /\ started < MaxMessages
    /\ \E m \in Messages : writer' = [writer EXCEPT ![w] = Call("format", m)]
    /\ started' = started + 1
    /\ UNCHANGED screen

Formatting(w) == At(w, "format") /\ writer[w].out = <<>> /\ writer[w].fmt # <<>>

\* The conversion at the cursor, and its argument.
Kind(w) == Head(writer[w].fmt).ch
Arg(w) == Head(writer[w].fmt).arg

\* The call after the character at the cursor, with out to be printed first.
Consumed(r, idle, size, out) ==
    [pc |-> "format", fmt |-> Tail(r.fmt), idle |-> idle,
     buf |-> r.buf, size |-> size, out |-> out, num |-> r.num]

\* A character between conversions: printed, unless it begins one.
FormatPlain(w) ==
    /\ Formatting(w) /\ writer[w].idle
    /\ writer' = [writer EXCEPT ![w] =
          IF Kind(w) = "%" THEN Consumed(writer[w], FALSE, writer[w].size, <<>>)
          ELSE Consumed(writer[w], TRUE, writer[w].size, <<Kind(w)>>)]
    /\ UNCHANGED <<screen, started>>

\* A conversion through buf.  The number and its base are noted.  Nothing checks
\* that it fits: past the end of buf it overwrites the stack, and what this call
\* does then is left open.
FormatNumber(w) ==
    /\ Formatting(w) /\ ~writer[w].idle /\ Kind(w) \in Numeric
    /\ LET b == Converted(Kind(w), Arg(w))
       IN  writer' = [writer EXCEPT ![w] =
              [pc |-> IF Len(b) <= PRINTK_BUF_SIZE THEN "format" ELSE "overrun",
               fmt |-> Tail(writer[w].fmt), idle |-> TRUE, buf |-> b,
               size |-> Len(b), out |-> b, num |-> <<Kind(w), Arg(w)>>]]
    /\ UNCHANGED <<screen, started>>

FormatString(w) ==
    /\ Formatting(w) /\ ~writer[w].idle /\ Kind(w) = "s"
    /\ writer' = [writer EXCEPT ![w] = Consumed(writer[w], TRUE, 0, Arg(w))]
    /\ UNCHANGED <<screen, started>>

\* Bytes of buf and of the stack behind it that were never written.
Garbage == UNION {[1 .. n -> {"?"}] : n \in 0 .. MaxGarbage}

\* The text of an error code.  size is not set: buf is printed again, or, when
\* nothing was converted before, as many bytes from buf on as size happens to say.
FormatError(w) ==
    /\ Formatting(w) /\ ~writer[w].idle /\ Kind(w) = "i"
    /\ \E rest \in IF writer[w].size = -1 THEN Garbage
                   ELSE {SubSeq(writer[w].buf, 1, writer[w].size)} :
          writer' = [writer EXCEPT ![w] = Consumed(writer[w], TRUE, writer[w].size, Arg(w) \o rest)]
    /\ UNCHANGED <<screen, started>>

\* Mutant: an unknown conversion is not skipped.
FormatUnknown_Stays(w) ==
    /\ Formatting(w) /\ ~writer[w].idle /\ Kind(w) \notin Numeric \cup Textual
    /\ writer' = [writer EXCEPT ![w] = [@ EXCEPT !.size = 0]]
    /\ UNCHANGED <<screen, started>>

FormatUnknown(w) ==
    /\ Formatting(w) /\ ~writer[w].idle /\ Kind(w) \notin Numeric \cup Textual
    /\ writer' = [writer EXCEPT ![w] = Consumed(writer[w], TRUE, 0, <<>>)]
    /\ UNCHANGED <<screen, started>>

Printing(w) == At(w, "format") /\ writer[w].out # <<>>

PutControl(w) ==
    /\ Printing(w) /\ Head(writer[w].out) \in {"nl", "cr"}
    /\ screen' = IF Head(writer[w].out) = "nl" THEN cons_newline_and_return(screen)
                 ELSE [screen EXCEPT !.row = 0]
    /\ writer' = [writer EXCEPT ![w].out = Tail(@)]
    /\ UNCHANGED started

PutGlyph(w) ==
    /\ Printing(w) /\ Head(writer[w].out) \notin {"nl", "cr"}
    /\ screen' = draw_char(screen, Head(writer[w].out))
    /\ writer' = [writer EXCEPT ![w].pc = "drawn"]
    /\ UNCHANGED started

PutAdvance(w) ==
    /\ At(w, "drawn")
    /\ screen' = Advanced(screen)
    /\ writer' = [writer EXCEPT ![w].pc = "advanced"]
    /\ UNCHANGED started

\* Mutant: the end of the line is not noticed.
PutWrap_NoTest(w) ==
    /\ At(w, "advanced")
    /\ writer' = [writer EXCEPT ![w].pc = "format", ![w].out = Tail(@)]
    /\ UNCHANGED <<screen, started>>

PutWrap(w) ==
    /\ At(w, "advanced")
    /\ screen' = Wrapped(screen)
    /\ writer' = [writer EXCEPT ![w].pc = "format", ![w].out = Tail(@)]
    /\ UNCHANGED started

PrintDone(w) ==
    /\ At(w, "format") /\ writer[w].out = <<>> /\ writer[w].fmt = <<>>
    /\ writer' = [writer EXCEPT ![w] = Quiet]
    /\ UNCHANGED <<screen, started>>

Step(w) ==
    \/ FormatPlain(w) \/ FormatNumber(w) \/ FormatString(w) \/ FormatError(w) \/ FormatUnknown(w)
    \/ PutControl(w) \/ PutGlyph(w) \/ PutAdvance(w) \/ PutWrap(w) \/ PrintDone(w)

\* Every message was printed, or nothing more can be said.
Silence ==
    /\ \A w \in Writers : writer[w].pc = "overrun" \/ (writer[w] = Quiet /\ started = MaxMessages)
    /\ UNCHANGED vars

Next == (\E w \in Writers : vprintk_color(w) \/ Step(w)) \/ Silence

\* The scheduler lets every printing path go on (Sched, RunnableRuns).
Spec == Init /\ [][Next]_vars /\ \A w \in Writers : WF_vars(Step(w))

-----------------------------------------------------------------------------
\* Whenever a character is about to be drawn, the cursor is on the screen: the
\* tests for the end of a line and of the screen are equalities, so a cursor
\* that misses them never comes back and fb_draw_glyph does not clip.
CursorInside ==
    (\A w \in Writers : ~InCharacter(w)) =>
        screen.row \in 0 .. ConsHeight - 1 /\ screen.col \in 0 .. ConsWidth - 1

\* The number that a sequence of digits denotes.
NumeralValue(ds, base) ==
    LET value[i \in 0 .. Len(ds)] ==
            IF i = 0 THEN 0
            ELSE value[i - 1] * base + (CHOOSE d \in 0 .. 15 : digits[d + 1] = ds[i])
    IN  value[Len(ds)]

\* The numeral in buf denotes the number that was passed, without leading
\* zeros, for the largest and smallest values of the type too.
NumeralsExact ==
    \A w \in Writers :
        writer[w].num # <<>> /\ writer[w].size > 0 /\ writer[w].num # <<"p", 0>> =>
            LET kind == writer[w].num[1]  val == writer[w].num[2]
                base == IF kind \in {"u", "d"} THEN 10 ELSE 16
                skip == CASE kind = "p" -> 2 [] kind = "d" /\ val < 0 -> 1 [] OTHER -> 0
                ds == SubSeq(writer[w].buf, skip + 1, writer[w].size)
            IN  /\ NumeralValue(ds, base) = IF val < 0 THEN -val ELSE val
                /\ Len(ds) > 1 => ds[1] # "0"

\* buf is as long as the smallest int needs, but the pointers of %p have up to 16
\* digits (acpi.c:54 and acpi.c:88 print pointers to the direct map): a call runs
\* over its end exactly when it converts a pointer that has one digit more than
\* buf has room for behind "0x".
OverrunByPointer ==
    \A w \in Writers :
        writer[w].pc = "overrun" <=>
            /\ writer[w].num # <<>> /\ writer[w].num[1] = "p"
            /\ writer[w].num[2] >= Pow2[4 * (PRINTK_BUF_SIZE - 2)]

\* Every printk that stays inside buf returns.
PrintkReturns == \A w \in Writers : writer[w].pc # "quiet" ~> writer[w].pc \in {"quiet", "overrun"}

-----------------------------------------------------------------------------
(* The pixels show a terminal.  A character counts from its first pixel on. *)

Shown ==
    LET busy == {w \in Writers : InCharacter(w)} IN
    IF busy = {} THEN screen
    ELSE IF \E w \in busy : writer[w].pc = "drawn" THEN Wrapped(Advanced(screen))
    ELSE Wrapped(screen)

\* The character that all lines of a cell belong to.
CharAt(px, r, x) ==
    LET first == px[FONT_HEIGHT * r][x] IN
    IF \A h \in 0 .. FONT_HEIGHT - 1 : px[FONT_HEIGHT * r + h][x] = <<first[1], h>> THEN first[1] ELSE "none"

ShownText ==
    [r \in 0 .. ConsHeight - 1 |-> [x \in 0 .. ConsWidth - 1 |-> CharAt(Shown.px, r, x)]]

Term == INSTANCE Terminal WITH
    Rows <- ConsHeight, Cols <- ConsWidth, Chars <- Glyphs, None <- "none",
    text <- ShownText, row <- Shown.row, col <- Shown.col

\* Glyphs, scrolling and the cursor together behave like a terminal, also when
\* the screen's height is no multiple of the font's and its pixels were never
\* cleared.
ScreenShowsText == Term!TSpec
=============================================================================
