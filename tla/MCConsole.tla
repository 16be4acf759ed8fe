----------------------------- MODULE MCConsole ------------------------------
(* Messages for Console.  Integers have 16 bits, so that -32768 is as long as *)
(* buf, as -2147483648 is in the code, and so is the longest pointer that fits: *)
(* the next one, 65536, stands for the kernel's pointers.                     *)
EXTENDS Console

INT_MIN == -32768
UINT_MAX == 65535

FontGlyphs == Digits \cup Numeric \cup Textual \cup {"(", "n", "l", ")", "-", "?", "g", "E"}

Plain(c) == [ch |-> c, arg |-> 0]
Conv(c, a) == [ch |-> c, arg |-> a]
P == Plain("%")

SmallMessages ==
    {<<P, Conv("d", INT_MIN), Plain("nl")>>,
     <<P, Conv("u", UINT_MAX), P, Conv("x", 10)>>,
     <<P, Conv("p", 65535), Plain("cr")>>,
     <<P, Conv("p", 65536)>>,
     <<Plain("g"), P, P, P, Conv("p", 0)>>,
     <<P, Conv("s", <<"g">>), P, Conv("d", 0)>>,
     <<P, Conv("i", <<"E">>), Plain("nl")>>,
     <<P, Conv("u", 10), P, Conv("i", <<"E">>)>>}
=============================================================================
