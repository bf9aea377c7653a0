---------------------------- MODULE MCToolchain ----------------------------
(***************************************************************************)
(* The assembler, linker and loader on files made of a few lines.          *)
(***************************************************************************)
EXTENDS Toolchain

L(name) == [label |-> name, toks |-> <<>>]
T(toks) == [label |-> "", toks |-> toks]

\* Two code labels, what refers to them, and what the parser reports.
CodeLines ==
  {L("A"), L("B"), T(<<"jmp", "A">>), T(<<"jne", "B">>), T(<<"mov", "%r1", "A">>),
   T(<<"cmp", "%r0", "5">>), T(<<"add", "%sp", "%sp", "-40">>), T(<<"store", "8(%sp)", "%r1">>)}

\* The other instruction forms, with numbers and operands on both sides of what they take.
OperandLines ==
  {T(<<"mov", "%r1", k>>) : k \in {"%r3", "%block_index", "32767", "32768", "-32768", "7x", "A"}}
  \union {T(<<"add", "%r3", "%r1", k>>) : k \in {"%r8", "127", "128", "7x", "A"}}
  \union {T(<<"shl", "%r0", "%r1", k>>) : k \in {"-128", "3"}}
  \union {T(<<"cmp", "%r0", "%flags">>), T(<<"nop">>), T(<<"halt">>), T(<<"add", "%r1", "%r1">>),
          T(<<"load", "%r4", "255(%sp)">>), T(<<"load", "%r4", "300(%sp)">>),
          T(<<"store", "%sp", "%r1">>), T(<<"store", "8(A)", "%r1">>),
          T(<<"store", "8(%sp)", "%r9">>), T(<<"restorepc", "-8(%sp)">>),
          T(<<"load", "%r4", "7x(%sp)">>), T(<<".long", "7x">>),
          T(<<"je", "A">>), L("A"),
          DataDirective, CodeDirective, T(<<".long", "D">>)}

\* Data objects and the instructions that load their address.
DataLines ==
  {DataDirective, CodeDirective, L("A"), L("D"), T(<<".long", "-3">>),
   T(<<"loadaddress_lo", "r0", "D">>), T(<<"loadaddress_mid", "r0", "D">>),
   T(<<"jmp", "A">>)}

AllLines == CodeLines \union OperandLines \union DataLines

\* Long files of few kinds of lines, and short ones of many.
FileBounds == {<<CodeLines, 5>>, <<OperandLines, 3>>, <<DataLines, 5>>}
WithinBounds ==
  \E b \in FileBounds : {text[n] : n \in DOMAIN text} \subseteq b[1] /\ Len(text) <= b[2]

MCNumber ==
  [k \in {"5", "3", "-3", "8", "-8", "-40", "127", "128", "-128", "255", "300", "32767",
          "32768", "-32768", "7x"} |->
     CASE k = "7x" -> 7 [] k = "5" -> 5 [] k = "3" -> 3 [] k = "-3" -> -3 [] k = "8" -> 8
       [] k = "-8" -> -8 [] k = "-40" -> -40 [] k = "127" -> 127 [] k = "128" -> 128
       [] k = "-128" -> -128 [] k = "255" -> 255 [] k = "300" -> 300
       [] k = "32767" -> 32767 [] k = "32768" -> 32768 [] k = "-32768" -> -32768]

MCTrailing == {"7x"}

MCSymbols == {"A", "B", "D", "r0"}

MCMemoryOperand ==
  [t \in {"8(%sp)", "-8(%sp)", "255(%sp)", "300(%sp)", "7x(%sp)", "8(A)"} |->
     CASE t = "8(%sp)" -> <<"8", "%sp">> [] t = "-8(%sp)" -> <<"-8", "%sp">>
       [] t = "255(%sp)" -> <<"255", "%sp">> [] t = "300(%sp)" -> <<"300", "%sp">>
       [] t = "7x(%sp)" -> <<"7x", "%sp">> [] t = "8(A)" -> <<"8", "A">>]

\* A word of the last instruction's kind, and one of every bit.
MCUninitialized == {[b0 |-> 1, b1 |-> 0, b2 |-> 0, b3 |-> 0],
                    [b0 |-> 255, b1 |-> 255, b2 |-> 255, b3 |-> 255]}
=============================================================================
