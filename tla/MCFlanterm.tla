---------------------------- MODULE MCFlanterm -----------------------------
EXTENDS Flanterm
Seqs == INSTANCE SequencesExt

Screen(r, c, glyphs, values, commands) ==
  [rows |-> r, cols |-> c, glyphs |-> glyphs, values |-> values,
   commands |-> commands]
MCQuiet == Screen(1, 1, {}, {}, {"index"})

(* An empty screen and every movement; a text of one character and every   *)
(* command; saved cursors; erasing; editing; printing lines.               *)
MCScreens ==
  {MCQuiet,
   Screen(5, 6, {Space}, {0, 1, 2, 3, 4, 6},
          {"print", "move", "position", "region", "lines", "feed", "index",
           "reset", "tab", "line"}),
   Screen(3, 4, {Space}, {0, 1, 2, 4},
          {"print", "unicode", "position", "erase", "edit", "region", "insert"}),
   Screen(3, 4, {Space}, {1, 2},
          {"print", "position", "region", "save", "reset"}),
   Screen(3, 3, {"a"}, 0..3, {"print", "position", "erase"}),
   Screen(2, 3, {"a", "b"}, {0, 1, 2, 4},
          {"print", "position", "edit", "insert"}),
   Screen(3, 3, {"a", "b"}, {0}, {"print", "feed", "line"})}

(* Control sequences with more values than there is room for; private ones *)
(* and cancelled ones with the modes they set; characters of one to three  *)
(* bytes, two character sets, operating system commands.                   *)
MCAlphabets ==
  {{27, 91, 59, 49, 63, 72, 74, 24},
   {27, 91, 63, 50, 53, 52, 104, 108, 99, 97, 24},
   {27, 93, 92, 7, 41, 48, 14, 15, 55, 56, 97, 195, 169, 228, 184, 173, 204,
    129, 24}}

Palette(colours, codes) == [colours |-> colours, codes |-> codes]
MCPalettes ==
  {Palette({"black", "red"}, {"bold", "blink", "extended", "reinit"}),
   Palette({"black"}, {"bold", "save"})}

(* Calls of printf: every combination of flags with every conversion;      *)
(* every value, also those beyond the length's type; strings and           *)
(* characters; whole format strings, also cut short, into buffers.         *)
MCBits == [hh |-> 3, h |-> 4, int |-> 5, l |-> 8]
Directive(flags, width, star, precision, dot_star, length, conversion, arg) ==
  [plain |-> FALSE, flags |-> flags, width |-> width, star |-> star, precision |-> precision,
   dot_star |-> dot_star, length |-> length, conversion |-> conversion, arg |-> arg]
Bare(conversion, arg) ==
  Directive(<<>>, Printer!None, FALSE, Printer!None, FALSE, <<>>, conversion, arg)
Plain(c) == [Bare(c, 0) EXCEPT !.plain = TRUE]
Call(directives, tail, size) ==
  [directives |-> directives, tail |-> tail, size |-> size]

FlagSeqs == {Seqs!SetToSeq(F) : F \in SUBSET Printer!FlagChars}
Numbers ==
  {Directive(f, w, FALSE, p, FALSE, <<>>, c, value) :
     f \in FlagSeqs, w \in {-1, 3, 7}, p \in {-1, 0, 4},
     c \in {"d", "x", "o", "b"}, value \in {0, 9}}
  \cup {Directive(f, 6, FALSE, -1, FALSE, <<>>, c, 27) :
     f \in FlagSeqs, c \in {"u", "X", "i"}}
  \cup {Directive(<<>>, -1, FALSE, -1, FALSE, l, c, value) :
     l \in {<<"h", "h">>, <<"h">>, <<"l">>, <<"l", "l">>, <<"z">>},
     c \in {"d", "x"}, value \in -64..63 \cup {-128, 127, 255}}
  \cup {Directive(f, w, TRUE, 2, FALSE, <<>>, "d", 9) : f \in FlagSeqs, w \in {-6, -3, 0, 5}}
  \cup {Directive(<<"0">>, w, TRUE, p, TRUE, <<>>, c, value) :
     w \in {-16, 5}, p \in {-16, -1, 0, 3}, c \in {"d", "x"}, value \in {0, 9}}
  \cup {Directive(<<>>, w, FALSE, p, FALSE, <<>>, "d", 0) : w \in {3, 32, 35}, p \in {-1, 32, 34}}
Texts ==
  {Directive(f, w, FALSE, p, FALSE, <<>>, "s", text) :
     f \in {<<>>, <<"-">>}, w \in {-1, 2, 4}, p \in -1..3,
     text \in {<<>>, <<"h">>, <<"h", "i", "!">>, <<Printer!NUL>>}}
  \cup {Directive(<<>>, -1, FALSE, p, TRUE, <<>>, "s", text) :
     p \in {-1, 2}, text \in {<<>>, <<"h", "i", "!">>}}
  \cup {Bare("p", address) : address \in {0, 1, 9, 27, 255}}
  \cup {Directive(f, w, FALSE, -1, FALSE, <<>>, "c", "k") :
     f \in {<<>>, <<"-">>}, w \in {-1, 1, 3}}
Line ==
  <<Plain("k"), Bare("%", 0), Plain("d"), Bare("d", -7), Plain("l"), Bare("s", <<"h", "i">>)>>
Wide == Directive(<<>>, 15, TRUE, -1, FALSE, <<>>, "d", 9)
MCSilence == Call(<<>>, <<>>, Printer!Unlimited)
MCJobs ==
  {MCSilence}
  \cup {Call(<<d>>, <<>>, Printer!Unlimited) : d \in Numbers \cup Texts}
  \cup {Call(Line, tail, size) :
     tail \in {<<>>, <<"%">>, <<"%", ".">>, <<"%", "l">>, <<"%", "5">>, <<"%", "-">>},
     size \in -1..8}
  \cup {Call(directives, <<>>, size) :
     directives \in {<<Plain("k"), Wide, Wide>>, <<Plain("k"), Wide, Wide, Plain("l"), Plain("k")>>},
     size \in {0, 2, 14, 15, 16, 20}}

(* A precision in an argument, not negative and negative. *)
MCPrecisions ==
  {MCSilence}
  \cup {Call(<<Directive(<<>>, -1, FALSE, p, TRUE, <<>>, "s", <<"h", "i">>)>>, <<>>, Printer!Unlimited) :
     p \in {-1, 0, 1}}
=============================================================================
