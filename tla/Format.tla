-------------------------------- MODULE Format --------------------------------
(***************************************************************************)
(* Formatted output, src/lib/printf.c in the configuration that the kernel *)
(* builds (no floating point): format_string_loop, one directive or one    *)
(* character of the format string a step, and the conversions it calls, up *)
(* to the characters that reach the gadget: a buffer of a given size, as in*)
(* vsnprintf, or a function, as in vprintf and vfctprintf.  An address is a*)
(* long.  Characters are strings of length one.  The set of a directive's  *)
(* flags also holds "." for FLAGS_PRECISION, "X" for FLAGS_UPPERCASE and   *)
(* "p" for FLAGS_POINTER.  Left out: %n, which writes to an argument.      *)
(*                                                                         *)
(* A definition whose name ends in an underscore and a word is a faulty    *)
(* variant of the definition after it.                                     *)
(***************************************************************************)
EXTENDS Integers, Sequences, SequencesExt, FiniteSetsExt

CONSTANTS
  BufferSize,   \* PRINTF_INTEGER_BUFFER_SIZE (32)
  Bits          \* of a char, a short, an int and a long: [hh, h, int, l]

FormatAssumption ==
  /\ BufferSize \in Nat \ {0}
  /\ \A type \in {"hh", "h", "int", "l"} : Bits[type] \in Nat \ {0}
  /\ Bits["int"] > 1

VARIABLES
  job,        \* the call: its directives, the tail of its format string, and
              \* the size of its buffer, or Unlimited for a function
  print_pc,   \* "loop", "done", "halted", or "past" the end of the format
  format,     \* what is left of the format string
  args,       \* the arguments that are left
  printed,    \* the characters given to putchar_via_gadget
  buffer      \* the buffer, from 0 on; there is none for a function

printVars == <<job, print_pc, format, args, printed, buffer>>

NUL == "nul"
None == -1
Unlimited == -1
Digits10 == <<"0", "1", "2", "3", "4", "5", "6", "7", "8", "9">>
Digits16 == Digits10 \o <<"a", "b", "c", "d", "e", "f">>
Upper16 == Digits10 \o <<"A", "B", "C", "D", "E", "F">>
FlagChars == {"0", "-", "+", " ", "#"}
Integral == {"d", "i", "u", "x", "X", "o", "b"}
Times(c, n) == [i \in 1..n |-> c]

(* 2^n *)
Power(n) ==
  LET power[k \in Nat] == IF k = 0 THEN 1 ELSE 2 * power[k - 1]
  IN  power[n]

(* limits.h, and the number of values of a printf_size_t, an unsigned int. *)
INT_MIN == -Power(Bits["int"] - 1)
INT_MAX == Power(Bits["int"] - 1) - 1
Sizes == Power(Bits["int"])
-----------------------------------------------------------------------------
(* The parts of a directive, from the character after the '%' on. *)

Char(i) == IF i <= Len(format) THEN format[i] ELSE NUL

(* The first position from i on whose character is not one of S. *)
Past(i, S) == CHOOSE j \in i..(Len(format) + 1) :
                Char(j) \notin S /\ \A k \in i..(j - 1) : Char(k) \in S

(* atou_.  The remainder may be taken after the last digit, too. *)
Digit(c) == CHOOSE n \in 0..9 : Digits10[n + 1] = c
Number(s) ==
  LET value[k \in 0..Len(s)] == IF k = 0 THEN 0 ELSE value[k - 1] * 10 + Digit(s[k])
  IN  value[Len(s)]
atou_(s) == Number(s) % Sizes

PastNumber(i) == IF Char(i) = "*" THEN i + 1 ELSE Past(i, Range(Digits10))
PastLength(i) ==
  CASE Char(i) \in {"l", "h"} -> IF Char(i + 1) = Char(i) THEN i + 2 ELSE i + 1
    [] Char(i) \in {"t", "j", "z"} -> i + 1
    [] OTHER -> i

Parse ==
  LET f == Past(2, FlagChars)
      w == PastNumber(f)
      p == IF Char(w) = "." THEN PastNumber(w + 1) ELSE w
      c == PastLength(p)
      before == IF Char(f) = "*" THEN 1 ELSE 0
      stars == IF p > w /\ Char(w + 1) = "*" THEN before + 1 ELSE before
      width == IF before = 1 THEN args[1] ELSE atou_(SubSeq(format, f, w - 1))
      precision == IF stars > before THEN args[stars]
                   ELSE atou_(SubSeq(format, w + 1, p - 1))
  IN  [flags |-> Range(SubSeq(format, 2, f - 1))
                   \cup (IF width < 0 THEN {"-"} ELSE {})
                   \cup (IF p > w THEN {"."} ELSE {}),
       width |-> IF width < 0 THEN -width ELSE width,
       precision |-> IF p > w /\ precision > 0 THEN precision ELSE 0,
       type |-> CASE SubSeq(format, p, c - 1) = <<"h", "h">> -> "hh"
                  [] SubSeq(format, p, c - 1) = <<"h">> -> "h"
                  [] p = c -> "int"
                  [] OTHER -> "l",
       conversion |-> Char(c),
       end |-> c,
       stars |-> stars]
-----------------------------------------------------------------------------
(* The conversions: the characters they give to the gadget. *)

(* out_rev_ *)
OutRev(s, width, flags) ==
  (IF flags \cap {"-", "0"} = {} THEN Times(" ", width - Len(s)) ELSE <<>>)
    \o Reverse(s)
    \o (IF "-" \in flags THEN Times(" ", width - Len(s)) ELSE <<>>)

(* A character added to buf, or zeros up to a length, as far as it has room.*)
Put(s, c) == IF Len(s) < BufferSize THEN Append(s, c) ELSE s
Zeros(s, len) == s \o Times("0", Min({len, BufferSize}) - Len(s))

(* The digits of a value, the last one first. *)
Converted(value, base, digits) ==
  LET loop[v \in Nat] == IF v = 0 THEN <<>>
                         ELSE <<digits[(v % base) + 1]>> \o loop[v \div base]
  IN  SubSeq(loop[value], 1, Min({Len(loop[value]), BufferSize}))

TakeBack_OnlyOne(s, digits, base) == IF Len(digits) < Len(s) THEN Front(s) ELSE s
(* Padding is taken back so that the prefix fits in the width. *)
TakeBack(s, digits, base) ==
  LET n == IF base = 8 THEN 1 ELSE 2
  IN  SubSeq(s, 1, Max({Min({Len(digits), Len(s)}), Len(s) - n}))

(* print_integer_finalization of the digits. *)
Finalized(digits, negative, base, precision, full, flags) ==
  LET signed == negative \/ flags \cap {"+", " "} # {}
      width == IF full > 0 /\ "-" \notin flags /\ "0" \in flags /\ signed
               THEN full - 1 ELSE full
      zeroed == IF "-" \notin flags /\ "0" \in flags THEN Zeros(digits, width) ELSE digits
      padded == Zeros(zeroed, precision)
      hash == \/ "p" \in flags
              \/ "#" \in flags /\ ~ (base = 8 /\ Len(padded) > Len(digits))
      room == IF "." \notin flags /\ padded # <<>> /\ Len(padded) \in {precision, width}
              THEN TakeBack(padded, digits, base) ELSE padded
      lettered == CASE base = 16 -> Put(room, IF "X" \in flags THEN "X" ELSE "x")
                    [] base = 2 -> Put(room, "b")
                    [] OTHER -> room
      prefixed == IF hash THEN Put(lettered, "0") ELSE padded
      sign == CASE negative -> <<"-">>
                [] ~ negative /\ "+" \in flags -> <<"+">>
                [] ~ negative /\ "+" \notin flags /\ " " \in flags -> <<" ">>
                [] OTHER -> <<>>
  IN  OutRev(IF sign = <<>> THEN prefixed ELSE Put(prefixed, sign[1]), width, flags)

print_integer(value, negative, base, precision, width, flags) ==
  IF value = 0
  THEN Finalized(IF "." \in flags THEN <<>> ELSE <<"0">>, negative, base, precision, width,
                 IF "." \in flags /\ base # 16 THEN flags ELSE flags \ {"#"})
  ELSE Finalized(Converted(value, base, IF "X" \in flags THEN Upper16 ELSE Digits16),
                 negative, base, precision, width, flags)

(* An argument as a value of the directive's type. *)
Unsigned(x, type) == x % Power(Bits[type])
Signed(x, type) ==
  LET u == Unsigned(x, type)
  IN  IF u < Power(Bits[type] - 1) THEN u ELSE u - Power(Bits[type])

PrintIntegral(d, arg) ==
  LET base == CASE d.conversion \in {"x", "X"} -> 16 [] d.conversion = "o" -> 8
                [] d.conversion = "b" -> 2 [] OTHER -> 10
      signed == d.conversion \in {"d", "i"}
      value == IF signed THEN Signed(arg, d.type) ELSE Unsigned(arg, d.type)
      flags == (d.flags \cup {d.conversion})
                 \ ((IF base = 10 THEN {"#"} ELSE {})
                      \cup (IF "." \in d.flags THEN {"0"} ELSE {})
                      \cup (IF signed THEN {} ELSE {"+", " "}))
  IN  print_integer(IF value < 0 THEN -value ELSE value, value < 0, base,
                    d.precision, d.width, flags)

Padded(s, width, flags) ==
  IF "-" \in flags THEN s \o Times(" ", width - Len(s))
  ELSE Times(" ", width - Len(s)) \o s

PrintPointer(d, arg) ==
  LET width == Bits["l"] \div 4 + 2
      flags == d.flags \cup {"0", "p"}
  IN  IF arg = 0 THEN OutRev(<<")", "l", "i", "n", "(">>, width, flags)
      ELSE print_integer(arg, FALSE, 16, d.precision, width, flags)

(* A string is the sequence of its characters, <<NUL>> is NULL. *)
PrintString(d, arg) ==
  IF arg = <<NUL>> THEN OutRev(<<")", "l", "l", "u", "n", "(">>, d.width, d.flags)
  ELSE Padded(IF "." \in d.flags THEN SubSeq(arg, 1, Min({d.precision, Len(arg)})) ELSE arg,
              d.width, d.flags)

Converts == Integral \cup {"c", "s", "p"}

Conversion(d, arg) ==
  CASE d.conversion \in Integral -> PrintIntegral(d, arg)
    [] d.conversion = "c" -> Padded(<<arg>>, Max({d.width, 1}), d.flags)
    [] d.conversion = "s" -> PrintString(d, arg)
    [] d.conversion = "p" -> PrintPointer(d, arg)
    [] OTHER -> <<d.conversion>>

(* The negation of the least int, as a width, and of the least long, as a  *)
(* value, overflows, which the sanitizer reports: the kernel halts.        *)
WidthOverflows == Char(Past(2, FlagChars)) = "*" /\ args[1] = INT_MIN
Overflows(d, arg) ==
  /\ d.conversion \in {"d", "i"} /\ d.type = "l"
  /\ Signed(arg, "l") = -Power(Bits["l"] - 1)
-----------------------------------------------------------------------------
(* The format string of a sequence of directives, and their arguments.  A  *)
(* plain character counts as a directive.  star and dot_star tell that the *)
(* width and the precision are arguments.                                  *)

InBase(value, base, digits) ==
  LET f[v \in Nat] == IF v = 0 THEN <<>> ELSE Append(f[v \div base], digits[(v % base) + 1])
  IN  f[value]

Numeral(n) == CASE n = None -> <<>> [] n = 0 -> <<"0">> [] OTHER -> InBase(n, 10, Digits10)
Written(d) ==
  IF d.plain THEN <<d.conversion>>
  ELSE IF d.conversion = "%" THEN <<"%", "%">>
  ELSE <<"%">> \o d.flags \o (IF d.star THEN <<"*">> ELSE Numeral(d.width))
         \o (CASE d.dot_star -> <<".", "*">>
               [] ~ d.dot_star /\ d.precision = None -> <<>>
               [] OTHER -> <<".">> \o Numeral(d.precision))
         \o d.length \o <<d.conversion>>
Arguments(d) ==
  IF d.plain \/ d.conversion = "%" THEN <<>>
  ELSE (IF d.star THEN <<d.width>> ELSE <<>>)
         \o (IF d.dot_star THEN <<d.precision>> ELSE <<>>) \o <<d.arg>>

Lengths == {<<>>, <<"h">>, <<"h", "h">>, <<"l">>, <<"l", "l">>, <<"t">>, <<"j">>, <<"z">>}

(* The directives to which the C standard gives a meaning; of %p, whose    *)
(* output it leaves open, the plain one.                                   *)
DirectiveOK(d) ==
  /\ d.plain \in BOOLEAN
  /\ IF d.plain THEN d.conversion \in STRING \ {"%", NUL}
     ELSE d.conversion \in Converts \cup {"%"}
  /\ ~ d.plain /\ d.conversion \in Converts =>
       /\ d.flags \in Seq(FlagChars)
       /\ d.star \in BOOLEAN /\ d.dot_star \in BOOLEAN
       /\ d.width \in IF d.star THEN INT_MIN..INT_MAX ELSE (Nat \ {0}) \cup {None}
       /\ d.precision \in IF d.dot_star THEN INT_MIN..INT_MAX ELSE Nat \cup {None}
       /\ d.length \in Lengths
       /\ d.conversion \in Integral => d.arg \in Int
       /\ d.conversion = "c" => d.arg \in STRING
       /\ d.conversion = "s" => d.arg \in Seq(STRING) /\ Len(d.arg) <= INT_MAX
       /\ d.conversion \in {"c", "s"} => Range(d.flags) \subseteq {"-"}
       /\ d.conversion = "p" =>
            d.arg \in Nat /\ d.flags = <<>> /\ d.precision = None /\ d.width = None
            /\ ~ d.star /\ ~ d.dot_star

(* A format string may end within a directive: after its flags, in its     *)
(* width or its precision, or after its length.                            *)
CutOff(tail) ==
  \/ tail = <<>>
  \/ /\ tail[1] = "%"
     /\ \E f \in 1..Len(tail) : \E w \in f..Len(tail) : \E p \in w..Len(tail) :
          /\ Range(SubSeq(tail, 2, f)) \subseteq FlagChars
          /\ Range(SubSeq(tail, f + 1, w)) \subseteq Range(Digits10)
          /\ w > f => tail[f + 1] # "0"
          /\ p > w => /\ tail[w + 1] = "."
                      /\ Range(SubSeq(tail, w + 2, p)) \subseteq Range(Digits10)
          /\ SubSeq(tail, p + 1, Len(tail)) \in Lengths

JobOK(call) ==
  /\ call.directives \in Seq(Range(call.directives))
  /\ \A d \in Range(call.directives) : DirectiveOK(d)
  /\ call.tail \in Seq(STRING) /\ CutOff(call.tail)
  /\ call.size \in Nat \cup {Unlimited}

(* The start of a call, the job.                                           *)
PrintInit ==
  /\ print_pc = "loop"
  /\ format = FlattenSeq([i \in DOMAIN job.directives |-> Written(job.directives[i])]) \o job.tail
  /\ args = FlattenSeq([i \in DOMAIN job.directives |-> Arguments(job.directives[i])])
  /\ printed = <<>>
  /\ buffer = <<>>

max_chars == IF job.size \in 0..INT_MAX THEN job.size ELSE INT_MAX

(* What the buffer keeps of the characters out.  The position is a         *)
(* printf_size_t, too: after the last one come the places of the first.    *)
Stored(out) ==
  IF job.size = Unlimited THEN <<>>
  ELSE [i \in 1..Min({max_chars, Len(out)}) |-> out[i + Sizes * ((Len(out) - i) \div Sizes)]]

(* putchar_via_gadget, of each of the characters *)
Emit(chars) ==
  /\ printed' = printed \o chars
  /\ buffer' = Stored(printed')

PrintChar ==
  /\ print_pc = "loop" /\ Char(1) \notin {"%", NUL}
  /\ Emit(<<Char(1)>>)
  /\ format' = Tail(format)
  /\ UNCHANGED <<job, print_pc, args>>

(* The sanitizer's report of an overflow. *)
Halt ==
  /\ print_pc = "loop" /\ Char(1) = "%"
  /\ \/ WidthOverflows
     \/ Parse.conversion \in Integral /\ Overflows(Parse, args[Parse.stars + 1])
  /\ print_pc' = "halted"
  /\ UNCHANGED <<job, format, args, printed, buffer>>

(* The format string ends within a directive.  Only some of the places     *)
(* where it may are tested for; from the others the loop goes on past the  *)
(* end of the string.                                                      *)
CutShort ==
  /\ print_pc = "loop" /\ Char(1) = "%" /\ ~ WidthOverflows
  /\ Parse.conversion = NUL
  /\ IF Parse.end = 2 \/ format[Parse.end - 1] \in {"*", ".", "l", "h", "t", "j", "z"}
     THEN /\ format' = <<>>
          /\ UNCHANGED print_pc
     ELSE /\ print_pc' = "past"
          /\ UNCHANGED format
  /\ UNCHANGED <<job, args, printed, buffer>>

Directive ==
  /\ print_pc = "loop" /\ Char(1) = "%" /\ ~ WidthOverflows
  /\ Parse.conversion # NUL
  /\ LET d == Parse
         arg == IF d.conversion \in Converts THEN args[d.stars + 1] ELSE 0
     IN  /\ ~ (d.conversion \in Integral /\ Overflows(d, arg))
         /\ Emit(Conversion(d, arg))
         /\ format' = SubSeq(format, d.end + 1, Len(format))
         /\ args' = SubSeq(args, d.stars + (IF d.conversion \in Converts THEN 2 ELSE 1),
                           Len(args))
  /\ UNCHANGED <<job, print_pc>>

WithNul(out, at) == [i \in 1..Max({at, Len(out)}) |-> IF i = at THEN NUL ELSE out[i]]
Terminated_PastEnd(out) ==
  IF job.size = Unlimited \/ max_chars = 0 THEN out
  ELSE WithNul(out, Min({Len(printed) % Sizes, max_chars}) + 1)

(* append_termination_with_gadget *)
Terminated(out) ==
  IF job.size = Unlimited \/ max_chars = 0 THEN out
  ELSE WithNul(out, Min({Len(printed) % Sizes, max_chars - 1}) + 1)

Terminate ==
  /\ print_pc = "loop" /\ Char(1) = NUL
  /\ buffer' = Terminated(buffer)
  /\ print_pc' = "done"
  /\ UNCHANGED <<job, format, args, printed>>

PrintNext == PrintChar \/ Halt \/ CutShort \/ Directive \/ Terminate

PrintSpec == JobOK(job) /\ PrintInit /\ [][PrintNext]_printVars
-----------------------------------------------------------------------------
(* What the C standard says that a directive prints. *)

(* A width in an argument may be negative: it stands for the flag "-".     *)
StandardFlags(d) == Range(d.flags) \cup (IF d.star /\ d.width < 0 THEN {"-"} ELSE {})
StandardWidth(d) == IF d.star /\ d.width < 0 THEN -d.width ELSE d.width

PadsWithZeros(d) ==
  "0" \in StandardFlags(d) /\ "-" \notin StandardFlags(d) /\ d.precision = None

StandardInteger(d, type, width) ==
  LET flags == StandardFlags(d)
      value == IF d.conversion \in {"d", "i"} THEN Signed(d.arg, type) ELSE Unsigned(d.arg, type)
      size == IF value < 0 THEN -value ELSE value
      digits == CASE d.conversion \in {"x", "X"} ->
                       InBase(size, 16, IF d.conversion = "X" THEN Upper16 ELSE Digits16)
                  [] d.conversion = "o" -> InBase(size, 8, Digits16)
                  [] d.conversion = "b" -> InBase(size, 2, Digits16)
                  [] OTHER -> InBase(size, 10, Digits16)
      atLeast == IF d.precision = None THEN 1 ELSE d.precision
      precise == Times("0", atLeast - Len(digits)) \o digits
      octal == "#" \in flags /\ d.conversion = "o" /\ (precise = <<>> \/ precise[1] # "0")
      body == IF octal THEN <<"0">> \o precise ELSE precise
      prefix == IF "#" \in flags /\ size # 0 /\ d.conversion \in {"x", "X", "b"}
                THEN <<"0", d.conversion>> ELSE <<>>
      signs == IF d.conversion \in {"d", "i"} THEN flags \cap {"+", " "} ELSE {}
      sign == CASE value < 0 -> <<"-">>
                [] value >= 0 /\ "+" \in signs -> <<"+">>
                [] value >= 0 /\ signs = {" "} -> <<" ">>
                [] OTHER -> <<>>
      pad == width - Len(sign \o prefix \o body)
  IN  CASE "-" \in flags -> sign \o prefix \o body \o Times(" ", pad)
        [] PadsWithZeros(d) -> sign \o prefix \o Times("0", pad) \o body
        [] OTHER -> Times(" ", pad) \o sign \o prefix \o body

TypeOf(d) == CASE d.length = <<"h", "h">> -> "hh" [] d.length = <<"h">> -> "h"
               [] d.length = <<>> -> "int" [] OTHER -> "l"

Standard(d) ==
  CASE d.plain \/ d.conversion = "%" -> <<d.conversion>>
    [] ~ d.plain /\ d.conversion \in Integral -> StandardInteger(d, TypeOf(d), StandardWidth(d))
    [] ~ d.plain /\ d.conversion = "c" -> Padded(<<d.arg>>, StandardWidth(d), StandardFlags(d))
    [] ~ d.plain /\ d.conversion = "s" ->
         Padded(CASE d.arg = <<NUL>> -> <<"(", "n", "u", "l", "l", ")">>
                  [] d.arg # <<NUL>> /\ d.precision = None -> d.arg
                  [] OTHER -> SubSeq(d.arg, 1, Min({d.precision, Len(d.arg)})),
                StandardWidth(d), StandardFlags(d))
    [] ~ d.plain /\ d.conversion = "p" ->     \* what this printf says
         IF d.arg = 0 THEN <<"(", "n", "i", "l", ")">>
         ELSE LET digits == InBase(d.arg, 16, Digits16)
              IN  <<"0", "x">> \o Times("0", Bits["l"] \div 4 - Len(digits)) \o digits

(* The directive d with another width and precision. *)
Respelt(d, width, precision) ==
  [plain |-> FALSE, flags |-> d.flags, width |-> width, star |-> d.star,
   precision |-> precision, dot_star |-> FALSE, length |-> d.length,
   conversion |-> d.conversion, arg |-> d.arg]

(* A negative precision in an argument means none ...                      *)
AsMeant(d) ==
  IF ~ d.plain /\ d.conversion \in Converts /\ d.dot_star
  THEN Respelt(d, d.width, IF d.precision < 0 THEN None ELSE d.precision)
  ELSE d

(* ... but is read as 0; and other numbers are read as a printf_size_t.    *)
AsRead(d) ==
  IF ~ d.plain /\ d.conversion \in Converts
  THEN Respelt(d, CASE d.star \/ d.width = None -> d.width
                    [] ~ (d.star \/ d.width = None) /\ d.width % Sizes = 0 -> None
                    [] OTHER -> d.width % Sizes,
                  CASE d.dot_star -> Max({d.precision, 0})
                    [] ~ d.dot_star /\ d.precision = None -> None
                    [] OTHER -> d.precision % Sizes)
  ELSE d

Expected == FlattenSeq([i \in DOMAIN job.directives |-> Standard(AsMeant(job.directives[i]))])

(* A number fits its buffer, not counting spaces, and is not a binary zero *)
(* with a precision and a prefix.                                          *)
FitsBuffer(d) ==
  /\ ~ d.plain /\ d.conversion \in Integral =>
       Len(StandardInteger(d, TypeOf(d), IF PadsWithZeros(d) THEN StandardWidth(d) ELSE 0))
         <= BufferSize
  /\ ~ d.plain /\ d.conversion = "p" => Len(Standard(d)) <= BufferSize
  /\ ~ d.plain /\ d.conversion = "b" /\ "#" \in Range(d.flags) /\ d.precision # None =>
       Unsigned(d.arg, TypeOf(d)) # 0

(* The exceptions: what does not fit; and a negative precision or a number *)
(* beyond a printf_size_t, unless it is read as what it means, or it makes *)
(* no difference.                                                          *)
Regular(d) == FitsBuffer(AsRead(d)) /\ Standard(AsRead(d)) = Standard(AsMeant(d))

(* Numbers and strings are printed as the C standard says, for every       *)
(* combination of flags, width, precision, length and conversion that is   *)
(* regular, also if the width and the precision are arguments; only the    *)
(* least long, as a value, and the least int, as a width, stop the kernel, *)
(* and only a format string that ends after a flag or a digit is read past *)
(* its end (printf.c:428-553, 1024-1346).                                  *)
PrintsAsStandard ==
  /\ print_pc = "done" /\ (\A d \in Range(job.directives) : Regular(d)) => printed = Expected
  /\ print_pc = "halted" =>
       \E d \in Range(job.directives) :
         /\ ~ d.plain /\ d.conversion \in Converts
         /\ \/ d.conversion \in {"d", "i"} /\ TypeOf(d) = "l"
                 /\ Signed(d.arg, "l") = -Power(Bits["l"] - 1)
            \/ d.star /\ d.width = INT_MIN
  /\ print_pc = "past" => Last(job.tail) \in FlagChars \cup Range(Digits10)

(* Every call prints what the C standard says (printf.h:110).              *)
ImplementsStandard == print_pc = "done" => printed = Expected

(* A buffer is never written past its size and has a NUL in the end; unless*)
(* there is more output than a printf_size_t can count, it holds the       *)
(* beginning of what is printed, wherever that is cut off, and the NUL ends*)
(* it (printf.c:322-352, 373-392).                                         *)
BufferKept ==
  /\ job.size = Unlimited \/ Len(buffer) <= job.size
  /\ print_pc = "done" /\ job.size > 0 =>
       /\ NUL \in Range(buffer)
       /\ Len(printed) < Sizes =>
            buffer = Append(SubSeq(printed, 1, Min({Len(printed), max_chars - 1})), NUL)
=============================================================================
