----------------------------- MODULE EscParser -----------------------------
(***************************************************************************)
(* The byte-level part of the terminal, src/flanterm/flanterm.c:           *)
(* flanterm_putchar with escape_parse, osc_parse, control_sequence_parse,  *)
(* dec_private_parse and mode_toggle.  A step is one byte.  What it asks   *)
(* of the screen is put in out; Terminal has what the screen then does and *)
(* Sgr what happens to the colours.                                        *)
(*                                                                         *)
(* No callback is ever installed, so the branches that only call it change *)
(* nothing.  A definition whose name ends in an underscore and a word is a *)
(* faulty variant of the definition after it.                              *)
(***************************************************************************)
EXTENDS Integers, Sequences, SequencesExt

CONSTANTS
  Alphabets,    \* bound: sets of bytes; what is written is of one of them
  MaxValues,    \* FLANTERM_MAX_ESC_VALUES (16)
  Word,         \* a value is kept modulo Word (2^32)
  Cp437,        \* code points that unicode_to_cp437 knows
  Combining,    \* code points that the table of mk_wcwidth lists
  MaxLength     \* bound: the length of an escape sequence

EscParserAssumption ==
  /\ \A bytes \in Alphabets : bytes \subseteq 0..255
  /\ MaxValues \in Nat \ {0, 1} /\ Word \in Nat \ 0..9
  /\ Cp437 \subseteq Nat /\ Combining \subseteq Nat
  /\ MaxLength \in Nat

VARIABLES
  alphabet,                  \* the one of Alphabets
  escape, control_sequence, osc, osc_escape, discard_next,
  rrr,                       \* a digit of the current value has been read
  esc_values, esc_values_i,
  escape_offset,
  dec_private,
  unicode_remaining, code_point,
  g_select, charsets, current_charset,
  saved_state_current_charset,
  insert_mode, cursor_enabled,
  out,                       \* what the last byte asked the screen to do
  params,                    \* history: the bytes since ESC [
  utf8,                      \* history: the bytes of the character so far
  dropped                    \* history: ESC [ ? was cancelled

flags == <<escape, control_sequence, osc, osc_escape, discard_next>>
values == <<rrr, esc_values, esc_values_i>>
unicode == <<unicode_remaining, code_point, utf8>>
selection == <<g_select, charsets, current_charset, saved_state_current_charset>>
screenModes == <<insert_mode, cursor_enabled>>
sequence == <<values, escape_offset, dec_private, params, dropped>>
vars == <<alphabet, flags, sequence, unicode, selection, screenModes, out>>

Default == "default"
DecSpecial == "dec_special"

Nothing == <<"nothing">>
Digit == 48..57
Semicolon == 59
ESC == 27
CAN == {24, 26}

NoValues == [k \in 1..MaxValues |-> 0]

Init ==
  /\ alphabet \in Alphabets
  /\ escape = FALSE /\ control_sequence = FALSE /\ discard_next = FALSE
  /\ osc = FALSE /\ osc_escape = FALSE
  /\ rrr = FALSE /\ esc_values = NoValues /\ esc_values_i = 0
  /\ escape_offset = 0 /\ dec_private = FALSE
  /\ unicode_remaining = 0 /\ code_point = 0
  /\ g_select = 0 /\ current_charset = 0 /\ saved_state_current_charset = 0
  /\ charsets = [k \in {0, 1} |-> IF k = 0 THEN Default ELSE DecSpecial]
  /\ insert_mode = FALSE /\ cursor_enabled = TRUE
  /\ out = Nothing
  /\ params = <<>> /\ utf8 = <<>> /\ dropped = FALSE
-----------------------------------------------------------------------------
(* CAN and SUB, and the byte after ESC [ [.  The flags of the sequence are *)
(* cleared, all but dec_private.                                           *)
Cancel(c) ==
  /\ discard_next \/ c \in CAN
  /\ escape' = FALSE /\ control_sequence' = FALSE /\ discard_next' = FALSE
  /\ osc' = FALSE /\ osc_escape' = FALSE
  /\ unicode_remaining' = 0 /\ g_select' = 0
  /\ utf8' = <<>> /\ params' = <<>>
  /\ dropped' = (dropped \/ dec_private)
  /\ out' = Nothing
  /\ UNCHANGED <<values, escape_offset, dec_private, code_point, charsets,
                 current_charset, saved_state_current_charset, screenModes>>
-----------------------------------------------------------------------------
(* UTF-8.  A byte that does not continue a character is taken for itself.  *)

IsContinuation(c) == c \div 64 = 2
IsLead(c) == c \in 192..247

Wide(cp) ==
  \/ cp \in 4352..4447 \/ cp \in {9001, 9002}       \* 0x1100, 0x2329
  \/ cp \in 11904..42191 /\ cp # 12351              \* 0x2e80, not 0x303f
  \/ cp \in 44032..55203 \/ cp \in 63744..64255     \* 0xac00, 0xf900
  \/ cp \in 65040..65049 \/ cp \in 65072..65135     \* 0xfe10, 0xfe30
  \/ cp \in 65280..65376 \/ cp \in 65504..65510     \* 0xff00, 0xffe0
  \/ cp \in 131072..196605 \/ cp \in 196608..262141 \* 0x20000, 0x30000

mk_wcwidth(cp) ==
  CASE cp = 0 \/ cp \in Combining -> 0
    [] cp # 0 /\ cp \notin Combining /\ Wide(cp) -> 2
    [] OTHER -> 1

(* A character that has no glyph is a block, as wide as the character.     *)
Glyphs(cp) ==
  IF cp \in Cp437 THEN <<"cp437", cp>>
  ELSE <<"block", mk_wcwidth(cp)>>

Lead(c) ==
  /\ IsLead(c)
  /\ unicode_remaining' =
       CASE c \in 192..223 -> 1 [] c \in 224..239 -> 2 [] OTHER -> 3
  /\ code_point' =
       CASE c \in 192..223 -> (c % 32) * 64
         [] c \in 224..239 -> (c % 16) * 4096
         [] OTHER          -> (c % 8) * 262144
  /\ utf8' = <<c>>
  /\ out' = Nothing
  /\ UNCHANGED <<flags, sequence, selection, screenModes>>

Shifted_Down(n) == CASE n = 0 -> 64 [] n = 1 -> 4096 [] OTHER -> 262144

Shifted(n) == CASE n = 0 -> 1 [] n = 1 -> 64 [] OTHER -> 4096

Continue(c) ==
  /\ unicode_remaining' = unicode_remaining - 1
  /\ code_point' = code_point + (c % 64) * Shifted(unicode_remaining')
  /\ utf8' = Append(utf8, c)
  /\ out' = IF unicode_remaining' = 0 THEN Glyphs(code_point') ELSE Nothing
  /\ UNCHANGED <<flags, sequence, selection, screenModes>>
-----------------------------------------------------------------------------
(* Control sequences.  Each definition says what it does to the fields of  *)
(* the sequence, to out and to control_sequence, escape and discard_next.  *)

Continues == UNCHANGED <<control_sequence, escape, discard_next>>
Ends == control_sequence' = FALSE /\ escape' = FALSE

(* ESC [ [, which drops the next byte, and ESC [ ?. *)
Introduces(c) == escape_offset + 1 = 2 /\ c \in {91, 63}

Introducer(c) ==
  /\ Introduces(c)
  /\ \/ c = 91 /\ discard_next' = TRUE /\ Ends /\ UNCHANGED dec_private
     \/ c = 63 /\ dec_private' = TRUE /\ Continues
  /\ out' = Nothing
  /\ UNCHANGED <<values, screenModes, dropped>>

DigitByte_Unlimited(c) ==
  /\ c \in Digit
  /\ rrr' = TRUE
  /\ esc_values' = [esc_values EXCEPT ![esc_values_i + 1] = (10 * @ + c - 48) % Word]
  /\ UNCHANGED esc_values_i

DigitByte(c) ==
  /\ c \in Digit
  /\ \/ esc_values_i = MaxValues /\ UNCHANGED <<rrr, esc_values>>
     \/ /\ esc_values_i # MaxValues
        /\ rrr' = TRUE
        /\ esc_values' = [esc_values EXCEPT ![esc_values_i + 1] = (10 * @ + c - 48) % Word]
  /\ UNCHANGED esc_values_i

(* Without a digit before it, a semicolon stands for a value of 0.         *)
Separator(c) ==
  /\ c = Semicolon
  /\ \/ rrr /\ esc_values_i' = esc_values_i + 1 /\ UNCHANGED esc_values
     \/ ~ rrr /\ esc_values_i = MaxValues /\ UNCHANGED <<esc_values_i, esc_values>>
     \/ /\ ~ rrr /\ esc_values_i # MaxValues
        /\ esc_values' = [esc_values EXCEPT ![esc_values_i + 1] = 0]
        /\ esc_values_i' = esc_values_i + 1
  /\ rrr' = FALSE

Count_NoLast == esc_values_i

Count == IF rrr THEN esc_values_i + 1 ELSE esc_values_i

Missing(c) == IF c \in {74, 75, 113} THEN 0 ELSE 1         \* J, K, q

Completed(c) ==
  [k \in 1..MaxValues |-> IF k <= Count THEN esc_values[k] ELSE Missing(c)]

(* h and l set and clear the mode that the first value names.              *)
Switched(mode, number, c) ==
  IF Count > 0 /\ c \in {104, 108} /\ Completed(c)[1] = number
    THEN c = 104 ELSE mode

(* dec_private_parse and mode_toggle know one mode each: the cursor and    *)
(* insertion.                                                              *)
dec_private_parse_Kept(c) ==
  /\ out' = <<"private", c, Count, Completed(c)>>
  /\ cursor_enabled' = Switched(cursor_enabled, 25, c)
  /\ dropped' = FALSE
  /\ UNCHANGED <<dec_private, insert_mode>>

dec_private_parse(c) ==
  /\ out' = <<"private", c, Count, Completed(c)>>
  /\ dec_private' = FALSE
  /\ cursor_enabled' = Switched(cursor_enabled, 25, c)
  /\ dropped' = FALSE
  /\ UNCHANGED insert_mode

mode_toggle(c) ==
  /\ out' = <<"csi", c, Count, Completed(c)>>
  /\ insert_mode' = Switched(insert_mode, 4, c)
  /\ UNCHANGED <<dec_private, cursor_enabled, dropped>>

Final(c) ==
  /\ c \notin Digit \cup {Semicolon}
  /\ rrr' = FALSE /\ esc_values_i' = Count /\ esc_values' = Completed(c)
  /\ \/ dec_private /\ dec_private_parse(c)
     \/ ~ dec_private /\ mode_toggle(c)
  /\ Ends
  /\ UNCHANGED discard_next

control_sequence_parse(c) ==
  /\ escape /\ ~ osc /\ control_sequence
  /\ escape_offset' = escape_offset + 1
  /\ params' = Append(params, c)
  /\ \/ Introducer(c)
     \/ /\ ~ Introduces(c)
        /\ \/ /\ DigitByte(c) \/ Separator(c)
              /\ out' = Nothing
              /\ Continues
              /\ UNCHANGED <<dec_private, dropped, screenModes>>
           \/ Final(c)
  /\ UNCHANGED <<osc, osc_escape, selection>>
-----------------------------------------------------------------------------
(* An operating system command is skipped up to BEL or ESC \.              *)

osc_parse(c) ==
  /\ escape /\ osc
  /\ escape_offset' = escape_offset + 1
  /\ LET over == (osc_escape /\ c = 92) \/ c = 7
     IN  osc' = ~ over /\ escape' = ~ over /\ osc_escape' = (~ over /\ c = ESC)
  /\ out' = Nothing
  /\ UNCHANGED <<control_sequence, discard_next, values, dec_private, params,
                 dropped, selection, screenModes>>

(* ESC [, ESC ], ESC ( and ESC ), ESC c, which resets the context, and     *)
(* ESC 7 and ESC 8, of which the character set is here.  The other ones are *)
(* for Terminal, or mean nothing.                                          *)
StartSequence ==
  /\ control_sequence' = TRUE
  /\ rrr' = FALSE /\ esc_values' = NoValues /\ esc_values_i' = 0
  /\ params' = <<>>
  /\ UNCHANGED <<escape, osc, osc_escape, dec_private, dropped, selection,
                 screenModes>>

StartOsc ==
  /\ osc' = TRUE /\ osc_escape' = FALSE
  /\ UNCHANGED <<escape, control_sequence, values, dec_private, params,
                 dropped, selection, screenModes>>

Designate(c) ==
  /\ g_select' = c - 39
  /\ escape' = FALSE
  /\ UNCHANGED <<osc, osc_escape, control_sequence, values, dec_private,
                 params, dropped, charsets, current_charset,
                 saved_state_current_charset, screenModes>>

flanterm_context_reinit ==
  /\ escape' = FALSE /\ control_sequence' = FALSE
  /\ osc' = FALSE /\ osc_escape' = FALSE
  /\ rrr' = FALSE /\ esc_values_i' = 0 /\ dec_private' = FALSE
  /\ g_select' = 0 /\ current_charset' = 0
  /\ charsets' = [k \in {0, 1} |-> IF k = 0 THEN Default ELSE DecSpecial]
  /\ insert_mode' = FALSE /\ cursor_enabled' = TRUE
  /\ dropped' = FALSE
  /\ UNCHANGED <<esc_values, params, saved_state_current_charset>>

Single(c) ==
  /\ escape' = FALSE
  /\ saved_state_current_charset' =
       IF c = 55 THEN current_charset ELSE saved_state_current_charset
  /\ current_charset' =
       IF c = 56 THEN saved_state_current_charset ELSE current_charset
  /\ UNCHANGED <<osc, osc_escape, control_sequence, values, dec_private,
                 params, dropped, g_select, charsets, screenModes>>

escape_parse(c) ==
  /\ escape /\ ~ osc /\ ~ control_sequence
  /\ escape_offset' = IF c = 99 THEN 0 ELSE escape_offset + 1
  /\ \/ c = 91 /\ StartSequence
     \/ c = 93 /\ StartOsc
     \/ c \in {40, 41} /\ Designate(c)
     \/ c = 99 /\ flanterm_context_reinit
     \/ c \notin {91, 93, 40, 41, 99} /\ Single(c)
  /\ out' = IF c \in {91, 93, 40, 41} THEN Nothing ELSE <<"esc", c>>
  /\ UNCHANGED discard_next
-----------------------------------------------------------------------------
(* Outside a sequence: the byte after ESC ( or ESC ), controls and text.   *)

Ground ==
  /\ ~ escape
  /\ params' = <<>>
  /\ UNCHANGED <<flags, values, dec_private, dropped, screenModes>>

(* B and 0 choose a character set for the slot; any other byte is lost.    *)
SelectSet(c) ==
  /\ Ground /\ g_select # 0
  /\ g_select' = 0
  /\ charsets' = [charsets EXCEPT ![g_select - 1] =
       CASE c = 66 -> Default [] c = 48 -> DecSpecial [] OTHER -> @]
  /\ out' = Nothing
  /\ UNCHANGED <<escape_offset, current_charset, saved_state_current_charset>>

Controls == {0, 7, 8, 9, 10, 11, 12, 13, 14, 15, 27, 127}

StartEscape(c) ==
  /\ ~ escape /\ g_select = 0 /\ c = ESC
  /\ escape' = TRUE /\ escape_offset' = 0
  /\ params' = <<>>
  /\ out' = Nothing
  /\ UNCHANGED <<control_sequence, osc, osc_escape, discard_next, values,
                 dec_private, dropped, selection, screenModes>>

Control(c) ==
  /\ Ground /\ g_select = 0 /\ c \in Controls \ {ESC}
  /\ current_charset' =
       CASE c = 14 -> 1 [] c = 15 -> 0 [] OTHER -> current_charset
  /\ out' = IF c \in {0, 127} THEN Nothing ELSE <<"control", c>>
  /\ UNCHANGED <<escape_offset, g_select, charsets, saved_state_current_charset>>

(* The characters that dec_special_print has a line for. *)
InDecSpecial(c) ==
  c \in {43, 44, 45, 46, 48, 95, 96, 97, 123, 125, 126}
    \cup (102..104) \cup (106..110) \cup {113} \cup (115..122)

(* In insert mode the rest of the row makes room first. *)
Text(c) ==
  /\ Ground /\ g_select = 0 /\ c \notin Controls
  /\ out' = <<IF insert_mode THEN "insert" ELSE "print",
       CASE charsets[current_charset] = DecSpecial /\ InDecSpecial(c) ->
              <<"dec_special", c>>
         [] c \in 32..126 /\ ~ (charsets[current_charset] = DecSpecial
                                 /\ InDecSpecial(c)) -> <<"ascii", c>>
         [] OTHER -> <<"block", 1>> >>
  /\ UNCHANGED <<escape_offset, selection>>
-----------------------------------------------------------------------------
flanterm_putchar(c) ==
  \/ Cancel(c)
  \/ /\ ~ discard_next /\ c \notin CAN
     /\ escape => escape_offset < MaxLength
     /\ \/ unicode_remaining # 0 /\ IsContinuation(c) /\ Continue(c)
        \/ /\ unicode_remaining = 0 \/ ~ IsContinuation(c)
           /\ \/ Lead(c)
              \/ /\ ~ IsLead(c)
                 /\ unicode_remaining' = 0 /\ utf8' = <<>>
                 /\ UNCHANGED code_point
                 /\ \/ control_sequence_parse(c)
                    \/ osc_parse(c)
                    \/ escape_parse(c)
                    \/ SelectSet(c)
                    \/ StartEscape(c)
                    \/ Control(c)
                    \/ Text(c)

Next == \E c \in alphabet : flanterm_putchar(c) /\ UNCHANGED alphabet

Spec == Init /\ [][Next]_vars
-----------------------------------------------------------------------------
(* What three places of six bits and one of three hold. *)
CodeLimit == 2097152

TypeOK ==
  /\ {escape, control_sequence, osc, osc_escape, discard_next, rrr,
      dec_private, insert_mode, cursor_enabled, dropped} \subseteq BOOLEAN
  /\ esc_values \in [1..MaxValues -> 0..Word-1]
  /\ esc_values_i \in 0..MaxValues
  /\ escape_offset \in 0..MaxLength
  /\ unicode_remaining \in 0..3 /\ code_point \in 0..(CodeLimit - 1)
  /\ g_select \in 0..2
  /\ {current_charset, saved_state_current_charset} \subseteq {0, 1}
  /\ charsets \in [{0, 1} -> {Default, DecSpecial}]

(* The parser is in one state at a time although it keeps five flags: a    *)
(* control sequence and an operating system command exclude each other and *)
(* happen within an escape, a byte is discarded only outside of all, and a *)
(* digit being read leaves room in esc_values, which no check at the write *)
(* (flanterm.c:494) ensures.                                               *)
OneState ==
  /\ control_sequence \/ osc => escape
  /\ ~ (control_sequence /\ osc)
  /\ osc_escape => osc
  /\ discard_next => ~ escape
  /\ escape => g_select = 0
  /\ control_sequence /\ rrr => esc_values_i < MaxValues

(* The values of a control sequence are what semicolons separate in its     *)
(* bytes, without a last one that is empty; the first MaxValues of them     *)
(* count, modulo Word, and the default of the command fills up.            *)
WithByte(fields, c) ==
  CASE c = Semicolon -> Append(fields, 0)
    [] c \in Digit   -> [fields EXCEPT ![Len(fields)] = 10 * @ + c - 48]
    [] OTHER         -> fields
Separated(s) == FoldLeft(WithByte, <<0>>, s)

Fields(s) ==
  LET all == Separated(s)
      given == IF s = <<>> \/ Last(s) \notin Digit THEN Front(all) ELSE all
  IN  SubSeq(given, 1, IF Len(given) > MaxValues THEN MaxValues ELSE Len(given))

ParsesAsGrammar ==
  out[1] \in {"csi", "private"} =>
    LET fields == Fields(Front(params))
    IN  /\ out[2] = Last(params)
        /\ out[3] = Len(fields)
        /\ \A k \in 1..MaxValues :
             out[4][k] = IF k <= Len(fields) THEN fields[k] % Word
                         ELSE Missing(Last(params))

(* A sequence is a private one exactly when its first byte says so.  The   *)
(* exception is real: CAN, SUB and ESC [ [ leave dec_private alone, so that*)
(* a private sequence they cut off makes the next one private.             *)
PrivateOnlyWhenAsked ==
  [][out'[1] \in {"csi", "private"} =>
       (out'[1] = "private" <=> params'[1] = 63 \/ dropped)]_vars

(* A complete multi-byte character is decoded to the code point that its   *)
(* bytes encode (RFC 3629), whatever was between them and the last one.    *)
Payload(s, k) == s[k] % 64
Decoded(s) ==
  CASE Len(s) = 2 -> (s[1] % 32) * 64 + Payload(s, 2)
    [] Len(s) = 3 -> (s[1] % 16) * 4096 + Payload(s, 2) * 64 + Payload(s, 3)
    [] Len(s) = 4 -> (s[1] % 8) * 262144 + Payload(s, 2) * 4096
                       + Payload(s, 3) * 64 + Payload(s, 4)

DecodesUtf8 ==
  utf8 # <<>> /\ unicode_remaining = 0 =>
    /\ code_point = Decoded(utf8)
    /\ out = Glyphs(code_point)
=============================================================================
