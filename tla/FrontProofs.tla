----------------------------- MODULE FrontProofs -----------------------------
(***************************************************************************)
(* Proofs about the two parts of the terminal's front end that read bytes: *)
(* EscParser, for every number of values, every width of a value and every *)
(* set of bytes, in any order; and Sgr, for every palette and every order  *)
(* of the changes.                                                         *)
(***************************************************************************)
EXTENDS EscParser, Sgr, SequenceTheorems, FiniteSetTheorems, TLAPS

(* The values that have been read are in esc_values, and an escape has not *)
(* begun where a byte would choose a character set.                        *)
IInv == OneState /\ esc_values_i \in 0..MaxValues

LEMMA Initially ==
  ASSUME EscParserAssumption, Init
  PROVE  IInv
  BY DEF EscParserAssumption, Init, IInv, OneState

LEMMA CancelStep ==
  ASSUME IInv, NEW c, Cancel(c)
  PROVE  IInv'
  BY DEF IInv, OneState, Cancel, values

LEMMA CharacterStep ==
  ASSUME IInv, NEW c, Lead(c) \/ Continue(c)
  PROVE  IInv'
  BY DEF IInv, OneState, Lead, Continue, flags, sequence, values, selection

(* A digit is counted only while there is room for its value, and a value  *)
(* that has none is as good as counted.                                    *)
LEMMA ParameterStep ==
  ASSUME EscParserAssumption, IInv, NEW c, escape, control_sequence, ~ osc,
         DigitByte(c) \/ Separator(c)
  PROVE  /\ esc_values_i' \in 0..MaxValues
         /\ rrr' => esc_values_i' < MaxValues
<1>1. MaxValues \in Nat /\ esc_values_i \in 0..MaxValues
  BY DEF EscParserAssumption, IInv
<1>2. rrr => esc_values_i < MaxValues
  BY DEF IInv, OneState
<1>3. CASE DigitByte(c)
  BY <1>1, <1>2, <1>3 DEF DigitByte
<1>4. CASE Separator(c)
  BY <1>1, <1>2, <1>4 DEF Separator
<1> QED
  BY <1>3, <1>4

LEMMA ControlSequenceStep ==
  ASSUME EscParserAssumption, IInv, ~ discard_next, NEW c, control_sequence_parse(c)
  PROVE  IInv'
<1>1. escape /\ ~ osc /\ control_sequence /\ UNCHANGED <<osc, osc_escape, g_select>>
  BY DEF control_sequence_parse, selection
<1>2. CASE Introducer(c)
  <2>1. UNCHANGED <<rrr, esc_values_i>>
    BY <1>2 DEF Introducer, values
  <2>2. CASE Ends
    BY <1>1, <2>1, <2>2 DEF Ends, IInv, OneState
  <2>3. CASE Continues
    BY <1>1, <2>1, <2>3 DEF Continues, IInv, OneState
  <2> QED
    BY <1>2, <2>2, <2>3 DEF Introducer
<1>3. CASE DigitByte(c) \/ Separator(c)
  <2>1. /\ esc_values_i' \in 0..MaxValues
        /\ rrr' => esc_values_i' < MaxValues
    BY <1>1, <1>3, ParameterStep
  <2>2. c \in Digit \cup {Semicolon}
    BY <1>3 DEF DigitByte, Separator
  <2>3. CASE Final(c)
    BY <2>2, <2>3 DEF Final
  <2>4. CASE Continues
    BY <1>1, <2>1, <2>4 DEF Continues, IInv, OneState
  <2>5. CASE Introducer(c)
    BY <1>2, <2>5
  <2> QED
    BY <2>3, <2>4, <2>5 DEF control_sequence_parse
<1>4. CASE Final(c)
  <2>1. Count \in 0..MaxValues
    BY <1>1 DEF Count, IInv, OneState, EscParserAssumption
  <2> QED
    BY <1>1, <1>4, <2>1 DEF Final, Ends, IInv, OneState
<1> QED
  BY <1>2, <1>3, <1>4 DEF control_sequence_parse

LEMMA OscStep ==
  ASSUME IInv, ~ discard_next, NEW c, osc_parse(c)
  PROVE  IInv'
  BY DEF IInv, OneState, osc_parse, values, selection

LEMMA EscapeStep ==
  ASSUME EscParserAssumption, IInv, ~ discard_next, NEW c, escape_parse(c)
  PROVE  IInv'
<1>1. escape /\ ~ osc /\ ~ control_sequence /\ UNCHANGED discard_next /\ ~ osc_escape
      /\ g_select = 0
  BY DEF escape_parse, IInv, OneState
<1>2. CASE StartSequence
  BY <1>1, <1>2 DEF StartSequence, selection, IInv, OneState, EscParserAssumption
<1>3. CASE StartOsc
  BY <1>1, <1>3 DEF StartOsc, selection, values, IInv, OneState
<1>4. CASE Designate(c)
  BY <1>1, <1>4 DEF Designate, values, IInv, OneState
<1>5. CASE flanterm_context_reinit
  BY <1>1, <1>5 DEF flanterm_context_reinit, IInv, OneState, EscParserAssumption
<1>6. CASE Single(c)
  BY <1>1, <1>6 DEF Single, values, IInv, OneState
<1> QED
  BY <1>2, <1>3, <1>4, <1>5, <1>6 DEF escape_parse

LEMMA GroundStep ==
  ASSUME IInv, ~ discard_next, NEW c,
         SelectSet(c) \/ StartEscape(c) \/ Control(c) \/ Text(c)
  PROVE  IInv'
  BY DEF IInv, OneState, SelectSet, StartEscape, Control, Text, Ground, flags, values, selection

LEMMA Inductive ==
  ASSUME EscParserAssumption, IInv, [Next]_vars
  PROVE  IInv'
<1>1. CASE UNCHANGED vars
  BY <1>1 DEF vars, flags, sequence, values, selection, IInv, OneState
<1>2. ASSUME NEW c, flanterm_putchar(c) PROVE IInv'
  BY <1>2, CancelStep, CharacterStep, ControlSequenceStep, OscStep, EscapeStep, GroundStep
  DEF flanterm_putchar
<1> QED
  BY <1>1, <1>2 DEF Next

(* Whatever bytes are written, the parser's flags mean one state, and a    *)
(* digit is stored within esc_values (flanterm.c:484-513, 1200-1346).      *)
THEOREM AlwaysOneState ==
  ASSUME EscParserAssumption
  PROVE  Spec => []OneState
<1>1. Init => IInv
  BY Initially
<1>2. IInv /\ [Next]_vars => IInv'
  BY Inductive
<1>3. IInv => OneState
  BY DEF IInv
<1> QED
  BY <1>1, <1>2, <1>3, PTL DEF Spec

-----------------------------------------------------------------------------
(* Why a sequence is private.  escape_offset is 1 at the byte after ESC [, *)
(* and only there: it counts the bytes of the escape, of which params has  *)
(* all but the first.                                                      *)
PInv ==
  /\ OneState
  /\ dec_private \in BOOLEAN /\ dropped \in BOOLEAN
  /\ params \in Seq(Nat) /\ escape_offset \in Nat
  /\ escape /\ ~ osc /\ ~ control_sequence => escape_offset = 0
  /\ control_sequence => escape_offset = Len(params) + 1
  /\ dec_private <=> dropped \/ (control_sequence /\ params # <<>> /\ params[1] = 63)

Private(o) == o[1] \in {"csi", "private"}
AsAsked ==
  Private(out') => (out'[1] = "private" <=> params'[1] = 63 \/ dropped)

LEMMA PrivateInitially ==
  ASSUME Init
  PROVE  PInv
  BY DEF Init, PInv, OneState

LEMMA PrivateCancel ==
  ASSUME PInv, OneState', NEW c, Cancel(c)
  PROVE  PInv' /\ AsAsked
  BY DEF PInv, Cancel, AsAsked, Private, Nothing

LEMMA PrivateCharacter ==
  ASSUME PInv, OneState', NEW c, Lead(c) \/ Continue(c)
  PROVE  PInv' /\ AsAsked
<1>1. PInv'
  BY DEF PInv, Lead, Continue, flags, sequence
<1>2. out' = Nothing \/ out' = Glyphs(code_point')
  BY DEF Lead, Continue
<1>3. ~ Private(out')
  BY <1>2 DEF Private, Nothing, Glyphs
<1> QED
  BY <1>1, <1>3 DEF AsAsked

LEMMA PrivateControlSequence ==
  ASSUME PInv, OneState', NEW c \in Nat, control_sequence_parse(c)
  PROVE  PInv' /\ AsAsked
<1>1. /\ escape /\ ~ osc /\ control_sequence /\ ~ osc'
      /\ escape_offset = Len(params) + 1 /\ escape_offset' = escape_offset + 1
      /\ params' = Append(params, c)
      /\ params \in Seq(Nat) /\ dec_private \in BOOLEAN /\ dropped \in BOOLEAN
      /\ dec_private <=> dropped \/ (params # <<>> /\ params[1] = 63)
  BY DEF control_sequence_parse, PInv
<1>2. /\ params' \in Seq(Nat) /\ Len(params') = Len(params) + 1 /\ Len(params) \in Nat
      /\ params' # <<>>
      /\ params # <<>> => params'[1] = params[1]
      /\ params = <<>> => params'[1] = c
      /\ params = <<>> <=> Len(params) = 0
  BY <1>1
<1>3. escape_offset' \in Nat /\ escape_offset' = Len(params') + 1
  BY <1>1, <1>2
<1>4. Introduces(c) <=> params = <<>> /\ c \in {91, 63}
  BY <1>1, <1>2 DEF Introduces
<1>5. CASE Introducer(c)
  <2>1. params = <<>> /\ params'[1] = c /\ dropped' = dropped /\ out' = Nothing
    BY <1>2, <1>4, <1>5 DEF Introducer
  <2>2. AsAsked
    BY <2>1 DEF AsAsked, Private, Nothing
  <2>3. CASE c = 91 /\ Ends /\ UNCHANGED dec_private
    BY <1>1, <1>2, <1>3, <2>1, <2>2, <2>3 DEF Ends, PInv
  <2>4. CASE c = 63 /\ dec_private' = TRUE /\ Continues
    BY <1>1, <1>2, <1>3, <2>1, <2>2, <2>4 DEF Continues, PInv
  <2> QED
    BY <1>5, <2>3, <2>4 DEF Introducer
<1>6. CASE ~ Introduces(c)
  <2>1. dec_private <=> dropped \/ params'[1] = 63
    BY <1>1, <1>2, <1>4, <1>6
  <2>2. CASE Continues /\ out' = Nothing /\ UNCHANGED <<dec_private, dropped>>
    BY <1>1, <1>2, <1>3, <2>1, <2>2 DEF Continues, PInv, AsAsked, Private, Nothing
  <2>3. CASE Final(c) /\ dec_private /\ dec_private_parse(c)
    <3>1. out'[1] = "private" /\ ~ dec_private' /\ ~ dropped' /\ ~ control_sequence' /\ ~ escape'
          /\ dec_private' \in BOOLEAN /\ dropped' \in BOOLEAN
      BY <2>3 DEF Final, dec_private_parse, Ends
    <3> QED
      BY <1>2, <1>3, <2>1, <2>3, <3>1 DEF PInv, AsAsked
  <2>4. CASE Final(c) /\ ~ dec_private /\ mode_toggle(c)
    <3>1. out'[1] = "csi" /\ UNCHANGED <<dec_private, dropped>> /\ ~ control_sequence' /\ ~ escape'
      BY <2>4 DEF Final, mode_toggle, Ends
    <3> QED
      BY <1>1, <1>2, <1>3, <2>1, <2>4, <3>1 DEF PInv, AsAsked
  <2> QED
    BY <1>6, <2>2, <2>3, <2>4 DEF control_sequence_parse, Introducer, Final
<1> QED
  BY <1>5, <1>6 DEF control_sequence_parse

LEMMA PrivateEscape ==
  ASSUME PInv, OneState', NEW c, osc_parse(c) \/ escape_parse(c)
  PROVE  PInv' /\ AsAsked
<1>1. CASE osc_parse(c)
  <2>1. /\ escape /\ osc /\ ~ control_sequence /\ UNCHANGED <<params, dropped, dec_private, control_sequence>>
        /\ escape_offset' = escape_offset + 1 /\ (escape' => osc')
    BY <1>1 DEF osc_parse, PInv, OneState
  <2> QED
    BY <1>1, <2>1 DEF osc_parse, PInv, AsAsked, Private, Nothing
<1>2. CASE escape_parse(c)
  <2>1. /\ escape /\ ~ osc /\ ~ control_sequence /\ escape_offset = 0
        /\ escape_offset' = IF c = 99 THEN 0 ELSE 1
        /\ out' = Nothing \/ out' = <<"esc", c>>
        /\ dec_private <=> dropped
    BY <1>2 DEF escape_parse, PInv
  <2>2. AsAsked
    BY <2>1 DEF AsAsked, Private, Nothing
  <2>3. CASE c = 91 /\ StartSequence
    <3>1. params' = <<>> /\ Len(params') = 0 /\ params' \in Seq(Nat)
      BY <2>3 DEF StartSequence
    <3> QED
      BY <2>1, <2>2, <2>3, <3>1 DEF StartSequence, PInv
  <2>4. CASE StartOsc
    BY <2>1, <2>2, <2>4 DEF StartOsc, PInv
  <2>5. CASE Designate(c) \/ Single(c)
    BY <2>1, <2>2, <2>5 DEF Designate, Single, PInv
  <2>6. CASE flanterm_context_reinit
    BY <2>1, <2>2, <2>6 DEF flanterm_context_reinit, PInv
  <2> QED
    BY <1>2, <2>3, <2>4, <2>5, <2>6 DEF escape_parse
<1> QED
  BY <1>1, <1>2

LEMMA PrivateGround ==
  ASSUME PInv, OneState', NEW c, SelectSet(c) \/ StartEscape(c) \/ Control(c) \/ Text(c)
  PROVE  PInv' /\ AsAsked
<1>1. ~ escape /\ ~ control_sequence /\ (dec_private <=> dropped)
  BY DEF PInv, OneState, SelectSet, StartEscape, Control, Text, Ground
<1>2. params' = <<>> /\ UNCHANGED <<dec_private, dropped, control_sequence, osc>>
  BY DEF SelectSet, StartEscape, Control, Text, Ground, flags
<1>3. escape_offset' \in Nat /\ (escape' => escape_offset' = 0)
  BY <1>1 DEF PInv, SelectSet, StartEscape, Control, Text, Ground, flags
<1>4. out'[1] \in {"nothing", "control", "insert", "print"}
  BY DEF SelectSet, StartEscape, Control, Text, Nothing
<1>5. AsAsked
  BY <1>4 DEF AsAsked, Private
<1> QED
  BY <1>1, <1>2, <1>3, <1>5 DEF PInv

LEMMA PrivateInductive ==
  ASSUME EscParserAssumption, alphabet \in Alphabets, PInv, IInv, [Next]_vars
  PROVE  PInv' /\ alphabet' \in Alphabets /\ (AsAsked \/ UNCHANGED vars)
<1>0. OneState'
  BY Inductive DEF IInv
<1>1. CASE UNCHANGED vars
  BY <1>0, <1>1 DEF vars, flags, sequence, PInv
<1>2. ASSUME NEW c \in alphabet, flanterm_putchar(c), UNCHANGED alphabet
      PROVE  PInv' /\ AsAsked
  <2>1. c \in Nat
    BY DEF EscParserAssumption
  <2> QED
    BY <1>0, <1>2, <2>1, PrivateCancel, PrivateCharacter, PrivateControlSequence, PrivateEscape,
       PrivateGround DEF flanterm_putchar
<1> QED
  BY <1>1, <1>2 DEF Next

(* A control sequence is taken for a private one exactly when its first    *)
(* byte is ?, or one that began so has been cut off before: whatever bytes *)
(* are written (flanterm.c:384-385, 478-488, 525-527).              *)
THEOREM PrivateWhenAsked ==
  ASSUME EscParserAssumption
  PROVE  Spec => PrivateOnlyWhenAsked
<1> DEFINE Known == IInv /\ PInv /\ alphabet \in Alphabets
<1>1. Init => Known
  BY Initially, PrivateInitially DEF Init
<1>2. Known /\ [Next]_vars => Known'
  BY Inductive, PrivateInductive
<1>3. Known /\ [Next]_vars =>
        [out'[1] \in {"csi", "private"} =>
           (out'[1] = "private" <=> params'[1] = 63 \/ dropped)]_vars
  BY PrivateInductive DEF AsAsked, Private
<1> HIDE DEF Known
<1> QED
  BY <1>1, <1>2, <1>3, PTL DEF Spec, PrivateOnlyWhenAsked
-----------------------------------------------------------------------------
(* A pair of colours, and reverse video in terms of its two fields. *)
Pair(p) == p = [s \in Sides |-> p[s]]

Mirrored(p, q, reverse) ==
  IF reverse THEN p["fg"] = q["bg"] /\ p["bg"] = q["fg"]
  ELSE p["fg"] = q["fg"] /\ p["bg"] = q["bg"]

Typed ==
  /\ None \notin Colours
  /\ reverse_video \in BOOLEAN /\ exact \in BOOLEAN
  /\ saved.reverse_video \in BOOLEAN /\ saved.exact \in BOOLEAN
  /\ Pair(pen) /\ Pair(plain) /\ Pair(saved.pen) /\ Pair(saved.plain)

(* What ESC 7 has saved is mirrored as well, or ESC 8 would bring back a   *)
(* pair that is not.                                                       *)
ColourInv ==
  /\ Typed
  /\ exact => Mirrored(pen, plain, reverse_video)
  /\ saved.exact => Mirrored(saved.pen, saved.plain, saved.reverse_video)

LEMMA Records ==
  ASSUME NEW a, NEW b
  PROVE  Pair([fg |-> a, bg |-> b])
  BY DEF Pair, Sides

Repainted(p, q, side, colour) == q = [p EXCEPT ![side] = colour]

LEMMA ColoursInitially ==
  ASSUME SgrAssumption, SgrInit
  PROVE  ColourInv
<1>1. None \notin Colours
  BY DEF SgrAssumption, SgrInit, Colours, None
<1>2. ~ reverse_video /\ exact /\ reverse_video \in BOOLEAN /\ exact \in BOOLEAN
  BY DEF SgrInit
<1>3. Pair(pen) /\ plain = pen
  BY Records DEF SgrInit, default
<1>4. /\ Pair(saved.pen) /\ saved.plain = saved.pen
      /\ saved.reverse_video = FALSE /\ saved.exact = TRUE
  BY Records DEF SgrInit
<1> QED
  BY <1>1, <1>2, <1>3, <1>4 DEF ColourInv, Typed, Mirrored

(* A colour is changed: on one side of what is shown, and on the side that *)
(* stands for it in plain.                                                 *)
LEMMA PaintStep ==
  ASSUME ColourInv, UNCHANGED <<bounds, reverse_video, saved>>,
         NEW shown \in Sides, NEW meant \in Sides, NEW a, NEW b,
         Repainted(pen, pen', shown, a), Repainted(plain, plain', meant, b),
         exact' \in BOOLEAN,
         exact' => exact /\ a = b /\ (shown = meant <=> ~ reverse_video)
  PROVE  ColourInv'
<1>1. Pair(pen) /\ Pair(plain)
  BY DEF ColourInv, Typed
<1>2. /\ Pair(pen') /\ \A s \in Sides : pen'[s] = IF s = shown THEN a ELSE pen[s]
      /\ Pair(plain') /\ \A s \in Sides : plain'[s] = IF s = meant THEN b ELSE plain[s]
  BY <1>1 DEF Repainted, Pair
<1>3. Typed'
  BY <1>2 DEF ColourInv, Typed, Colours
<1>4. exact' => Mirrored(pen', plain', reverse_video')
  BY <1>2 DEF ColourInv, Typed, Mirrored, Sides
<1> QED
  BY <1>3, <1>4 DEF ColourInv

LEMMA InkStep ==
  ASSUME ColourInv, UNCHANGED <<bounds, reverse_video, saved>>, NEW a, NEW b,
         Repainted(pen, pen', Ink(reverse_video), a), Repainted(plain, plain', Ink(FALSE), b),
         exact' \in BOOLEAN, exact' => exact /\ a = b
  PROVE  ColourInv'
<1>1. /\ Ink(reverse_video) \in Sides /\ Ink(FALSE) \in Sides
      /\ Ink(reverse_video) = Ink(FALSE) <=> ~ reverse_video
  BY DEF Ink, Sides, ColourInv, Typed
<1> QED
  BY <1>1, PaintStep

LEMMA PaperStep ==
  ASSUME ColourInv, UNCHANGED <<bounds, reverse_video, saved>>, NEW a, NEW b,
         Repainted(pen, pen', Paper(reverse_video), a), Repainted(plain, plain', Paper(FALSE), b),
         exact' \in BOOLEAN, exact' => exact /\ a = b
  PROVE  ColourInv'
<1>1. /\ Paper(reverse_video) \in Sides /\ Paper(FALSE) \in Sides
      /\ Paper(reverse_video) = Paper(FALSE) <=> ~ reverse_video
  BY DEF Paper, Sides, ColourInv, Typed
<1> QED
  BY <1>1, PaintStep

(* Shade gives different colours on different sides only for a default.    *)
LEMMA Shades ==
  ASSUME NEW colour, NEW bright, NEW s, NEW t, colour # None \/ s = t
  PROVE  Shade(colour, bright, s) = Shade(colour, bright, t)
  BY DEF Shade

LEMMA SetBoldStep ==
  ASSUME ColourInv, NEW v \in BOOLEAN, SetBold(v), UNCHANGED bounds
  PROVE  ColourInv'
<1> DEFINE shade(side) == Shade(current_primary, v, side)
<1>1. /\ Repainted(pen, pen', Ink(reverse_video), shade(Ink(reverse_video)))
      /\ Repainted(plain, plain', Ink(FALSE), shade(Ink(FALSE)))
  BY DEF SetBold, Paint, Repainted
<1>2. exact' \in BOOLEAN /\ UNCHANGED <<bounds, reverse_video, saved>>
  BY DEF SetBold, Keep, ColourInv, Typed
<1>3. exact' => exact /\ shade(Ink(reverse_video)) = shade(Ink(FALSE))
  BY Shades DEF SetBold, Keep, Ink
<1> QED
  BY <1>1, <1>2, <1>3, InkStep

LEMMA SetBgBoldStep ==
  ASSUME ColourInv, NEW v \in BOOLEAN, SetBgBold(v), UNCHANGED bounds
  PROVE  ColourInv'
<1> DEFINE shade(side) == Shade(current_bg, v, side)
<1>1. /\ Repainted(pen, pen', Paper(reverse_video), shade(Paper(reverse_video)))
      /\ Repainted(plain, plain', Paper(FALSE), shade(Paper(FALSE)))
  BY DEF SetBgBold, Paint, Repainted
<1>2. exact' \in BOOLEAN /\ UNCHANGED <<bounds, reverse_video, saved>>
  BY DEF SetBgBold, Keep, ColourInv, Typed
<1>3. exact' => exact /\ shade(Paper(reverse_video)) = shade(Paper(FALSE))
  BY Shades DEF SetBgBold, Keep, Paper
<1> QED
  BY <1>1, <1>2, <1>3, PaperStep

LEMMA ReverseStep ==
  ASSUME ColourInv, NEW r \in BOOLEAN, SetReverse(r), UNCHANGED bounds
  PROVE  ColourInv'
<1>1. UNCHANGED <<saved, plain, exact, bounds>> /\ reverse_video' = r
  BY DEF SetReverse, history
<1>2. CASE r = reverse_video
  BY <1>1, <1>2 DEF SetReverse, ColourInv, Typed, Colours
<1>3. CASE r # reverse_video
  <2>1. Pair(pen') /\ pen'["fg"] = pen["bg"] /\ pen'["bg"] = pen["fg"]
    BY <1>3, Records DEF SetReverse, Swap
  <2>2. reverse_video' = ~ reverse_video
    BY <1>1, <1>3 DEF ColourInv, Typed
  <2> QED
    BY <1>1, <2>1, <2>2 DEF ColourInv, Typed, Mirrored, Colours
<1> QED
  BY <1>2, <1>3

LEMMA SetPrimaryStep ==
  ASSUME ColourInv, NEW n \in Colours, NEW bright \in BOOLEAN, SetPrimary(n, bright),
         UNCHANGED bounds
  PROVE  ColourInv'
<1> DEFINE shade(side) == Shade(n, bright \/ bold, side)
<1>1. /\ Repainted(pen, pen', Ink(reverse_video), shade(Ink(reverse_video)))
      /\ Repainted(plain, plain', Ink(FALSE), shade(Ink(FALSE)))
  BY DEF SetPrimary, Paint, Repainted
<1>2. UNCHANGED <<bounds, reverse_video, saved, exact>> /\ exact \in BOOLEAN
  BY DEF SetPrimary, ColourInv, Typed
<1>3. shade(Ink(reverse_video)) = shade(Ink(FALSE))
  BY DEF ColourInv, Typed, Shade
<1> QED
  BY <1>1, <1>2, <1>3, InkStep

LEMMA SetBgStep ==
  ASSUME ColourInv, NEW n \in Colours, NEW bright \in BOOLEAN, SetBg(n, bright),
         UNCHANGED bounds
  PROVE  ColourInv'
<1> DEFINE shade(side) == Shade(n, bright \/ bg_bold, side)
<1>1. /\ Repainted(pen, pen', Paper(reverse_video), shade(Paper(reverse_video)))
      /\ Repainted(plain, plain', Paper(FALSE), shade(Paper(FALSE)))
  BY DEF SetBg, Paint, Repainted
<1>2. UNCHANGED <<bounds, reverse_video, saved, exact>> /\ exact \in BOOLEAN
  BY DEF SetBg, ColourInv, Typed
<1>3. shade(Paper(reverse_video)) = shade(Paper(FALSE))
  BY DEF ColourInv, Typed, Shade
<1> QED
  BY <1>1, <1>2, <1>3, PaperStep

LEMMA DefaultStep ==
  ASSUME ColourInv, DefaultPrimary \/ DefaultBg, UNCHANGED bounds
  PROVE  ColourInv'
<1>1. CASE DefaultPrimary
  <2> DEFINE c == Shade(None, bold, "fg")
  <2>1. /\ Repainted(pen, pen', Ink(reverse_video), c)
        /\ Repainted(plain, plain', Ink(FALSE), c)
    BY <1>1 DEF DefaultPrimary, Paint, Repainted
  <2>2. UNCHANGED <<bounds, reverse_video, saved, exact>> /\ exact \in BOOLEAN
    BY <1>1 DEF DefaultPrimary, ColourInv, Typed
  <2> QED
    BY <2>1, <2>2, InkStep
<1>2. CASE DefaultBg
  <2> DEFINE c == Shade(None, bg_bold, "bg")
  <2>1. /\ Repainted(pen, pen', Paper(reverse_video), c)
        /\ Repainted(plain, plain', Paper(FALSE), c)
    BY <1>2 DEF DefaultBg, Paint, Repainted
  <2>2. UNCHANGED <<bounds, reverse_video, saved, exact>> /\ exact \in BOOLEAN
    BY <1>2 DEF DefaultBg, ColourInv, Typed
  <2> QED
    BY <2>1, <2>2, PaperStep
<1> QED
  BY <1>1, <1>2

(* 38 and 48 change the side they name also under reverse video, and end   *)
(* the claim then.                                                         *)
LEMMA ExtendedStep ==
  ASSUME ColourInv, NEW side \in Sides, NEW colour, Extended(side, colour), UNCHANGED bounds
  PROVE  ColourInv'
<1>1. Repainted(pen, pen', side, colour) /\ Repainted(plain, plain', side, colour)
  BY DEF Extended, Paint, Repainted
<1>2. /\ UNCHANGED <<bounds, reverse_video, saved>>
      /\ exact' \in BOOLEAN
      /\ exact' => exact /\ ~ reverse_video
  BY DEF Extended, attributes, Keep, ColourInv, Typed
<1> QED
  BY <1>1, <1>2, PaintStep

(* Everything that replaces the whole pair: 0, ESC 7, ESC 8 and ESC c.     *)
LEMMA WholeStep ==
  ASSUME ColourInv, Reset \/ save_state \/ restore_state \/ ReinitColours,
         UNCHANGED bounds
  PROVE  ColourInv'
<1>1. CASE Reset
  <2>1. /\ Pair(pen') /\ plain' = pen' /\ reverse_video' = FALSE /\ exact' = TRUE
        /\ saved' = saved
    BY <1>1, Records DEF Reset, default
  <2> QED
    BY <2>1 DEF ColourInv, Typed, Mirrored, Colours
<1>2. CASE save_state
  <2>1. UNCHANGED <<reverse_video, exact, pen, plain>>
    BY <1>2 DEF save_state, attributes, history
  <2>2. /\ saved'.reverse_video = reverse_video /\ saved'.exact = exact
        /\ saved'.pen = pen /\ saved'.plain = plain
    BY <1>2 DEF save_state
  <2> QED
    BY <2>1, <2>2 DEF ColourInv, Typed, Colours
<1>3. CASE restore_state
  BY <1>3 DEF restore_state, ColourInv, Typed, Colours
<1>4. CASE ReinitColours
  BY <1>4 DEF ReinitColours, Keep, ColourInv, Typed, Mirrored, Colours
<1> QED
  BY <1>1, <1>2, <1>3, <1>4

LEMMA ColoursInductive == ColourInv /\ [SgrNext]_sgrVars => ColourInv'
<1>1. ColourInv /\ UNCHANGED sgrVars => ColourInv'
  BY DEF sgrVars, attributes, history, ColourInv, Typed, Colours
<1>2. ASSUME ColourInv, Change, UNCHANGED bounds PROVE ColourInv'
  BY <1>2, SetBoldStep, SetBgBoldStep, ReverseStep, SetPrimaryStep, SetBgStep, DefaultStep,
     ExtendedStep, WholeStep DEF Change
<1> QED
  BY <1>1, <1>2 DEF SgrNext

(* Reverse video shows every text in the colours it would have had without,*)
(* exchanged, whatever the palette and whatever is set before, while it is *)
(* on and after (flanterm.c:115-326).                                      *)
THEOREM AlwaysMirrored ==
  ASSUME SgrAssumption
  PROVE  SgrSpec => []ReverseMirrors
<1>1. ColourInv => ReverseMirrors
  <2> SUFFICES ASSUME ColourInv, exact
               PROVE  pen = IF reverse_video THEN Swap(plain) ELSE plain
    BY DEF ReverseMirrors
  <2>1. Pair(pen) /\ Pair(plain) /\ Mirrored(pen, plain, reverse_video)
    BY DEF ColourInv, Typed
  <2> QED
    BY <2>1 DEF Pair, Mirrored, Swap, Sides
<1>2. SgrInit => ColourInv
  BY ColoursInitially
<1> QED
  BY <1>1, <1>2, ColoursInductive, PTL DEF SgrSpec

-----------------------------------------------------------------------------
(* The colour of the text is the one that current_primary describes, and   *)
(* that of its ground the one that current_bg does, unless stale names it. *)
Name(colour, side) == IF colour = None THEN side ELSE colour

Described(p, reverse, primary, bg, old) ==
  /\ "fg" \notin old => Hue(p[Ink(reverse)]) = Name(primary, "fg")
  /\ "bg" \notin old => Hue(p[Paper(reverse)]) = Name(bg, "bg")

HueInv ==
  /\ exact => Described(pen, reverse_video, current_primary, current_bg, stale)
  /\ saved.exact => Described(saved.pen, saved.reverse_video, saved.current_primary,
                              saved.current_bg, saved.stale)

LEMMA HueInitially ==
  ASSUME SgrAssumption, SgrInit
  PROVE  HueInv
<1>1. Described(pen, reverse_video, current_primary, current_bg, stale)
  BY DEF SgrInit, Described, Hue, Ink, Paper, default, Name
<1>2. "black" # None
  BY DEF None
<1>3. Described(saved.pen, saved.reverse_video, saved.current_primary,
                saved.current_bg, saved.stale)
  BY <1>2 DEF SgrInit, Described, Hue, Ink, Paper, Ansi, Name
<1> QED
  BY <1>1, <1>3 DEF HueInv

LEMMA ShadeHue ==
  ASSUME NEW colour, NEW bright, NEW side \in Sides
  PROVE  Hue(Shade(colour, bright, side)) = Name(colour, side)
  BY DEF Shade, Hue, Name, Bright, Ansi, default_bright, default, Sides

(* The colour of the text changes, or that of its ground, and the other    *)
(* one does not.                                                           *)
LEMMA InkHue ==
  ASSUME ColourInv, HueInv, UNCHANGED <<reverse_video, current_bg, saved>>, NEW a,
         Repainted(pen, pen', Ink(reverse_video), a),
         exact' => exact /\ Hue(a) = Name(current_primary', "fg"),
         "bg" \notin stale' => "bg" \notin stale
  PROVE  HueInv'
<1>1. Pair(pen) /\ reverse_video \in BOOLEAN
  BY DEF ColourInv, Typed
<1>2. /\ pen'[Ink(reverse_video)] = a
      /\ pen'[Paper(reverse_video)] = pen[Paper(reverse_video)]
  BY <1>1 DEF Pair, Repainted, Ink, Paper, Sides
<1>3. Ink(reverse_video)' = Ink(reverse_video) /\ Paper(reverse_video)' = Paper(reverse_video)
  BY DEF Ink, Paper
<1> QED
  BY <1>2, <1>3 DEF HueInv, Described

LEMMA PaperHue ==
  ASSUME ColourInv, HueInv, UNCHANGED <<reverse_video, current_primary, saved>>, NEW a,
         Repainted(pen, pen', Paper(reverse_video), a),
         exact' => exact /\ Hue(a) = Name(current_bg', "bg"),
         "fg" \notin stale' => "fg" \notin stale
  PROVE  HueInv'
<1>1. Pair(pen) /\ reverse_video \in BOOLEAN
  BY DEF ColourInv, Typed
<1>2. /\ pen'[Paper(reverse_video)] = a
      /\ pen'[Ink(reverse_video)] = pen[Ink(reverse_video)]
  BY <1>1 DEF Pair, Repainted, Ink, Paper, Sides
<1>3. Ink(reverse_video)' = Ink(reverse_video) /\ Paper(reverse_video)' = Paper(reverse_video)
  BY DEF Ink, Paper
<1> QED
  BY <1>2, <1>3 DEF HueInv, Described

LEMMA InkIsSide ==
  ASSUME NEW r PROVE Ink(r) \in Sides /\ Paper(r) \in Sides
  BY DEF Ink, Paper, Sides

LEMMA SetBoldHue ==
  ASSUME ColourInv, HueInv, NEW v \in BOOLEAN, SetBold(v)
  PROVE  /\ HueInv'
         /\ exact' /\ "fg" \notin stale =>
              Hue(pen'[Ink(reverse_video)]) = Hue(pen[Ink(reverse_video)])
<1> DEFINE a == Shade(current_primary, v, Ink(reverse_video))
<1>1. /\ Repainted(pen, pen', Ink(reverse_video), a)
      /\ UNCHANGED <<reverse_video, current_primary, current_bg, saved, stale>>
      /\ exact' => exact /\ ~ (reverse_video /\ current_primary = None)
  BY DEF SetBold, Paint, Repainted, Keep
<1>2. Hue(a) = Name(current_primary, Ink(reverse_video))
  BY InkIsSide, ShadeHue
<1>3. exact' => Hue(a) = Name(current_primary, "fg")
  BY <1>1, <1>2 DEF Name, Ink
<1>4. pen'[Ink(reverse_video)] = a
  BY <1>1, InkIsSide DEF Repainted, ColourInv, Typed, Pair
<1> HIDE DEF a
<1>5. HueInv'
  BY <1>1, <1>3, InkHue
<1>6. exact' /\ "fg" \notin stale => Hue(pen[Ink(reverse_video)]) = Name(current_primary, "fg")
  BY <1>1 DEF HueInv, Described
<1> QED
  BY <1>3, <1>4, <1>5, <1>6

LEMMA SetBgBoldHue ==
  ASSUME ColourInv, HueInv, NEW v \in BOOLEAN, SetBgBold(v)
  PROVE  /\ HueInv'
         /\ exact' /\ "bg" \notin stale =>
              Hue(pen'[Paper(reverse_video)]) = Hue(pen[Paper(reverse_video)])
<1> DEFINE a == Shade(current_bg, v, Paper(reverse_video))
<1>1. /\ Repainted(pen, pen', Paper(reverse_video), a)
      /\ UNCHANGED <<reverse_video, current_primary, current_bg, saved, stale>>
      /\ exact' => exact /\ ~ (reverse_video /\ current_bg = None)
  BY DEF SetBgBold, Paint, Repainted, Keep
<1>2. Hue(a) = Name(current_bg, Paper(reverse_video))
  BY InkIsSide, ShadeHue
<1>3. exact' => Hue(a) = Name(current_bg, "bg")
  BY <1>1, <1>2 DEF Name, Paper
<1>4. pen'[Paper(reverse_video)] = a
  BY <1>1, InkIsSide DEF Repainted, ColourInv, Typed, Pair
<1> HIDE DEF a
<1>5. HueInv'
  BY <1>1, <1>3, PaperHue
<1>6. exact' /\ "bg" \notin stale => Hue(pen[Paper(reverse_video)]) = Name(current_bg, "bg")
  BY <1>1 DEF HueInv, Described
<1> QED
  BY <1>3, <1>4, <1>5, <1>6

LEMMA SetPrimaryHue ==
  ASSUME ColourInv, HueInv, NEW n \in Colours, NEW bright \in BOOLEAN, SetPrimary(n, bright)
  PROVE  HueInv'
<1> DEFINE a == Shade(n, bright \/ bold, Ink(reverse_video))
<1>1. /\ Repainted(pen, pen', Ink(reverse_video), a) /\ current_primary' = n
      /\ UNCHANGED <<reverse_video, current_bg, saved, exact>>
      /\ "bg" \notin stale' => "bg" \notin stale
  BY DEF SetPrimary, Paint, Repainted
<1>2. Hue(a) = Name(n, Ink(reverse_video)) /\ n # None
  BY InkIsSide, ShadeHue DEF ColourInv, Typed
<1> HIDE DEF a
<1>3. exact' => exact /\ Hue(a) = Name(current_primary', "fg")
  BY <1>1, <1>2 DEF Name
<1> QED
  BY <1>1, <1>3, InkHue

LEMMA SetBgHue ==
  ASSUME ColourInv, HueInv, NEW n \in Colours, NEW bright \in BOOLEAN, SetBg(n, bright)
  PROVE  HueInv'
<1> DEFINE a == Shade(n, bright \/ bg_bold, Paper(reverse_video))
<1>1. /\ Repainted(pen, pen', Paper(reverse_video), a) /\ current_bg' = n
      /\ UNCHANGED <<reverse_video, current_primary, saved, exact>>
      /\ "fg" \notin stale' => "fg" \notin stale
  BY DEF SetBg, Paint, Repainted
<1>2. Hue(a) = Name(n, Paper(reverse_video)) /\ n # None
  BY InkIsSide, ShadeHue DEF ColourInv, Typed
<1> HIDE DEF a
<1>3. exact' => exact /\ Hue(a) = Name(current_bg', "bg")
  BY <1>1, <1>2 DEF Name
<1> QED
  BY <1>1, <1>3, PaperHue

LEMMA DefaultHue ==
  ASSUME ColourInv, HueInv, DefaultPrimary \/ DefaultBg
  PROVE  HueInv'
<1>1. CASE DefaultPrimary
  <2> DEFINE a == Shade(None, bold, "fg")
  <2>1. /\ Repainted(pen, pen', Ink(reverse_video), a) /\ current_primary' = None
        /\ UNCHANGED <<reverse_video, current_bg, saved, exact>>
        /\ "bg" \notin stale' => "bg" \notin stale
    BY <1>1 DEF DefaultPrimary, Paint, Repainted
  <2>2. Hue(a) = Name(None, "fg")
    BY ShadeHue DEF Sides
  <2> HIDE DEF a
  <2> QED
    BY <2>1, <2>2, InkHue
<1>2. CASE DefaultBg
  <2> DEFINE a == Shade(None, bg_bold, "bg")
  <2>1. /\ Repainted(pen, pen', Paper(reverse_video), a) /\ current_bg' = None
        /\ UNCHANGED <<reverse_video, current_primary, saved, exact>>
        /\ "fg" \notin stale' => "fg" \notin stale
    BY <1>2 DEF DefaultBg, Paint, Repainted
  <2>2. Hue(a) = Name(None, "bg")
    BY ShadeHue DEF Sides
  <2> HIDE DEF a
  <2> QED
    BY <2>1, <2>2, PaperHue
<1> QED
  BY <1>1, <1>2

LEMMA OtherHue ==
  ASSUME ColourInv, HueInv,
         \/ \E r \in BOOLEAN : SetReverse(r)
         \/ \E side \in Sides : \E colour : Extended(side, colour)
         \/ Reset \/ save_state \/ restore_state \/ ReinitColours
  PROVE  HueInv'
<1>1. ASSUME NEW r \in BOOLEAN, SetReverse(r) PROVE HueInv'
  <2>1. UNCHANGED <<saved, exact, stale, current_primary, current_bg>> /\ reverse_video' = r
    BY <1>1 DEF SetReverse, history
  <2>2. CASE r = reverse_video
    <3>1. pen' = pen
      BY <1>1, <2>2 DEF SetReverse
    <3> QED
      BY <2>1, <2>2, <3>1 DEF HueInv
  <2>3. CASE r # reverse_video
    <3>1. pen'["fg"] = pen["bg"] /\ pen'["bg"] = pen["fg"]
      BY <1>1, <2>3 DEF SetReverse, Swap
    <3>2. pen'[Ink(r)] = pen[Ink(reverse_video)] /\ pen'[Paper(r)] = pen[Paper(reverse_video)]
      BY <2>3, <3>1 DEF Ink, Paper, ColourInv, Typed
    <3> QED
      BY <2>1, <3>2 DEF HueInv, Described
  <2> QED
    BY <2>2, <2>3
<1>2. ASSUME NEW side \in Sides, NEW colour, Extended(side, colour) PROVE HueInv'
  <2>1. /\ Repainted(pen, pen', side, colour) /\ stale' = stale \cup {side}
        /\ UNCHANGED <<reverse_video, current_primary, current_bg, saved>>
        /\ exact' => exact /\ ~ reverse_video
    BY <1>2 DEF Extended, Paint, Repainted, attributes, Keep
  <2>2. \A s \in Sides : s # side => pen'[s] = pen[s]
    BY <2>1 DEF Repainted, ColourInv, Typed, Pair
  <2>3. ~ reverse_video => Ink(reverse_video) = "fg" /\ Paper(reverse_video) = "bg"
    BY DEF Ink, Paper
  <2> QED
    BY <2>1, <2>2, <2>3 DEF HueInv, Described, Sides
<1>3. CASE Reset
  BY <1>3 DEF Reset, HueInv, Described, Hue, Ink, Paper, default, Name
<1>4. CASE save_state
  BY <1>4 DEF save_state, attributes, history, HueInv
<1>5. CASE restore_state
  BY <1>5 DEF restore_state, HueInv
<1>6. CASE ReinitColours
  BY <1>6 DEF ReinitColours, HueInv, Described, Sides
<1> QED
  BY <1>1, <1>2, <1>3, <1>4, <1>5, <1>6

LEMMA HueInductive == ColourInv /\ HueInv /\ [SgrNext]_sgrVars => HueInv'
<1>1. HueInv /\ UNCHANGED sgrVars => HueInv'
  BY DEF sgrVars, attributes, history, HueInv
<1>2. ASSUME ColourInv, HueInv, Change PROVE HueInv'
  BY <1>2, SetBoldHue, SetBgBoldHue, SetPrimaryHue, SetBgHue, DefaultHue, OtherHue DEF Change
<1> QED
  BY <1>1, <1>2 DEF SgrNext

(* Bold and blink change the brightness of a colour and never the colour,  *)
(* whatever the palette: where no exception applies, the attribute from    *)
(* which they repaint it describes what is shown (flanterm.c:115-326).     *)
THEOREM BrightnessOnly ==
  ASSUME SgrAssumption
  PROVE  SgrSpec => HueKept
<1>1. SgrInit => ColourInv /\ HueInv
  BY ColoursInitially, HueInitially
<1>2. ColourInv /\ HueInv /\ [SgrNext]_sgrVars => ColourInv' /\ HueInv'
  BY ColoursInductive, HueInductive
<1>3. ColourInv /\ HueInv =>
        [\A b \in BOOLEAN :
           /\ SetBold(b) /\ exact' /\ "fg" \notin stale =>
                Hue(pen'[Ink(reverse_video)]) = Hue(pen[Ink(reverse_video)])
           /\ SetBgBold(b) /\ exact' /\ "bg" \notin stale =>
                Hue(pen'[Paper(reverse_video)]) = Hue(pen[Paper(reverse_video)])]_sgrVars
  BY SetBoldHue, SetBgBoldHue
<1> QED
  BY <1>1, <1>2, <1>3, PTL DEF SgrSpec, HueKept
-----------------------------------------------------------------------------
(* A set of natural numbers that is not empty has a least one ... *)
LEMMA Least ==
  ASSUME NEW S \in SUBSET Nat, S # {}
  PROVE  \E n \in S : \A m \in S : n <= m
<1> DEFINE U == {0..n : n \in S}
<1>1. U \subseteq FiniteSubsetsOf(Nat)
  <2>1. ASSUME NEW n \in S PROVE 0..n \in FiniteSubsetsOf(Nat)
    <3>1. n \in Int /\ 0 \in Int
      OBVIOUS
    <3>2. IsFiniteSet(0..n)
      BY <3>1, FS_Interval
    <3>3. 0..n \in SUBSET Nat
      OBVIOUS
    <3> QED BY <3>2, <3>3 DEF FiniteSubsetsOf
  <2> QED BY <2>1
<1>2. U # {}
  OBVIOUS
<1>3. IsWellFoundedOn(StrictSubsetOrdering(Nat), FiniteSubsetsOf(Nat))
  BY FS_StrictSubsetOrderingWellFounded
<1>4. PICK x \in U : \A y \in U : ~ (<<y, x>> \in StrictSubsetOrdering(Nat))
  <2> HIDE DEF U
  <2> QED BY <1>1, <1>2, <1>3, WFMin
<1>5. PICK n \in S : x = 0..n
  OBVIOUS
<1>6. ASSUME NEW m \in S, m < n PROVE FALSE
  <2>1. <<0..m, 0..n>> \in StrictSubsetOrdering(Nat)
    <3>1. 0..m \in SUBSET Nat /\ 0..n \in SUBSET Nat
      OBVIOUS
    <3>2. 0..m \subseteq 0..n 
      BY <1>6
    <3>3. n \in 0..n /\ n \notin 0..m
      BY <1>6
    <3> QED BY <3>1, <3>2, <3>3 DEF StrictSubsetOrdering
  <2> QED BY <2>1, <1>4, <1>5
<1> QED
  BY <1>6

(* ... from which induction follows. *)
LEMMA Induction ==
  ASSUME NEW T \in SUBSET Nat, 0 \in T, \A n \in T : n + 1 \in T
  PROVE  T = Nat
<1> SUFFICES ASSUME T # Nat PROVE FALSE
  OBVIOUS
<1> DEFINE U == Nat \ T
<1>1. U \in SUBSET Nat /\ U # {}
  OBVIOUS
<1>2. PICK n \in U : \A m \in U : n <= m
  <2> HIDE DEF U
  <2> QED BY <1>1, Least
<1>3. n # 0
  OBVIOUS
<1>4. n - 1 \in Nat
  BY <1>3
<1>5. n - 1 \in T
  BY <1>2, <1>4
<1>6. (n - 1) + 1 \in T
  BY <1>5
<1> QED
  BY <1>6

-----------------------------------------------------------------------------
(* Folds over the bytes of a control sequence. *)

FoldOf(h, n, s) ==
  h = [X \in SUBSET (1..n) |->
         IF X = {} THEN <<0>> ELSE WithByte(h[X \ {Max(X)}], s[Max(X)])]
Folded(s) == CHOOSE h : h = [X \in SUBSET (DOMAIN s) |->
  IF X = {} THEN <<0>> ELSE WithByte(h[X \ {Max(X)}], s[Max(X)])]

LEMMA SeparatedIsFolded ==
  ASSUME NEW s
  PROVE  Separated(s) = Folded(s)[DOMAIN s]
BY Zenon DEF Separated, FoldLeft, MapThenFoldSet, Folded

(* The largest of the numbers from 1 to n. *)
LEMMA LargestOf ==
  ASSUME NEW n \in Nat, NEW X, n + 1 \in X, X \subseteq 1..(n + 1)
  PROVE  Max(X) = n + 1
<1>1. \A y \in X : n + 1 >= y
  OBVIOUS
<1>2. \A x \in X : (\A y \in X : x >= y) => x = n + 1
  OBVIOUS
<1> QED BY <1>1, <1>2 DEF Max

(* A set of numbers has a largest one, which is in it. *)
LEMMA LargestIsIn ==
  ASSUME NEW n \in Nat, NEW X, X \subseteq 1..n, X # {}
  PROVE  Max(X) \in X
<1> DEFINE B == {m \in Nat : \A y \in X : m >= y}
<1>1. B \in SUBSET Nat /\ n \in B
  OBVIOUS
<1>2. PICK b \in B : \A m \in B : b <= m
  <2> HIDE DEF B
  <2>1. B # {}
    BY <1>1
  <2> QED BY <1>1, <2>1, Least
<1>3. b \in X
  <2> SUFFICES ASSUME b \notin X PROVE FALSE
    OBVIOUS
  <2>1. b # 0
    <3>1. PICK y \in X : y \in 1..n
      OBVIOUS
    <3> QED BY <1>2, <3>1
  <2>2. b - 1 \in B
    <3>1. b - 1 \in Nat
      BY <2>1
    <3>2. ASSUME NEW y \in X PROVE b - 1 >= y
      <4>1. b >= y /\ b # y /\ y \in 1..n
        BY <1>2
      <4> QED BY <4>1
    <3> QED BY <3>1, <3>2
  <2> QED BY <1>2, <2>2
<1>4. \E x \in X : \A y \in X : x >= y
  BY <1>2, <1>3
<1> QED BY <1>4 DEF Max

LEMMA FoldExists ==
  ASSUME NEW s, NEW n \in Nat
  PROVE  \E h : FoldOf(h, n, s)
<1> DEFINE T == {m \in Nat : \E h : FoldOf(h, m, s)}
<1>1. 0 \in T
  <2> DEFINE h == [X \in SUBSET (1..0) |-> <<0>>]
  <2>1. \A X \in SUBSET (1..0) : X = {}
    OBVIOUS
  <2>2. FoldOf(h, 0, s)
    BY <2>1 DEF FoldOf
  <2> QED BY <2>2
<1>2. ASSUME NEW m \in T PROVE m + 1 \in T
  <2>1. PICK g : FoldOf(g, m, s)
    OBVIOUS
  <2> DEFINE h == [X \in SUBSET (1..(m + 1)) |->
                     IF X = {} THEN <<0>>
                     ELSE WithByte(g[X \ {Max(X)}], s[Max(X)])]
  <2>2. ASSUME NEW X \in SUBSET (1..(m + 1)), X # {}
        PROVE  /\ X \ {Max(X)} \in SUBSET (1..m)
               /\ h[X \ {Max(X)}] = g[X \ {Max(X)}]
    <3>1. X \ {Max(X)} \in SUBSET (1..m)
      <4>1. CASE m + 1 \in X
        <5>1. Max(X) = m + 1
          BY <4>1, LargestOf
        <5> QED BY <5>1
      <4>2. CASE m + 1 \notin X
        <5>1. \A y \in X : y \in 1..m
          BY <4>2
        <5> QED BY <5>1
      <4> QED BY <4>1, <4>2
    <3> DEFINE Y == X \ {Max(X)}
    <3>2. Y \in SUBSET (1..m) /\ Y \in SUBSET (1..(m + 1))
      BY <3>1
    <3> HIDE DEF Y
    <3>3. g[Y] = IF Y = {} THEN <<0>> ELSE WithByte(g[Y \ {Max(Y)}], s[Max(Y)])
      BY <2>1, <3>2 DEF FoldOf
    <3>4. h[Y] = g[Y]
      BY <3>2, <3>3
    <3> QED BY <3>1, <3>4 DEF Y
  <2>3. FoldOf(h, m + 1, s)
    <3>1. h = [X \in SUBSET (1..(m + 1)) |->
                 IF X = {} THEN <<0>> ELSE WithByte(h[X \ {Max(X)}], s[Max(X)])]
      <4>1. \A X \in SUBSET (1..(m + 1)) : X # {} => h[X \ {Max(X)}] = g[X \ {Max(X)}]
        BY <2>2
      <4> QED BY <4>1
    <3> HIDE DEF h
    <3> QED BY <3>1 DEF FoldOf
  <2> HIDE DEF h
  <2> QED BY <2>3
<1>3. T = Nat
  <2>1. T \in SUBSET Nat
    OBVIOUS
  <2> HIDE DEF T
  <2> QED BY <1>1, <1>2, <2>1, Induction
<1> QED BY <1>3

(* What the prefix of n bytes comes to. *)
LEMMA FoldSteps ==
  ASSUME NEW s, NEW n \in Nat, NEW h, FoldOf(h, n, s)
  PROVE  /\ h[{}] = <<0>>
         /\ \A k \in Nat : k < n => h[1..(k + 1)] = WithByte(h[1..k], s[k + 1])
<1>1. h[{}] = <<0>>
  BY DEF FoldOf
<1>2. ASSUME NEW k \in Nat, k < n PROVE h[1..(k + 1)] = WithByte(h[1..k], s[k + 1])
  <2> DEFINE X == 1..(k + 1)
  <2>1. X \in SUBSET (1..n) /\ k + 1 \in X
    BY <1>2
  <2>2. Max(X) = k + 1
    BY <2>1, LargestOf
  <2>3. X \ {k + 1} = 1..k
    OBVIOUS
  <2> HIDE DEF X
  <2>4. X # {} /\ h[X] = WithByte(h[X \ {Max(X)}], s[Max(X)])
    BY <2>1 DEF FoldOf
  <2> QED BY <2>2, <2>3, <2>4 DEF X
<1> QED BY <1>1, <1>2

(* A byte more extends what has been read. *)
LEMMA OneByteMore ==
  ASSUME NEW s \in Seq(Nat), NEW c \in Nat
  PROVE  Separated(Append(s, c)) = WithByte(Separated(s), c)
<1> DEFINE t == Append(s, c)  n == Len(s)  g == Folded(s)  h == Folded(t)
<1>1. /\ n \in Nat /\ DOMAIN s = 1..n /\ DOMAIN t = 1..(n + 1) /\ t[n + 1] = c
      /\ \A i \in 1..n : t[i] = s[i]
  OBVIOUS
<1>2. FoldOf(g, n, s)
  <2>1. \E f : FoldOf(f, n, s)
    BY <1>1, FoldExists
  <2> QED BY <1>1, <2>1 DEF Folded, FoldOf
<1> HIDE DEF t
<1>3. FoldOf(h, n + 1, t)
  <2>1. \E f : FoldOf(f, n + 1, t)
    <3>1. n + 1 \in Nat
      BY <1>1
    <3> QED BY <3>1, FoldExists
  <2> QED BY <1>1, <2>1 DEF Folded, FoldOf
<1>4. Separated(s) = g[1..n] /\ Separated(t) = h[1..(n + 1)]
  BY <1>1, SeparatedIsFolded
<1> HIDE DEF g, h
<1>7. /\ h[{}] = <<0>>
      /\ \A k \in Nat : k < n + 1 => h[1..(k + 1)] = WithByte(h[1..k], t[k + 1])
  <2>1. n + 1 \in Nat
    BY <1>1
  <2> HIDE DEF n
  <2> QED BY <1>3, <2>1, FoldSteps
<1>8. /\ g[{}] = <<0>>
      /\ \A k \in Nat : k < n => g[1..(k + 1)] = WithByte(g[1..k], s[k + 1])
  <2>1. n \in Nat
    BY <1>1
  <2> HIDE DEF n
  <2> QED BY ONLY <1>2, <2>1, FoldSteps
<1>5. h[1..(n + 1)] = WithByte(h[1..n], c)
  BY <1>1, <1>7
<1>6. h[1..n] = g[1..n]
  <2> DEFINE T == {k \in Nat : k <= n => h[1..k] = g[1..k]}
  <2>1. 0 \in T
    <3>1. 1..0 = {}
      OBVIOUS
    <3>2. h[{}] = <<0>> /\ g[{}] = <<0>>
      BY <1>7, <1>8
    <3> QED BY <3>1, <3>2
  <2>2. ASSUME NEW k \in T PROVE k + 1 \in T
    <3> SUFFICES ASSUME k + 1 <= n PROVE h[1..(k + 1)] = g[1..(k + 1)]
      OBVIOUS
    <3>1. k \in Nat /\ k < n /\ k < n + 1 /\ h[1..k] = g[1..k]
      BY <1>1
    <3>2. h[1..(k + 1)] = WithByte(h[1..k], t[k + 1])
      BY <1>7, <3>1
    <3>3. g[1..(k + 1)] = WithByte(g[1..k], s[k + 1])
      BY <1>8, <3>1
    <3>4. k + 1 \in 1..n
      BY <1>1, <3>1
    <3> QED BY <1>1, <3>1, <3>2, <3>3, <3>4
  <2>3. T = Nat
    <3>1. T \in SUBSET Nat
      OBVIOUS
    <3> HIDE DEF T
    <3> QED BY <2>1, <2>2, <3>1, Induction
  <2> QED BY <1>1, <2>3
<1> QED BY <1>4, <1>5, <1>6 DEF t

LEMMA NoByteYet == Separated(<<>>) = <<0>>
<1>1. \E f : FoldOf(f, 0, <<>>)
  BY FoldExists
<1>2. FoldOf(Folded(<<>>), 0, <<>>)
  <2>1. DOMAIN <<>> = 1..0
    OBVIOUS
  <2> QED BY <1>1, <2>1 DEF Folded, FoldOf
<1>3. Folded(<<>>)[{}] = <<0>>
  BY <1>2, FoldSteps
<1>4. DOMAIN <<>> = {}
  OBVIOUS
<1> QED BY <1>3, <1>4, SeparatedIsFolded
(* The remainder of a number that is given with its quotient. *)
LEMMA Remainder ==
  ASSUME NEW w \in Nat \ {0}, NEW q \in Int, NEW r \in 0..(w - 1)
  PROVE  (q * w + r) % w = r
OBVIOUS

LEMMA Quotient ==
  ASSUME NEW w \in Nat \ {0}, NEW v \in Nat
  PROVE  v = (v \div w) * w + (v % w) /\ v % w \in 0..(w - 1) /\ v \div w \in Int
OBVIOUS

(* A digit may be added to the remainder as well as to the number. *)
LEMMA DigitOfRemainder ==
  ASSUME NEW w \in Nat \ {0}, NEW v \in Nat, NEW d \in Nat
  PROVE  (10 * (v % w) + d) % w = (10 * v + d) % w
<1> DEFINE r == v % w  p == v \div w  m == 10 * r + d  a == m \div w  b == m % w
<1>1. v = p * w + r /\ r \in 0..(w - 1) /\ p \in Int
  BY Quotient
<1>2. m \in Nat
  BY <1>1
<1>3. m = a * w + b /\ b \in 0..(w - 1) /\ a \in Int
  <2> HIDE DEF m
  <2> QED BY <1>2, Quotient
<1>4. 10 * v + d = (10 * p + a) * w + b
  <2>1. (10 * p + a) * w = 10 * (p * w) + a * w
    BY <1>1, <1>3
  <2>2. 10 * v = 10 * (p * w) + 10 * r /\ m = 10 * r + d
    BY <1>1
  <2> HIDE DEF p, r, a, b, m
  <2> QED BY <1>1, <1>2, <1>3, <2>1, <2>2
<1>5. 10 * p + a \in Int
  BY <1>1, <1>3
<1> HIDE DEF p, a
<1>6. ((10 * p + a) * w + b) % w = b
  <2> HIDE DEF b
  <2> QED BY <1>3, <1>5, Remainder
<1> QED BY <1>4, <1>6
-----------------------------------------------------------------------------
(* The values of a control sequence. *)

DigitLast(s) == s # <<>> /\ s[Len(s)] \in Digit

(* What is known of esc_values (v), esc_values_i (i) and rrr (r) after the *)
(* bytes s: the fields of s beyond the number of values are not kept, and  *)
(* where none has been stored there is 0.                                  *)
Reading(s, i, r, v) ==
  LET all == Separated(s)
  IN  /\ all \in Seq(Nat) /\ Len(all) > 0
      /\ ~ DigitLast(s) => all[Len(all)] = 0
      /\ i = IF Len(all) - 1 > MaxValues THEN MaxValues ELSE Len(all) - 1
      /\ r <=> DigitLast(s) /\ Len(all) <= MaxValues
      /\ \A k \in 1..MaxValues : v[k] = IF k <= Len(all) THEN all[k] % Word ELSE 0

LEMMA ReadingBegins ==
  ASSUME EscParserAssumption
  PROVE  Reading(<<>>, 0, FALSE, NoValues)
<1>1. MaxValues \in Nat \ {0} /\ Word \in Nat \ {0}
  BY DEF EscParserAssumption
<1>2. 0 % Word = 0
  BY <1>1
<1>3. <<0>> \in Seq(Nat) /\ Len(<<0>>) = 1 /\ <<0>>[1] = 0
  OBVIOUS
<1>4. \A k \in 1..MaxValues : NoValues[k] = 0
  BY DEF NoValues
<1>5. ~ DigitLast(<<>>)
  BY DEF DigitLast
<1>6. \A k \in 1..MaxValues : k <= 1 => k = 1
  OBVIOUS
<1>7. 0 = IF 1 - 1 > MaxValues THEN MaxValues ELSE 1 - 1
  BY <1>1
<1> DEFINE all == Separated(<<>>)
<1>8. all = <<0>>
  BY NoByteYet
<1>9. all \in Seq(Nat) /\ Len(all) = 1 /\ all[1] = 0
  BY <1>3, <1>8
<1> HIDE DEF all
<1>10. \A k \in 1..MaxValues : NoValues[k] = IF k <= Len(all) THEN all[k] % Word ELSE 0
  BY <1>2, <1>4, <1>6, <1>9
<1>11. Len(all) > 0 /\ all[Len(all)] = 0
  BY <1>9
<1>12. 0 = IF Len(all) - 1 > MaxValues THEN MaxValues ELSE Len(all) - 1
  BY <1>7, <1>9
<1>13. FALSE <=> DigitLast(<<>>) /\ Len(all) <= MaxValues
  BY <1>5
<1> QED BY <1>9, <1>10, <1>11, <1>12, <1>13 DEF Reading, all

(* The bytes with one more. *)
LEMMA AppendIs ==
  ASSUME NEW s \in Seq(Nat), NEW c \in Nat
  PROVE  /\ Append(s, c) # <<>> /\ Append(s, c)[Len(Append(s, c))] = c
         /\ DigitLast(Append(s, c)) <=> c \in Digit
         /\ Front(Append(s, c)) = s /\ Last(Append(s, c)) = c
<1>1. Append(s, c) # <<>> /\ Append(s, c)[Len(Append(s, c))] = c
  OBVIOUS
<1>2. SubSeq(Append(s, c), 1, Len(Append(s, c)) - 1) = s
  OBVIOUS
<1> QED BY <1>1, <1>2 DEF DigitLast, Front, Last

LEMMA DigitRead ==
  ASSUME EscParserAssumption, NEW s \in Seq(Nat), NEW c \in Digit, NEW i, NEW r \in BOOLEAN,
         NEW v \in [1..MaxValues -> Nat], Reading(s, i, r, v), NEW q, NEW w,
         \/ i = MaxValues /\ q = r /\ w = v
         \/ i # MaxValues /\ q = TRUE /\ w = [v EXCEPT ![i + 1] = (10 * @ + c - 48) % Word]
  PROVE  Reading(Append(s, c), i, q, w)
<1> DEFINE all == Separated(s)  n == Len(all)  t == Append(s, c)
           d == 10 * all[n] + c - 48  more == [all EXCEPT ![n] = d]
<1>1. /\ all \in Seq(Nat) /\ n \in Nat \ {0} /\ DOMAIN all = 1..n
      /\ i = IF n - 1 > MaxValues THEN MaxValues ELSE n - 1
      /\ r <=> DigitLast(s) /\ n <= MaxValues
      /\ \A k \in 1..MaxValues : v[k] = IF k <= n THEN all[k] % Word ELSE 0
  BY DEF Reading
<1>2. MaxValues \in Nat \ {0} /\ Word \in Nat \ {0} /\ c \in Nat /\ c - 48 \in Nat /\ c # Semicolon
  BY DEF EscParserAssumption, Digit, Semicolon
<1>4. Separated(t) = more
  BY <1>2, OneByteMore DEF WithByte
<1> HIDE DEF all, n
<1>3. all[n] \in Nat /\ d \in Nat
  BY <1>1, <1>2
<1>5. more \in Seq(Nat) /\ Len(more) = n /\ \A k \in 1..n : more[k] = IF k = n THEN d ELSE all[k]
  BY <1>1, <1>3
<1>6. DigitLast(t)
  BY <1>2, AppendIs
<1>7. q <=> n <= MaxValues
  BY <1>1, <1>2
<1>8. ASSUME NEW k \in 1..MaxValues PROVE w[k] = IF k <= n THEN more[k] % Word ELSE 0
  <2>1. CASE i = MaxValues
    <3>1. k <= n /\ k # n /\ w[k] = v[k]
      BY <1>1, <1>2, <2>1
    <3> QED BY <1>1, <1>5, <3>1
  <2>2. CASE i # MaxValues
    <3>1. n = i + 1 /\ n \in 1..MaxValues /\ w = [v EXCEPT ![n] = (10 * @ + c - 48) % Word]
      BY <1>1, <1>2, <2>2
    <3>2. CASE k # n
      BY <1>1, <1>5, <3>1, <3>2
    <3>3. CASE k = n
      <4>1. w[n] = (10 * v[n] + c - 48) % Word /\ v[n] = all[n] % Word
        BY <1>1, <3>1
      <4>2. (10 * (all[n] % Word) + (c - 48)) % Word = (10 * all[n] + (c - 48)) % Word
        BY <1>2, <1>3, DigitOfRemainder
      <4>3. all[n] % Word \in Nat
        BY <1>2, <1>3
      <4>4. 10 * v[n] + c - 48 = 10 * (all[n] % Word) + (c - 48) /\ d = 10 * all[n] + (c - 48)
        BY <1>2, <1>3, <4>1, <4>3
      <4>5. w[n] = d % Word
        BY <4>1, <4>2, <4>4
      <4> QED BY <1>1, <1>5, <3>3, <4>5
    <3> QED BY <3>2, <3>3
  <2> QED BY <2>1, <2>2
<1> HIDE DEF more, t, d
<1> DEFINE next == Separated(t)
<1>9. next = more
  BY <1>4
<1> HIDE DEF next
<1>10. next \in Seq(Nat) /\ Len(next) > 0
  BY <1>1, <1>5, <1>9
<1>11. i = IF Len(next) - 1 > MaxValues THEN MaxValues ELSE Len(next) - 1
  BY <1>1, <1>5, <1>9
<1>12. q <=> DigitLast(t) /\ Len(next) <= MaxValues
  BY <1>5, <1>6, <1>7, <1>9
<1>13. \A k \in 1..MaxValues : w[k] = IF k <= Len(next) THEN next[k] % Word ELSE 0
  BY <1>5, <1>8, <1>9
<1> QED BY <1>6, <1>10, <1>11, <1>12, <1>13 DEF Reading, next, t

LEMMA SemicolonRead ==
  ASSUME EscParserAssumption, NEW s \in Seq(Nat), NEW i, NEW r \in BOOLEAN,
         NEW v \in [1..MaxValues -> Nat], Reading(s, i, r, v), NEW j, NEW w,
         \/ r /\ j = i + 1 /\ w = v
         \/ ~ r /\ i = MaxValues /\ j = i /\ w = v
         \/ ~ r /\ i # MaxValues /\ j = i + 1 /\ w = [v EXCEPT ![i + 1] = 0]
  PROVE  Reading(Append(s, Semicolon), j, FALSE, w)
<1> DEFINE all == Separated(s)  n == Len(all)  t == Append(s, Semicolon)  more == Append(all, 0)
<1>1. /\ all \in Seq(Nat) /\ n \in Nat \ {0} /\ DOMAIN all = 1..n
      /\ ~ DigitLast(s) => all[n] = 0
      /\ i = IF n - 1 > MaxValues THEN MaxValues ELSE n - 1
      /\ r <=> DigitLast(s) /\ n <= MaxValues
      /\ \A k \in 1..MaxValues : v[k] = IF k <= n THEN all[k] % Word ELSE 0
  BY DEF Reading
<1>2. /\ MaxValues \in Nat \ {0} /\ Word \in Nat \ {0} /\ 0 % Word = 0
      /\ Semicolon \in Nat /\ Semicolon \notin Digit
  BY DEF EscParserAssumption, Digit, Semicolon
<1>3. Separated(t) = more
  BY <1>2, OneByteMore DEF WithByte
<1> HIDE DEF all, n
<1>4. /\ more \in Seq(Nat) /\ Len(more) = n + 1 /\ more[n + 1] = 0
      /\ \A k \in 1..n : more[k] = all[k]
  BY <1>1
<1>5. ~ DigitLast(t)
  BY <1>2, AppendIs
<1>6. j = IF n + 1 - 1 > MaxValues THEN MaxValues ELSE n + 1 - 1
  BY <1>1, <1>2
<1>7. ASSUME NEW k \in 1..MaxValues PROVE w[k] = IF k <= n + 1 THEN more[k] % Word ELSE 0
  <2>1. w[k] = v[k]
    <3>1. CASE ~ r /\ i # MaxValues
      <4>1. n = i + 1 /\ n \in 1..MaxValues /\ all[n] = 0
        BY <1>1, <1>2, <3>1
      <4>2. v[n] = 0
        BY <1>1, <1>2, <4>1
      <4> QED BY <3>1, <4>1, <4>2
    <3> QED BY <3>1
  <2>2. k <= n \/ k = n + 1 \/ k > n + 1
    BY <1>1
  <2> HIDE DEF more
  <2> QED BY <1>1, <1>2, <1>4, <2>1, <2>2
<1> HIDE DEF more, t
<1>8. Len(more) > 0 /\ more[Len(more)] = 0
  BY <1>1, <1>4
<1> DEFINE next == Separated(t)
<1>9. next = more
  BY <1>3
<1> HIDE DEF next
<1>10. next \in Seq(Nat) /\ Len(next) > 0 /\ next[Len(next)] = 0
  BY <1>1, <1>4, <1>8, <1>9
<1>11. j = IF Len(next) - 1 > MaxValues THEN MaxValues ELSE Len(next) - 1
  BY <1>1, <1>4, <1>6, <1>9
<1>12. FALSE <=> DigitLast(t) /\ Len(next) <= MaxValues
  BY <1>5
<1>13. \A k \in 1..MaxValues : w[k] = IF k <= Len(next) THEN next[k] % Word ELSE 0
  BY <1>4, <1>7, <1>9
<1> QED BY <1>10, <1>11, <1>12, <1>13 DEF Reading, next, t

(* ? in front of the values is not one of them. *)
LEMMA MarkRead ==
  ASSUME EscParserAssumption, NEW i, NEW r, NEW v, Reading(<<>>, i, r, v)
  PROVE  Reading(Append(<<>>, 63), i, r, v)
<1>1. 63 \in Nat /\ 63 \notin Digit /\ 63 # Semicolon /\ <<>> \in Seq(Nat)
  BY DEF Digit, Semicolon
<1>2. Separated(Append(<<>>, 63)) = Separated(<<>>)
  BY <1>1, OneByteMore DEF WithByte
<1>3. ~ DigitLast(Append(<<>>, 63)) /\ ~ DigitLast(<<>>)
  <2>1. ~ DigitLast(<<>>)
    BY DEF DigitLast
  <2> QED BY <1>1, <2>1, AppendIs
<1> QED BY <1>2, <1>3 DEF Reading

(* When the final byte comes, the values are the fields. *)
LEMMA FieldsAreRead ==
  ASSUME EscParserAssumption, params \in Seq(Nat), rrr \in BOOLEAN,
         Reading(params, esc_values_i, rrr, esc_values)
  PROVE  /\ Len(Fields(params)) = IF rrr THEN esc_values_i + 1 ELSE esc_values_i
         /\ \A k \in 1..Len(Fields(params)) : k \in 1..MaxValues /\ Fields(params)[k] % Word = esc_values[k]
<1> DEFINE all == Separated(params)  n == Len(all)
           given == IF params = <<>> \/ Last(params) \notin Digit THEN Front(all) ELSE all
           m == IF Len(given) > MaxValues THEN MaxValues ELSE Len(given)
<1>1. /\ all \in Seq(Nat) /\ n \in Nat \ {0} /\ DOMAIN all = 1..n
      /\ esc_values_i = IF n - 1 > MaxValues THEN MaxValues ELSE n - 1
      /\ rrr <=> DigitLast(params) /\ n <= MaxValues
      /\ \A k \in 1..MaxValues : esc_values[k] = IF k <= n THEN all[k] % Word ELSE 0
  BY DEF Reading
<1>2. MaxValues \in Nat \ {0}
  BY DEF EscParserAssumption
<1>3. /\ given \in Seq(Nat) /\ Len(given) = IF DigitLast(params) THEN n ELSE n - 1
      /\ \A k \in 1..Len(given) : k \in 1..n /\ given[k] = all[k]
  <2>1. CASE DigitLast(params)
    BY <1>1, <2>1 DEF DigitLast, Last
  <2>2. CASE ~ DigitLast(params)
    <3>1. given = SubSeq(all, 1, n - 1)
      BY <2>2 DEF DigitLast, Last, Front
    <3>2. /\ n - 1 \in Int /\ n - 1 - 1 + 1 = n - 1 /\ (~ (1 <= n - 1) => n - 1 = 0)
          /\ \A k \in 1..(n - 1) : 1 + k - 1 = k /\ k \in 1..n
      BY <1>1
    <3>3. \A k \in 1..(n - 1) : all[k] \in Nat
      BY <1>1
    <3> HIDE DEF all, n
    <3>4. /\ SubSeq(all, 1, n - 1) \in Seq(Nat) /\ Len(SubSeq(all, 1, n - 1)) = n - 1
          /\ \A k \in 1..(n - 1) : SubSeq(all, 1, n - 1)[k] = all[k]
      BY <3>2, <3>3, SubSeqProperties
    <3> QED BY <2>2, <3>1, <3>2, <3>4
  <2> QED BY <2>1, <2>2
<1>4. Fields(params) = SubSeq(given, 1, m)
  BY DEF Fields
<1> HIDE DEF given, all, n
<1>5. m \in Nat /\ m <= Len(given) /\ m <= MaxValues /\ m = IF rrr THEN esc_values_i + 1 ELSE esc_values_i
  BY <1>1, <1>2, <1>3
<1>6. Len(Fields(params)) = m /\ \A k \in 1..m : Fields(params)[k] = given[k]
  <2>1. \A k \in 1..m : given[k] \in Nat /\ k \in 1..Len(given)
    BY <1>3, <1>5
  <2>2. m \in Int /\ m - 1 + 1 = m /\ (~ (1 <= m) => m = 0) /\ \A k \in 1..m : 1 + k - 1 = k
    BY <1>5
  <2> HIDE DEF m
  <2>3. Len(SubSeq(given, 1, m)) = m /\ \A k \in 1..m : SubSeq(given, 1, m)[k] = given[k]
    BY <2>1, <2>2, SubSeqProperties
  <2> QED BY <1>4, <2>3
<1> HIDE DEF m
<1>7. ASSUME NEW k \in 1..m PROVE k \in 1..MaxValues /\ Fields(params)[k] % Word = esc_values[k]
  <2>1. k \in 1..MaxValues /\ k \in 1..Len(given)
    BY <1>2, <1>3, <1>5
  <2>2. k \in 1..n /\ given[k] = all[k] /\ esc_values[k] = all[k] % Word
    BY <1>1, <1>3, <2>1
  <2> QED BY <1>6, <2>1, <2>2
<1> QED BY <1>5, <1>6, <1>7

(* In a control sequence esc_values has what its bytes say, and a command  *)
(* is reported with that.                                                  *)
ValuesInv ==
  /\ rrr \in BOOLEAN /\ esc_values \in [1..MaxValues -> 0..(Word - 1)]
  /\ control_sequence => Reading(params, esc_values_i, rrr, esc_values)
  /\ ParsesAsGrammar

LEMMA ValuesInitially ==
  ASSUME EscParserAssumption, Init
  PROVE  ValuesInv
<1>1. ~ control_sequence /\ rrr \in BOOLEAN /\ esc_values = NoValues /\ out = Nothing
  BY DEF Init
<1>2. NoValues \in [1..MaxValues -> 0..(Word - 1)]
  BY DEF NoValues, EscParserAssumption
<1>3. ParsesAsGrammar
  BY <1>1 DEF ParsesAsGrammar, Nothing
<1> QED BY <1>1, <1>2, <1>3 DEF ValuesInv

(* Steps that read no value and report no command. *)
LEMMA ValuesUnread ==
  ASSUME ValuesInv, UNCHANGED esc_values, rrr' \in BOOLEAN, ~ Private(out'),
         control_sequence' => UNCHANGED <<values, params, control_sequence>>
  PROVE  ValuesInv'
<1>1. ParsesAsGrammar'
  BY DEF ParsesAsGrammar, Private
<1>2. control_sequence' => Reading(params', esc_values_i', rrr', esc_values')
  BY DEF ValuesInv, values
<1> QED BY <1>1, <1>2 DEF ValuesInv

LEMMA ValuesParameter ==
  ASSUME EscParserAssumption, IInv, PInv, ValuesInv, control_sequence,
         NEW c \in Nat, params' = Append(params, c), UNCHANGED <<control_sequence>>,
         out' = Nothing, DigitByte(c) \/ Separator(c)
  PROVE  ValuesInv'
<1>1. /\ params \in Seq(Nat) /\ rrr \in BOOLEAN /\ Word \in Nat \ 0..9 /\ MaxValues \in Nat \ {0}
      /\ esc_values \in [1..MaxValues -> 0..(Word - 1)]
      /\ esc_values \in [1..MaxValues -> Nat]
      /\ Reading(params, esc_values_i, rrr, esc_values)
      /\ esc_values_i \in 0..MaxValues
  BY DEF EscParserAssumption, PInv, ValuesInv, IInv
<1>2. ParsesAsGrammar'
  BY DEF ParsesAsGrammar, Nothing
<1>3. CASE DigitByte(c)
  <2>1. /\ c \in Digit /\ esc_values_i' = esc_values_i /\ rrr' \in BOOLEAN
        /\ \/ esc_values_i = MaxValues /\ rrr' = rrr /\ esc_values' = esc_values
           \/ /\ esc_values_i # MaxValues /\ rrr' = TRUE
              /\ esc_values' = [esc_values EXCEPT ![esc_values_i + 1] = (10 * @ + c - 48) % Word]
    BY <1>1, <1>3 DEF DigitByte
  <2>2. Reading(Append(params, c), esc_values_i, rrr', esc_values')
    BY <1>1, <2>1, DigitRead
  <2>3. esc_values' \in [1..MaxValues -> 0..(Word - 1)]
    <3>1. CASE esc_values_i # MaxValues
      <4> DEFINE k == esc_values_i + 1  e == (10 * esc_values[k] + c - 48) % Word
      <4>1. k \in 1..MaxValues /\ esc_values[k] \in Nat
        BY <1>1, <3>1
      <4>2. 10 * esc_values[k] + c - 48 \in Int
        BY <4>1
      <4>3. e \in 0..(Word - 1)
        BY <1>1, <4>2
      <4>4. esc_values' = [esc_values EXCEPT ![k] = e]
        BY <2>1, <3>1
      <4> HIDE DEF e, k
      <4> QED BY <1>1, <4>1, <4>3, <4>4
    <3> QED BY <1>1, <2>1, <3>1
  <2> QED BY <1>2, <2>1, <2>2, <2>3 DEF ValuesInv
<1>4. CASE Separator(c)
  <2>1. /\ c = Semicolon /\ rrr' = FALSE
        /\ \/ rrr /\ esc_values_i' = esc_values_i + 1 /\ esc_values' = esc_values
           \/ ~ rrr /\ esc_values_i = MaxValues /\ esc_values_i' = esc_values_i /\ esc_values' = esc_values
           \/ /\ ~ rrr /\ esc_values_i # MaxValues /\ esc_values_i' = esc_values_i + 1
              /\ esc_values' = [esc_values EXCEPT ![esc_values_i + 1] = 0]
    BY <1>4 DEF Separator
  <2>2. Reading(Append(params, Semicolon), esc_values_i', FALSE, esc_values')
    BY <1>1, <2>1, SemicolonRead
  <2>3. esc_values' \in [1..MaxValues -> 0..(Word - 1)]
    <3>1. 0 \in 0..(Word - 1)
      BY <1>1
    <3>2. CASE esc_values_i # MaxValues
      <4>1. esc_values_i + 1 \in 1..MaxValues
        BY <1>1, <3>2
      <4> QED BY <1>1, <2>1, <3>1, <4>1
    <3>3. CASE rrr
      BY <1>1, <2>1, <3>3
    <3> QED BY <1>1, <2>1, <3>2, <3>3
  <2> QED BY <1>2, <2>1, <2>2, <2>3 DEF ValuesInv
<1> QED BY <1>3, <1>4

LEMMA ValuesFinal ==
  ASSUME EscParserAssumption, IInv, PInv, ValuesInv, control_sequence,
         NEW c \in Nat, params' = Append(params, c), Final(c)
  PROVE  ValuesInv'
<1>1. /\ params \in Seq(Nat) /\ rrr \in BOOLEAN /\ Word \in Nat \ 0..9 /\ MaxValues \in Nat \ {0}
      /\ esc_values \in [1..MaxValues -> 0..(Word - 1)]
      /\ Reading(params, esc_values_i, rrr, esc_values)
      /\ esc_values_i \in 0..MaxValues
  BY DEF EscParserAssumption, PInv, ValuesInv, IInv
<1>2. /\ rrr' = FALSE /\ esc_values' = Completed(c) /\ ~ control_sequence'
      /\ out'[2] = c /\ out'[3] = Count /\ out'[4] = Completed(c)
  BY DEF Final, Ends, dec_private_parse, mode_toggle
<1>3. Completed(c) \in [1..MaxValues -> 0..(Word - 1)]
  <2>1. Missing(c) \in 0..(Word - 1)
    BY <1>1 DEF Missing
  <2> QED BY <1>1, <2>1 DEF Completed
<1> DEFINE fields == Fields(params)
<1>4. /\ Len(fields) = Count
      /\ \A k \in 1..Len(fields) : k \in 1..MaxValues /\ fields[k] % Word = esc_values[k]
  <2>1. /\ Len(Fields(params)) = IF rrr THEN esc_values_i + 1 ELSE esc_values_i
        /\ \A k \in 1..Len(Fields(params)) :
             k \in 1..MaxValues /\ Fields(params)[k] % Word = esc_values[k]
    BY <1>1, FieldsAreRead
  <2> QED BY <2>1 DEF Count
<1>5. Front(params') = params /\ Last(params') = c
  BY <1>1, AppendIs
<1> HIDE DEF fields
<1>6. ASSUME NEW k \in 1..MaxValues
      PROVE  out'[4][k] = IF k <= Len(fields) THEN fields[k] % Word ELSE Missing(c)
  <2>1. Count \in Nat
    BY <1>1 DEF Count
  <2>2. out'[4][k] = IF k <= Count THEN esc_values[k] ELSE Missing(c)
    BY <1>2 DEF Completed
  <2>3. CASE k <= Count
    <3>1. k \in 1..Len(fields)
      BY <1>4, <2>1, <2>3
    <3> QED BY <1>4, <2>2, <2>3, <3>1
  <2> QED BY <1>4, <2>2, <2>3
<1>7. ParsesAsGrammar'
  BY <1>2, <1>4, <1>5, <1>6 DEF ParsesAsGrammar, fields
<1> QED BY <1>2, <1>3, <1>7 DEF ValuesInv

LEMMA ValuesControlSequence ==
  ASSUME EscParserAssumption, IInv, PInv, ValuesInv, NEW c \in Nat, control_sequence_parse(c)
  PROVE  ValuesInv'
<1>1. control_sequence /\ params' = Append(params, c) /\ params \in Seq(Nat) /\ rrr \in BOOLEAN
  BY DEF control_sequence_parse, PInv, ValuesInv
<1>2. CASE Introducer(c)
  <2>1. out' = Nothing /\ UNCHANGED <<rrr, esc_values, esc_values_i>> /\ ~ Private(out')
    BY <1>2 DEF Introducer, values, Private, Nothing
  <2>2. CASE c = 91 /\ Ends
    BY <1>1, <2>1, <2>2, ValuesUnread DEF Ends
  <2>3. CASE c = 63 /\ Continues
    <3>1. escape_offset = 1 /\ Len(params) = 0
      BY <1>1, <1>2 DEF Introducer, Introduces, PInv
    <3>2. params = <<>>
      BY <1>1, <3>1
    <3>3. Reading(params', esc_values_i', rrr', esc_values')
      BY <1>1, <2>1, <2>3, <3>2, MarkRead DEF ValuesInv
    <3>4. ParsesAsGrammar'
      BY <2>1 DEF ParsesAsGrammar, Private
    <3> QED BY <2>1, <3>3, <3>4 DEF ValuesInv
  <2> QED BY <1>2, <2>2, <2>3 DEF Introducer
<1>3. CASE (DigitByte(c) \/ Separator(c)) /\ out' = Nothing /\ Continues
  BY <1>1, <1>3, ValuesParameter DEF Continues
<1>4. CASE Final(c)
  BY <1>1, <1>4, ValuesFinal
<1> QED BY <1>2, <1>3, <1>4 DEF control_sequence_parse

LEMMA ValuesEscape ==
  ASSUME EscParserAssumption, ValuesInv, NEW c, escape_parse(c)
  PROVE  ValuesInv'
<1>1. ~ control_sequence /\ ~ Private(out')
  BY DEF escape_parse, Private, Nothing
<1>2. rrr \in BOOLEAN /\ esc_values \in [1..MaxValues -> 0..(Word - 1)]
  BY DEF ValuesInv
<1>3. CASE StartSequence
  <2>1. Reading(params', esc_values_i', rrr', esc_values') /\ rrr' = FALSE /\ esc_values' = NoValues
    BY <1>3, ReadingBegins DEF StartSequence
  <2>2. NoValues \in [1..MaxValues -> 0..(Word - 1)]
    BY DEF NoValues, EscParserAssumption
  <2>3. ParsesAsGrammar'
    BY <1>1 DEF ParsesAsGrammar, Private
  <2> QED BY <2>1, <2>2, <2>3 DEF ValuesInv
<1>4. CASE ~ StartSequence
  <2>1. StartOsc \/ Designate(c) \/ flanterm_context_reinit \/ Single(c)
    BY <1>4 DEF escape_parse
  <2>2. UNCHANGED esc_values /\ ~ control_sequence' /\ (rrr' = rrr \/ rrr' = FALSE)
    BY <1>1, <2>1 DEF StartOsc, Designate, flanterm_context_reinit, Single, values
  <2> QED BY <1>1, <1>2, <2>2, ValuesUnread
<1> QED BY <1>3, <1>4

LEMMA ValuesInductive ==
  ASSUME EscParserAssumption, alphabet \in Alphabets, IInv, PInv, ValuesInv, [Next]_vars
  PROVE  ValuesInv'
<1>1. CASE UNCHANGED vars
  BY <1>1 DEF vars, flags, sequence, values, ValuesInv, ParsesAsGrammar
<1>2. ASSUME NEW c \in alphabet, flanterm_putchar(c) PROVE ValuesInv'
  <2>1. c \in Nat
    BY DEF EscParserAssumption
  <2>2. rrr \in BOOLEAN
    BY DEF ValuesInv
  <2>3. CASE Cancel(c)
    BY <2>2, <2>3, ValuesUnread DEF Cancel, values, Private, Nothing
  <2>4. CASE Lead(c) \/ Continue(c)
    <3>1. UNCHANGED <<rrr, esc_values, esc_values_i, params, control_sequence>>
      BY <2>4 DEF Lead, Continue, flags, sequence, values
    <3>2. ~ Private(out')
      BY <2>4 DEF Lead, Continue, Private, Nothing, Glyphs
    <3> QED BY <2>2, <3>1, <3>2, ValuesUnread DEF values
  <2>5. CASE control_sequence_parse(c)
    BY <2>1, <2>5, ValuesControlSequence
  <2>6. CASE osc_parse(c)
    BY <2>2, <2>6, ValuesUnread DEF osc_parse, values, Private, Nothing
  <2>7. CASE escape_parse(c)
    BY <2>7, ValuesEscape
  <2>8. CASE SelectSet(c) \/ StartEscape(c) \/ Control(c) \/ Text(c)
    <3>1. UNCHANGED <<rrr, esc_values, esc_values_i, control_sequence>> /\ ~ control_sequence
      BY <2>8 DEF SelectSet, StartEscape, Control, Text, Ground, values, flags, IInv, OneState
    <3>2. ~ Private(out')
      BY <2>8 DEF SelectSet, StartEscape, Control, Text, Private, Nothing
    <3> QED BY <2>2, <3>1, <3>2, ValuesUnread
  <2> QED BY <1>2, <2>3, <2>4, <2>5, <2>6, <2>7, <2>8 DEF flanterm_putchar
<1> QED BY <1>1, <1>2 DEF Next

(* For every number and width of values: the values of a control sequence  *)
(* are the fields between its semicolons, modulo the width, and those that *)
(* are missing have the default of the command (flanterm.c:466-530).       *)
THEOREM ValuesAsGrammar ==
  ASSUME EscParserAssumption
  PROVE  Spec => []ParsesAsGrammar
<1> DEFINE Known == IInv /\ PInv /\ alphabet \in Alphabets /\ ValuesInv
<1>1. Init => Known
  BY Initially, PrivateInitially, ValuesInitially DEF Init
<1>2. Known /\ [Next]_vars => Known'
  BY Inductive, PrivateInductive, ValuesInductive
<1>3. Known => ParsesAsGrammar
  BY DEF ValuesInv
<1> HIDE DEF Known
<1> QED BY <1>1, <1>2, <1>3, PTL DEF Spec
-----------------------------------------------------------------------------
(* Characters of several bytes. *)

(* What the bytes s, of a character of n bytes, are worth in their places. *)
PayloadOf(s, k) == IF k <= Len(s) THEN s[k] % 64 ELSE 0
Worth(n, s) ==
  CASE n = 2 -> (s[1] % 32) * 64 + PayloadOf(s, 2)
    [] n = 3 -> (s[1] % 16) * 4096 + PayloadOf(s, 2) * 64 + PayloadOf(s, 3)
    [] n = 4 -> (s[1] % 8) * 262144 + PayloadOf(s, 2) * 4096
                  + PayloadOf(s, 3) * 64 + PayloadOf(s, 4)

Utf8Inv ==
  /\ code_point \in Nat /\ code_point < CodeLimit /\ unicode_remaining \in 0..3 /\ utf8 \in Seq(Nat)
  /\ utf8 = <<>> => unicode_remaining = 0
  /\ utf8 # <<>> =>
       /\ Len(utf8) + unicode_remaining \in 2..4
       /\ code_point = Worth(Len(utf8) + unicode_remaining, utf8)
       /\ unicode_remaining = 0 => out = Glyphs(code_point)

LEMMA Utf8Initially ==
  ASSUME Init
  PROVE  Utf8Inv
<1>1. <<>> \in Seq(Nat) /\ 0 \in 0..3 /\ 0 \in Nat /\ 0 < CodeLimit
  BY DEF CodeLimit
<1> QED BY <1>1 DEF Init, Utf8Inv

LEMMA WorthIsBounded ==
  ASSUME NEW n \in 2..4, NEW s \in Seq(Nat), Len(s) > 0
  PROVE  Worth(n, s) \in Nat /\ Worth(n, s) < CodeLimit
<1> DEFINE a == s[1]
<1>1. a \in Nat
  OBVIOUS
<1>2. \A k \in 2..4 : PayloadOf(s, k) \in Nat /\ PayloadOf(s, k) < 64
  BY DEF PayloadOf
<1>3. /\ a % 32 \in Nat /\ a % 32 < 32
      /\ a % 16 \in Nat /\ a % 16 < 16 /\ a % 8 \in Nat /\ a % 8 < 8
  BY <1>1
<1> DEFINE a5 == a % 32  a4 == a % 16  a3 == a % 8
           b == PayloadOf(s, 2)  c == PayloadOf(s, 3)  d == PayloadOf(s, 4)
<1>4. /\ a5 \in Nat /\ a5 < 32 /\ a4 \in Nat /\ a4 < 16 /\ a3 \in Nat /\ a3 < 8
      /\ b \in Nat /\ b < 64 /\ c \in Nat /\ c < 64 /\ d \in Nat /\ d < 64
  BY <1>2, <1>3
<1>5. Worth(n, s) = CASE n = 2 -> a5 * 64 + b
                      [] n = 3 -> a4 * 4096 + b * 64 + c
                      [] n = 4 -> a3 * 262144 + b * 4096 + c * 64 + d
  BY DEF Worth
<1> HIDE DEF a5, a4, a3, b, c, d
<1>6. CASE n = 2
  <2>1. Worth(n, s) = a5 * 64 + b
    BY <1>5, <1>6
  <2> QED BY <1>4, <2>1 DEF CodeLimit
<1>7. CASE n = 3
  <2>1. Worth(n, s) = a4 * 4096 + b * 64 + c
    BY <1>5, <1>7
  <2> QED BY <1>4, <2>1 DEF CodeLimit
<1>8. CASE n = 4
  <2>1. Worth(n, s) = a3 * 262144 + b * 4096 + c * 64 + d
    BY <1>5, <1>8
  <2> QED BY <1>4, <2>1 DEF CodeLimit
<1> QED BY <1>6, <1>7, <1>8

(* The first byte. *)
LEMMA Utf8Lead ==
  ASSUME Utf8Inv, NEW c \in Nat, Lead(c)
  PROVE  Utf8Inv'
<1>1. c \in 192..247 /\ utf8' = <<c>> /\ utf8' \in Seq(Nat) /\ Len(utf8') = 1 /\ utf8'[1] = c
  BY DEF Lead, IsLead
<1>2. \A k \in 2..4 : PayloadOf(utf8', k) = 0
  BY <1>1 DEF PayloadOf
<1> DEFINE n == Len(utf8') + unicode_remaining'
<1>3. /\ unicode_remaining' \in 1..3 /\ n \in 2..4
      /\ code_point' = Worth(n, utf8')
  <2>1. CASE c \in 192..223
    <3>1. unicode_remaining' = 1 /\ code_point' = (c % 32) * 64
      BY <2>1 DEF Lead
    <3>2. n = 2
      BY <1>1, <3>1
    <3>3. Worth(2, utf8') = (c % 32) * 64 + 0
      BY <1>1, <1>2 DEF Worth
    <3> QED BY <3>1, <3>2, <3>3
  <2>2. CASE c \in 224..239
    <3>1. unicode_remaining' = 2 /\ code_point' = (c % 16) * 4096
      BY <2>2 DEF Lead
    <3>2. n = 3
      BY <1>1, <3>1
    <3>3. Worth(3, utf8') = (c % 16) * 4096 + 0 * 64 + 0
      BY <1>1, <1>2 DEF Worth
    <3> QED BY <3>1, <3>2, <3>3
  <2>3. CASE c \in 240..247
    <3>1. unicode_remaining' = 3 /\ code_point' = (c % 8) * 262144
      BY <2>3 DEF Lead
    <3>2. n = 4
      BY <1>1, <3>1
    <3>3. Worth(4, utf8') = (c % 8) * 262144 + 0 * 4096 + 0 * 64 + 0
      BY <1>1, <1>2 DEF Worth
    <3> QED BY <3>1, <3>2, <3>3
  <2> QED BY <1>1, <2>1, <2>2, <2>3
<1>4. code_point' \in Nat /\ code_point' < CodeLimit
  <2>1. Len(utf8') > 0
    BY <1>1
  <2> HIDE DEF n
  <2> QED BY ONLY <1>1, <1>3, <2>1, WorthIsBounded
<1> HIDE DEF n
<1>5. unicode_remaining' \in 0..3 /\ utf8' # <<>> /\ unicode_remaining' # 0
  BY <1>1, <1>3
<1>6. /\ Len(utf8') + unicode_remaining' \in 2..4
      /\ code_point' = Worth(Len(utf8') + unicode_remaining', utf8')
  BY ONLY <1>3, Zenon DEF n
<1> QED BY ONLY <1>1, <1>4, <1>5, <1>6, Zenon DEF Utf8Inv

(* The byte after s takes the place that is left for it. *)
LEMMA WorthOfNext ==
  ASSUME NEW n \in 2..4, NEW s \in Seq(Nat), NEW c \in Nat, Len(s) > 0, Len(s) < n
  PROVE  Worth(n, Append(s, c)) = Worth(n, s) + (c % 64) * Shifted(n - Len(s) - 1)
<1> DEFINE t == Append(s, c)  m == Len(s)  v == c % 64
<1>1. /\ t[1] = s[1] /\ Len(t) = m + 1 /\ t[m + 1] = c
      /\ m \in Nat /\ m < 4 /\ (m = 1 \/ m = 2 \/ m = 3)
  <2>1. m \in Nat /\ m > 0 /\ m < 4 /\ (m = 1 \/ m = 2 \/ m = 3)
    <3>1. n = 2 \/ n = 3 \/ n = 4
      OBVIOUS
    <3>2. m \in Nat /\ m > 0 /\ m < n
      BY DEF m
    <3> HIDE DEF t, m
    <3> QED BY ONLY <3>1, <3>2
  <2>2. 1 \in 1..m
    BY <2>1
  <2>3. Len(t) = m + 1 /\ t[m + 1] = c /\ t[1] = s[1]
    BY <2>2, AppendProperties
  <2> HIDE DEF t, m
  <2> QED BY <2>1, <2>3
<1>2. /\ \A k \in 2..4 : PayloadOf(t, k) = IF k = m + 1 THEN v ELSE PayloadOf(s, k)
      /\ PayloadOf(s, m + 1) = 0
  <2>1. PayloadOf(s, m + 1) = 0
    BY DEF PayloadOf
  <2>2. ASSUME NEW k \in 2..4 PROVE PayloadOf(t, k) = IF k = m + 1 THEN v ELSE PayloadOf(s, k)
    <3>1. k <= m => t[k] = s[k]
      OBVIOUS
    <3> HIDE DEF t
    <3> QED BY <1>1, <3>1 DEF PayloadOf
  <2> QED BY <2>1, <2>2
<1>3. v \in Nat /\ s[1] \in Nat /\ \A k \in 2..4 : PayloadOf(s, k) \in Nat
  BY DEF PayloadOf
<1> DEFINE a5 == s[1] % 32  a4 == s[1] % 16  a3 == s[1] % 8
           x == PayloadOf(s, 2)  y == PayloadOf(s, 3)  z == PayloadOf(s, 4)
           X == PayloadOf(t, 2)  Y == PayloadOf(t, 3)  Z == PayloadOf(t, 4)
<1>4. /\ a5 \in Nat /\ a4 \in Nat /\ a3 \in Nat
      /\ x \in Nat /\ y \in Nat /\ z \in Nat
      /\ X = (IF m = 1 THEN v ELSE x) /\ Y = (IF m = 2 THEN v ELSE y) /\ Z = (IF m = 3 THEN v ELSE z)
      /\ m = 1 => x = 0
      /\ m = 2 => y = 0
      /\ m = 3 => z = 0
  <2>1. a5 \in Nat /\ a4 \in Nat /\ a3 \in Nat
    BY <1>3
  <2>2. x \in Nat /\ y \in Nat /\ z \in Nat
    BY <1>3
  <2>3. X = (IF 2 = m + 1 THEN v ELSE x) /\ Y = (IF 3 = m + 1 THEN v ELSE y) /\ Z = (IF 4 = m + 1 THEN v ELSE z)
    BY <1>2
  <2>4. /\ m = 1 => x = 0
        /\ m = 2 => y = 0
        /\ m = 3 => z = 0
    <3>1. 1 + 1 = 2 /\ 2 + 1 = 3 /\ 3 + 1 = 4
      OBVIOUS
    <3> HIDE DEF m
    <3> QED BY ONLY <1>2, <3>1, Zenon DEF x, y, z
  <2> HIDE DEF t, m, v, a5, a4, a3, x, y, z, X, Y, Z
  <2> QED BY <1>1, <2>1, <2>2, <2>3, <2>4
<1>5. /\ Worth(n, s) = CASE n = 2 -> a5 * 64 + x
                          [] n = 3 -> a4 * 4096 + x * 64 + y
                          [] n = 4 -> a3 * 262144 + x * 4096 + y * 64 + z
      /\ Worth(n, t) = CASE n = 2 -> a5 * 64 + X
                          [] n = 3 -> a4 * 4096 + X * 64 + Y
                          [] n = 4 -> a3 * 262144 + X * 4096 + Y * 64 + Z
  BY <1>1 DEF Worth
<1> HIDE DEF t, m, v, a5, a4, a3, x, y, z, X, Y, Z
<1> DEFINE w == Shifted(n - m - 1)
<1>6. w = IF n - m = 1 THEN 1 ELSE IF n - m = 2 THEN 64 ELSE 4096
  BY <1>1 DEF Shifted
<1>7. m < n
  BY DEF m
<1> HIDE DEF w
<1>8. Worth(n, t) = Worth(n, s) + v * w
  <2>1. CASE n = 2
    <3>1. m = 1 /\ w = 1
      BY <1>1, <1>6, <1>7, <2>1
    <3>2. Worth(n, s) = a5 * 64 + x /\ Worth(n, t) = a5 * 64 + X
      BY <1>5, <2>1
    <3> QED BY <1>3, <1>4, <3>1, <3>2
  <2>2. CASE n = 3
    <3>1. (m = 1 /\ w = 64) \/ (m = 2 /\ w = 1)
      BY <1>1, <1>6, <1>7, <2>2
    <3>2. Worth(n, s) = a4 * 4096 + x * 64 + y /\ Worth(n, t) = a4 * 4096 + X * 64 + Y
      BY <1>5, <2>2
    <3>3. CASE m = 1 /\ w = 64
      BY ONLY <1>3, <1>4, <3>2, <3>3
    <3>4. CASE m = 2 /\ w = 1
      BY ONLY <1>3, <1>4, <3>2, <3>4
    <3> QED BY <3>1, <3>3, <3>4
  <2>3. CASE n = 4
    <3>1. (m = 1 /\ w = 4096) \/ (m = 2 /\ w = 64) \/ (m = 3 /\ w = 1)
      BY <1>1, <1>6, <1>7, <2>3
    <3>2. /\ Worth(n, s) = a3 * 262144 + x * 4096 + y * 64 + z
          /\ Worth(n, t) = a3 * 262144 + X * 4096 + Y * 64 + Z
      BY <1>5, <2>3
    <3>3. CASE m = 1 /\ w = 4096
      BY ONLY <1>3, <1>4, <3>2, <3>3
    <3>4. CASE m = 2 /\ w = 64
      BY ONLY <1>3, <1>4, <3>2, <3>4
    <3>5. CASE m = 3 /\ w = 1
      BY ONLY <1>3, <1>4, <3>2, <3>5
    <3> QED BY <3>1, <3>3, <3>4, <3>5
  <2> QED BY <2>1, <2>2, <2>3
<1> QED BY <1>8 DEF w, v, m, t

LEMMA Utf8Continue ==
  ASSUME Utf8Inv, NEW c \in Nat, unicode_remaining # 0, Continue(c)
  PROVE  Utf8Inv'
<1> DEFINE n == Len(utf8) + unicode_remaining
<1>1. /\ utf8 \in Seq(Nat) /\ utf8 # <<>> /\ Len(utf8) \in Nat /\ Len(utf8) > 0
      /\ unicode_remaining \in 1..3 /\ n \in 2..4 /\ code_point = Worth(n, utf8)
  BY DEF Utf8Inv
<1>2. /\ unicode_remaining' = unicode_remaining - 1 /\ utf8' = Append(utf8, c)
      /\ code_point' = code_point + (c % 64) * Shifted(unicode_remaining')
      /\ unicode_remaining' = 0 => out' = Glyphs(code_point')
  BY DEF Continue
<1>3. /\ utf8' \in Seq(Nat) /\ utf8' # <<>> /\ Len(utf8') = Len(utf8) + 1
      /\ Len(utf8') + unicode_remaining' = n
      /\ Len(utf8) < n /\ n - Len(utf8) - 1 = unicode_remaining'
  BY <1>1, <1>2
<1> HIDE DEF n
<1>4. Worth(n, Append(utf8, c)) = Worth(n, utf8) + (c % 64) * Shifted(n - Len(utf8) - 1)
  BY <1>1, <1>3, WorthOfNext
<1>5. code_point' = Worth(n, utf8')
  BY <1>1, <1>2, <1>3, <1>4
<1>6. Len(utf8') > 0
  BY <1>1, <1>3
<1>7. code_point' \in Nat /\ code_point' < CodeLimit
  BY <1>1, <1>3, <1>5, <1>6, WorthIsBounded
<1>8. unicode_remaining' \in 0..3
  BY <1>1, <1>2
<1>9. /\ Len(utf8') + unicode_remaining' \in 2..4
      /\ code_point' = Worth(Len(utf8') + unicode_remaining', utf8')
      /\ unicode_remaining' = 0 => out' = Glyphs(code_point')
  BY ONLY <1>1, <1>2, <1>3, <1>5, Zenon
<1> QED BY ONLY <1>3, <1>7, <1>8, <1>9, Zenon DEF Utf8Inv

(* Any other byte ends the character. *)
LEMMA Utf8Inductive ==
  ASSUME EscParserAssumption, alphabet \in Alphabets, Utf8Inv, [Next]_vars
  PROVE  Utf8Inv'
<1>1. CASE UNCHANGED vars
  BY <1>1, Zenon DEF vars, unicode, Utf8Inv
<1>2. ASSUME NEW c \in alphabet, flanterm_putchar(c) PROVE Utf8Inv'
  <2>1. c \in Nat
    BY DEF EscParserAssumption
  <2>2. CASE Lead(c)
    BY <2>1, <2>2, Utf8Lead
  <2>3. CASE unicode_remaining # 0 /\ Continue(c)
    BY <2>1, <2>3, Utf8Continue
  <2>4. CASE unicode_remaining' = 0 /\ utf8' = <<>> /\ UNCHANGED code_point
    <3>1. <<>> \in Seq(Nat) /\ 0 \in 0..3
      OBVIOUS
    <3> QED BY <2>4, <3>1 DEF Utf8Inv
  <2> QED BY <1>2, <2>2, <2>3, <2>4 DEF flanterm_putchar, Cancel
<1> QED BY <1>1, <1>2 DEF Next

(* A character of several bytes is decoded as RFC 3629 has it, for every   *)
(* set of bytes and in the middle of whatever else (flanterm.c:1213-1262). *)
THEOREM Utf8IsDecoded ==
  ASSUME EscParserAssumption
  PROVE  Spec => []DecodesUtf8
<1> DEFINE Known == alphabet \in Alphabets /\ Utf8Inv
<1>1. Init => Known
  BY Utf8Initially DEF Init
<1>2. Known /\ [Next]_vars => Known'
  BY Utf8Inductive DEF Next, vars
<1>3. Known => DecodesUtf8
  <2> SUFFICES ASSUME Utf8Inv, utf8 # <<>>, unicode_remaining = 0
               PROVE  code_point = Decoded(utf8) /\ out = Glyphs(code_point)
    BY DEF DecodesUtf8
  <2>1. utf8 \in Seq(Nat) /\ Len(utf8) \in 2..4 /\ code_point = Worth(Len(utf8), utf8)
    <3>1. Len(utf8) + 0 = Len(utf8)
      BY DEF Utf8Inv
    <3> QED BY <3>1 DEF Utf8Inv
  <2>2. Worth(Len(utf8), utf8) = Decoded(utf8)
    <3>1. Len(utf8) = 2 \/ Len(utf8) = 3 \/ Len(utf8) = 4
      BY <2>1
    <3>2. \A k \in 2..4 : k <= Len(utf8) => PayloadOf(utf8, k) = Payload(utf8, k)
      BY DEF PayloadOf, Payload
    <3>3. PayloadOf(utf8, 2) = Payload(utf8, 2)
      BY <3>1, <3>2
    <3>4. Len(utf8) > 2 => PayloadOf(utf8, 3) = Payload(utf8, 3)
      BY <3>1, <3>2
    <3>5. Len(utf8) = 4 => PayloadOf(utf8, 4) = Payload(utf8, 4)
      BY <3>2
    <3> DEFINE n == Len(utf8)
    <3> HIDE DEF n
    <3>6. CASE n = 2
      BY <3>3, <3>6 DEF Worth, Decoded, n
    <3>7. CASE n = 3
      BY <3>3, <3>4, <3>7 DEF Worth, Decoded, n
    <3>8. CASE n = 4
      BY <3>3, <3>4, <3>5, <3>8 DEF Worth, Decoded, n
    <3> QED BY <3>1, <3>6, <3>7, <3>8 DEF n
  <2> QED BY <2>1, <2>2 DEF Utf8Inv
<1> HIDE DEF Known
<1> QED BY <1>1, <1>2, <1>3, PTL DEF Spec
-----------------------------------------------------------------------------
(* The fields keep their ranges. *)
FlagsInv ==
  /\ escape \in BOOLEAN /\ control_sequence \in BOOLEAN /\ discard_next \in BOOLEAN
  /\ osc \in BOOLEAN /\ osc_escape \in BOOLEAN
  /\ dec_private \in BOOLEAN /\ dropped \in BOOLEAN
  /\ insert_mode \in BOOLEAN /\ cursor_enabled \in BOOLEAN

(* The slot of g_select is one of the two. *)
SelectionInv ==
  /\ escape_offset \in 0..MaxLength
  /\ g_select \in 0..2
  /\ current_charset \in {0, 1} /\ saved_state_current_charset \in {0, 1}
  /\ charsets \in [{0, 1} -> {Default, DecSpecial}]

LEMMA FieldsInitially ==
  ASSUME EscParserAssumption, Init
  PROVE  FlagsInv /\ SelectionInv
BY DEF EscParserAssumption, Init, FlagsInv, SelectionInv

LEMMA SwitchedIs ==
  ASSUME NEW mode \in BOOLEAN, NEW number, NEW c
  PROVE  Switched(mode, number, c) \in BOOLEAN
BY Zenon DEF Switched

LEMMA FlagsSequence ==
  ASSUME FlagsInv, NEW c, control_sequence_parse(c)
  PROVE  FlagsInv'
<1>1. /\ escape = TRUE /\ control_sequence = TRUE /\ UNCHANGED <<osc, osc_escape>>
      /\ \/ Introducer(c)
         \/ Continues /\ UNCHANGED <<dec_private, dropped, screenModes>>
         \/ Final(c)
  BY DEF control_sequence_parse, FlagsInv
<1>2. CASE Introducer(c)
  BY <1>1, <1>2 DEF Introducer, Ends, Continues, screenModes, FlagsInv
<1>3. CASE Continues /\ UNCHANGED <<dec_private, dropped, screenModes>>
  BY <1>1, <1>3, Zenon DEF Continues, screenModes, FlagsInv
<1>4. CASE Final(c)
  <2>1. Ends /\ UNCHANGED discard_next
    BY <1>4 DEF Final
  <2>2. CASE dec_private_parse(c)
    BY <1>1, <2>1, <2>2, SwitchedIs DEF dec_private_parse, Ends, FlagsInv
  <2>3. CASE mode_toggle(c)
    BY <1>1, <2>1, <2>3, SwitchedIs DEF mode_toggle, Ends, FlagsInv
  <2> QED BY <1>4, <2>2, <2>3 DEF Final
<1> QED BY <1>1, <1>2, <1>3, <1>4

LEMMA FlagsEscape ==
  ASSUME FlagsInv, NEW c, osc_parse(c) \/ escape_parse(c)
  PROVE  FlagsInv'
<1>1. CASE osc_parse(c)
  BY <1>1 DEF osc_parse, screenModes, FlagsInv
<1>2. CASE escape_parse(c)
  <2>1. UNCHANGED discard_next
    BY <1>2 DEF escape_parse
  <2>2. CASE StartSequence \/ StartOsc
    BY <2>1, <2>2 DEF StartSequence, StartOsc, screenModes, FlagsInv
  <2>3. CASE Designate(c) \/ Single(c)
    BY <2>1, <2>3 DEF Designate, Single, screenModes, FlagsInv
  <2>4. CASE flanterm_context_reinit
    BY <2>1, <2>4 DEF flanterm_context_reinit, FlagsInv
  <2> QED BY <1>2, <2>2, <2>3, <2>4 DEF escape_parse
<1> QED BY <1>1, <1>2

LEMMA FlagsInductive ==
  ASSUME FlagsInv, [Next]_vars
  PROVE  FlagsInv'
<1>1. CASE UNCHANGED vars
  BY <1>1 DEF vars, flags, sequence, screenModes, FlagsInv
<1>2. ASSUME NEW c, flanterm_putchar(c) PROVE FlagsInv'
  <2>1. CASE Cancel(c)
    BY <2>1 DEF Cancel, screenModes, FlagsInv
  <2>2. CASE Lead(c) \/ Continue(c)
    BY <2>2 DEF Lead, Continue, flags, sequence, screenModes, FlagsInv
  <2>3. CASE SelectSet(c) \/ Control(c) \/ Text(c)
    <3>1. Ground
      BY <2>3 DEF SelectSet, Control, Text
    <3> QED BY <3>1 DEF Ground, flags, screenModes, FlagsInv
  <2>4. CASE StartEscape(c)
    BY <2>4 DEF StartEscape, screenModes, FlagsInv
  <2> QED BY <1>2, <2>1, <2>2, <2>3, <2>4, FlagsSequence, FlagsEscape DEF flanterm_putchar
<1> QED BY <1>1, <1>2 DEF Next

LEMMA SelectionInductive ==
  ASSUME EscParserAssumption, alphabet \in Alphabets, OneState, SelectionInv, [Next]_vars
  PROVE  SelectionInv'
<1>1. CASE UNCHANGED vars
  BY <1>1 DEF vars, sequence, selection, SelectionInv
<1>2. MaxLength \in Nat
  BY DEF EscParserAssumption
<1>3. ASSUME NEW c \in alphabet, flanterm_putchar(c) PROVE SelectionInv'
  <2>1. c \in 0..255
    BY DEF EscParserAssumption
  <2>2. CASE Cancel(c)
    BY <2>2 DEF Cancel, SelectionInv
  <2>3. CASE Lead(c) \/ Continue(c)
    BY <2>3 DEF Lead, Continue, sequence, selection, SelectionInv
  <2>4. CASE escape => escape_offset < MaxLength
    <3>1. CASE control_sequence_parse(c)
      BY <1>2, <2>4, <3>1 DEF control_sequence_parse, selection, SelectionInv
    <3>2. CASE osc_parse(c)
      BY <1>2, <2>4, <3>2 DEF osc_parse, selection, SelectionInv
    <3>3. CASE escape_parse(c)
      <4>1. escape_offset' \in 0..MaxLength
        BY <1>2, <2>4, <3>3 DEF escape_parse, SelectionInv
      <4>2. CASE StartSequence \/ StartOsc
        BY <4>1, <4>2 DEF StartSequence, StartOsc, selection, SelectionInv
      <4>3. CASE c \in {40, 41} /\ Designate(c)
        BY <4>1, <4>3 DEF Designate, SelectionInv
      <4>4. CASE flanterm_context_reinit
        BY <4>1, <4>4 DEF flanterm_context_reinit, SelectionInv
      <4>5. CASE Single(c)
        BY <4>1, <4>5 DEF Single, SelectionInv
      <4> QED BY <3>3, <4>2, <4>3, <4>4, <4>5 DEF escape_parse
    <3>4. CASE SelectSet(c)
      <4>1. g_select \in 1..2 /\ g_select - 1 \in {0, 1}
        BY <3>4 DEF SelectSet, SelectionInv
      <4> DEFINE old == charsets[g_select - 1]
                 new == CASE c = 66 -> Default [] c = 48 -> DecSpecial [] OTHER -> old
      <4>2. charsets' = [charsets EXCEPT ![g_select - 1] = new]
        BY <3>4 DEF SelectSet
      <4>3. old \in {Default, DecSpecial}
        BY <4>1 DEF SelectionInv
      <4>4. new \in {Default, DecSpecial}
        BY <4>3
      <4> HIDE DEF new
      <4>5. charsets' \in [{0, 1} -> {Default, DecSpecial}]
        BY <4>2, <4>4 DEF SelectionInv
      <4> QED BY <3>4, <4>5 DEF SelectSet, SelectionInv
    <3>5. CASE StartEscape(c)
      BY <1>2, <3>5 DEF StartEscape, selection, SelectionInv
    <3>6. CASE Control(c)
      <4>1. current_charset' \in {0, 1}
        BY <3>6 DEF Control, SelectionInv
      <4> QED BY <3>6, <4>1 DEF Control, SelectionInv
    <3>7. CASE Text(c)
      BY <3>7 DEF Text, selection, SelectionInv
    <3> QED BY <1>3, <2>2, <2>3, <3>1, <3>2, <3>3, <3>4, <3>5, <3>6, <3>7 DEF flanterm_putchar
  <2> QED BY <1>3, <2>2, <2>3, <2>4 DEF flanterm_putchar
<1> QED BY <1>1, <1>3 DEF Next

(* Whatever is written, the parser's fields stay in their ranges, among    *)
(* them the slot of a character set and the next place in esc_values       *)
(* (flanterm.c:484-522, 872-876, 1199-1346).                               *)
THEOREM FieldsInRange ==
  ASSUME EscParserAssumption
  PROVE  Spec => []TypeOK
<1> DEFINE Known == /\ IInv /\ PInv /\ ValuesInv /\ Utf8Inv /\ FlagsInv /\ SelectionInv
                    /\ alphabet \in Alphabets
<1>1. Init => Known
  BY Initially, PrivateInitially, ValuesInitially, Utf8Initially, FieldsInitially DEF Init
<1>2. Known /\ [Next]_vars => Known'
  <2> SUFFICES ASSUME Known, [Next]_vars PROVE Known'
    OBVIOUS
  <2>1. IInv' /\ PInv' /\ alphabet' \in Alphabets
    BY Inductive, PrivateInductive
  <2> QED BY <2>1, ValuesInductive, Utf8Inductive, FlagsInductive, SelectionInductive DEF IInv
<1>3. Known => TypeOK
  <2> SUFFICES ASSUME IInv, ValuesInv, Utf8Inv, FlagsInv, SelectionInv PROVE TypeOK
    OBVIOUS
  <2>1. rrr \in BOOLEAN /\ esc_values \in [1..MaxValues -> 0..Word-1] /\ esc_values_i \in 0..MaxValues
    BY DEF ValuesInv, IInv
  <2>2. unicode_remaining \in 0..3 /\ code_point \in 0..(CodeLimit - 1)
    <3>1. CodeLimit \in Nat
      BY DEF CodeLimit
    <3> QED BY <3>1 DEF Utf8Inv
  <2> QED BY <2>1, <2>2 DEF TypeOK, FlagsInv, SelectionInv
<1> HIDE DEF Known
<1> QED BY <1>1, <1>2, <1>3, PTL DEF Spec
-----------------------------------------------------------------------------
(* The colours that a side can have. *)
PaintsInv ==
  /\ SgrTypeOK
  /\ saved.bold \in BOOLEAN /\ saved.bg_bold \in BOOLEAN /\ saved.reverse_video \in BOOLEAN
  /\ saved.exact \in BOOLEAN
  /\ saved.current_primary \in Colours \cup {None} /\ saved.current_bg \in Colours \cup {None}
  /\ saved.plain \in Pens /\ saved.stale \subseteq Sides

LEMMA PairOfPens ==
  ASSUME NEW a \in Palette, NEW b \in Palette
  PROVE  [fg |-> a, bg |-> b] \in Pens
BY DEF Pens, Sides

LEMMA InPalette ==
  /\ \A n \in Colours : Ansi(n) \in Palette /\ Bright(n) \in Palette
  /\ \A s \in Sides : default_bright[s] \in Palette /\ default[s] \in Palette
  /\ Rgb \in Palette
  /\ default \in Pens
<1>1. \A s \in Sides : default_bright[s] \in Palette /\ default[s] \in Palette
  BY DEF Palette, Sides, default, default_bright, Bright
<1>2. default.fg \in Palette /\ default.bg \in Palette
  BY DEF Palette
<1>3. default \in Pens
  BY <1>2, PairOfPens DEF default
<1> QED BY <1>1, <1>3 DEF Palette

LEMMA ShadeInPalette ==
  ASSUME NEW colour \in Colours \cup {None}, NEW bright \in BOOLEAN, NEW side \in Sides
  PROVE  Shade(colour, bright, side) \in Palette
<1>1. CASE colour = None
  BY <1>1, InPalette DEF Shade
<1>2. CASE colour # None
  <2>1. colour \in Colours
    BY <1>2
  <2> QED BY <1>2, <2>1, InPalette DEF Shade
<1> QED BY <1>1, <1>2

LEMMA PenPainted ==
  ASSUME NEW p \in Pens, NEW side \in Sides, NEW colour \in Palette
  PROVE  [p EXCEPT ![side] = colour] \in Pens
BY DEF Pens

LEMMA PaintsInitially ==
  ASSUME SgrAssumption, SgrInit
  PROVE  PaintsInv
<1>1. "black" \in Colours
  BY DEF SgrAssumption, SgrInit, Colours
<1>2. [fg |-> Ansi("black"), bg |-> Ansi("black")] \in Pens
  BY <1>1, InPalette, PairOfPens
<1>3. SgrTypeOK
  BY <1>2, InPalette DEF SgrInit, SgrTypeOK
<1> QED BY <1>1, <1>2, <1>3 DEF SgrInit, PaintsInv

(* What a step has to keep. *)
LEMMA PaintsKept ==
  ASSUME PaintsInv, UNCHANGED <<bounds, saved>>,
         bold' \in BOOLEAN, bg_bold' \in BOOLEAN, reverse_video' \in BOOLEAN, exact' \in BOOLEAN,
         current_primary' \in Colours \cup {None}, current_bg' \in Colours \cup {None},
         pen' \in Pens, plain' \in Pens, stale' \subseteq Sides
  PROVE  PaintsInv'
<1>1. Colours' = Colours /\ Pens' = Pens
  BY DEF Colours, Pens, Palette
<1> QED BY <1>1 DEF PaintsInv, SgrTypeOK

(* One of the two colours changes. *)
LEMMA PaintsSide ==
  ASSUME PaintsInv, UNCHANGED <<bounds, saved, reverse_video>>,
         NEW i \in Sides, NEW j \in Sides, NEW a \in Palette, NEW b \in Palette,
         pen' = [pen EXCEPT ![i] = a], plain' = [plain EXCEPT ![j] = b],
         bold' \in BOOLEAN, bg_bold' \in BOOLEAN, exact' \in BOOLEAN,
         current_primary' \in Colours \cup {None}, current_bg' \in Colours \cup {None},
         stale' \subseteq Sides
  PROVE  PaintsInv'
<1>1. pen' \in Pens /\ plain' \in Pens
  BY PenPainted DEF PaintsInv, SgrTypeOK
<1>2. reverse_video' \in BOOLEAN
  BY DEF PaintsInv, SgrTypeOK
<1> QED BY <1>1, <1>2, PaintsKept

LEMMA PaintsHas ==
  ASSUME PaintsInv
  PROVE  /\ bold \in BOOLEAN /\ bg_bold \in BOOLEAN /\ reverse_video \in BOOLEAN /\ exact \in BOOLEAN
         /\ current_primary \in Colours \cup {None} /\ current_bg \in Colours \cup {None}
         /\ pen \in Pens /\ plain \in Pens /\ saved.pen \in Pens /\ stale \subseteq Sides
         /\ Ink(reverse_video) \in Sides /\ Paper(reverse_video) \in Sides
         /\ Ink(FALSE) \in Sides /\ Paper(FALSE) \in Sides
BY DEF PaintsInv, SgrTypeOK, Ink, Paper, Sides

LEMMA PaintsBold ==
  ASSUME PaintsInv, UNCHANGED bounds, NEW b \in BOOLEAN, SetBold(b) \/ SetBgBold(b)
  PROVE  PaintsInv'
<1>1. CASE SetBold(b)
  <2> DEFINE i == Ink(reverse_video)  j == Ink(FALSE)
             u == Shade(current_primary, b, i)  v == Shade(current_primary, b, j)
  <2>1. /\ pen' = [pen EXCEPT ![i] = u] /\ plain' = [plain EXCEPT ![j] = v]
        /\ bold' = b /\ exact' = (exact /\ ~ (reverse_video /\ current_primary = None))
        /\ UNCHANGED <<bg_bold, reverse_video, current_primary, current_bg, saved, stale>>
    BY <1>1 DEF SetBold, Paint, Keep
  <2>2. u \in Palette /\ v \in Palette /\ i \in Sides /\ j \in Sides
    BY ShadeInPalette, PaintsHas
  <2> HIDE DEF u, v, i, j
  <2> QED BY <2>1, <2>2, PaintsHas, PaintsSide
<1>2. CASE SetBgBold(b)
  <2> DEFINE i == Paper(reverse_video)  j == Paper(FALSE)
             u == Shade(current_bg, b, i)  v == Shade(current_bg, b, j)
  <2>1. /\ pen' = [pen EXCEPT ![i] = u] /\ plain' = [plain EXCEPT ![j] = v]
        /\ bg_bold' = b /\ exact' = (exact /\ ~ (reverse_video /\ current_bg = None))
        /\ UNCHANGED <<bold, reverse_video, current_primary, current_bg, saved, stale>>
    BY <1>2 DEF SetBgBold, Paint, Keep
  <2>2. u \in Palette /\ v \in Palette /\ i \in Sides /\ j \in Sides
    BY ShadeInPalette, PaintsHas
  <2> HIDE DEF u, v, i, j
  <2> QED BY <2>1, <2>2, PaintsHas, PaintsSide
<1> QED BY <1>1, <1>2

LEMMA PaintsColour ==
  ASSUME PaintsInv, UNCHANGED bounds, NEW n \in Colours, NEW bright \in BOOLEAN,
         SetPrimary(n, bright) \/ SetBg(n, bright)
  PROVE  PaintsInv'
<1>1. CASE SetPrimary(n, bright)
  <2> DEFINE i == Ink(reverse_video)  j == Ink(FALSE)  b == bright \/ bold
             u == Shade(n, b, i)  v == Shade(n, b, j)
  <2>1. /\ pen' = [pen EXCEPT ![i] = u] /\ plain' = [plain EXCEPT ![j] = v]
        /\ current_primary' = n /\ stale' = stale \ {"fg"}
        /\ UNCHANGED <<bold, bg_bold, reverse_video, current_bg, saved, exact>>
    BY <1>1 DEF SetPrimary, Paint
  <2>2. b \in BOOLEAN
    BY PaintsHas
  <2> HIDE DEF b
  <2>3. u \in Palette /\ v \in Palette /\ i \in Sides /\ j \in Sides
    BY <2>2, ShadeInPalette, PaintsHas
  <2> HIDE DEF u, v, i, j
  <2> QED BY <2>1, <2>3, PaintsHas, PaintsSide
<1>2. CASE SetBg(n, bright)
  <2> DEFINE i == Paper(reverse_video)  j == Paper(FALSE)  b == bright \/ bg_bold
             u == Shade(n, b, i)  v == Shade(n, b, j)
  <2>1. /\ pen' = [pen EXCEPT ![i] = u] /\ plain' = [plain EXCEPT ![j] = v]
        /\ current_bg' = n /\ stale' = stale \ {"bg"}
        /\ UNCHANGED <<bold, bg_bold, reverse_video, current_primary, saved, exact>>
    BY <1>2 DEF SetBg, Paint
  <2>2. b \in BOOLEAN
    BY PaintsHas
  <2> HIDE DEF b
  <2>3. u \in Palette /\ v \in Palette /\ i \in Sides /\ j \in Sides
    BY <2>2, ShadeInPalette, PaintsHas
  <2> HIDE DEF u, v, i, j
  <2> QED BY <2>1, <2>3, PaintsHas, PaintsSide
<1> QED BY <1>1, <1>2

LEMMA PaintsDefault ==
  ASSUME PaintsInv, UNCHANGED bounds, DefaultPrimary \/ DefaultBg
  PROVE  PaintsInv'
<1>1. CASE DefaultPrimary
  <2> DEFINE i == Ink(reverse_video)  j == Ink(FALSE)  u == Shade(None, bold, "fg")
  <2>1. /\ pen' = [pen EXCEPT ![i] = u] /\ plain' = [plain EXCEPT ![j] = u]
        /\ current_primary' = None /\ stale' = stale \ {"fg"}
        /\ UNCHANGED <<bold, bg_bold, reverse_video, current_bg, saved, exact>>
    BY <1>1 DEF DefaultPrimary, Paint
  <2>2. u \in Palette /\ i \in Sides /\ j \in Sides
    BY ShadeInPalette, PaintsHas DEF Sides
  <2> HIDE DEF u, i, j
  <2> QED BY <2>1, <2>2, PaintsHas, PaintsSide
<1>2. CASE DefaultBg
  <2> DEFINE i == Paper(reverse_video)  j == Paper(FALSE)  u == Shade(None, bg_bold, "bg")
  <2>1. /\ pen' = [pen EXCEPT ![i] = u] /\ plain' = [plain EXCEPT ![j] = u]
        /\ current_bg' = None /\ stale' = stale \ {"bg"}
        /\ UNCHANGED <<bold, bg_bold, reverse_video, current_primary, saved, exact>>
    BY <1>2 DEF DefaultBg, Paint
  <2>2. u \in Palette /\ i \in Sides /\ j \in Sides
    BY ShadeInPalette, PaintsHas DEF Sides
  <2> HIDE DEF u, i, j
  <2> QED BY <2>1, <2>2, PaintsHas, PaintsSide
<1> QED BY <1>1, <1>2

LEMMA PaintsWhole ==
  ASSUME PaintsInv, UNCHANGED bounds, Reset \/ save_state \/ restore_state \/ ReinitColours
  PROVE  PaintsInv'
<1>1. CASE Reset
  BY <1>1, InPalette, PaintsKept DEF Reset
<1>2. CASE save_state
  <2>1. UNCHANGED <<attributes, pen, history>>
    BY <1>2 DEF save_state
  <2>2. /\ saved'.bold = bold /\ saved'.bg_bold = bg_bold /\ saved'.reverse_video = reverse_video
        /\ saved'.current_primary = current_primary /\ saved'.current_bg = current_bg
        /\ saved'.pen = pen /\ saved'.plain = plain /\ saved'.exact = exact /\ saved'.stale = stale
    BY <1>2 DEF save_state
  <2>3. Colours' = Colours /\ Pens' = Pens
    BY DEF Colours, Pens, Palette
  <2> QED BY <2>1, <2>2, <2>3 DEF PaintsInv, SgrTypeOK, attributes, history
<1>3. CASE restore_state
  <2>1. saved.pen \in Pens
    BY PaintsHas
  <2> QED BY <1>3, <2>1, PaintsKept DEF restore_state, PaintsInv
<1>4. CASE ReinitColours
  <2>1. exact' \in BOOLEAN /\ Sides \subseteq Sides
    BY <1>4, PaintsHas DEF ReinitColours, Keep
  <2> QED BY <1>4, <2>1, PaintsHas, PaintsKept DEF ReinitColours
<1> QED BY <1>1, <1>2, <1>3, <1>4

LEMMA PaintsOther ==
  ASSUME PaintsInv, UNCHANGED bounds,
         \/ \E r \in BOOLEAN : SetReverse(r)
         \/ \E side \in Sides, n \in Colours :
              \E colour \in {Ansi(n), Bright(n), Rgb} : Extended(side, colour)
  PROVE  PaintsInv'
<1>1. ASSUME NEW r \in BOOLEAN, SetReverse(r) PROVE PaintsInv'
  <2>1. pen["bg"] \in Palette /\ pen["fg"] \in Palette
    BY PaintsHas DEF Pens, Sides
  <2>2. Swap(pen) \in Pens
    BY <2>1, PairOfPens DEF Swap
  <2>3. pen' \in Pens
    BY <1>1, <2>2, PaintsHas DEF SetReverse
  <2> QED BY <1>1, <2>3, PaintsHas, PaintsKept DEF SetReverse, history
<1>2. ASSUME NEW side \in Sides, NEW n \in Colours, NEW colour \in {Ansi(n), Bright(n), Rgb},
             Extended(side, colour)
      PROVE  PaintsInv'
  <2>1. /\ pen' = [pen EXCEPT ![side] = colour] /\ plain' = [plain EXCEPT ![side] = colour]
        /\ exact' = (exact /\ ~ reverse_video) /\ stale' = stale \cup {side}
        /\ UNCHANGED <<attributes, saved>>
    BY <1>2 DEF Extended, Paint, Keep
  <2>2. colour \in Palette
    BY InPalette
  <2>3. UNCHANGED <<bold, bg_bold, reverse_video, current_primary, current_bg>>
    BY <2>1 DEF attributes
  <2> QED BY <2>1, <2>2, <2>3, PaintsHas, PaintsSide
<1> QED BY <1>1, <1>2

LEMMA PaintsInductive == PaintsInv /\ [SgrNext]_sgrVars => PaintsInv'
<1>1. PaintsInv /\ UNCHANGED sgrVars => PaintsInv'
  <2> SUFFICES ASSUME PaintsInv, UNCHANGED sgrVars PROVE PaintsInv'
    OBVIOUS
  <2>1. UNCHANGED <<bounds, saved, bold, bg_bold, reverse_video, current_primary, current_bg, pen,
                    plain, exact, stale>>
    BY DEF sgrVars, attributes, history
  <2> QED BY <2>1, PaintsHas, PaintsKept
<1>2. ASSUME PaintsInv, Change, UNCHANGED bounds PROVE PaintsInv'
  BY <1>2, PaintsBold, PaintsColour, PaintsDefault, PaintsWhole, PaintsOther DEF Change
<1> QED BY <1>1, <1>2 DEF SgrNext

(* For every palette, the two colours of the back end are always ones of   *)
(* the palette, the defaults or chosen by 38 and 48 (flanterm.c:115-326).  *)
THEOREM ColoursInRange ==
  ASSUME SgrAssumption
  PROVE  SgrSpec => []SgrTypeOK
<1>1. SgrInit => PaintsInv
  BY PaintsInitially
<1>2. PaintsInv => SgrTypeOK
  BY DEF PaintsInv
<1> QED BY <1>1, <1>2, PaintsInductive, PTL DEF SgrSpec
=============================================================================
