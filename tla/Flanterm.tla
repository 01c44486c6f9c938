------------------------------ MODULE Flanterm ------------------------------
(***************************************************************************)
(* The front end of the terminal, src/flanterm/flanterm.c, of which the    *)
(* context has three parts that share no field but insert_mode and the     *)
(* character set: the parser of the bytes, the colours, and the screen with*)
(* its scroll region.  A behaviour exercises one of them, with whatever the*)
(* others can ask of it, so that each can be explored to its own bounds.   *)
(* Or it exercises what most of its text comes from: printf, which hands   *)
(* the terminal one character after the other through putchar_.            *)
(*                                                                         *)
(* The parser and the colours, and printf, are instances of the modules    *)
(* that EXTEND theirs with theorems, which FlantermProofs cites.           *)
(***************************************************************************)
EXTENDS Terminal

CONSTANTS
  Alphabets, MaxValues, Word, Cp437, Combining, MaxLength,  \* of EscParser
  Palettes,                                                 \* of Sgr
  BufferSize, Bits,                                         \* of Format
  Jobs,        \* the calls of printf that are explored
  Quiet,       \* the one of Screens that the other parts are explored on
  Silence      \* the one of Jobs that they are explored with

VARIABLES
  part,
  alphabet, escape, control_sequence, osc, osc_escape, discard_next, rrr,
  esc_values, esc_values_i, escape_offset, dec_private, unicode_remaining,
  code_point, g_select, charsets, current_charset,
  saved_state_current_charset, inserting, cursor_enabled, out, params, utf8,
  dropped,
  palette, bold, bg_bold, reverse_video, current_primary, current_bg, pen,
  saved, plain, exact, stale,
  job, print_pc, format, args, printed, buffer

Front == INSTANCE FrontProofs WITH insert_mode <- inserting, bounds <- palette
Printer == INSTANCE FormatProofs

ASSUME FlantermAssumption ==
  /\ Front!EscParserAssumption /\ Front!SgrAssumption /\ Printer!FormatAssumption
  /\ Quiet \in Screens /\ Silence \in Jobs
  /\ \A call \in Jobs : Printer!JobOK(call)

parserVars ==
  <<alphabet, escape, control_sequence, osc, osc_escape, discard_next, rrr,
    esc_values, esc_values_i, escape_offset, dec_private, unicode_remaining,
    code_point, g_select, charsets, current_charset,
    saved_state_current_charset, inserting, cursor_enabled, out, params, utf8,
    dropped>>
colourVars ==
  <<palette, bold, bg_bold, reverse_video, current_primary, current_bg, pen,
    saved, plain, exact, stale>>
printerVars == <<job, print_pc, format, args, printed, buffer>>
allVars == <<part, vars, parserVars, colourVars, printerVars>>

(* The parts that are not exercised stay in one of their initial states.   *)
Asleep(p) == part # p
FlantermInit ==
  /\ part \in {"parser", "colours", "screen", "printf"}
  /\ IF Asleep("printf") THEN job = Silence ELSE job \in Jobs
  /\ Init /\ (Asleep("screen") => bounds = Quiet)
  /\ Front!Init /\ (Asleep("parser") => alphabet = CHOOSE a \in Alphabets : TRUE)
  /\ Front!SgrInit /\ (Asleep("colours") => palette = CHOOSE p \in Palettes : TRUE)
  /\ Printer!PrintInit

FlantermNext ==
  \/ part = "screen" /\ Next /\ UNCHANGED <<part, parserVars, colourVars, printerVars>>
  \/ part = "parser" /\ Front!Next /\ UNCHANGED <<part, vars, colourVars, printerVars>>
  \/ part = "colours" /\ Front!SgrNext /\ UNCHANGED <<part, vars, parserVars, printerVars>>
  \/ part = "printf" /\ Printer!PrintNext /\ UNCHANGED <<part, vars, parserVars, colourVars>>
  \/ part = "printf" /\ print_pc # "loop" /\ UNCHANGED allVars  \* it has returned

FlantermSpec == FlantermInit /\ [][FlantermNext]_allVars
-----------------------------------------------------------------------------
FieldsOK == TypeOK /\ Front!TypeOK /\ Front!SgrTypeOK

(* See the modules. *)
OneState == Front!OneState
ParsesAsGrammar == Front!ParsesAsGrammar
DecodesUtf8 == Front!DecodesUtf8
PrivateOnlyWhenAsked == Front!PrivateOnlyWhenAsked
ReverseMirrors == Front!ReverseMirrors
HueKept == Front!HueKept
PrintsAsStandard == Printer!PrintsAsStandard
BufferKept == Printer!BufferKept
ImplementsStandard == Printer!ImplementsStandard
=============================================================================
