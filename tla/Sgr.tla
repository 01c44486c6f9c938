-------------------------------- MODULE Sgr --------------------------------
(***************************************************************************)
(* The colours of the text: the parameters of ESC [ ... m (sgr), ESC 7,    *)
(* ESC 8 and ESC c of src/flanterm/flanterm.c.  An action is one iteration *)
(* of the loop over the parameters, which share nothing but the arguments  *)
(* of 38 and 48; one that is incomplete or unknown changes nothing.        *)
(* Reverse video exchanges the two colours of the back end, and every      *)
(* later change must then be made to the other one.                        *)
(*                                                                         *)
(* A definition whose name ends in an underscore and a word is a faulty    *)
(* variant of the definition after it.                                     *)
(***************************************************************************)

CONSTANT
  Palettes   \* bound: the colours of the palette that are explored, each with
             \* the set of changes that are explored

SgrAssumption ==
  \A p \in Palettes : "black" \in p.colours /\ "none" \notin p.colours

VARIABLES
  bounds,                        \* the one of Palettes
  bold, bg_bold, reverse_video,
  current_primary, current_bg,   \* a colour of the palette, or None
  pen,                           \* text_fg and text_bg
  saved,                         \* the six fields above, as ESC 7 left them
  plain,    \* history: pen, if reverse video had never been on
  exact,    \* history: no exception to the mirroring since the last reset
  stale     \* history: colours that current_* does not describe

attributes == <<bold, bg_bold, reverse_video, current_primary, current_bg>>
history == <<plain, exact, stale>>
sgrVars == <<bounds, attributes, pen, saved, history>>

Colours == bounds.colours
Codes == bounds.codes

None == "none"
Sides == {"fg", "bg"}

Ansi(n) == <<"ansi", n>>
Bright(n) == <<"bright", n>>
default == [fg |-> <<"default", "fg">>, bg |-> <<"default", "bg">>]
default_bright == [fg |-> <<"bright", "fg">>, bg |-> <<"bright", "bg">>]
Rgb == <<"rgb", "rgb">>

Swap(p) == [fg |-> p.bg, bg |-> p.fg]

(* Which of the two colours of the back end the text has, or its ground.   *)
Ink(reverse) == IF reverse THEN "bg" ELSE "fg"
Paper(reverse) == IF reverse THEN "fg" ELSE "bg"

(* flanterm_fb_init clears the whole context: ESC 8 before any ESC 7 finds *)
(* colour 0, which is black, twice.                                        *)
SgrInit ==
  /\ bounds \in Palettes
  /\ bold = FALSE /\ bg_bold = FALSE /\ reverse_video = FALSE
  /\ current_primary = None /\ current_bg = None
  /\ pen = default
  /\ saved = [bold |-> FALSE, bg_bold |-> FALSE, reverse_video |-> FALSE,
              current_primary |-> "black", current_bg |-> "black",
              pen |-> [fg |-> Ansi("black"), bg |-> Ansi("black")],
              plain |-> [fg |-> Ansi("black"), bg |-> Ansi("black")],
              exact |-> TRUE, stale |-> {}]
  /\ plain = default /\ exact = TRUE /\ stale = {}
-----------------------------------------------------------------------------
(* One of the two colours changes.  colour(side) is what the code writes   *)
(* there, where side depends on reverse video.                             *)
Paint(side(_), colour(_)) ==
  /\ pen' = [pen EXCEPT ![side(reverse_video)] = colour(side(reverse_video))]
  /\ plain' = [plain EXCEPT ![side(FALSE)] = colour(side(FALSE))]

Keep(except) == exact' = (exact /\ ~ except)

Shade(colour, bright, side) ==
  CASE colour # None /\ bright   -> Bright(colour)
    [] colour # None /\ ~ bright -> Ansi(colour)
    [] colour = None /\ bright   -> default_bright[side]
    [] OTHER                     -> default[side]

(* 0, and no parameter at all. *)
Reset ==
  /\ bold' = FALSE /\ bg_bold' = FALSE /\ reverse_video' = FALSE
  /\ current_primary' = None /\ current_bg' = None
  /\ pen' = default
  /\ plain' = default /\ exact' = TRUE /\ stale' = {}
  /\ UNCHANGED saved

(* 1 and 22.  Without a colour of its own the text gets the default of the *)
(* side it is written to, which under reverse video is the wrong one.      *)
SetBold(b) ==
  /\ "bold" \in Codes
  /\ bold' = b
  /\ LET colour(side) == Shade(current_primary, b, side) IN Paint(Ink, colour)
  /\ Keep(reverse_video /\ current_primary = None)
  /\ UNCHANGED <<bg_bold, reverse_video, current_primary, current_bg, saved,
                 stale>>

(* 5 and 25. *)
SetBgBold(b) ==
  /\ "blink" \in Codes
  /\ bg_bold' = b
  /\ LET colour(side) == Shade(current_bg, b, side) IN Paint(Paper, colour)
  /\ Keep(reverse_video /\ current_bg = None)
  /\ UNCHANGED <<bold, reverse_video, current_primary, current_bg, saved,
                 stale>>

SetPrimary_Forgets(n, bright) ==
  /\ LET colour(side) == Shade(n, bright \/ bold, side) IN Paint(Ink, colour)
  /\ stale' = stale \ {"fg"}
  /\ UNCHANGED <<attributes, saved, exact>>

(* 30 to 37 take the brightness from bold; 90 to 97 are bright.            *)
SetPrimary(n, bright) ==
  /\ current_primary' = n
  /\ LET colour(side) == Shade(n, bright \/ bold, side) IN Paint(Ink, colour)
  /\ stale' = stale \ {"fg"}
  /\ UNCHANGED <<bold, bg_bold, reverse_video, current_bg, saved, exact>>

SetBg_Direct(n, bright) ==
  /\ current_bg' = n
  /\ LET colour(side) == Shade(n, bright \/ bg_bold, side)
         bg(reverse) == "bg"
     IN  Paint(bg, colour)
  /\ stale' = stale \ {"bg"}
  /\ UNCHANGED <<bold, bg_bold, reverse_video, current_primary, saved, exact>>

(* 40 to 47 and 100 to 107. *)
SetBg(n, bright) ==
  /\ current_bg' = n
  /\ LET colour(side) == Shade(n, bright \/ bg_bold, side) IN Paint(Paper, colour)
  /\ stale' = stale \ {"bg"}
  /\ UNCHANGED <<bold, bg_bold, reverse_video, current_primary, saved, exact>>

(* 39 and 49 exchange the colours around the change, so that the default   *)
(* is the right one. *)
DefaultPrimary ==
  /\ current_primary' = None
  /\ LET colour(side) == Shade(None, bold, "fg") IN Paint(Ink, colour)
  /\ stale' = stale \ {"fg"}
  /\ UNCHANGED <<bold, bg_bold, reverse_video, current_bg, saved, exact>>

DefaultBg ==
  /\ current_bg' = None
  /\ LET colour(side) == Shade(None, bg_bold, "bg") IN Paint(Paper, colour)
  /\ stale' = stale \ {"bg"}
  /\ UNCHANGED <<bold, bg_bold, reverse_video, current_primary, saved, exact>>

(* 7 and 27 do nothing when there is nothing to change. *)
SetReverse(r) ==
  /\ reverse_video' = r
  /\ pen' = IF r # reverse_video THEN Swap(pen) ELSE pen
  /\ UNCHANGED <<bold, bg_bold, current_primary, current_bg, saved, history>>

(* 38 and 48 with their arguments: they set the colour of the back end,    *)
(* also under reverse video, and tell nothing to current_primary.          *)
Extended(side, colour) ==
  /\ "extended" \in Codes
  /\ LET same(reverse) == side
         chosen(s) == colour
     IN  Paint(same, chosen)
  /\ Keep(reverse_video)
  /\ stale' = stale \cup {side}
  /\ UNCHANGED <<attributes, saved>>

(* ESC 7 and ESC 8. *)
save_state ==
  /\ "save" \in Codes
  /\ saved' = [bold |-> bold, bg_bold |-> bg_bold,
               reverse_video |-> reverse_video,
               current_primary |-> current_primary, current_bg |-> current_bg,
               pen |-> pen, plain |-> plain, exact |-> exact, stale |-> stale]
  /\ UNCHANGED <<attributes, pen, history>>

restore_state ==
  /\ "save" \in Codes
  /\ bold' = saved.bold /\ bg_bold' = saved.bg_bold
  /\ reverse_video' = saved.reverse_video
  /\ current_primary' = saved.current_primary
  /\ current_bg' = saved.current_bg
  /\ pen' = saved.pen
  /\ plain' = saved.plain /\ exact' = saved.exact /\ stale' = saved.stale
  /\ UNCHANGED saved

(* ESC c resets the attributes, but not the colours of the back end.       *)
ReinitColours ==
  /\ "reinit" \in Codes
  /\ bold' = FALSE /\ bg_bold' = FALSE /\ reverse_video' = FALSE
  /\ current_primary' = None /\ current_bg' = None
  /\ Keep(reverse_video)
  /\ stale' = Sides
  /\ UNCHANGED <<pen, plain, saved>>

Change ==
  \/ Reset
  \/ \E b \in BOOLEAN : SetBold(b) \/ SetBgBold(b) \/ SetReverse(b)
  \/ \E n \in Colours, bright \in BOOLEAN :
       SetPrimary(n, bright) \/ SetBg(n, bright)
  \/ DefaultPrimary
  \/ DefaultBg
  \/ \E side \in Sides, n \in Colours :
       \E colour \in {Ansi(n), Bright(n), Rgb} : Extended(side, colour)
  \/ save_state
  \/ restore_state
  \/ ReinitColours

SgrNext == Change /\ UNCHANGED bounds

SgrSpec == SgrInit /\ [][SgrNext]_sgrVars
-----------------------------------------------------------------------------
Palette ==
  {Ansi(n) : n \in Colours} \cup {Bright(n) : n \in Colours \cup Sides}
    \cup {default.fg, default.bg, Rgb}
Pens == [Sides -> Palette]

SgrTypeOK ==
  /\ {bold, bg_bold, reverse_video, exact} \subseteq BOOLEAN
  /\ {current_primary, current_bg} \subseteq Colours \cup {None}
  /\ {pen, plain, saved.pen} \subseteq Pens
  /\ stale \subseteq Sides

(* Reverse video shows every text in the colours it would have had without,*)
(* exchanged, whatever colours and brightness are set before, while it is  *)
(* on and after, and across ESC 7 and ESC 8.  The exceptions are the ones  *)
(* that exact names: 1, 5, 22 or 25 on a default colour, 38, 48 or ESC c   *)
(* while it is on; the next 0 ends their effect.                           *)
ReverseMirrors ==
  exact => pen = IF reverse_video THEN Swap(plain) ELSE plain

Hue(colour) == colour[2]

(* Bold and blink change the brightness of a colour and never the colour,  *)
(* unless that was set by 38 or 48, or left over by ESC c: current_primary *)
(* and current_bg, from which they repaint it, are not told.               *)
HueKept ==
  [][\A b \in BOOLEAN :
       /\ SetBold(b) /\ exact' /\ "fg" \notin stale =>
            Hue(pen'[Ink(reverse_video)]) = Hue(pen[Ink(reverse_video)])
       /\ SetBgBold(b) /\ exact' /\ "bg" \notin stale =>
            Hue(pen'[Paper(reverse_video)]) = Hue(pen[Paper(reverse_video)])]_sgrVars
=============================================================================
