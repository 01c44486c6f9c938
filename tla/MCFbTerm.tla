------------------------------ MODULE MCFbTerm ------------------------------
(* Small screens for FbTerm.                                               *)
EXTENDS FbTerm
MCScreen(r, c, colours, kinds, n) ==
  [rows |-> r, cols |-> c, glyphs |-> {"a"}, colours |-> colours,
   kinds |-> kinds, calls |-> n]
(* Any cells of two rows; a scroll region of three rows; the colours.      *)
MCScreens ==
  {MCScreen(2, 2, {}, {"raw_putchar", "move_character", "clear",
                       "set_cursor_pos", "cursor"}, 3),
   MCScreen(3, 2, {}, {"raw_putchar", "scroll", "revscroll", "margins",
                       "wrap"}, 2),
   MCScreen(1, 1, {"red"}, {"raw_putchar", "set_text", "swap_palette",
                            "save_state", "restore_state"}, 2)}
=============================================================================
