------------------------------- MODULE Screen -------------------------------
(***************************************************************************)
(* What the back end of the terminal promises its front end: a grid of     *)
(* characters that is written, copied, scrolled and cleared at once, and   *)
(* whose picture appears on the framebuffer, with the cursor inverted, at  *)
(* the next flush.  There is no queue, no map and no memory of where the   *)
(* cursor was drawn: FbTerm implements this with all three.                *)
(***************************************************************************)
EXTENDS Integers

CONSTANTS
  Start,      \* the character in every cell at first
  Picture(_), \* what a character looks like
  Inverse(_)  \* a character with its colours exchanged

VARIABLES
  height, width, \* the size of the grid
  chars,      \* the characters a cell can hold: glyph and colours
  blanks,     \* those of them that a cleared cell can hold
  text,       \* the character in each cell
  cursor,     \* the cell the cursor is in, or NoCell
  shown,      \* the picture in each cell of the framebuffer
  request     \* the last request of the front end

size == <<height, width, chars, blanks>>
screen == <<size, text, cursor, shown, request>>

Cells == 0..(height * width - 1)    \* numbered by rows

NoCell == -1

Looks(t, c) ==
  [p \in Cells |-> Picture(IF p = c THEN Inverse(t[p]) ELSE t[p])]

ScreenInit ==
  /\ text = [p \in Cells |-> Start]
  /\ cursor = 0
  /\ shown = Looks(text, cursor)
  /\ request = <<"none">>

(* The cursor may move along with any change of the text. *)
Draw(t) == text' = t /\ cursor' \in Cells \cup {NoCell} /\ UNCHANGED shown

Put(p, c) ==
  /\ request' = <<"put", p, c>>
  /\ Draw([q \in Cells |-> IF q = p THEN c ELSE text[q]])

Copy(from, to) ==
  /\ request' = <<"copy", from, to>>
  /\ Draw([text EXCEPT ![to] = text[from]])

(* height top to bottom - 1 move up, or down, by one.  The row top is        *)
(* cleared even when it is below the region.                               *)
ScrollUp(top, bottom, blank) ==
  /\ request' = <<"up", top, bottom, blank>>
  /\ Draw([p \in Cells |->
       CASE p >= top * width /\ p < (bottom - 1) * width -> text[p + width]
         [] p >= (bottom - 1) * width /\ p < bottom * width -> blank
         [] OTHER -> text[p]])

ScrollDown(top, bottom, blank) ==
  /\ request' = <<"down", top, bottom, blank>>
  /\ Draw([p \in Cells |->
       CASE p >= (top + 1) * width /\ p < bottom * width -> text[p - width]
         [] p >= top * width /\ p < (top + 1) * width -> blank
         [] OTHER -> text[p]])

Clear(blank) ==
  /\ request' = <<"clear", blank>>
  /\ Draw([p \in Cells |-> blank])

NoDrawing ==
  /\ request' = <<"none">>
  /\ Draw(text)

Flush ==
  /\ request' = <<"flush">>
  /\ shown' = Looks(text, cursor)
  /\ UNCHANGED <<text, cursor>>

Request ==
  \/ NoDrawing
  \/ Flush
  \/ \E p \in Cells \cup {NoCell}, c \in chars : Put(p, c)
  \/ \E p, q \in Cells : Copy(p, q)
  \/ \E blank \in blanks : Clear(blank)
  \/ \E t, b \in 0..height, blank \in blanks :
       ScrollUp(t, b, blank) \/ ScrollDown(t, b, blank)

ScreenNext == Request /\ UNCHANGED size

ScreenSpec == ScreenInit /\ [][ScreenNext]_screen
=============================================================================
