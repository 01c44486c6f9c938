------------------------------ MODULE Terminal ------------------------------
(***************************************************************************)
(* What the terminal does to its screen: the control sequences, escapes,   *)
(* controls and text of src/flanterm/flanterm.c that EscParser recognises, *)
(* each with the calls of the back end (src/flanterm/backends/fb.c) that it*)
(* makes.  Colours are in Sgr; FbTerm has the back end in detail.          *)
(*                                                                         *)
(* A definition whose name ends in an underscore and a word is a faulty    *)
(* variant of the definition after it.                                     *)
(***************************************************************************)
EXTENDS Integers

CONSTANTS
  TabSize,     \* tab_size (8)
  Screens      \* the screens, and for each the bounds: the characters that
               \* are printed besides the space, the arguments of control
               \* sequences, and which commands are explored

(* set_cursor_pos takes the position for an int when it looks at its sign: *)
(* arguments of control sequences that are greater are left out.           *)
INT_MAX == 2147483647

ASSUME TerminalAssumption ==
  /\ TabSize \in Nat \ {0}
  /\ \A s \in Screens :
       /\ s.rows \in Nat \ {0} /\ s.cols \in Nat \ {0}
       /\ s.values \subseteq Nat /\ \A n \in s.values : n <= INT_MAX

VARIABLES
  bounds,                     \* the one of Screens that this is
  screen,                     \* text, and where the next character goes
  top, bottom,                \* scroll_top_margin, scroll_bottom_margin
  insert_mode,
  saved_cursor,               \* of ESC [ s
  saved_state                 \* of ESC 7

margins == <<top, bottom>>
saves == <<saved_cursor, saved_state>>
vars == <<bounds, screen, margins, insert_mode, saves>>

rows == bounds.rows
cols == bounds.cols
Glyphs == bounds.glyphs
Values == bounds.values

Cells == (0..cols - 1) \X (0..rows - 1)
Space == "space"
Clear(s) == [s EXCEPT !.text = [c \in Cells |-> Space]]

Init ==
  /\ bounds \in Screens
  /\ screen = [text |-> [c \in Cells |-> Space], x |-> 0, y |-> 0]
  /\ top = 0 /\ bottom = rows
  /\ insert_mode = FALSE
  /\ saved_cursor = <<0, 0>> /\ saved_state = <<0, 0>>
-----------------------------------------------------------------------------
(* The back end, one call after another: each takes the screen and returns *)
(* it changed.                                                             *)

Min(a, b) == IF a < b THEN a ELSE b
Max(a, b) == IF a > b THEN a ELSE b

Clamped(v, n) == CASE v < 0 -> 0 [] v >= n -> n - 1 [] OTHER -> v
MoveTo(s, x, y) == [s EXCEPT !.x = Clamped(x, cols), !.y = Clamped(y, rows)]

(* get_cursor_pos: a cursor past the end of its row, or below the screen,  *)
(* is said to be in the last column or row.                                *)
X(s) == Min(s.x, cols - 1)
Y(s) == Min(s.y, rows - 1)

Scroll_Keeps(s) == [s EXCEPT !.text = [c \in Cells |->
  IF c[2] \in top..(bottom - 2) THEN s.text[<<c[1], c[2] + 1>>] ELSE s.text[c]]]

Scroll(s) == [s EXCEPT !.text = [c \in Cells |->
  CASE c[2] \in top..(bottom - 2) -> s.text[<<c[1], c[2] + 1>>]
    [] c[2] = bottom - 1          -> Space
    [] OTHER                      -> s.text[c]]]

Revscroll(s, first) == [s EXCEPT !.text = [c \in Cells |->
  CASE c[2] \in (first + 1)..(bottom - 1) -> s.text[<<c[1], c[2] - 1>>]
    [] c[2] = first                       -> Space
    [] OTHER                              -> s.text[c]]]

Copy(s, x, from, y) ==
  IF x < cols THEN [s EXCEPT !.text[<<x, y>>] = s.text[<<from, y>>]] ELSE s

(* The row is limited by the number of columns (fb.c:799-801).             *)
Wrapped(s) ==
  LET scrolls == s.y + 1 = bottom
      t == IF scrolls THEN Scroll(s) ELSE s
      y == IF scrolls THEN s.y ELSE s.y + 1
  IN  [t EXCEPT !.x = 0, !.y = IF y >= cols THEN cols - 1 ELSE y]

Put(s, g, scroll_enabled) ==
  LET wraps == s.x >= cols /\ (s.y < bottom - 1 \/ scroll_enabled)
      t == IF wraps THEN Wrapped(s) ELSE s
      here == <<t.x, t.y>>
  IN  [t EXCEPT !.text = IF here \in Cells THEN [@ EXCEPT ![here] = g] ELSE @,
                !.x = @ + 1]

Repeat(f(_, _), n, s) ==
  LET after[k \in 0..n] == IF k = 0 THEN s ELSE f(after[k - 1], k) IN after[n]

(* Control sequences turn scrolling off around what they print.            *)
Blanks(n, s) == LET f(t, k) == Put(t, Space, FALSE) IN Repeat(f, n, s)
-----------------------------------------------------------------------------
(* An action is one sequence or character.                                 *)

Do(name, s) ==
  /\ name \in bounds.commands
  /\ screen' = s
  /\ UNCHANGED bounds
Only(name, s) == Do(name, s) /\ UNCHANGED <<margins, insert_mode, saves>>

x == X(screen)
y == Y(screen)

(* A, and F with its column 0: a cursor that passes a margin of the region *)
(* does not go beyond its top.                                             *)
CursorUp(column, n) ==
  LET dest == y - Min(n, y)
      crosses == top \in dest..y \/ bottom \in dest..y
  IN  Only("move", MoveTo(screen, column,
                     IF crosses /\ dest < top THEN top ELSE dest))

(* B, e, and E.                                                            *)
CursorDown(column, n) ==
  LET dest == Min(y + n, rows - 1)
      crosses == top \in y..dest \/ bottom \in y..dest
  IN  Only("move", MoveTo(screen, column,
                     IF crosses /\ dest >= bottom THEN bottom - 1 ELSE dest))

(* C and a; D.                                                             *)
CursorForward(n) == Only("move", MoveTo(screen, Min(x + n, cols - 1), y))
CursorBack(n) == Only("move", MoveTo(screen, x - Min(n, x), y))

(* d; G and `.  Counted from 1: 0 wraps around to the last.                *)
Ordinal(n, size) == IF n = 0 \/ n > size THEN size - 1 ELSE n - 1
ToRow(n) == Only("move", MoveTo(screen, x, Ordinal(n, rows)))
ToColumn(n) == Only("move", MoveTo(screen, Ordinal(n, cols), y))

(* H and f, for which 0 is 1.                                              *)
Position(n, m) ==
  Only("position", MoveTo(screen, Ordinal(IF m = 0 THEN 1 ELSE m, cols),
                              Ordinal(IF n = 0 THEN 1 ELSE n, rows)))

(* M takes lines from the top of the region, wherever the cursor is; L     *)
(* makes room at the row of the cursor.                                    *)
Scrolled(n) == LET f(s, k) == Scroll(s) IN Repeat(f, n, screen)
Revscrolled(n) == LET f(s, k) == Revscroll(s, y) IN Repeat(f, n, screen)

DeleteLines(n) == Only("lines", Scrolled(Min(n, rows)))
InsertLines(n) == Only("lines", Revscrolled(Min(n, rows)))

(* J.                                                                      *)
ToClear_Short == (rows - (y + 1)) * cols + (cols - (x + 1))

ToClear == (rows - (y + 1)) * cols + (cols - (x + 1)) + 1

EraseDisplay(n) ==
  Only("erase",
    CASE n = 0 -> MoveTo(Blanks(ToClear, screen), x, y)
      [] n = 1 -> MoveTo(Blanks(y * cols + x + 1, MoveTo(screen, 0, 0)), x, y)
      [] n \in {2, 3} -> Clear(screen)
      [] OTHER -> screen)

(* K.                                                                      *)
EraseLine(n) ==
  Only("erase",
    CASE n = 0 -> MoveTo(Blanks(cols - x, screen), x, y)
      [] n = 1 -> Blanks(x, MoveTo(screen, 0, y))
      [] n = 2 -> MoveTo(Blanks(cols, MoveTo(screen, 0, y)), x, y)
      [] OTHER -> screen)

(* @ copies each cell to the right, the last one first, and blanks it.     *)
Opened(n) ==
  LET cell(k) == cols - k
      f(s, k) == Put(MoveTo(Copy(s, cell(k) + n, cell(k), y), cell(k), y),
                     Space, FALSE)
  IN  Repeat(f, cols - x, screen)

InsertChars(n) == Only("edit", MoveTo(Opened(n), x, y))

(* X; P copies to the left first, and blanks the end of the row.           *)
EraseChars(n) ==
  Only("erase", MoveTo(Blanks(Min(n, cols), screen), x, y))

Closed(n) ==
  LET f(s, k) == Copy(s, x + k - 1, x + k - 1 + n, y)
  IN  Repeat(f, cols - x - Min(n, cols - x), screen)

DeleteChars(n) ==
  Only("edit", MoveTo(Blanks(Min(n, cols), MoveTo(Closed(n), cols - n, y)), x, y))

(* ESC [ s and u; ESC 7 and 8, which keep a cursor past the end of its row.*)
SaveCursor ==
  /\ Do("save", screen)
  /\ saved_cursor' = <<x, y>>
  /\ UNCHANGED <<margins, insert_mode, saved_state>>

RestoreCursor == Only("save", MoveTo(screen, saved_cursor[1], saved_cursor[2]))

save_state ==
  /\ Do("save", screen)
  /\ saved_state' = <<screen.x, screen.y>>
  /\ UNCHANGED <<margins, insert_mode, saved_cursor>>

restore_state ==
  Only("save", [screen EXCEPT !.x = saved_state[1], !.y = saved_state[2]])

(* r, with none, one or two arguments.                                     *)
Valid_OneRow(first, after) == first < rows /\ after <= rows /\ first < after

Valid(first, after) == first < rows /\ after <= rows /\ first < after - 1

SetRegion(count, n, m) ==
  LET first == IF count > 0 THEN (IF n = 0 THEN 1 ELSE n) - 1 ELSE 0
      after == IF count > 1 THEN (IF m = 0 THEN 1 ELSE m) ELSE rows
      valid == Valid(first, after)
  IN  /\ Do("region", MoveTo(screen, 0, 0))
      /\ top' = IF valid THEN first ELSE 0
      /\ bottom' = IF valid THEN after ELSE rows
      /\ UNCHANGED <<insert_mode, saves>>

SetInsert(on) ==
  /\ Do("insert", screen)
  /\ insert_mode' = on
  /\ UNCHANGED <<margins, saves>>
-----------------------------------------------------------------------------
(* ESC D, E and M, ESC c, and the controls.                                *)

LineFeed_Screen(s, column) ==
  IF y = rows - 1 THEN MoveTo(Scroll(s), column, y)
  ELSE MoveTo(s, column, y + 1)

LineFeed(s, column) ==
  IF y = bottom - 1 THEN MoveTo(Scroll(s), column, y)
  ELSE MoveTo(s, column, y + 1)

Index == Only("index", LineFeed(screen, x))
NextLine == Only("feed", LineFeed(screen, 0))       \* also line feed
ReverseIndex ==
  Only("index", IF y = top THEN MoveTo(Revscroll(screen, top), 0, y)
               ELSE MoveTo(screen, 0, y - 1))

Reset ==
  /\ Do("reset", MoveTo(Clear(screen), 0, 0))
  /\ top' = 0 /\ bottom' = rows
  /\ insert_mode' = FALSE
  /\ saved_cursor' = <<0, 0>>
  /\ UNCHANGED saved_state

Tab ==
  LET stop == x \div TabSize + 1
  IN  Only("tab", MoveTo(screen, IF stop >= cols THEN cols - 1
                                 ELSE stop * TabSize, y))

Backspace == Only("line", MoveTo(screen, x - 1, y))
CarriageReturn == Only("line", MoveTo(screen, 0, y))

(* Text.  In insert mode the rest of the row moves; a character of several *)
(* bytes is printed without that.                                          *)
Shifted ==
  LET f(s, k) == Copy(s, cols - k + 1, cols - k, y)
  IN  Repeat(f, cols - x, screen)

PrintChar(g) ==
  Only("print", Put(IF insert_mode THEN Shifted ELSE screen, g, TRUE))

Printed(g, width) ==
  LET f(s, k) == Put(s, IF k = 1 THEN g ELSE Space, TRUE)
  IN  Repeat(f, width, screen)

PrintUnicode(g, width) == Only("unicode", Printed(g, width))

Next ==
  \/ \E n \in Values :
       \/ \E column \in {0, x} : CursorUp(column, n) \/ CursorDown(column, n)
       \/ CursorForward(n) \/ CursorBack(n) \/ ToRow(n) \/ ToColumn(n)
       \/ DeleteLines(n) \/ InsertLines(n)
       \/ EraseDisplay(n) \/ EraseLine(n)
       \/ InsertChars(n) \/ EraseChars(n) \/ DeleteChars(n)
       \/ \E m \in Values : Position(n, m)
       \/ \E m \in Values, count \in 0..2 : SetRegion(count, n, m)
  \/ SaveCursor \/ RestoreCursor \/ save_state \/ restore_state
  \/ \E on \in BOOLEAN : SetInsert(on)
  \/ Index \/ NextLine \/ ReverseIndex \/ Reset
  \/ Tab \/ Backspace \/ CarriageReturn
  \/ \E g \in Glyphs : PrintChar(g) \/ \E width \in 0..2 : PrintUnicode(g, width)

Spec == Init /\ [][Next]_vars
-----------------------------------------------------------------------------
(* Between two sequences the cursor is in a row of the screen, or past its *)
(* end, however far a sequence that prints blanks has taken it; it can be  *)
(* below the screen, as long as columns outnumber rows.  The region has two*)
(* rows at least or is the whole screen: the loops of scroll and revscroll *)
(* count on it.                                                            *)
TypeOK ==
  /\ screen.text \in [Cells -> Glyphs \cup {Space}]
  /\ screen.x \in 0..cols /\ screen.y \in 0..Max(rows, cols) - 1
  /\ 0 <= top /\ bottom <= rows
  /\ top < bottom - 1 \/ (top = 0 /\ bottom = rows)
  /\ saved_cursor \in Cells
  /\ saved_state \in (0..cols) \X (0..Max(rows, cols) - 1)

(* A cursor in the scroll region leaves it by no line feed, no text and no *)
(* move up or down, as long as there are not more rows than columns, where *)
(* fb.c:799 would send it up.                                              *)
Landscape == cols >= rows
InRegion(row) == row \in top..(bottom - 1)

StaysInside ==
  (Landscape /\ InRegion(screen.y) /\ ~ InRegion(screen'.y) =>
       ~ (\/ Index \/ NextLine \/ ReverseIndex
          \/ \E g \in Glyphs : PrintChar(g)
          \/ \E n \in Values : CursorUp(x, n) \/ CursorDown(x, n)))

(* A vertical move ends n rows on, but stops at the edge of the region it  *)
(* is in or comes to, and else at the edge of the screen.  The exception is*)
(* real: from the first row below the region, B and E move up into it.     *)
EndsNRowsOn ==
  (\A n \in Values : "move" \in bounds.commands =>
       /\ CursorUp(x, n) =>
            screen'.y = Max(y - n, IF y >= top THEN top ELSE 0)
       /\ CursorDown(x, n) /\ y # bottom =>
            screen'.y = Min(y + n, IF y < bottom THEN bottom - 1 ELSE rows - 1))

(* A vertical move, a line feed or a text takes the cursor to the row that *)
(* it asks for, but not out of the region (flanterm.c:536-574, 1289-1298,  *)
(* fb.c:789-802).                                                          *)
VerticalMoves == [][StaysInside /\ EndsNRowsOn]_vars

(* J, K and X erase what they name, neither a cell more nor less, and leave*)
(* the cursor where it is said to be: J on a screen without a region that  *)
(* has not more rows than columns, X up to the end of the row, and all of  *)
(* them when the cursor is not past it.                                    *)
Before(c, column, row) == c[2] < row \/ (c[2] = row /\ c[1] < column)
Erases(set) ==
  /\ screen'.text = [c \in Cells |-> IF c \in set THEN Space ELSE screen.text[c]]
  /\ <<X(screen'), Y(screen')>> = <<x, y>>

InPlace == screen.x < cols /\ screen.y < rows
Whole == top = 0 /\ bottom = rows

ErasesOnlyThat ==
  (InPlace /\ "erase" \in bounds.commands =>
      /\ Landscape /\ Whole /\ EraseDisplay(0) => Erases({c \in Cells : ~ Before(c, x, y)})
      /\ Landscape /\ Whole /\ EraseDisplay(1) => Erases({c \in Cells : Before(c, x + 1, y)})
      /\ EraseDisplay(2) => Erases(Cells)
      /\ EraseLine(0) => Erases({c \in Cells : c[2] = y /\ c[1] >= x})
      /\ EraseLine(1) => Erases({c \in Cells : c[2] = y /\ c[1] < x})
      /\ EraseLine(2) => Erases({c \in Cells : c[2] = y})
      /\ \A n \in Values : n <= cols - x /\ EraseChars(n) =>
           Erases({c \in Cells : c[2] = y /\ c[1] \in x..(x + n - 1)}))

(* @, P and insertion mode move the rest of the row as a whole: the loops  *)
(* overwrite no cell that they have still to read.  P does so only up to   *)
(* the end of the row, beyond which it erases what is before the cursor.   *)
RowBecomes(new(_)) ==
  screen'.text = [c \in Cells |->
    IF c[2] = y /\ c[1] >= x THEN new(c[1]) ELSE screen.text[c]]

Inserted(n, g, column) ==
  IF column < x + n THEN g ELSE screen.text[<<column - n, y>>]
Deleted(n, column) ==
  IF column + n < cols THEN screen.text[<<column + n, y>>] ELSE Space

MovesTheRest ==
  (InPlace /\ "edit" \in bounds.commands =>
      /\ \A n \in Values \ {0} :
           InsertChars(n) =>
             LET new(column) == Inserted(n, Space, column) IN RowBecomes(new)
      /\ \A n \in Values :
           n <= cols - x /\ DeleteChars(n) =>
             LET new(column) == Deleted(n, column) IN RowBecomes(new)
      /\ \A g \in Glyphs :
           insert_mode /\ PrintChar(g) =>
             LET new(column) == Inserted(1, g, column) IN RowBecomes(new))

(* Erasing, inserting and deleting change the cells they are said to and no*)
(* others (flanterm.c:654-743, 1313-1346).                                 *)
EditsExactly == [][ErasesOnlyThat /\ MovesTheRest]_vars

(* To a program that only prints, ends lines, and goes back in a line, the *)
(* terminal is a sheet of paper whose last lines are in view: wrapping and *)
(* scrolling lose nothing, leave nothing behind and never skip a line, on a*)
(* screen that has not more rows than columns.                             *)
Lines ==
  [r \in 1..(Y(screen) + 1) |-> [c \in 0..cols - 1 |-> screen.text[<<c, r - 1>>]]]

P == INSTANCE Paper WITH width <- cols, height <- rows, chars <- Glyphs,
                         Blank <- Space, lines <- Lines, column <- screen.x

OnlyPrints == Landscape /\ bounds.commands \subseteq {"print", "feed", "line"}

ImplementsPaper ==
  /\ P!PaperInit
  /\ [][OnlyPrints => P!PaperNext]_(P!paper)
=============================================================================
