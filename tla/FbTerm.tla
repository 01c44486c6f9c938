------------------------------- MODULE FbTerm -------------------------------
(***************************************************************************)
(* The framebuffer back end of the terminal, src/flanterm/backends/fb.c.   *)
(* The grid remembers what is drawn; what is written since then waits in a *)
(* queue, with a map from a cell to its item, and double_buffer_flush draws*)
(* only that.  The operations are the functions of the table that          *)
(* flanterm_fb_init fills (1109-1131), which the front end calls in any    *)
(* order.  A loop over cells takes one step for each cell, in the order of *)
(* the code, because it overwrites what it also reads.  full_refresh runs  *)
(* once, in Init: nothing calls it later.                                  *)
(*                                                                         *)
(* A definition whose name ends in an underscore and a word is a faulty    *)
(* variant of the definition after it.                                     *)
(***************************************************************************)
EXTENDS Integers, Sequences

CONSTANTS
  Screens,    \* the screens, and for each the bounds: the characters that are
              \* printed besides the space, the colours the front end sets,
              \* which calls of the back end are explored, and how many of
              \* them between two flushes
  Slack       \* bound: how far past the end of a row the cursor goes

ASSUME FbTermAssumption ==
  /\ \A s \in Screens :
       s.rows \in Nat \ {0} /\ s.cols \in Nat \ {0} /\ s.calls \in Nat
  /\ Slack \in Nat

VARIABLES
  bounds,           \* the one of Screens that this is
  grid,             \* the characters that are drawn
  queue,            \* the items queue[0 .. queue_i - 1]
  map,              \* for each cell the item it is waiting in, or NULL
  framebuffer,      \* what is visible in each cell
  cursor_x, cursor_y, old_cursor_x, old_cursor_y,
  pen,              \* text_fg and text_bg
  saved,            \* saved_state_*
  cursor_enabled, scroll_enabled,
  scroll_top_margin, scroll_bottom_margin,
  loop,             \* the loop that is running
  calls,            \* how many calls have been made since the last flush
  request           \* history: what the last call asked to draw

cells == <<grid, queue, map>>
position == <<cursor_x, cursor_y>>
modes == <<cursor_enabled, scroll_enabled, scroll_top_margin,
           scroll_bottom_margin>>
vars == <<bounds, cells, framebuffer, position, old_cursor_x, old_cursor_y,
          pen, saved, modes, loop, calls, request>>

rows == bounds.rows
cols == bounds.cols
Glyphs == bounds.glyphs
Colours == bounds.colours
Calls == bounds.kinds
MaxCalls == bounds.calls

Cells == 0..(rows * cols - 1)
NULL == 0                           \* items are counted from 1

(* The colours: 0xffffffff is transparent and shows default_bg, which is 0.*)
Transparent == "transparent"
Black == "black"
default_fg == "white"
AllColours == Colours \cup {Transparent, Black, default_fg}
Pens == [fg : AllColours, bg : AllColours]
Pen == [fg |-> default_fg, bg |-> Transparent]

Space == "space"
Char(g, p) == [c |-> g, fg |-> p.fg, bg |-> p.bg]
Chars == [c : Glyphs \cup {Space}, fg : AllColours, bg : AllColours]
Blank == Char(Space, pen)

Visible(colour) == IF colour = Transparent THEN Black ELSE colour
plot_char(ch) == [ch EXCEPT !.fg = Visible(ch.fg), !.bg = Visible(ch.bg)]

Inverse(ch) == [ch EXCEPT !.fg = ch.bg, !.bg = ch.fg]

At(x, y) == y * cols + x
OnGrid(x, y) == x < cols /\ y < rows

(* What a cell holds: its item in the queue, or else the grid. *)
Current(p) == IF map[p] # NULL THEN queue[map[p]].c ELSE grid[p]

Idle == [call |-> "none"]

(* After flanterm_context_reinit and full_refresh. *)
Init ==
  /\ bounds \in Screens
  /\ grid = [p \in Cells |-> Char(Space, Pen)]
  /\ queue = <<>>
  /\ map = [p \in Cells |-> NULL]
  /\ framebuffer = [p \in Cells |->
       plot_char(IF p = 0 THEN Inverse(grid[p]) ELSE grid[p])]
  /\ cursor_x = 0 /\ cursor_y = 0 /\ old_cursor_x = 0 /\ old_cursor_y = 0
  /\ pen = Pen
  /\ saved = [pen |-> [fg |-> Black, bg |-> Black], x |-> 0, y |-> 0]
  /\ cursor_enabled = TRUE /\ scroll_enabled = TRUE
  /\ scroll_top_margin = 0 /\ scroll_bottom_margin = rows
  /\ loop = Idle
  /\ calls = 0
  /\ request = <<"none">>
-----------------------------------------------------------------------------
(* push_to_queue: what is drawn already is not queued; a cell that waits   *)
(* in the queue keeps its item.                                            *)
Queued_Twice(p, ch) ==
  /\ queue' = Append(queue, [cell |-> p, c |-> ch])
  /\ map' = [map EXCEPT ![p] = Len(queue')]

compare_char(a, b) == a = b

Queued(p, ch) ==
  \/ /\ map[p] # NULL
     /\ queue' = [queue EXCEPT ![map[p]].c = ch]
     /\ UNCHANGED map
  \/ /\ map[p] = NULL /\ compare_char(grid[p], ch)
     /\ UNCHANGED <<queue, map>>
  \/ /\ map[p] = NULL /\ ~ compare_char(grid[p], ch)
     /\ queue' = Append(queue, [cell |-> p, c |-> ch])
     /\ map' = [map EXCEPT ![p] = Len(queue')]

push_to_queue(ch, x, y) ==
  /\ IF OnGrid(x, y) THEN Queued(At(x, y), ch) ELSE UNCHANGED <<queue, map>>
  /\ UNCHANGED grid

(* Loops.  The one of scroll copies cell i to the row above, for i from    *)
(* the second row of the region on; that of revscroll copies it to the row *)
(* below, for i from the last but one row of the region down to its first. *)
(* Both then clear the row that is left over.  The one of clear clears     *)
(* every cell.  "put" is the end of raw_putchar.                           *)
Loop(call, i, last, row, ch) ==
  [call |-> call, i |-> i, last |-> last, row |-> row, ch |-> ch]

Nothing == "nothing"

PutRequest(g, x, y) ==
  <<"put", IF OnGrid(x, y) THEN At(x, y) ELSE -1, Char(g, pen)>>

ScrollLoop(ch) ==
  Loop("up", (scroll_top_margin + 1) * cols, scroll_bottom_margin * cols,
       scroll_bottom_margin - 1, ch)

(* i is one more than in the code, so that the loop down to cell 0 ends    *)
(* without i = -1.                                                         *)
RevscrollLoop(top) ==
  Loop("down", (scroll_bottom_margin - 1) * cols, top * cols, top, Nothing)

ClearRow(row, ch) == Loop("blank", row * cols, (row + 1) * cols, row, ch)
ClearAll == Loop("blank", 0, rows * cols, 0, Nothing)

Copy(from, to) == push_to_queue(Current(from), to % cols, to \div cols)

Up ==
  /\ loop.call = "up" /\ loop.i < loop.last
  /\ Copy(loop.i, loop.i - cols)
  /\ loop' = [loop EXCEPT !.i = @ + 1]
  /\ UNCHANGED <<position, request>>

Down ==
  /\ loop.call = "down" /\ loop.i > loop.last
  /\ Copy(loop.i - 1, loop.i - 1 + cols)
  /\ loop' = [loop EXCEPT !.i = @ - 1]
  /\ UNCHANGED <<position, request>>

Shifted ==
  /\ \/ loop.call = "up" /\ loop.i >= loop.last
     \/ loop.call = "down" /\ loop.i <= loop.last
  /\ loop' = ClearRow(loop.row, loop.ch)
  /\ UNCHANGED <<cells, position, request>>

Erase ==
  /\ loop.call = "blank" /\ loop.i < loop.last
  /\ push_to_queue(Blank, loop.i % cols, loop.i \div cols)
  /\ loop' = [loop EXCEPT !.i = @ + 1]
  /\ UNCHANGED <<position, request>>

Erased ==
  /\ loop.call = "blank" /\ loop.i >= loop.last
  /\ loop' = Idle
  /\ IF loop.ch = Nothing
       THEN UNCHANGED <<cells, position, request>>
       ELSE /\ push_to_queue(Char(loop.ch, pen), cursor_x, cursor_y)
            /\ cursor_x' = cursor_x + 1
            /\ UNCHANGED cursor_y
            /\ request' = PutRequest(loop.ch, cursor_x, cursor_y)

Step ==
  /\ Up \/ Down \/ Shifted \/ Erase \/ Erased
  /\ UNCHANGED <<framebuffer, old_cursor_x, old_cursor_y, pen, saved, modes,
                 calls>>
-----------------------------------------------------------------------------
(* Calls of the front end. *)

NoDrawing == <<"none">>
UpRequest == <<"up", scroll_top_margin, scroll_bottom_margin, Blank>>

Call(name, r) ==
  /\ name \in Calls
  /\ loop = Idle /\ calls < MaxCalls /\ calls' = calls + 1
  /\ request' = r

screenState == <<cells, framebuffer, old_cursor_x, old_cursor_y>>

(* The cursor wraps when it is past the end of its row, but does not leave *)
(* the scroll region while scroll_enabled is off.                          *)
Wraps ==
  /\ cursor_x >= cols
  /\ cursor_y < scroll_bottom_margin - 1 \/ scroll_enabled

Scrolls == Wraps /\ cursor_y + 1 = scroll_bottom_margin

(* The row is limited by the number of columns (fb.c:799-801).             *)
WrappedY ==
  LET y == IF Scrolls THEN cursor_y ELSE cursor_y + 1
  IN  IF y >= cols THEN cols - 1 ELSE y

PutX == IF Wraps THEN 0 ELSE cursor_x
PutY == IF Wraps THEN WrappedY ELSE cursor_y

raw_putchar(g) ==
  /\ Call("raw_putchar", IF Scrolls THEN UpRequest ELSE PutRequest(g, PutX, PutY))
  /\ cursor_x <= cols + Slack
  /\ cursor_y' = PutY
  /\ IF Scrolls
       THEN cursor_x' = 0 /\ loop' = ScrollLoop(g) /\ UNCHANGED cells
       ELSE /\ push_to_queue(Char(g, pen), PutX, PutY)
            /\ cursor_x' = PutX + 1
            /\ UNCHANGED loop
  /\ UNCHANGED <<framebuffer, old_cursor_x, old_cursor_y, pen, saved, modes>>

move_character(new, old) ==
  /\ Call("move_character", <<"copy", old, new>>)
  /\ Copy(old, new)
  /\ UNCHANGED <<framebuffer, position, old_cursor_x, old_cursor_y, pen,
                 saved, modes, loop>>

scroll ==
  /\ Call("scroll", UpRequest)
  /\ loop' = ScrollLoop(Nothing)
  /\ UNCHANGED <<screenState, position, pen, saved, modes>>

(* The front end lends revscroll a top margin of its own for ESC [ L. *)
revscroll(top) ==
  /\ Call("revscroll", <<"down", top, scroll_bottom_margin, Blank>>)
  /\ loop' = RevscrollLoop(top)
  /\ UNCHANGED <<screenState, position, pen, saved, modes>>

clear(move) ==
  /\ Call("clear", <<"clear", Blank>>)
  /\ loop' = ClearAll
  /\ IF move THEN cursor_x' = 0 /\ cursor_y' = 0 ELSE UNCHANGED position
  /\ UNCHANGED <<screenState, pen, saved, modes>>

(* A coordinate is unsigned: one that is negative as an int becomes 0.     *)
Clamp(v, n) == CASE v < 0 -> 0 [] v >= n -> n - 1 [] OTHER -> v

set_cursor_pos(x, y) ==
  /\ Call("set_cursor_pos", NoDrawing)
  /\ cursor_x' = Clamp(x, cols) /\ cursor_y' = Clamp(y, rows)
  /\ UNCHANGED <<screenState, pen, saved, modes, loop>>

set_text_fg(colour) ==
  /\ Call("set_text", NoDrawing)
  /\ pen' = [pen EXCEPT !.fg = colour]
  /\ UNCHANGED <<screenState, position, saved, modes, loop>>

set_text_bg(colour) ==
  /\ Call("set_text", NoDrawing)
  /\ pen' = [pen EXCEPT !.bg = colour]
  /\ UNCHANGED <<screenState, position, saved, modes, loop>>

swap_palette ==
  /\ Call("swap_palette", NoDrawing)
  /\ pen' = [fg |-> pen.bg, bg |-> pen.fg]
  /\ UNCHANGED <<screenState, position, saved, modes, loop>>

save_state ==
  /\ Call("save_state", NoDrawing)
  /\ saved' = [pen |-> pen, x |-> cursor_x, y |-> cursor_y]
  /\ UNCHANGED <<screenState, position, pen, modes, loop>>

restore_state ==
  /\ Call("restore_state", NoDrawing)
  /\ pen' = saved.pen /\ cursor_x' = saved.x /\ cursor_y' = saved.y
  /\ UNCHANGED <<screenState, saved, modes, loop>>

(* The front end's own fields that the back end reads: the region of       *)
(* ESC [ r has two rows at least, or is the whole screen.                  *)
ToggleCursor ==
  /\ Call("cursor", NoDrawing)
  /\ cursor_enabled' = ~ cursor_enabled
  /\ UNCHANGED <<screenState, position, pen, saved, loop, scroll_enabled,
                 scroll_top_margin, scroll_bottom_margin>>

ToggleScroll ==
  /\ Call("wrap", NoDrawing)
  /\ scroll_enabled' = ~ scroll_enabled
  /\ UNCHANGED <<screenState, position, pen, saved, loop, cursor_enabled,
                 scroll_top_margin, scroll_bottom_margin>>

SetMargins(top, bottom) ==
  /\ Call("margins", NoDrawing)
  /\ top < bottom - 1 \/ (top = 0 /\ bottom = rows)
  /\ scroll_top_margin' = top /\ scroll_bottom_margin' = bottom
  /\ UNCHANGED <<screenState, position, pen, saved, loop, cursor_enabled,
                 scroll_enabled>>
-----------------------------------------------------------------------------
(* double_buffer_flush draws the cursor, then the items whose cell still   *)
(* points into the queue, then the cell that the cursor has left.          *)

CursorCell ==
  IF cursor_enabled /\ OnGrid(cursor_x, cursor_y)
    THEN {At(cursor_x, cursor_y)} ELSE {}

OldCursorCell_Moved ==
  IF <<old_cursor_x, old_cursor_y>> # position /\ OnGrid(old_cursor_x, old_cursor_y)
    THEN {At(old_cursor_x, old_cursor_y)} ELSE {}

OldCursorCell ==
  IF /\ <<old_cursor_x, old_cursor_y>> # position \/ ~ cursor_enabled
     /\ OnGrid(old_cursor_x, old_cursor_y)
    THEN {At(old_cursor_x, old_cursor_y)} ELSE {}

Items(p) == {k \in 1..Len(queue) : queue[k].cell = p}
First(p) == CHOOSE k \in Items(p) : \A j \in Items(p) : k <= j

(* The cells that the loop draws: draw_cursor has taken its cell off.      *)
Drawn == {p \in Cells \ CursorCell : map[p] # NULL /\ Items(p) # {}}

double_buffer_flush ==
  /\ loop = Idle
  /\ calls' = 0
  /\ request' = <<"flush">>
  /\ grid' = [p \in Cells |->
       IF p \in Drawn THEN queue[First(p)].c
       ELSE IF p \in CursorCell THEN Current(p) ELSE grid[p]]
  /\ map' = [p \in Cells |-> IF p \in Drawn \cup CursorCell THEN NULL ELSE map[p]]
  /\ framebuffer' = [p \in Cells |->
       IF p \in OldCursorCell \cup Drawn THEN plot_char(grid'[p])
       ELSE IF p \in CursorCell THEN plot_char(Inverse(Current(p)))
       ELSE framebuffer[p]]
  /\ old_cursor_x' = cursor_x /\ old_cursor_y' = cursor_y
  /\ queue' = <<>>
  /\ UNCHANGED <<position, pen, saved, modes, loop>>

Operation ==
  \/ Step
  \/ \E g \in Glyphs \cup {Space} : raw_putchar(g)
  \/ \E old, new \in Cells : move_character(new, old)
  \/ scroll
  \/ \E top \in 0..(rows - 1) : revscroll(top)
  \/ \E move \in BOOLEAN : clear(move)
  \/ \E x \in -1..cols, y \in -1..rows : set_cursor_pos(x, y)
  \/ \E colour \in Colours : set_text_fg(colour) \/ set_text_bg(colour)
  \/ swap_palette
  \/ save_state
  \/ restore_state
  \/ ToggleCursor
  \/ ToggleScroll
  \/ \E top, bottom \in 0..rows : SetMargins(top, bottom)
  \/ double_buffer_flush

Next == Operation /\ UNCHANGED bounds

Spec == Init /\ [][Next]_vars
-----------------------------------------------------------------------------
TypeOK ==
  /\ grid \in [Cells -> Chars]
  /\ queue \in Seq([cell : Cells, c : Chars])
  /\ map \in [Cells -> Nat]
  /\ framebuffer \in [Cells -> Chars]
  /\ position \in Nat \X Nat
  /\ old_cursor_x \in Nat /\ old_cursor_y \in Nat
  /\ pen \in Pens /\ saved \in [pen : Pens, x : Nat, y : Nat]
  /\ cursor_enabled \in BOOLEAN /\ scroll_enabled \in BOOLEAN
  /\ scroll_top_margin \in 0..(rows - 1)
  /\ scroll_bottom_margin \in (scroll_top_margin + 1)..rows
  /\ calls \in 0..MaxCalls

Linked ==
  /\ \A k \in 1..Len(queue) : map[queue[k].cell] = k
  /\ \A p \in Cells :
       map[p] # NULL => map[p] \in 1..Len(queue) /\ queue[map[p]].cell = p

(* The queue and the map point at each other: an item belongs to the cell  *)
(* that maps to it and a cell that maps to an item finds its own there.    *)
(* So a cell waits at most once and, however much is written between two   *)
(* flushes, the queue does not outgrow the rows * cols items that          *)
(* flanterm_fb_init allocates for it.                                      *)
QueueMatchesMap == TypeOK /\ Linked

(* What a scroll, a reverse scroll or a clear that is under way will leave *)
(* in the cells: blanks, and what is now in the row below or above.        *)
Wiped(p) ==
  \/ loop.call \in {"up", "down"} /\ p \div cols = loop.row
  \/ loop.call = "blank" /\ p >= loop.i /\ p < loop.last

Source(p) ==
  IF loop.call = "up" /\ p + cols >= loop.i /\ p + cols < loop.last THEN p + cols
  ELSE IF loop.call = "down" /\ p - cols < loop.i /\ p - cols >= loop.last THEN p - cols
  ELSE p

Outcome == [p \in Cells |-> IF Wiped(p) THEN Blank ELSE Current(Source(p))]

Abstract == INSTANCE Screen WITH
  height <- rows, width <- cols, chars <- Chars,
  blanks <- {Char(Space, p) : p \in Pens},
  Start <- Char(Space, Pen), Picture <- plot_char,
  text <- Outcome,
  cursor <- IF CursorCell = {} THEN -1 ELSE At(cursor_x, cursor_y),
  shown <- framebuffer

(* The queue, the map, the skipping of what is drawn already, the order of *)
(* the loops and the repainting of the one cell that the cursor has left   *)
(* are invisible: the back end behaves as a grid that changes at once and  *)
(* is drawn whole at every flush.                                          *)
ImplementsScreen == Abstract!ScreenSpec
=============================================================================
