----------------------------- MODULE DeviceProofs -----------------------------
(***************************************************************************)
(* Proofs about FbTerm, for every size of the screen, every scroll region  *)
(* and every set of characters and colours: the queue and the map agree,   *)
(* and the back end implements Screen.  Then about FbInit, for every       *)
(* framebuffer: the terminal fits the pool and the framebuffer.  At the    *)
(* end, about Boot, for every length of the sleep and every capacity of the*)
(* keyboard.                                                               *)
(***************************************************************************)
EXTENDS FbTerm, FbInit, Boot, TLAPS

(* Cells are numbered by rows. *)
LEMMA DivMod ==
  ASSUME NEW c \in Nat \ {0}, NEW p \in Nat
  PROVE  /\ p \div c \in Nat /\ p % c \in 0..(c - 1)
         /\ p = (p \div c) * c + (p % c)
  OBVIOUS

LEMMA Multiples ==
  ASSUME NEW c \in Nat, NEW m \in Nat, NEW n \in Nat, m <= n
  PROVE  m * c \in Nat /\ n * c \in Nat /\ m * c <= n * c
  OBVIOUS

LEMMA BelowRows ==
  ASSUME NEW c \in Nat, NEW r \in Nat, NEW x \in Nat, NEW y \in Nat, x < c, y < r
  PROVE  y * c + x \in 0..(r * c - 1)
<1>1. (y + 1) * c <= r * c
  BY Multiples
<1>2. (y + 1) * c = y * c + c
  OBVIOUS
<1>3. y * c \in Nat /\ r * c \in Nat
  OBVIOUS
<1> QED
  BY <1>1, <1>2, <1>3

LEMMA OneCell ==
  ASSUME NEW c \in Nat, NEW x \in Nat, NEW y \in Nat, NEW u \in Nat, NEW v \in Nat,
         x < c, u < c, y * c + x = v * c + u
  PROVE  x = u /\ y = v
<1>1. ASSUME y < v PROVE FALSE
  <2>1. y * c + x \in 0..(v * c - 1)
    BY <1>1, BelowRows
  <2> QED
    BY <2>1
<1>2. ASSUME v < y PROVE FALSE
  <2>1. v * c + u \in 0..(y * c - 1)
    BY <1>2, BelowRows
  <2> QED
    BY <2>1
<1> QED
  BY <1>1, <1>2

(* A cell is in a row when it is between the row's ends. *)
LEMMA InRow ==
  ASSUME NEW c \in Nat \ {0}, NEW p \in Nat, NEW r \in Nat
  PROVE  p \div c = r <=> r * c <= p /\ p < (r + 1) * c
<1> DEFINE q == p \div c
<1>1. q \in Nat /\ p % c \in 0..(c - 1) /\ p = q * c + (p % c)
  BY DivMod
<1> HIDE DEF q
<1>2. q * c <= p /\ p < (q + 1) * c
  <2>1. (q + 1) * c = q * c + c
    BY <1>1
  <2> QED
    BY <1>1, <2>1
<1>3. q < r => (q + 1) * c <= r * c
  BY <1>1, Multiples
<1>4. r < q => (r + 1) * c <= q * c
  BY <1>1, Multiples
<1>5. r * c \in Nat /\ q * c \in Nat /\ (r + 1) * c \in Nat /\ (q + 1) * c \in Nat
  BY <1>1
<1>6. q = r <=> r * c <= p /\ p < (r + 1) * c
  BY <1>1, <1>2, <1>3, <1>4, <1>5
<1> QED
  BY <1>6 DEF q

-----------------------------------------------------------------------------
(* The loops stay on the grid.                                             *)
Loops == [call : {"up", "down", "blank"}, i : Nat, last : Nat, row : 0..(rows - 1),
          ch : Glyphs \cup {Space, Nothing}]

LoopInv ==
  \/ loop = Idle
  \/ /\ loop \in Loops
     /\ loop.call = "up" => /\ loop.i >= cols
                            /\ loop.last = (loop.row + 1) * cols
     /\ loop.call = "down" => /\ loop.i + cols <= rows * cols
                              /\ loop.last = loop.row * cols
     /\ loop.call = "blank" => loop.last <= rows * cols

BoundsInv == bounds \in Screens

TypeInv == BoundsInv /\ TypeOK /\ LoopInv

LEMMA Size ==
  ASSUME BoundsInv
  PROVE  rows \in Nat \ {0} /\ cols \in Nat \ {0} /\ MaxCalls \in Nat
  BY FbTermAssumption DEF FbTermAssumption, BoundsInv, rows, cols, MaxCalls

LEMMA AtIsCell ==
  ASSUME BoundsInv, NEW x \in Nat, NEW y \in Nat, OnGrid(x, y)
  PROVE  At(x, y) \in Cells
  BY Size, BelowRows DEF OnGrid, At, Cells

LEMMA CellIsAt ==
  ASSUME BoundsInv, NEW p \in Cells
  PROVE  /\ p % cols \in Nat /\ p \div cols \in Nat
         /\ OnGrid(p % cols, p \div cols) /\ At(p % cols, p \div cols) = p
<1>1. cols \in Nat \ {0} /\ rows \in Nat /\ p \in Nat /\ p < rows * cols
  BY Size DEF Cells
<1>2. /\ p \div cols \in Nat /\ p % cols \in 0..(cols - 1)
      /\ p = (p \div cols) * cols + (p % cols)
  BY <1>1, DivMod
<1>3. ~ (rows <= p \div cols)
  <2> SUFFICES ASSUME rows <= p \div cols PROVE FALSE
    OBVIOUS
  <2>1. rows * cols <= (p \div cols) * cols
    BY <1>1, <1>2, Multiples
  <2> QED
    BY <1>1, <1>2, <2>1
<1> QED
  BY <1>1, <1>2, <1>3 DEF OnGrid, At

LEMMA CharIsChar ==
  ASSUME NEW g \in Glyphs \cup {Space}, NEW p \in Pens
  PROVE  Char(g, p) \in Chars
  BY DEF Char, Pens, Chars

LEMMA Pictures ==
  ASSUME NEW ch \in Chars
  PROVE  plot_char(ch) \in Chars /\ Inverse(ch) \in Chars
  BY DEF plot_char, Inverse, Chars, Visible, AllColours

-----------------------------------------------------------------------------
(* push_to_queue keeps the links, and changes what one cell holds.         *)
QueueItems == [cell : Cells, c : Chars]

CellsInv == grid \in [Cells -> Chars] /\ queue \in Seq(QueueItems) /\ map \in [Cells -> Nat] /\ Linked

LEMMA CurrentIsChar ==
  ASSUME CellsInv, NEW p \in Cells
  PROVE  Current(p) \in Chars
<1>1. CASE map[p] # NULL
  <2>1. map[p] \in 1..Len(queue)
    BY <1>1 DEF CellsInv, Linked
  <2>2. queue[map[p]] \in QueueItems
    BY <2>1 DEF CellsInv
  <2> QED
    BY <1>1, <2>2 DEF Current, QueueItems
<1>2. CASE map[p] = NULL
  BY <1>2 DEF Current, CellsInv
<1> QED
  BY <1>1, <1>2

Becomes(p, ch) == \A q \in Cells : Current(q)' = IF q = p THEN ch ELSE Current(q)

LEMMA QueuedStep ==
  ASSUME BoundsInv, CellsInv, NEW p \in Cells, NEW ch \in Chars, Queued(p, ch),
         UNCHANGED <<grid, bounds>>
  PROVE  CellsInv' /\ Becomes(p, ch)
<1>0. /\ Cells' = Cells /\ Chars' = Chars /\ QueueItems' = QueueItems /\ NULL = 0
  BY DEF Cells, Chars, rows, cols, Glyphs, AllColours, Colours, QueueItems, NULL
<1> DEFINE Len0 == Len(queue)
<1>a. Len0 \in Nat /\ map \in [Cells -> Nat] /\ queue \in Seq(QueueItems) /\ grid \in [Cells -> Chars]
  BY DEF CellsInv
<1>b. \A k \in 1..Len0 : queue[k] \in QueueItems /\ queue[k].cell \in Cells
  <2>1. \A k \in 1..Len0 : queue[k] \in QueueItems
    BY <1>a
  <2>2. \A i \in QueueItems : i.cell \in Cells
    BY DEF QueueItems
  <2> QED
    BY <2>1, <2>2
<1>c. /\ \A k \in 1..Len0 : map[queue[k].cell] = k
      /\ \A q \in Cells :
           map[q] # 0 => map[q] \in 1..Len0 /\ queue[map[q]].cell = q
  BY <1>0 DEF CellsInv, Linked
<1>1. CASE map[p] # 0 /\ queue' = [queue EXCEPT ![map[p]].c = ch] /\ map' = map
  <2>1. map[p] \in 1..Len0
    BY <1>1, <1>c
  <2>2. queue' = [queue EXCEPT ![map[p]] = [queue[map[p]] EXCEPT !.c = ch]]
    BY <1>1
  <2>3. [queue[map[p]] EXCEPT !.c = ch] \in QueueItems
    BY <2>1, <1>b DEF QueueItems
  <2>4. /\ [queue[map[p]] EXCEPT !.c = ch].c = ch
        /\ [queue[map[p]] EXCEPT !.c = ch].cell = queue[map[p]].cell
    BY <2>1, <1>b DEF QueueItems
  <2>5. queue' \in Seq(QueueItems) /\ Len(queue') = Len0
    BY <1>a, <2>1, <2>2, <2>3
  <2>6. \A k \in 1..Len0 :
          /\ queue'[k].cell = queue[k].cell
          /\ queue'[k].c = IF k = map[p] THEN ch ELSE queue[k].c
    BY <1>a, <2>1, <2>2, <2>4
  <2>7. Linked'
    BY <1>0, <1>1, <1>c, <2>5, <2>6 DEF Linked
  <2>8. Becomes(p, ch)
    BY <1>0, <1>1, <1>c, <2>6 DEF Becomes, Current
  <2> QED
    BY <1>0, <1>1, <1>a, <2>5, <2>7, <2>8 DEF CellsInv
<1>2. CASE map[p] = 0 /\ grid[p] = ch /\ queue' = queue /\ map' = map
  BY <1>0, <1>2 DEF CellsInv, Linked, Becomes, Current
<1>3. CASE /\ map[p] = 0 /\ queue' = Append(queue, [cell |-> p, c |-> ch])
           /\ map' = [map EXCEPT ![p] = Len(queue')]
  <2> DEFINE item == [cell |-> p, c |-> ch]
  <2>1. item \in QueueItems /\ item.cell = p /\ item.c = ch
    BY DEF QueueItems
  <2>2. /\ queue' \in Seq(QueueItems) /\ Len(queue') = Len0 + 1
        /\ \A k \in 1..Len0 : queue'[k] = queue[k]
        /\ queue'[Len0 + 1].cell = p /\ queue'[Len0 + 1].c = ch
    <3> HIDE DEF item
    <3>1. queue' = Append(queue, item)
      BY <1>3 DEF item
    <3> QED
      BY <1>a, <2>1, <3>1
  <2>3. map' \in [Cells -> Nat] /\ \A q \in Cells : map'[q] = IF q = p THEN Len0 + 1 ELSE map[q]
    BY <1>a, <1>3, <2>2
  <2>4. \A k \in 1..Len0 : queue[k].cell # p
    BY <1>c, <1>3
  <2>5. Linked'
    <3>1. \A k \in 1..(Len0 + 1) : map'[queue'[k].cell] = k
      BY <1>a, <1>b, <1>c, <2>2, <2>3, <2>4
    <3>2. ASSUME NEW q \in Cells, map'[q] # 0
          PROVE  map'[q] \in 1..(Len0 + 1) /\ queue'[map'[q]].cell = q
      <4>1. CASE q = p
        BY <4>1, <1>a, <2>2, <2>3
      <4>2. CASE q # p
        <5>1. map'[q] = map[q]
          BY <4>2, <2>3
        <5>2. map[q] \in 1..Len0 /\ queue[map[q]].cell = q
          BY <1>c, <3>2, <5>1
        <5> HIDE DEF Len0
        <5> QED
          BY <1>a, <2>2, <5>1, <5>2
      <4> QED
        BY <4>1, <4>2
    <3> QED
      BY <1>0, <2>2, <3>1, <3>2 DEF Linked
  <2>6. Becomes(p, ch)
    <3>1. \A q \in Cells : map[q] # 0 => map[q] \in 1..Len0
      BY <1>c
    <3> QED
      BY <1>0, <1>a, <2>2, <2>3, <3>1 DEF Becomes, Current
  <2> QED
    BY <1>0, <1>a, <2>2, <2>3, <2>5, <2>6 DEF CellsInv
<1> QED
  BY <1>0, <1>1, <1>2, <1>3 DEF Queued, compare_char

LEMMA Fixed ==
  ASSUME UNCHANGED bounds
  PROVE  /\ rows' = rows /\ cols' = cols /\ Glyphs' = Glyphs /\ Colours' = Colours
         /\ MaxCalls' = MaxCalls /\ AllColours' = AllColours
         /\ Cells' = Cells /\ Chars' = Chars /\ Pens' = Pens /\ Loops' = Loops
         /\ QueueItems' = QueueItems
  BY DEF rows, cols, Glyphs, Colours, MaxCalls, AllColours, Cells, Chars, Pens, Loops,
         QueueItems

LEMMA PushStep ==
  ASSUME BoundsInv, CellsInv, NEW x \in Nat, NEW y \in Nat, NEW ch \in Chars,
         push_to_queue(ch, x, y), UNCHANGED bounds
  PROVE  /\ CellsInv'
         /\ \A q \in Cells :
              Current(q)' = IF OnGrid(x, y) /\ q = At(x, y) THEN ch ELSE Current(q)
<1>1. CASE OnGrid(x, y)
  <2>1. At(x, y) \in Cells
    BY <1>1, AtIsCell
  <2>2. Queued(At(x, y), ch) /\ UNCHANGED <<grid, bounds>>
    BY <1>1 DEF push_to_queue
  <2>3. CellsInv' /\ Becomes(At(x, y), ch)
    BY <2>1, <2>2, QueuedStep
  <2> QED
    BY <1>1, <2>3 DEF Becomes
<1>2. CASE ~ OnGrid(x, y)
  <2>1. UNCHANGED <<grid, queue, map, bounds>>
    BY <1>2 DEF push_to_queue
  <2> QED
    BY <1>2, <2>1, Fixed DEF CellsInv, Linked, Current
<1> QED
  BY <1>1, <1>2

LEMMA CopyStep ==
  ASSUME BoundsInv, CellsInv, NEW from \in Cells, NEW to \in Cells, Copy(from, to),
         UNCHANGED bounds
  PROVE  CellsInv' /\ Becomes(to, Current(from))
<1>1. /\ to % cols \in Nat /\ to \div cols \in Nat
      /\ OnGrid(to % cols, to \div cols) /\ At(to % cols, to \div cols) = to
  BY CellIsAt
<1>2. Current(from) \in Chars
  BY CurrentIsChar
<1>3. push_to_queue(Current(from), to % cols, to \div cols)
  BY DEF Copy
<1> HIDE DEF Becomes
<1>4. /\ CellsInv'
      /\ \A q \in Cells : Current(q)' =
           IF /\ OnGrid(to % cols, to \div cols)
              /\ q = At(to % cols, to \div cols)
           THEN Current(from) ELSE Current(q)
  BY <1>1, <1>2, <1>3, PushStep
<1> QED
  BY <1>1, <1>4 DEF Becomes

LEMMA CellsKept ==
  ASSUME CellsInv, UNCHANGED <<cells, bounds>>
  PROVE  CellsInv' /\ \A q \in Cells : Current(q)' = Current(q)
  BY Fixed DEF CellsInv, Linked, Current, cells

-----------------------------------------------------------------------------
(* The rest of the state. *)
OthersOK ==
  /\ framebuffer \in [Cells -> Chars]
  /\ position \in Nat \X Nat
  /\ old_cursor_x \in Nat /\ old_cursor_y \in Nat
  /\ pen \in Pens /\ saved \in [pen : Pens, x : Nat, y : Nat]
  /\ cursor_enabled \in BOOLEAN /\ scroll_enabled \in BOOLEAN
  /\ scroll_top_margin \in 0..(rows - 1)
  /\ scroll_bottom_margin \in (scroll_top_margin + 1)..rows
  /\ calls \in 0..MaxCalls

FbInv == BoundsInv /\ CellsInv /\ OthersOK /\ LoopInv

LEMMA Parts == FbInv => QueueMatchesMap
  BY DEF FbInv, CellsInv, OthersOK, QueueMatchesMap, TypeOK, QueueItems

LEMMA PenIsPens == Pen \in Pens
  BY DEF Pen, Pens, AllColours

LEMMA FbInitially == Init => FbInv
<1> SUFFICES ASSUME Init PROVE FbInv
  OBVIOUS
<1>1. BoundsInv
  BY DEF Init, BoundsInv
<1>2. rows \in Nat \ {0} /\ cols \in Nat \ {0} /\ MaxCalls \in Nat
  BY <1>1, Size
<1>3. Char(Space, Pen) \in Chars
  BY PenIsPens, CharIsChar
<1>4. CellsInv
  <2>1. grid \in [Cells -> Chars]
    BY <1>3 DEF Init
  <2>2. queue \in Seq(QueueItems) /\ Len(queue) = 0
    BY DEF Init
  <2>3. map \in [Cells -> Nat] /\ \A p \in Cells : map[p] = NULL
    BY DEF Init, NULL
  <2> QED
    BY <2>1, <2>2, <2>3 DEF CellsInv, Linked
<1>5. framebuffer \in [Cells -> Chars]
  <2>1. \A p \in Cells : plot_char(IF p = 0 THEN Inverse(grid[p]) ELSE grid[p]) \in Chars
    BY <1>4, Pictures DEF CellsInv
  <2> QED
    BY <2>1 DEF Init
<1>6. OthersOK
  BY <1>2, <1>5, PenIsPens DEF Init, OthersOK, position, Pens, AllColours
<1> QED
  BY <1>1, <1>4, <1>6 DEF FbInv, Init, LoopInv

-----------------------------------------------------------------------------
(* Every step keeps the invariant.                                         *)
LEMMA Rows ==
  ASSUME BoundsInv, NEW r \in 0..(rows - 1)
  PROVE  /\ r * cols \in Nat /\ (r + 1) * cols = r * cols + cols
         /\ rows * cols \in Nat /\ (r + 1) * cols <= rows * cols
<1>1. rows \in Nat \ {0} /\ cols \in Nat \ {0}
  BY Size
<1>2. (r + 1) * cols <= rows * cols /\ rows * cols \in Nat
  BY <1>1, Multiples
<1>3. r * cols \in Nat /\ (r + 1) * cols = r * cols + cols
  BY <1>1
<1> QED
  BY <1>2, <1>3

LEMMA LoopFields ==
  ASSUME NEW l \in Loops
  PROVE  /\ l.call \in {"up", "down", "blank"} /\ l.i \in Nat /\ l.last \in Nat
         /\ l.row \in 0..(rows - 1) /\ l.ch \in Glyphs \cup {Space, Nothing}
         /\ \A n \in Nat : [l EXCEPT !.i = n] \in Loops
         /\ \A n : /\ [l EXCEPT !.i = n].call = l.call
                   /\ [l EXCEPT !.i = n].last = l.last
                   /\ [l EXCEPT !.i = n].row = l.row
                   /\ [l EXCEPT !.i = n].ch = l.ch
                   /\ [l EXCEPT !.i = n].i = n
  BY DEF Loops

LEMMA NotIdle == ASSUME loop = Idle, loop.call \in {"up", "down", "blank"} PROVE FALSE
  BY DEF Idle

LEMMA UpCells ==
  ASSUME BoundsInv, LoopInv, loop.call = "up", loop.i < loop.last
  PROVE  /\ loop \in Loops /\ loop.i \in Cells /\ loop.i - cols \in Cells
         /\ loop.last = (loop.row + 1) * cols
<1>1. loop \in Loops /\ loop.i >= cols /\ loop.last = (loop.row + 1) * cols
  BY NotIdle DEF LoopInv
<1>2. loop.i \in Nat /\ loop.row \in 0..(rows - 1) /\ loop.last \in Nat
  BY <1>1 DEF Loops
<1>3. loop.last <= rows * cols /\ rows * cols \in Nat
  BY <1>1, <1>2, Rows
<1> QED
  BY <1>1, <1>2, <1>3, Size DEF Cells

LEMMA UpEnds ==
  ASSUME BoundsInv, LoopInv, loop.call = "up"
  PROVE  \A n \in Nat : n < loop.last => n \in Cells
<1>1. loop \in Loops /\ loop.last = (loop.row + 1) * cols
  BY NotIdle DEF LoopInv
<1>2. loop.row \in 0..(rows - 1) /\ loop.last \in Nat
  BY <1>1 DEF Loops
<1>3. loop.last <= rows * cols /\ rows * cols \in Nat
  BY <1>1, <1>2, Rows
<1> QED
  BY <1>2, <1>3 DEF Cells

LEMMA DownCells ==
  ASSUME BoundsInv, LoopInv, loop.call = "down", loop.i > loop.last
  PROVE  /\ loop \in Loops /\ loop.i - 1 \in Cells /\ loop.i - 1 + cols \in Cells
         /\ loop.last = loop.row * cols
<1>1. loop \in Loops /\ loop.i + cols <= rows * cols /\ loop.last = loop.row * cols
  BY NotIdle DEF LoopInv
<1>2. loop.i \in Nat /\ loop.row \in 0..(rows - 1) /\ loop.last \in Nat
  BY <1>1 DEF Loops
<1>3. rows * cols \in Nat
  BY <1>2, Rows
<1> QED
  BY <1>1, <1>2, <1>3, Size DEF Cells

LEMMA BlankCells ==
  ASSUME BoundsInv, LoopInv, loop.call = "blank"
  PROVE  /\ loop \in Loops /\ loop.last <= rows * cols
         /\ loop.i < loop.last => loop.i \in Cells
<1>1. loop \in Loops /\ loop.last <= rows * cols
  BY NotIdle DEF LoopInv
<1>2. loop.i \in Nat /\ loop.last \in Nat /\ rows * cols \in Nat
  BY <1>1, Size DEF Loops
<1> QED
  BY <1>1, <1>2 DEF Cells

LEMMA BlankIsChar == ASSUME OthersOK PROVE Blank \in Chars
  BY CharIsChar DEF OthersOK, Blank

LEMMA UpStep ==
  ASSUME FbInv, Up, UNCHANGED bounds
  PROVE  CellsInv' /\ LoopInv' /\ Becomes(loop.i - cols, Current(loop.i))
<1>1. /\ loop \in Loops /\ loop.i \in Cells /\ loop.i - cols \in Cells
      /\ loop.last = (loop.row + 1) * cols
  BY UpCells DEF FbInv, Up
<1>2. CellsInv' /\ Becomes(loop.i - cols, Current(loop.i))
  BY <1>1, CopyStep DEF FbInv, Up
<1>3. loop' = [loop EXCEPT !.i = loop.i + 1] /\ loop.call = "up" /\ loop.i >= cols
  BY <1>1 DEF Up, FbInv, LoopInv, Idle
<1>4. loop' \in Loops /\ loop'.call = "up" /\ loop'.i >= cols /\ loop'.last = (loop'.row + 1) * cols
  BY <1>1, <1>3, Size, LoopFields DEF FbInv
<1>5. LoopInv'
  BY <1>4, Fixed DEF LoopInv
<1> QED
  BY <1>2, <1>5

LEMMA DownStep ==
  ASSUME FbInv, Down, UNCHANGED bounds
  PROVE  CellsInv' /\ LoopInv' /\ Becomes(loop.i - 1 + cols, Current(loop.i - 1))
<1>1. /\ loop \in Loops /\ loop.i - 1 \in Cells /\ loop.i - 1 + cols \in Cells
      /\ loop.last = loop.row * cols
  BY DownCells DEF FbInv, Down
<1>2. CellsInv' /\ Becomes(loop.i - 1 + cols, Current(loop.i - 1))
  BY <1>1, CopyStep DEF FbInv, Down
<1>3. /\ loop' = [loop EXCEPT !.i = loop.i - 1] /\ loop.call = "down"
      /\ loop.i + cols <= rows * cols
  BY <1>1 DEF Down, FbInv, LoopInv, Idle
<1>4. loop.i - 1 \in Nat /\ loop.i \in Nat /\ rows * cols \in Nat
  BY <1>1, Size DEF Cells, FbInv, Loops
<1>5. /\ loop' \in Loops /\ loop'.call = "down" /\ loop'.i + cols <= rows * cols
      /\ loop'.last = loop'.row * cols
  BY <1>1, <1>3, <1>4, Size, LoopFields DEF FbInv
<1>6. LoopInv'
  BY <1>5, Fixed DEF LoopInv
<1> QED
  BY <1>2, <1>6

LEMMA ShiftedStep ==
  ASSUME FbInv, Shifted, UNCHANGED bounds
  PROVE  CellsInv' /\ LoopInv' /\ loop \in Loops
<1>1. loop \in Loops
  BY NotIdle DEF FbInv, LoopInv, Shifted
<1>2. loop.row \in 0..(rows - 1) /\ loop.ch \in Glyphs \cup {Space, Nothing}
  BY <1>1, LoopFields
<1>3. /\ loop.row * cols \in Nat /\ (loop.row + 1) * cols \in Nat
      /\ (loop.row + 1) * cols <= rows * cols
  BY <1>2, Rows, Size DEF FbInv
<1>4. loop' \in Loops /\ loop'.call = "blank" /\ loop'.last <= rows * cols
  BY <1>2, <1>3 DEF Shifted, ClearRow, Loop, Loops
<1>5. LoopInv'
  BY <1>4, Fixed DEF LoopInv
<1> QED
  BY <1>1, <1>5, CellsKept DEF Shifted, FbInv

LEMMA EraseStep ==
  ASSUME FbInv, Erase, UNCHANGED bounds
  PROVE  CellsInv' /\ LoopInv' /\ Becomes(loop.i, Blank)
<1>1. loop \in Loops /\ loop.last <= rows * cols /\ loop.i \in Cells
  BY BlankCells DEF FbInv, Erase
<1>2. /\ loop.i % cols \in Nat /\ loop.i \div cols \in Nat
      /\ OnGrid(loop.i % cols, loop.i \div cols)
      /\ At(loop.i % cols, loop.i \div cols) = loop.i
  BY <1>1, CellIsAt DEF FbInv
<1>3. Blank \in Chars
  BY BlankIsChar DEF FbInv
<1>4. push_to_queue(Blank, loop.i % cols, loop.i \div cols)
  BY DEF Erase
<1>5. /\ CellsInv'
      /\ \A q \in Cells : Current(q)' =
           IF /\ OnGrid(loop.i % cols, loop.i \div cols)
              /\ q = At(loop.i % cols, loop.i \div cols)
           THEN Blank ELSE Current(q)
  BY <1>2, <1>3, <1>4, PushStep DEF FbInv
<1>6. loop' = [loop EXCEPT !.i = loop.i + 1] /\ loop.call = "blank" /\ loop.i \in Nat
  BY <1>1, LoopFields DEF Erase
<1>7. loop' \in Loops /\ loop'.call = "blank" /\ loop'.last <= rows * cols
  BY <1>1, <1>6, LoopFields
<1>8. LoopInv'
  BY <1>7, Fixed DEF LoopInv
<1> QED
  BY <1>2, <1>5, <1>8 DEF Becomes

LEMMA ErasedStep ==
  ASSUME FbInv, Erased, UNCHANGED <<bounds, pen>>
  PROVE  /\ loop \in Loops /\ CellsInv' /\ LoopInv' /\ position' \in Nat \X Nat
         /\ loop.ch = Nothing =>
              UNCHANGED <<position, request>> /\ \A q \in Cells : Current(q)' = Current(q)
         /\ loop.ch # Nothing =>
              \A q \in Cells : Current(q)' =
                IF OnGrid(cursor_x, cursor_y) /\ q = At(cursor_x, cursor_y)
                THEN Char(loop.ch, pen) ELSE Current(q)
<1>1. loop \in Loops
  BY BlankCells DEF FbInv, Erased
<1>2. LoopInv'
  BY DEF Erased, LoopInv, Idle
<1>3. CASE loop.ch = Nothing
  BY <1>1, <1>2, <1>3, CellsKept DEF FbInv, OthersOK, Erased, cells, position
<1>4. CASE loop.ch # Nothing
  <2>1. Char(loop.ch, pen) \in Chars
    BY <1>1, <1>4, CharIsChar, LoopFields DEF FbInv, OthersOK
  <2>2. push_to_queue(Char(loop.ch, pen), cursor_x, cursor_y)
    BY <1>4 DEF Erased
  <2>3. cursor_x \in Nat /\ cursor_y \in Nat
    BY DEF FbInv, OthersOK, position
  <2>4. /\ CellsInv'
        /\ \A q \in Cells : Current(q)' =
             IF OnGrid(cursor_x, cursor_y) /\ q = At(cursor_x, cursor_y)
             THEN Char(loop.ch, pen) ELSE Current(q)
    BY <2>1, <2>2, <2>3, PushStep DEF FbInv
  <2>5. position' \in Nat \X Nat
    BY <1>4, <2>3 DEF Erased, position
  <2> QED
    BY <1>1, <1>2, <1>4, <2>4, <2>5
<1> QED
  BY <1>3, <1>4

-----------------------------------------------------------------------------
(* A flush: the items it draws are the ones the map points at.             *)
LEMMA OneItem ==
  ASSUME CellsInv, NEW p \in Cells
  PROVE  /\ map[p] # NULL => /\ First(p) = map[p] /\ Items(p) # {}
                             /\ queue[First(p)].c = Current(p)
         /\ map[p] = NULL => Current(p) = grid[p]
<1>1. CASE map[p] # NULL
  <2>1. map[p] \in 1..Len(queue) /\ queue[map[p]].cell = p
    BY <1>1 DEF CellsInv, Linked
  <2>2. \A k \in 1..Len(queue) : queue[k].cell = p => k = map[p]
    BY DEF CellsInv, Linked
  <2>3. Items(p) = {map[p]}
    BY <2>1, <2>2 DEF Items
  <2>4. map[p] <= map[p]
    BY <2>1
  <2>5. First(p) = map[p]
    BY <2>3, <2>4 DEF First
  <2> QED
    BY <1>1, <2>3, <2>5 DEF Current
<1> QED
  BY <1>1 DEF Current

LEMMA DrawnIsMapped ==
  ASSUME CellsInv
  PROVE  \A p \in Cells : p \in Drawn <=> p \notin CursorCell /\ map[p] # NULL
  BY OneItem DEF Drawn

LEMMA CursorIsCell ==
  ASSUME BoundsInv, OthersOK
  PROVE  CursorCell \subseteq Cells /\ OldCursorCell \subseteq Cells
  BY AtIsCell DEF OthersOK, position, CursorCell, OldCursorCell

LEMMA FlushStep ==
  ASSUME FbInv, double_buffer_flush, UNCHANGED bounds
  PROVE  /\ FbInv'
         /\ \A p \in Cells : grid'[p] = Current(p) /\ Current(p)' = Current(p)
<1>1. \A p \in Cells : grid'[p] = Current(p)
  BY DrawnIsMapped, OneItem DEF double_buffer_flush, FbInv
<1>2. \A p \in Cells : map'[p] = NULL
  BY DrawnIsMapped DEF double_buffer_flush, FbInv
<1>3. \A p \in Cells : Current(p)' = grid'[p]
  BY <1>2, Fixed DEF Current, NULL
<1>4. grid' \in [Cells -> Chars]
  BY <1>1, CurrentIsChar DEF double_buffer_flush, FbInv
<1>5. map' \in [Cells -> Nat]
  BY <1>2 DEF double_buffer_flush, NULL, FbInv, CellsInv
<1>6. queue' \in Seq(QueueItems) /\ Len(queue') = 0
  BY DEF double_buffer_flush
<1>7. CellsInv'
  BY <1>2, <1>4, <1>5, <1>6, Fixed DEF CellsInv, Linked, NULL
<1>8. framebuffer' \in [Cells -> Chars]
  <2>1. \A p \in Cells : /\ plot_char(grid'[p]) \in Chars
                         /\ plot_char(Inverse(Current(p))) \in Chars
                         /\ framebuffer[p] \in Chars
    BY <1>4, CurrentIsChar, Pictures DEF FbInv, OthersOK
  <2> QED
    BY <2>1 DEF double_buffer_flush
<1>9. OthersOK'
  BY <1>8, Fixed, Size
     DEF OthersOK, double_buffer_flush, FbInv, position, modes, BoundsInv
<1>10. LoopInv'
  BY DEF LoopInv, double_buffer_flush
<1> QED
  BY <1>1, <1>3, <1>7, <1>9, <1>10 DEF FbInv, BoundsInv

LEMMA StepKeeps ==
  ASSUME FbInv, Step, UNCHANGED bounds
  PROVE  FbInv'
<1>1. CellsInv' /\ LoopInv' /\ position' \in Nat \X Nat
  <2>1. CASE Up
    BY <2>1, UpStep DEF Up, FbInv, OthersOK, position
  <2>2. CASE Down
    BY <2>2, DownStep DEF Down, FbInv, OthersOK, position
  <2>3. CASE Shifted
    BY <2>3, ShiftedStep DEF Shifted, FbInv, OthersOK, position
  <2>4. CASE Erase
    BY <2>4, EraseStep DEF Erase, FbInv, OthersOK, position
  <2>5. CASE Erased
    BY <2>5, ErasedStep DEF Step
  <2> QED
    BY <2>1, <2>2, <2>3, <2>4, <2>5 DEF Step
<1>2. OthersOK'
  BY <1>1, Fixed DEF Step, FbInv, OthersOK, modes
<1> QED
  BY <1>1, <1>2 DEF FbInv, BoundsInv

-----------------------------------------------------------------------------
(* The calls that draw nothing leave the cells as they are.                *)
QuietCall ==
  \/ \E x \in -1..cols, y \in -1..rows : set_cursor_pos(x, y)
  \/ \E colour \in Colours : set_text_fg(colour) \/ set_text_bg(colour)
  \/ swap_palette
  \/ save_state
  \/ restore_state
  \/ ToggleCursor
  \/ ToggleScroll
  \/ \E top, bottom \in 0..rows : SetMargins(top, bottom)

Quiet ==
  /\ loop = Idle /\ request' = NoDrawing
  /\ UNCHANGED <<cells, framebuffer, old_cursor_x, old_cursor_y, loop>>

LEMMA Counted ==
  ASSUME FbInv, NEW name, NEW r, Call(name, r)
  PROVE  loop = Idle /\ calls' \in 0..MaxCalls /\ request' = r
  BY Size DEF Call, FbInv, OthersOK

LEMMA QuietStep ==
  ASSUME FbInv, QuietCall, UNCHANGED bounds
  PROVE  Quiet /\ FbInv'
<1>0. /\ rows \in Nat \ {0} /\ cols \in Nat \ {0}
      /\ pen \in Pens /\ saved \in [pen : Pens, x : Nat, y : Nat]
      /\ cursor_x \in Nat /\ cursor_y \in Nat
  BY Size DEF FbInv, OthersOK, position
<1> DEFINE Typed ==
      /\ calls' \in 0..MaxCalls /\ pen' \in Pens
      /\ saved' \in [pen : Pens, x : Nat, y : Nat] /\ position' \in Nat \X Nat
      /\ cursor_enabled' \in BOOLEAN /\ scroll_enabled' \in BOOLEAN
      /\ scroll_top_margin' \in 0..(rows - 1)
      /\ scroll_bottom_margin' \in (scroll_top_margin' + 1)..rows
<1>1. ASSUME NEW x \in -1..cols, NEW y \in -1..rows, set_cursor_pos(x, y)
      PROVE  Quiet /\ Typed
  <2>1. Clamp(x, cols) \in Nat /\ Clamp(y, rows) \in Nat
    BY <1>0 DEF Clamp
  <2> QED
    BY <1>0, <1>1, <2>1, Counted
       DEF set_cursor_pos, Quiet, screenState, modes, FbInv, OthersOK, position
<1>2. ASSUME NEW colour \in Colours, set_text_fg(colour) \/ set_text_bg(colour)
      PROVE  Quiet /\ Typed
  <2>1. pen' \in Pens
    BY <1>0, <1>2 DEF set_text_fg, set_text_bg, Pens, AllColours
  <2> QED
    BY <1>2, <2>1, Counted DEF set_text_fg, set_text_bg, Quiet, screenState, modes,
       FbInv, OthersOK
<1>3. ASSUME swap_palette PROVE Quiet /\ Typed
  <2>1. pen' \in Pens
    BY <1>0, <1>3 DEF swap_palette, Pens
  <2> QED
    BY <1>3, <2>1, Counted DEF swap_palette, Quiet, screenState, modes, FbInv, OthersOK
<1>4. ASSUME save_state PROVE Quiet /\ Typed
  <2>1. saved' \in [pen : Pens, x : Nat, y : Nat]
    BY <1>0, <1>4 DEF save_state
  <2> QED
    BY <1>4, <2>1, Counted DEF save_state, Quiet, screenState, modes, FbInv, OthersOK
<1>5. ASSUME restore_state PROVE Quiet /\ Typed
  BY <1>0, <1>5, Counted
     DEF restore_state, Quiet, screenState, modes, FbInv, OthersOK, position
<1>6. ASSUME ToggleCursor PROVE Quiet /\ Typed
  BY <1>6, Counted DEF ToggleCursor, Quiet, screenState, FbInv, OthersOK
<1>7. ASSUME ToggleScroll PROVE Quiet /\ Typed
  BY <1>7, Counted DEF ToggleScroll, Quiet, screenState, FbInv, OthersOK
<1>8. ASSUME NEW top \in 0..rows, NEW bottom \in 0..rows, SetMargins(top, bottom)
      PROVE  Quiet /\ Typed
  <2>1. top \in 0..(rows - 1) /\ bottom \in (top + 1)..rows
    BY <1>0, <1>8 DEF SetMargins
  <2> QED
    BY <1>8, <2>1, Counted DEF SetMargins, Quiet, screenState, FbInv, OthersOK
<1>9. Quiet /\ Typed
  BY <1>1, <1>2, <1>3, <1>4, <1>5, <1>6, <1>7, <1>8 DEF QuietCall
<1>10. CellsInv'
  BY <1>9, CellsKept DEF Quiet, FbInv
<1>11. OthersOK'
  BY <1>9, Fixed DEF Quiet, FbInv, OthersOK
<1> QED
  BY <1>9, <1>10, <1>11 DEF Quiet, FbInv, BoundsInv, LoopInv

-----------------------------------------------------------------------------
(* The calls that draw. *)
LEMMA PutPosition ==
  ASSUME FbInv
  PROVE  PutX \in Nat /\ PutY \in Nat
  BY Size DEF FbInv, OthersOK, position, PutX, PutY, WrappedY

LEMMA PutStep ==
  ASSUME FbInv, NEW g \in Glyphs \cup {Space}, raw_putchar(g), UNCHANGED bounds
  PROVE  /\ FbInv'
         /\ Scrolls => \A q \in Cells : Current(q)' = Current(q)
         /\ ~ Scrolls => /\ loop' = loop
                         /\ \A q \in Cells : Current(q)' =
                              IF OnGrid(PutX, PutY) /\ q = At(PutX, PutY)
                              THEN Char(g, pen) ELSE Current(q)
<1>0. PutX \in Nat /\ PutY \in Nat /\ Char(g, pen) \in Chars
  BY PutPosition, CharIsChar DEF FbInv, OthersOK
<1>1. loop = Idle /\ calls' \in 0..MaxCalls
  BY Counted DEF raw_putchar
<1>2. position' \in Nat \X Nat
  BY <1>0 DEF raw_putchar, position
<1>3. OthersOK'
  BY <1>1, <1>2, Fixed DEF raw_putchar, modes, FbInv, OthersOK
<1>4. CASE Scrolls
  <2>1. CellsInv' /\ \A q \in Cells : Current(q)' = Current(q)
    BY <1>4, CellsKept DEF raw_putchar, FbInv
  <2>2. /\ scroll_top_margin \in 0..(rows - 1)
        /\ scroll_bottom_margin - 1 \in 0..(rows - 1)
        /\ scroll_bottom_margin = scroll_bottom_margin - 1 + 1
    BY Size DEF FbInv, OthersOK
  <2>3. /\ (scroll_top_margin + 1) * cols \in Nat /\ scroll_bottom_margin * cols \in Nat
        /\ (scroll_top_margin + 1) * cols >= cols
    BY <2>2, Rows, Size DEF FbInv
  <2>4. loop' = ScrollLoop(g)
    BY <1>4 DEF raw_putchar
  <2>5. /\ loop' \in Loops /\ loop'.call = "up" /\ loop'.i >= cols
        /\ loop'.last = (loop'.row + 1) * cols
    BY <2>2, <2>3, <2>4 DEF ScrollLoop, Loop, Loops
  <2>6. LoopInv'
    BY <2>5, Fixed DEF LoopInv
  <2> QED
    BY <1>3, <1>4, <2>1, <2>6 DEF FbInv, BoundsInv
<1>5. CASE ~ Scrolls
  <2>1. push_to_queue(Char(g, pen), PutX, PutY) /\ loop' = loop
    BY <1>5 DEF raw_putchar
  <2>2. /\ CellsInv'
        /\ \A q \in Cells : Current(q)' =
             IF OnGrid(PutX, PutY) /\ q = At(PutX, PutY)
             THEN Char(g, pen) ELSE Current(q)
    BY <1>0, <2>1, PushStep DEF FbInv
  <2>3. LoopInv'
    BY <1>1, <2>1 DEF LoopInv
  <2> QED
    BY <1>3, <1>5, <2>1, <2>2, <2>3 DEF FbInv, BoundsInv
<1> QED
  BY <1>4, <1>5

LEMMA MoveStep ==
  ASSUME FbInv, NEW old \in Cells, NEW new \in Cells, move_character(new, old),
         UNCHANGED bounds
  PROVE  FbInv' /\ Becomes(new, Current(old))
<1>1. CellsInv' /\ Becomes(new, Current(old))
  BY CopyStep DEF move_character, FbInv
<1>2. loop = Idle /\ calls' \in 0..MaxCalls
  BY Counted DEF move_character
<1>3. OthersOK'
  BY <1>2, Fixed DEF move_character, modes, FbInv, OthersOK
<1> QED
  BY <1>1, <1>2, <1>3 DEF FbInv, BoundsInv, LoopInv, move_character

LEMMA ScrollStep ==
  ASSUME FbInv, scroll, UNCHANGED bounds
  PROVE  FbInv' /\ \A q \in Cells : Current(q)' = Current(q)
<1>1. CellsInv' /\ \A q \in Cells : Current(q)' = Current(q)
  BY CellsKept DEF scroll, screenState, FbInv
<1>2. loop = Idle /\ calls' \in 0..MaxCalls
  BY Counted DEF scroll
<1>3. OthersOK'
  BY <1>2, Fixed DEF scroll, screenState, modes, FbInv, OthersOK
<1>4. /\ scroll_top_margin \in 0..(rows - 1)
      /\ scroll_bottom_margin - 1 \in 0..(rows - 1)
      /\ scroll_bottom_margin = scroll_bottom_margin - 1 + 1
  BY Size DEF FbInv, OthersOK
<1>5. /\ (scroll_top_margin + 1) * cols \in Nat /\ scroll_bottom_margin * cols \in Nat
      /\ (scroll_top_margin + 1) * cols >= cols
  BY <1>4, Rows, Size DEF FbInv
<1>6. loop' = ScrollLoop(Nothing)
  BY DEF scroll
<1>7. /\ loop' \in Loops /\ loop'.call = "up" /\ loop'.i >= cols
      /\ loop'.last = (loop'.row + 1) * cols
  BY <1>4, <1>5, <1>6 DEF ScrollLoop, Loop, Loops
<1>8. LoopInv'
  BY <1>7, Fixed DEF LoopInv
<1> QED
  BY <1>1, <1>3, <1>8 DEF FbInv, BoundsInv

LEMMA RevscrollStep ==
  ASSUME FbInv, NEW top \in 0..(rows - 1), revscroll(top), UNCHANGED bounds
  PROVE  FbInv' /\ \A q \in Cells : Current(q)' = Current(q)
<1>1. CellsInv' /\ \A q \in Cells : Current(q)' = Current(q)
  BY CellsKept DEF revscroll, screenState, FbInv
<1>2. loop = Idle /\ calls' \in 0..MaxCalls
  BY Counted DEF revscroll
<1>3. OthersOK'
  BY <1>2, Fixed DEF revscroll, screenState, modes, FbInv, OthersOK
<1>4. scroll_bottom_margin - 1 \in 0..(rows - 1)
  BY Size DEF FbInv, OthersOK
<1>5. /\ (scroll_bottom_margin - 1) * cols \in Nat /\ top * cols \in Nat
      /\ (scroll_bottom_margin - 1 + 1) * cols = (scroll_bottom_margin - 1) * cols + cols
      /\ (scroll_bottom_margin - 1 + 1) * cols <= rows * cols
  BY <1>4, Rows DEF FbInv
<1>6. loop' = RevscrollLoop(top)
  BY DEF revscroll
<1>7. /\ loop' \in Loops /\ loop'.call = "down" /\ loop'.i + cols <= rows * cols
      /\ loop'.last = loop'.row * cols
  BY <1>5, <1>6 DEF RevscrollLoop, Loop, Loops
<1>8. LoopInv'
  BY <1>7, Fixed DEF LoopInv
<1> QED
  BY <1>1, <1>3, <1>8 DEF FbInv, BoundsInv

LEMMA ClearStep ==
  ASSUME FbInv, NEW move \in BOOLEAN, clear(move), UNCHANGED bounds
  PROVE  FbInv' /\ \A q \in Cells : Current(q)' = Current(q)
<1>1. CellsInv' /\ \A q \in Cells : Current(q)' = Current(q)
  BY CellsKept DEF clear, screenState, FbInv
<1>2. loop = Idle /\ calls' \in 0..MaxCalls
  BY Counted DEF clear
<1>3. OthersOK'
  BY <1>2, Fixed DEF clear, screenState, modes, FbInv, OthersOK, position
<1>4. rows \in Nat \ {0} /\ rows * cols \in Nat
  BY Size DEF FbInv
<1>5. loop' = ClearAll
  BY DEF clear
<1>6. loop' \in Loops /\ loop'.call = "blank" /\ loop'.last <= rows * cols
  BY <1>4, <1>5 DEF ClearAll, Loop, Loops
<1>7. LoopInv'
  BY <1>6, Fixed DEF LoopInv
<1> QED
  BY <1>1, <1>3, <1>7 DEF FbInv, BoundsInv

LEMMA FbNext ==
  ASSUME FbInv, Next
  PROVE  FbInv'
  BY StepKeeps, PutStep, MoveStep, ScrollStep, RevscrollStep, ClearStep, QuietStep, FlushStep
     DEF Next, Operation, QuietCall

LEMMA FbStutter ==
  ASSUME FbInv, UNCHANGED vars
  PROVE  FbInv'
<1>1. OthersOK' /\ LoopInv'
  BY Fixed DEF vars, FbInv, OthersOK, position, modes, LoopInv
<1>2. CellsInv'
  BY CellsKept DEF vars, FbInv
<1> QED
  BY <1>1, <1>2 DEF FbInv, BoundsInv, vars

(* In every reachable state an item of the queue belongs to the cell that  *)
(* maps to it and a cell that maps to an item finds its own there, so that *)
(* the queue never outgrows the rows * cols items allocated for it.        *)
THEOREM QueueAndMapAgree == Spec => []QueueMatchesMap
<1>1. Init => FbInv
  BY FbInitially
<1>2. FbInv /\ [Next]_vars => FbInv'
  BY FbNext, FbStutter
<1>3. FbInv => QueueMatchesMap
  BY Parts
<1> QED
  BY <1>1, <1>2, <1>3, PTL DEF Spec

-----------------------------------------------------------------------------
(* Between two flushes the framebuffer shows the grid, but for the cell    *)
(* the cursor was drawn in.                                                *)
OnOldCursor(p) == OnGrid(old_cursor_x, old_cursor_y) /\ p = At(old_cursor_x, old_cursor_y)
Seen == \A p \in Cells : framebuffer[p] = plot_char(grid[p]) \/ OnOldCursor(p)

DrawInv == FbInv /\ Seen

CursorAt == IF CursorCell = {} THEN -1 ELSE At(cursor_x, cursor_y)

LEMMA InGrid ==
  ASSUME BoundsInv, NEW x \in Nat, NEW y \in Nat, x < cols, y < rows
  PROVE  y * cols + x \in Cells
  BY AtIsCell DEF OnGrid, At

LEMMA Mapping ==
  /\ Abstract!Cells = Cells /\ Abstract!NoCell = -1
  /\ \A t : Abstract!Draw(t) <=>
       Outcome' = t /\ CursorAt' \in Cells \cup {-1} /\ UNCHANGED framebuffer
  /\ UNCHANGED Abstract!screen <=>
       UNCHANGED <<rows, cols, Chars, {Char(Space, p) : p \in Pens}, Outcome, CursorAt,
                   framebuffer, request>>
  BY DEF Abstract!Cells, Cells, Abstract!NoCell, Abstract!Draw, CursorAt, Abstract!screen,
         Abstract!size

LEMMA SameSize ==
  ASSUME UNCHANGED bounds
  PROVE  UNCHANGED Abstract!size /\ UNCHANGED {Char(Space, p) : p \in Pens}
<1>1. \A p : Char(Space, p)' = Char(Space, p')
  BY DEF Char
<1>2. UNCHANGED {Char(Space, p) : p \in Pens}
  BY Fixed DEF Char
<1> QED
  BY <1>2, Fixed DEF Abstract!size

LEMMA CursorCells ==
  ASSUME FbInv, FbInv', UNCHANGED bounds
  PROVE  CursorAt' \in Cells \cup {-1}
<1>1. cursor_x' \in Nat /\ cursor_y' \in Nat
  BY DEF FbInv, OthersOK, position
<1>2. CASE CursorCell' = {}
  BY <1>2 DEF CursorAt
<1>3. CASE CursorCell' # {}
  <2>1. OnGrid(cursor_x, cursor_y)'
    BY <1>3 DEF CursorCell
  <2>2. cursor_x' < cols /\ cursor_y' < rows
    BY <2>1, Fixed DEF OnGrid
  <2>3. cursor_y' * cols + cursor_x' \in Cells
    BY <1>1, <2>2, InGrid DEF FbInv
  <2> QED
    BY <1>3, <2>3, Fixed DEF CursorAt, At
<1> QED
  BY <1>2, <1>3

LEMMA Drawing ==
  ASSUME FbInv, FbInv', UNCHANGED <<bounds, framebuffer>>
  PROVE  Abstract!Draw(Outcome')
  BY CursorCells, Mapping

LEMMA Settled ==
  ASSUME loop = Idle
  PROVE  Outcome = [p \in Cells |-> Current(p)]
  BY DEF Idle, Outcome, Wiped, Source, Current

LEMMA SettledNext ==
  ASSUME UNCHANGED bounds, loop' = Idle
  PROVE  Outcome' = [p \in Cells |-> Current(p)']
  BY Fixed DEF Idle, Outcome, Wiped, Source, Current

LEMMA BlankKept == ASSUME UNCHANGED pen PROVE Blank' = Blank
  BY DEF Blank, Char

LEMMA CursorKept ==
  ASSUME UNCHANGED <<bounds, position, cursor_enabled>>
  PROVE  CursorAt' = CursorAt
  BY Fixed DEF CursorAt, CursorCell, OnGrid, At, position

-----------------------------------------------------------------------------
(* What a loop has still to do is in the mapping: its steps are invisible. *)
Holds(m, q, g, p) == IF m[p] # NULL THEN q[m[p]].c ELSE g[p]
Text(p) == IF Wiped(p) THEN Blank ELSE Holds(map, queue, grid, Source(p))

LEMMA TextIs ==
  /\ Outcome = [p \in Cells |-> Text(p)]
  /\ UNCHANGED bounds => Outcome' = [p \in Cells |-> Text(p)']
  BY Fixed DEF Outcome, Text, Current, Holds

LEMMA TextNow ==
  ASSUME NEW p, NEW s, Source(p) = s
  PROVE  Text(p) = IF Wiped(p) THEN Blank ELSE Current(s)
  BY DEF Text, Holds, Current

LEMMA TextNext ==
  ASSUME NEW p, NEW s, Source(p)' = s
  PROVE  Text(p)' = IF Wiped(p)' THEN Blank' ELSE Current(s)'
  BY DEF Text, Holds, Current

LEMMA UpText ==
  ASSUME FbInv, Up, UNCHANGED <<bounds, pen>>
  PROVE  Outcome' = Outcome
<1>1. /\ loop \in Loops /\ loop.i \in Cells /\ loop.i - cols \in Cells
      /\ cols \in Nat \ {0} /\ loop.call = "up" /\ loop.i < loop.last
      /\ loop.i \in Nat /\ loop.last \in Nat
  BY UpCells, Size DEF FbInv, Up, Loops
<1>2. loop' = [loop EXCEPT !.i = loop.i + 1]
  BY DEF Up
<1>3. /\ loop'.call = "up" /\ loop'.i = loop.i + 1 /\ loop'.last = loop.last
      /\ loop'.row = loop.row
  BY <1>1, <1>2, LoopFields
<1>4. \A q \in Cells : Current(q)' =
        IF q = loop.i - cols THEN Current(loop.i) ELSE Current(q)
  BY UpStep DEF Becomes
<1>5. ASSUME NEW p \in Cells PROVE Text(p)' = Text(p)
  <2>0. p \in Nat
    BY DEF Cells
  <2>1. Wiped(p)' <=> Wiped(p)
    BY <1>1, <1>3, Fixed DEF Wiped
  <2>2. Blank' = Blank
    BY BlankKept
  <2>3. CASE p + cols = loop.i
    <3>1. Source(p) = loop.i
      BY <1>1, <2>0, <2>3 DEF Source
    <3>2. Source(p)' = p
      BY <1>1, <1>3, <2>0, <2>3, Fixed DEF Source
    <3>3. p = loop.i - cols
      BY <1>1, <2>0, <2>3
    <3> QED
      BY <1>4, <2>1, <2>2, <3>1, <3>2, <3>3, TextNow, TextNext
  <2>4. CASE p + cols # loop.i
    <3>1. PICK s : s = Source(p)
      OBVIOUS
    <3>2. s \in Cells /\ s # loop.i - cols
      BY <1>1, <2>0, <2>4, <3>1, UpEnds DEF FbInv, Source
    <3>3. Source(p)' = s
      BY <1>1, <1>3, <2>0, <2>4, <3>1, Fixed DEF Source
    <3> QED
      BY <1>4, <2>1, <2>2, <3>1, <3>2, <3>3, TextNow, TextNext
  <2> QED
    BY <2>3, <2>4
<1> QED
  BY <1>5, TextIs

LEMMA DownText ==
  ASSUME FbInv, Down, UNCHANGED <<bounds, pen>>
  PROVE  Outcome' = Outcome
<1>1. /\ loop \in Loops /\ loop.i - 1 \in Cells /\ loop.i - 1 + cols \in Cells
      /\ cols \in Nat \ {0} /\ loop.call = "down" /\ loop.i > loop.last
      /\ loop.i \in Nat /\ loop.last \in Nat
  BY DownCells, Size DEF FbInv, Down, Loops
<1>2. loop' = [loop EXCEPT !.i = loop.i - 1]
  BY DEF Down
<1>3. /\ loop'.call = "down" /\ loop'.i = loop.i - 1 /\ loop'.last = loop.last
      /\ loop'.row = loop.row
  BY <1>1, <1>2, LoopFields
<1>4. \A q \in Cells : Current(q)' =
        IF q = loop.i - 1 + cols THEN Current(loop.i - 1) ELSE Current(q)
  BY DownStep DEF Becomes
<1>5. ASSUME NEW p \in Cells PROVE Text(p)' = Text(p)
  <2>0. p \in Nat
    BY DEF Cells
  <2>1. Wiped(p)' <=> Wiped(p)
    BY <1>1, <1>3, Fixed DEF Wiped
  <2>2. Blank' = Blank
    BY BlankKept
  <2>3. CASE p = loop.i - 1 + cols
    <3>1. Source(p) = loop.i - 1
      BY <1>1, <2>0, <2>3 DEF Source
    <3>2. Source(p)' = p
      BY <1>1, <1>3, <2>0, <2>3, Fixed DEF Source
    <3> QED
      BY <1>4, <2>1, <2>2, <2>3, <3>1, <3>2, TextNow, TextNext
  <2>4. CASE p # loop.i - 1 + cols
    <3>1. PICK s : s = Source(p)
      OBVIOUS
    <3>2. s \in Cells /\ s # loop.i - 1 + cols
      BY <1>1, <2>0, <2>4, <3>1, Size DEF FbInv, Source, Cells
    <3>3. Source(p)' = s
      BY <1>1, <1>3, <2>0, <2>4, <3>1, Fixed DEF Source
    <3> QED
      BY <1>4, <2>1, <2>2, <3>1, <3>2, <3>3, TextNow, TextNext
  <2> QED
    BY <2>3, <2>4
<1> QED
  BY <1>5, TextIs

LEMMA ShiftedText ==
  ASSUME FbInv, Shifted, UNCHANGED <<bounds, pen>>
  PROVE  Outcome' = Outcome
<1>1. /\ loop \in Loops /\ cols \in Nat \ {0} /\ loop.i \in Nat /\ loop.last \in Nat
      /\ loop.row \in 0..(rows - 1) /\ loop.row \in Nat
  BY ShiftedStep, Size DEF FbInv, Loops
<1>2. /\ loop'.call = "blank" /\ loop'.i = loop.row * cols
      /\ loop'.last = (loop.row + 1) * cols
  BY DEF Shifted, ClearRow, Loop
<1>3. \A q \in Cells : Current(q)' = Current(q)
  BY CellsKept DEF Shifted, FbInv
<1>4. ASSUME NEW p \in Cells PROVE Text(p)' = Text(p)
  <2>0. p \in Nat
    BY DEF Cells
  <2>1. p \div cols = loop.row <=> loop.row * cols <= p /\ p < (loop.row + 1) * cols
    BY <1>1, <2>0, InRow
  <2>2. loop.row * cols \in Nat /\ (loop.row + 1) * cols \in Nat
    BY <1>1
  <2>3. Wiped(p)' <=> p \div cols = loop.row
    BY <1>2, <2>0, <2>1, <2>2 DEF Wiped
  <2>4. Wiped(p) <=> p \div cols = loop.row
    BY <1>1 DEF Wiped, Shifted
  <2>5. Source(p) = p
    BY <1>1, <2>0 DEF Source, Shifted
  <2>6. Source(p)' = p
    BY <1>2 DEF Source
  <2> QED
    BY <1>3, <2>3, <2>4, <2>5, <2>6, BlankKept, TextNow, TextNext
<1> QED
  BY <1>4, TextIs

LEMMA EraseText ==
  ASSUME FbInv, Erase, UNCHANGED <<bounds, pen>>
  PROVE  Outcome' = Outcome
<1>1. /\ loop \in Loops /\ loop.i \in Cells /\ loop.call = "blank"
      /\ loop.i < loop.last /\ loop.i \in Nat /\ loop.last \in Nat
  BY BlankCells DEF FbInv, Erase, Loops
<1>2. loop' = [loop EXCEPT !.i = loop.i + 1]
  BY DEF Erase
<1>3. loop'.call = "blank" /\ loop'.i = loop.i + 1 /\ loop'.last = loop.last
  BY <1>1, <1>2, LoopFields
<1>4. \A q \in Cells : Current(q)' = IF q = loop.i THEN Blank ELSE Current(q)
  BY EraseStep DEF Becomes
<1>5. ASSUME NEW p \in Cells PROVE Text(p)' = Text(p)
  <2>0. p \in Nat
    BY DEF Cells
  <2>1. Wiped(p) <=> p >= loop.i /\ p < loop.last
    BY <1>1 DEF Wiped
  <2>2. Source(p)' = p
    BY <1>3 DEF Source
  <2>3. Source(p) = p
    BY <1>1 DEF Source
  <2>4. Wiped(p)' <=> p >= loop.i + 1 /\ p < loop.last
    BY <1>3 DEF Wiped
  <2>5. Wiped(p) <=> p = loop.i \/ Wiped(p)'
    BY <1>1, <2>0, <2>1, <2>3, <2>4
  <2>6. p = loop.i => ~ Wiped(p)'
    BY <1>1, <2>0, <2>4
  <2> QED
    BY <1>4, <2>2, <2>3, <2>5, <2>6, BlankKept, TextNow, TextNext
<1> QED
  BY <1>5, TextIs

(* A blanking loop that has ended leaves the text as the cells have it.    *)
LEMMA ErasedText ==
  ASSUME FbInv, Erased, UNCHANGED bounds
  PROVE  /\ Outcome = [p \in Cells |-> Current(p)]
         /\ Outcome' = [p \in Cells |-> Current(p)']
<1>1. /\ loop \in Loops /\ loop.call = "blank"
      /\ loop.i >= loop.last /\ loop.i \in Nat /\ loop.last \in Nat
  BY BlankCells DEF FbInv, Erased, Loops
<1>2. ASSUME NEW p \in Cells PROVE Text(p) = Current(p)
  <2>1. Source(p) = p /\ ~ Wiped(p)
    BY <1>1 DEF Source, Wiped, Cells
  <2> QED
    BY <2>1, TextNow
<1>3. loop' = Idle
  BY DEF Erased
<1> QED
  BY <1>2, <1>3, TextIs, SettledNext

LEMMA PutDrawing ==
  ASSUME FbInv, FbInv', UNCHANGED <<bounds, framebuffer>>,
         NEW g \in Glyphs \cup {Space}, NEW x \in Nat, NEW y \in Nat,
         request' = PutRequest(g, x, y),
         Outcome = [p \in Cells |-> Current(p)],
         Outcome' = [p \in Cells |-> Current(p)'],
         \A q \in Cells : Current(q)' =
           IF OnGrid(x, y) /\ q = At(x, y) THEN Char(g, pen) ELSE Current(q)
  PROVE  Abstract!Request
<1> DEFINE at == IF OnGrid(x, y) THEN At(x, y) ELSE -1
           c == Char(g, pen)
<1>1. at \in Cells \cup {-1}
  BY AtIsCell DEF FbInv
<1>2. c \in Chars
  BY CharIsChar DEF FbInv, OthersOK
<1>3. request' = <<"put", at, c>>
  BY DEF PutRequest
<1>4. \A q \in Cells : q = at <=> OnGrid(x, y) /\ q = At(x, y)
  BY DEF Cells
<1> HIDE DEF at
<1>5. Outcome' = [q \in Cells |-> IF q = at THEN c ELSE Outcome[q]]
  BY <1>4
<1>6. Abstract!Put(at, c)
  BY <1>3, <1>5, Drawing, Mapping DEF Abstract!Put
<1> QED
  BY <1>1, <1>2, <1>6, Mapping DEF Abstract!Request

LEMMA StepText ==
  ASSUME FbInv, Step, UNCHANGED bounds
  PROVE  Abstract!Request \/ UNCHANGED <<Outcome, position, request>>
<1>0. UNCHANGED pen /\ UNCHANGED framebuffer /\ FbInv'
  BY StepKeeps DEF Step
<1>1. CASE Up
  BY <1>0, <1>1, UpText DEF Up
<1>2. CASE Down
  BY <1>0, <1>2, DownText DEF Down
<1>3. CASE Shifted
  BY <1>0, <1>3, ShiftedText DEF Shifted
<1>4. CASE Erase
  BY <1>0, <1>4, EraseText DEF Erase
<1>5. CASE Erased /\ loop.ch = Nothing
  <2>1. UNCHANGED <<position, request>> /\ \A q \in Cells : Current(q)' = Current(q)
    BY <1>0, <1>5, ErasedStep
  <2> QED
    BY <1>5, <2>1, ErasedText
<1>6. CASE Erased /\ loop.ch # Nothing
  <2>1. \A q \in Cells : Current(q)' =
          IF OnGrid(cursor_x, cursor_y) /\ q = At(cursor_x, cursor_y)
          THEN Char(loop.ch, pen) ELSE Current(q)
    BY <1>0, <1>6, ErasedStep
  <2>2. loop.ch \in Glyphs \cup {Space} /\ cursor_x \in Nat /\ cursor_y \in Nat
    BY <1>0, <1>6, ErasedStep, LoopFields DEF FbInv, OthersOK, position
  <2>3. request' = PutRequest(loop.ch, cursor_x, cursor_y)
    BY <1>6 DEF Erased
  <2> QED
    BY <1>0, <1>6, <2>1, <2>2, <2>3, ErasedText, PutDrawing
<1> QED
  BY <1>1, <1>2, <1>3, <1>4, <1>5, <1>6 DEF Step

-----------------------------------------------------------------------------
(* Each call is one request. *)
LEMMA UpRequested ==
  ASSUME FbInv, FbInv', UNCHANGED <<bounds, framebuffer, pen>>, loop = Idle,
         NEW ch, loop' = ScrollLoop(ch), request' = UpRequest,
         \A q \in Cells : Current(q)' = Current(q)
  PROVE  Abstract!Request
<1> DEFINE top == scroll_top_margin
           bottom == scroll_bottom_margin
<1>1. /\ top \in 0..(rows - 1) /\ bottom - 1 \in 0..(rows - 1) /\ bottom = bottom - 1 + 1
      /\ top \in 0..rows /\ bottom \in 0..rows /\ rows \in Nat \ {0} /\ cols \in Nat \ {0}
      /\ bottom - 1 \in Nat
  BY Size DEF FbInv, OthersOK
<1> HIDE DEF top, bottom
<1>2. /\ top * cols \in Nat /\ (top + 1) * cols = top * cols + cols
      /\ (bottom - 1) * cols \in Nat /\ bottom * cols = (bottom - 1) * cols + cols
      /\ rows * cols \in Nat /\ bottom * cols <= rows * cols
  BY <1>1, Rows DEF FbInv
<1>3. /\ loop'.call = "up" /\ loop'.i = (top + 1) * cols /\ loop'.last = bottom * cols
      /\ loop'.row = bottom - 1
  BY DEF ScrollLoop, Loop, top, bottom
<1>4. Blank \in {Char(Space, p) : p \in Pens} /\ Blank' = Blank
  BY BlankKept DEF FbInv, OthersOK, Blank
<1> DEFINE Scrolled == [p \in Cells |->
      CASE p >= top * cols /\ p < (bottom - 1) * cols -> Outcome[p + cols]
        [] p >= (bottom - 1) * cols /\ p < bottom * cols -> Blank
        [] OTHER -> Outcome[p]]
<1>5. ASSUME NEW p \in Cells PROVE Text(p)' = Scrolled[p]
  <2>0. p \in Nat /\ p < rows * cols
    BY <1>2 DEF Cells
  <2>1. p \div cols = bottom - 1 <=> (bottom - 1) * cols <= p /\ p < bottom * cols
    BY <1>1, <2>0, InRow
  <2>2. Wiped(p)' <=> p >= (bottom - 1) * cols /\ p < bottom * cols
    BY <1>3, <2>1, Fixed DEF Wiped
  <2>3. CASE p >= top * cols /\ p < (bottom - 1) * cols
    <3>1. Source(p)' = p + cols
      BY <1>1, <1>2, <1>3, <2>0, <2>3, Fixed DEF Source
    <3>2. p + cols \in Cells /\ ~ Wiped(p)'
      BY <1>1, <1>2, <2>0, <2>2, <2>3 DEF Cells
    <3>3. Text(p)' = Current(p + cols)
      BY <3>1, <3>2, TextNext
    <3>4. Outcome[p + cols] = Current(p + cols)
      BY <3>2, Settled
    <3> QED
      BY <1>1, <1>2, <2>0, <2>3, <3>3, <3>4
  <2>4. CASE Wiped(p)'
    <3>1. Text(p)' = Blank
      BY <1>4, <2>4 DEF Text
    <3> QED
      BY <1>2, <2>0, <2>2, <2>4, <3>1
  <2>5. CASE ~ Wiped(p)' /\ ~ (p >= top * cols /\ p < (bottom - 1) * cols)
    <3>1. Source(p)' = p
      BY <1>1, <1>2, <1>3, <2>0, <2>5, Fixed DEF Source
    <3>2. Text(p)' = Current(p)
      BY <2>5, <3>1, TextNext
    <3> QED
      BY <2>2, <2>5, <3>2, Settled
  <2> QED
    BY <2>3, <2>4, <2>5
<1>6. Outcome' = Scrolled
  BY <1>5, TextIs
<1>7. Abstract!ScrollUp(top, bottom, Blank)
  BY <1>6, Drawing, Mapping DEF Abstract!ScrollUp, UpRequest, top, bottom
<1> QED
  BY <1>1, <1>4, <1>7 DEF Abstract!Request

LEMMA DownRequested ==
  ASSUME FbInv, FbInv', NEW top \in 0..(rows - 1), revscroll(top), UNCHANGED bounds
  PROVE  Abstract!Request
<1> DEFINE bottom == scroll_bottom_margin
<1>0. /\ loop = Idle /\ request' = <<"down", top, bottom, Blank>>
      /\ UNCHANGED <<framebuffer, pen>>
  BY Counted DEF revscroll, screenState
<1>1. /\ bottom - 1 \in 0..(rows - 1) /\ bottom = bottom - 1 + 1
      /\ top \in 0..rows /\ bottom \in 0..rows /\ rows \in Nat \ {0} /\ cols \in Nat \ {0}
      /\ top \in Nat
  BY Size DEF FbInv, OthersOK
<1>3. /\ loop'.call = "down" /\ loop'.i = (bottom - 1) * cols /\ loop'.last = top * cols
      /\ loop'.row = top
  BY DEF revscroll, RevscrollLoop, Loop
<1> HIDE DEF bottom
<1>2. /\ top * cols \in Nat /\ (top + 1) * cols = top * cols + cols
      /\ (bottom - 1) * cols \in Nat /\ bottom * cols = (bottom - 1) * cols + cols
      /\ rows * cols \in Nat /\ bottom * cols <= rows * cols
  BY <1>1, Rows DEF FbInv
<1>4. Blank \in {Char(Space, p) : p \in Pens} /\ Blank' = Blank
  BY <1>0, BlankKept DEF FbInv, OthersOK, Blank
<1>5. \A q \in Cells : Current(q)' = Current(q)
  BY RevscrollStep
<1> DEFINE Scrolled == [p \in Cells |->
      CASE p >= (top + 1) * cols /\ p < bottom * cols -> Outcome[p - cols]
        [] p >= top * cols /\ p < (top + 1) * cols -> Blank
        [] OTHER -> Outcome[p]]
<1>6. ASSUME NEW p \in Cells PROVE Text(p)' = Scrolled[p]
  <2>0. p \in Nat /\ p < rows * cols
    BY <1>2 DEF Cells
  <2>1. p \div cols = top <=> top * cols <= p /\ p < (top + 1) * cols
    BY <1>1, <2>0, InRow
  <2>2. Wiped(p)' <=> p >= top * cols /\ p < (top + 1) * cols
    BY <1>3, <2>1, Fixed DEF Wiped
  <2>3. CASE p >= (top + 1) * cols /\ p < bottom * cols
    <3>1. Source(p)' = p - cols
      BY <1>1, <1>2, <1>3, <2>0, <2>3, Fixed DEF Source
    <3>2. p - cols \in Cells /\ ~ Wiped(p)'
      BY <1>1, <1>2, <2>0, <2>2, <2>3 DEF Cells
    <3>3. Text(p)' = Current(p - cols)
      BY <1>5, <3>1, <3>2, TextNext
    <3>4. Outcome[p - cols] = Current(p - cols)
      BY <1>0, <3>2, Settled
    <3> QED
      BY <1>1, <1>2, <2>0, <2>3, <3>3, <3>4
  <2>4. CASE Wiped(p)'
    <3>1. Text(p)' = Blank
      BY <1>4, <2>4 DEF Text
    <3> QED
      BY <1>2, <2>0, <2>2, <2>4, <3>1
  <2>5. CASE ~ Wiped(p)' /\ ~ (p >= (top + 1) * cols /\ p < bottom * cols)
    <3>1. Source(p)' = p
      BY <1>1, <1>2, <1>3, <2>0, <2>5, Fixed DEF Source
    <3>2. Text(p)' = Current(p)
      BY <1>5, <2>5, <3>1, TextNext
    <3> QED
      BY <1>0, <2>2, <2>5, <3>2, Settled
  <2> QED
    BY <2>3, <2>4, <2>5
<1>7. Outcome' = Scrolled
  BY <1>6, TextIs
<1>8. Abstract!ScrollDown(top, bottom, Blank)
  BY <1>0, <1>7, Drawing, Mapping DEF Abstract!ScrollDown
<1> QED
  BY <1>1, <1>4, <1>8 DEF Abstract!Request

LEMMA ClearRequested ==
  ASSUME FbInv, FbInv', NEW move \in BOOLEAN, clear(move), UNCHANGED bounds
  PROVE  Abstract!Request
<1>1. loop = Idle /\ request' = <<"clear", Blank>> /\ UNCHANGED <<framebuffer, pen>>
  BY Counted DEF clear, screenState
<1>2. loop'.call = "blank" /\ loop'.i = 0 /\ loop'.last = rows * cols
  BY DEF clear, ClearAll, Loop
<1>3. Blank \in {Char(Space, p) : p \in Pens} /\ Blank' = Blank
  BY <1>1, BlankKept DEF FbInv, OthersOK, Blank
<1>4. ASSUME NEW p \in Cells PROVE Text(p)' = Blank
  <2>1. rows * cols \in Nat
    BY Size DEF FbInv
  <2>2. Wiped(p)'
    BY <1>2, <2>1 DEF Wiped, Cells
  <2> QED
    BY <1>3, <2>2 DEF Text
<1>5. Outcome' = [p \in Cells |-> Blank]
  BY <1>4, TextIs
<1>6. Abstract!Clear(Blank)
  BY <1>1, <1>5, Drawing, Mapping DEF Abstract!Clear
<1> QED
  BY <1>3, <1>6 DEF Abstract!Request

LEMMA PutRequested ==
  ASSUME FbInv, FbInv', NEW g \in Glyphs \cup {Space}, raw_putchar(g), UNCHANGED bounds
  PROVE  Abstract!Request
<1>1. loop = Idle /\ UNCHANGED <<framebuffer, pen>>
  BY Counted DEF raw_putchar
<1>2. CASE Scrolls
  <2>1. loop' = ScrollLoop(g) /\ request' = UpRequest
    BY <1>2, Counted DEF raw_putchar
  <2>2. \A q \in Cells : Current(q)' = Current(q)
    BY <1>2, PutStep
  <2> QED
    BY <1>1, <2>1, <2>2, UpRequested
<1>3. CASE ~ Scrolls
  <2>1. /\ loop' = Idle
        /\ \A q \in Cells : Current(q)' =
             IF OnGrid(PutX, PutY) /\ q = At(PutX, PutY)
             THEN Char(g, pen) ELSE Current(q)
    BY <1>1, <1>3, PutStep
  <2>2. request' = PutRequest(g, PutX, PutY)
    BY <1>3, Counted DEF raw_putchar
  <2>3. Outcome = [p \in Cells |-> Current(p)] /\ Outcome' = [p \in Cells |-> Current(p)']
    BY <1>1, <2>1, Settled, SettledNext
  <2> QED
    BY <1>1, <2>1, <2>2, <2>3, PutPosition, PutDrawing
<1> QED
  BY <1>2, <1>3

LEMMA CopyRequested ==
  ASSUME FbInv, FbInv', NEW old \in Cells, NEW new \in Cells, move_character(new, old),
         UNCHANGED bounds
  PROVE  Abstract!Request
<1>1. /\ loop = Idle /\ loop' = Idle /\ request' = <<"copy", old, new>>
      /\ UNCHANGED framebuffer
  BY Counted DEF move_character
<1>2. Outcome = [p \in Cells |-> Current(p)] /\ Outcome' = [p \in Cells |-> Current(p)']
  BY <1>1, Settled, SettledNext
<1>3. \A q \in Cells : Current(q)' = IF q = new THEN Current(old) ELSE Current(q)
  BY MoveStep DEF Becomes
<1>4. Outcome' = [Outcome EXCEPT ![new] = Outcome[old]]
  BY <1>2, <1>3
<1>5. Abstract!Copy(old, new)
  BY <1>1, <1>4, Drawing DEF Abstract!Copy
<1> QED
  BY <1>5, Mapping DEF Abstract!Request

LEMMA QuietRequested ==
  ASSUME FbInv, FbInv', Quiet, UNCHANGED bounds
  PROVE  Abstract!Request
<1>1. loop = Idle /\ loop' = Idle /\ request' = <<"none">> /\ UNCHANGED framebuffer
  BY DEF Quiet, NoDrawing
<1>2. Outcome = [p \in Cells |-> Current(p)] /\ Outcome' = [p \in Cells |-> Current(p)']
  BY <1>1, Settled, SettledNext
<1>3. \A q \in Cells : Current(q)' = Current(q)
  BY CellsKept DEF Quiet, FbInv
<1>4. Outcome' = Outcome
  BY <1>2, <1>3
<1>5. Abstract!NoDrawing
  BY <1>1, <1>4, Drawing DEF Abstract!NoDrawing
<1> QED
  BY <1>5 DEF Abstract!Request

LEMMA FlushRequested ==
  ASSUME DrawInv, FbInv', double_buffer_flush, UNCHANGED bounds
  PROVE  Abstract!Request /\ Seen'
<1>1. loop = Idle /\ loop' = Idle /\ request' = <<"flush">>
  BY DEF double_buffer_flush
<1>2. Outcome = [p \in Cells |-> Current(p)] /\ Outcome' = [p \in Cells |-> Current(p)']
  BY <1>1, Settled, SettledNext
<1>3. \A p \in Cells : grid'[p] = Current(p) /\ Current(p)' = Current(p)
  BY FlushStep DEF DrawInv
<1>4. Outcome' = Outcome
  BY <1>2, <1>3
<1>5. \A p \in Cells : p = CursorAt <=> p \in CursorCell
  BY DEF CursorAt, CursorCell, Cells
<1>6. ASSUME NEW p \in Cells, p \in OldCursorCell PROVE p \notin CursorCell
  <2>1. /\ OnGrid(old_cursor_x, old_cursor_y) /\ p = At(old_cursor_x, old_cursor_y)
        /\ <<old_cursor_x, old_cursor_y>> # position \/ ~ cursor_enabled
    BY <1>6 DEF OldCursorCell
  <2> SUFFICES ASSUME p \in CursorCell PROVE FALSE
    OBVIOUS
  <2>2. cursor_enabled /\ OnGrid(cursor_x, cursor_y) /\ p = At(cursor_x, cursor_y)
    BY DEF CursorCell
  <2>3. /\ old_cursor_x \in Nat /\ old_cursor_y \in Nat /\ cursor_x \in Nat
        /\ cursor_y \in Nat /\ cols \in Nat
    BY Size DEF DrawInv, FbInv, OthersOK, position
  <2>4. /\ old_cursor_x < cols /\ cursor_x < cols
        /\ old_cursor_y * cols + old_cursor_x = cursor_y * cols + cursor_x
    BY <2>1, <2>2 DEF OnGrid, At
  <2>5. old_cursor_x = cursor_x /\ old_cursor_y = cursor_y
    BY <2>3, <2>4, OneCell
  <2> QED
    BY <2>1, <2>2, <2>5 DEF position
<1>7. ASSUME NEW p \in Cells, p \notin OldCursorCell \cup Drawn \cup CursorCell
      PROVE  framebuffer[p] = plot_char(Current(p))
  <2>1. Current(p) = grid[p]
    BY <1>7, DrawnIsMapped, OneItem DEF DrawInv, FbInv
  <2>2. ~ OnOldCursor(p)
    BY <1>7 DEF OnOldCursor, OldCursorCell, CursorCell, position
  <2> QED
    BY <2>1, <2>2 DEF DrawInv, Seen
<1>8. \A p \in Cells : framebuffer'[p] =
        plot_char(IF p = CursorAt THEN Inverse(Current(p)) ELSE Current(p))
  <2> TAKE p \in Cells
  <2>1. framebuffer'[p] =
          IF p \in OldCursorCell \cup Drawn THEN plot_char(grid'[p])
          ELSE IF p \in CursorCell THEN plot_char(Inverse(Current(p)))
          ELSE framebuffer[p]
    BY DEF double_buffer_flush
  <2>2. p \in Drawn => p \notin CursorCell
    BY DEF Drawn
  <2>3. CASE p \in OldCursorCell \cup Drawn
    <3>1. p # CursorAt
      BY <1>5, <1>6, <2>2, <2>3
    <3> QED
      BY <1>3, <2>1, <2>3, <3>1
  <2>4. CASE p \notin OldCursorCell \cup Drawn /\ p \in CursorCell
    BY <1>5, <2>1, <2>4
  <2>5. CASE p \notin OldCursorCell \cup Drawn \cup CursorCell
    BY <1>5, <1>7, <2>1, <2>5
  <2> QED
    BY <2>3, <2>4, <2>5
<1>9. \A p \in Cells : p = CursorAt => OnOldCursor(p)'
  BY <1>5, Fixed
     DEF CursorCell, OnOldCursor, double_buffer_flush, OnGrid, At
<1>10. Seen'
  BY <1>3, <1>8, <1>9, Fixed DEF Seen
<1>11. framebuffer' = Abstract!Looks(Outcome, CursorAt)
  <2>1. framebuffer' = [p \in Cells |->
          plot_char(IF p = CursorAt THEN Inverse(Current(p)) ELSE Current(p))]
    BY <1>8 DEF double_buffer_flush
  <2> QED
    BY <1>2, <2>1, Mapping DEF Abstract!Looks
<1>12. CursorAt' = CursorAt
  BY CursorKept DEF double_buffer_flush, modes
<1>13. Abstract!Flush
  BY <1>1, <1>4, <1>11, <1>12 DEF Abstract!Flush, CursorAt
<1> QED
  BY <1>10, <1>13 DEF Abstract!Request

-----------------------------------------------------------------------------
(* The refinement. *)
LEMMA SeenKept ==
  ASSUME Seen, UNCHANGED <<bounds, grid, framebuffer, old_cursor_x, old_cursor_y>>
  PROVE  Seen'
  BY Fixed DEF Seen, OnOldCursor, OnGrid, At

LEMMA DrawInitially == Init => DrawInv /\ Abstract!ScreenInit
<1> SUFFICES ASSUME Init PROVE DrawInv /\ Abstract!ScreenInit
  OBVIOUS
<1>1. FbInv
  BY FbInitially
<1>2. \A p \in Cells : grid[p] = Char(Space, Pen) /\ Current(p) = grid[p]
  BY DEF Init, Current
<1>3. rows \in Nat \ {0} /\ cols \in Nat \ {0}
  BY <1>1, Size DEF FbInv
<1>4. OnGrid(0, 0) /\ At(0, 0) = 0
  BY <1>3 DEF OnGrid, At
<1>5. CursorAt = 0
  BY <1>4 DEF Init, CursorAt, CursorCell
<1>6. Outcome = [p \in Cells |-> Char(Space, Pen)]
  BY <1>2, Settled DEF Init
<1>7. framebuffer = [p \in Cells |->
        plot_char(IF p = 0 THEN Inverse(grid[p]) ELSE grid[p])]
  BY DEF Init
<1>8. Seen
  BY <1>4, <1>7 DEF Seen, OnOldCursor, Init
<1>9. framebuffer = Abstract!Looks(Outcome, CursorAt)
  BY <1>2, <1>5, <1>6, <1>7, Mapping DEF Abstract!Looks
<1>10. Abstract!ScreenInit
  BY <1>5, <1>6, <1>9, Mapping DEF Abstract!ScreenInit, CursorAt, Init
<1> QED
  BY <1>1, <1>8, <1>10 DEF DrawInv

LEMMA DrawNext ==
  ASSUME DrawInv, Next
  PROVE  DrawInv' /\ [Abstract!ScreenNext]_(Abstract!screen)
<1>0. FbInv /\ FbInv' /\ Seen /\ UNCHANGED bounds
  BY FbNext DEF DrawInv, Next
<1>1. ASSUME Abstract!Request PROVE Abstract!ScreenNext
  BY <1>0, <1>1, SameSize DEF Abstract!ScreenNext
<1>2. CASE double_buffer_flush
  BY <1>0, <1>1, <1>2, FlushRequested DEF DrawInv
<1>3. CASE Step
  <2>1. UNCHANGED <<grid, framebuffer, old_cursor_x, old_cursor_y>>
    BY <1>3 DEF Step, Up, Down, Shifted, Erase, Erased, Copy, push_to_queue, cells
  <2>2. Seen'
    BY <1>0, <2>1, SeenKept
  <2>3. ASSUME UNCHANGED <<Outcome, position, request>> PROVE UNCHANGED Abstract!screen
    BY <1>0, <1>3, <2>1, <2>3, CursorKept, Fixed, SameSize, Mapping DEF Step, modes
  <2> QED
    BY <1>0, <1>1, <1>3, <2>2, <2>3, StepText DEF DrawInv
<1>4. CASE QuietCall
  <2>1. Quiet
    BY <1>0, <1>4, QuietStep
  <2> QED
    BY <1>0, <1>1, <2>1, QuietRequested, SeenKept DEF Quiet, cells, DrawInv
<1>5. ASSUME NEW g \in Glyphs \cup {Space}, raw_putchar(g)
      PROVE  Abstract!Request /\ Seen'
  BY <1>0, <1>5, PutRequested, SeenKept DEF raw_putchar, cells, push_to_queue
<1>6. ASSUME NEW old \in Cells, NEW new \in Cells, move_character(new, old)
      PROVE  Abstract!Request /\ Seen'
  BY <1>0, <1>6, CopyRequested, SeenKept DEF move_character, Copy, push_to_queue
<1>7. ASSUME scroll PROVE Abstract!Request /\ Seen'
  <2>1. /\ loop = Idle /\ loop' = ScrollLoop(Nothing) /\ request' = UpRequest
        /\ UNCHANGED <<framebuffer, pen>>
    BY <1>0, <1>7, Counted DEF scroll, screenState
  <2> QED
    BY <1>0, <1>7, <2>1, ScrollStep, UpRequested, SeenKept DEF scroll, screenState, cells
<1>8. ASSUME NEW top \in 0..(rows - 1), revscroll(top)
      PROVE  Abstract!Request /\ Seen'
  BY <1>0, <1>8, DownRequested, SeenKept DEF revscroll, screenState, cells
<1>9. ASSUME NEW move \in BOOLEAN, clear(move) PROVE Abstract!Request /\ Seen'
  BY <1>0, <1>9, ClearRequested, SeenKept DEF clear, screenState, cells
<1> QED
  BY <1>0, <1>1, <1>2, <1>3, <1>4, <1>5, <1>6, <1>7, <1>8, <1>9
     DEF Next, Operation, QuietCall, DrawInv

LEMMA DrawStutter ==
  ASSUME DrawInv, UNCHANGED vars
  PROVE  DrawInv' /\ UNCHANGED Abstract!screen
<1>1. FbInv'
  BY FbStutter DEF DrawInv
<1>2. Seen'
  BY SeenKept DEF DrawInv, vars, cells
<1>3. Outcome' = Outcome
  BY DEF vars, cells, Outcome, Wiped, Source, Current, Cells, rows, cols, Blank, Char, NULL
<1>4. CursorAt' = CursorAt
  BY CursorKept DEF vars, modes
<1> QED
  BY <1>1, <1>2, <1>3, <1>4, Fixed, SameSize, Mapping DEF DrawInv, vars

(* The back end implements a grid that changes at once and is drawn whole  *)
(* at every flush: what a loop has still to do, what waits in the queue    *)
(* and the repainting of one old cell alone cannot be told from it.        *)
THEOREM DrawsWhatIsAsked == Spec => ImplementsScreen
<1>1. Init => DrawInv /\ Abstract!ScreenInit
  BY DrawInitially
<1>2. DrawInv /\ [Next]_vars => DrawInv' /\ [Abstract!ScreenNext]_(Abstract!screen)
  BY DrawNext, DrawStutter
<1> QED
  BY <1>1, <1>2, PTL DEF Spec, ImplementsScreen, Abstract!ScreenSpec
-----------------------------------------------------------------------------
(* flanterm_fb_init.  What it computes depends on the framebuffer alone.   *)
LEMMA Scales == FontScale \in {1, 2, 4}
  BY DEF FontScale

LEMMA GlyphSizes == Glyph[1] \in {9, 18, 36} /\ Glyph[2] \in {16, 32, 64}
  BY Scales DEF Glyph, Font

LEMMA Sides ==
  ASSUME frame \in Framebuffers
  PROVE  frame.width \in Nat /\ frame.height \in Nat
  BY FbInitAssumption

LEMMA Columns ==
  ASSUME frame \in Framebuffers
  PROVE  Grid[1] \in Nat /\ Grid[1] <= 213
<1>1. Shown[1] \in Nat /\ Shown[1] <= 1920
  <2>1. frame.width \in Nat
    BY Sides
  <2>2. Limited(frame.width, 1920) \in Nat /\ Limited(frame.width, 1920) <= 1920
    BY <2>1 DEF Limited
  <2> QED
    BY <2>2 DEF Shown, WidthLimit
<1>2. Grid[1] = Shown[1] \div Glyph[1]
  BY DEF Grid
<1>3. CASE Glyph[1] = 9
  BY <1>1, <1>2, <1>3
<1>4. CASE Glyph[1] = 18
  BY <1>1, <1>2, <1>4
<1>5. CASE Glyph[1] = 36
  BY <1>1, <1>2, <1>5
<1> QED
  BY <1>3, <1>4, <1>5, GlyphSizes

LEMMA Lines ==
  ASSUME frame \in Framebuffers
  PROVE  Grid[2] \in Nat /\ Grid[2] <= 75
<1>1. Shown[2] \in Nat /\ Shown[2] <= 1200
  <2>1. frame.height \in Nat
    BY Sides
  <2>2. Limited(frame.height, 1200) \in Nat /\ Limited(frame.height, 1200) <= 1200
    BY <2>1 DEF Limited
  <2> QED
    BY <2>2 DEF Shown, HeightLimit
<1>2. Grid[2] = Shown[2] \div Glyph[2]
  BY DEF Grid
<1>3. CASE Glyph[2] = 16
  BY <1>1, <1>2, <1>3
<1>4. CASE Glyph[2] = 32
  BY <1>1, <1>2, <1>4
<1>5. CASE Glyph[2] = 64
  BY <1>1, <1>2, <1>5
<1> QED
  BY <1>3, <1>4, <1>5, GlyphSizes

(* 213 columns of 75 characters are the most that the limits allow.        *)
LEMMA FewCells ==
  ASSUME frame \in Framebuffers
  PROVE  GridCells \in Nat /\ GridCells <= 15975
<1>1. Grid[2] * Grid[1] <= 75 * Grid[1]
  BY Columns, Lines, Multiples
<1>2. Grid[2] * Grid[1] \in Nat
  BY Columns, Lines
<1>3. 75 * Grid[1] <= 15975
  BY Columns
<1> QED
  BY <1>1, <1>2, <1>3, Columns DEF GridCells

(* Where allocation n lies if those before it succeed; where the pool ends *)
(* after the last.                                                         *)
Places ==
  <<0, 792, 4888, 41752, 41752 + 12 * GridCells, 41752 + 44 * GridCells, 41752 + 52 * GridCells>>
Place(n) == Places[n]

LEMMA Request ==
  /\ Len(Requests) = 6
  /\ Requests[1] = 792 /\ Requests[2] = 4096 /\ Requests[3] = 36864
  /\ Requests[4] = GridCells * 12 /\ Requests[5] = GridCells * 32 /\ Requests[6] = GridCells * 8
  BY DEF Requests, ContextSize, Font, FontGlyphs, CharSize, ItemSize, MapItemSize

LEMMA NextPlace ==
  ASSUME frame \in Framebuffers, NEW n \in 1..6
  PROVE  /\ Place(n) \in Nat /\ Place(n + 1) \in Nat
         /\ Place(n) + Requests[n] = Place(n + 1)
         /\ Place(n + 1) <= PoolSize
<1>1. GridCells \in Nat /\ GridCells <= 15975
  BY FewCells
<1> DEFINE c == GridCells
<1>2. /\ Place(1) = 0 /\ Place(2) = 792 /\ Place(3) = 4888 /\ Place(4) = 41752
      /\ Place(5) = 41752 + 12 * c /\ Place(6) = 41752 + 44 * c /\ Place(7) = 41752 + 52 * c
  BY DEF Place, Places
<1>3. /\ Requests[1] = 792 /\ Requests[2] = 4096 /\ Requests[3] = 36864
      /\ Requests[4] = c * 12 /\ Requests[5] = c * 32 /\ Requests[6] = c * 8
  BY Request
<1>4. c \in Nat /\ c <= 15975 /\ PoolSize = 873000
  BY <1>1 DEF PoolSize
<1> HIDE DEF c
<1>5. n = 1 \/ n = 2 \/ n = 3 \/ n = 4 \/ n = 5 \/ n = 6
  OBVIOUS
<1> QED
  BY <1>2, <1>3, <1>4, <1>5

Placed ==
  /\ taken \in Seq(Nat)
  /\ Len(taken) \in 0..6
  /\ bump_alloc_ptr = Place(Len(taken) + 1)
  /\ \A i \in 1..Len(taken) : taken[i] = Place(i)

PoolInv ==
  /\ frame \in Framebuffers
  /\ phase \in {"masks", "alloc", "ready", "null", "report"}
  /\ phase = "null" => ~ TrueColour
  /\ phase = "masks" => bump_alloc_ptr = 0 /\ taken = <<>>
  /\ phase \in {"alloc", "ready", "report"} => Placed
  /\ phase \in {"ready", "report"} => Len(taken) = 6
  /\ phase = "report" => taken[6] % 8 # 0

LEMMA SameFrame ==
  ASSUME UNCHANGED frame
  PROVE  GridCells' = GridCells /\ TrueColour' = TrueColour /\ Places' = Places
<1>1. GridCells' = GridCells
  BY DEF GridCells, Grid, Shown, Glyph, Font, FontScale
<1>2. TrueColour' = TrueColour
  BY DEF TrueColour
<1> QED
  BY <1>1, <1>2 DEF Places

LEMMA PoolInitially == FbInitInit => PoolInv
  BY DEF FbInitInit, PoolInv

LEMMA PlacedKept ==
  ASSUME Placed, UNCHANGED <<frame, bump_alloc_ptr, taken>>
  PROVE  Placed'
  BY SameFrame DEF Placed, Place

LEMMA PlacedFirst ==
  ASSUME UNCHANGED frame, bump_alloc_ptr' = 0, taken' = <<>>
  PROVE  Placed'
<1>1. Place(1)' = 0
  BY DEF Place, Places
<1>2. taken' \in Seq(Nat) /\ Len(taken') = 0
  OBVIOUS
<1> QED
  BY <1>1, <1>2 DEF Placed

LEMMA PlacedNext ==
  ASSUME PoolInv, bump_alloc
  PROVE  Placed' /\ phase' = "alloc" /\ UNCHANGED frame
<1> DEFINE n == Len(taken) + 1
<1>1. /\ frame \in Framebuffers /\ phase = "alloc" /\ Placed /\ UNCHANGED frame
      /\ Len(taken) < 6
  BY Request DEF bump_alloc, PoolInv
<1>2. taken \in Seq(Nat) /\ n \in 1..6 /\ n = Len(taken) + 1
  BY <1>1 DEF Placed
<1>3. bump_alloc_ptr = Place(n) /\ \A i \in 1..Len(taken) : taken[i] = Place(i)
  BY <1>1 DEF Placed
<1> HIDE DEF n
<1>4. /\ Place(n) \in Nat /\ Place(n + 1) \in Nat
      /\ Place(n) + Requests[n] = Place(n + 1) /\ Place(n + 1) <= PoolSize
  BY <1>1, <1>2, NextPlace
<1>5. PoolSize \in Nat
  BY DEF PoolSize
<1>6. /\ taken' = Append(taken, Place(n)) /\ bump_alloc_ptr' = Place(n + 1)
      /\ phase' = "alloc"
  BY <1>1, <1>2, <1>3, <1>4, <1>5 DEF bump_alloc
<1>7. taken' \in Seq(Nat) /\ Len(taken') = n /\ \A i \in 1..n : taken'[i] = Place(i)
  BY <1>2, <1>3, <1>4, <1>6
<1>8. Places' = Places
  BY <1>1, SameFrame
<1>9. Len(taken') + 1 = n + 1 /\ Len(taken') \in 0..6
  BY <1>2, <1>7
<1>10. bump_alloc_ptr' = Places'[Len(taken') + 1] /\ \A i \in 1..Len(taken') : taken'[i] = Places'[i]
  BY <1>6, <1>7, <1>8, <1>9 DEF Place
<1> QED
  BY <1>1, <1>6, <1>7, <1>9, <1>10 DEF Placed, Place

LEMMA PoolNext == PoolInv /\ [FbInitNext]_fbVars => PoolInv'
<1> SUFFICES ASSUME PoolInv, [FbInitNext]_fbVars PROVE PoolInv'
  OBVIOUS
<1>0. frame \in Framebuffers
  BY DEF PoolInv
<1>1. CASE check_masks
  <2>1. /\ phase' \in {"null", "alloc"} /\ (phase' = "null" => ~ TrueColour)
        /\ bump_alloc_ptr' = 0 /\ taken' = <<>> /\ UNCHANGED frame
    <3>1. /\ bump_alloc_ptr = 0 /\ taken = <<>> /\ UNCHANGED <<frame, bump_alloc_ptr, taken>>
          /\ phase' = IF frame.masks[1] < 8 \/ \E i \in 2..3 : frame.masks[i] # frame.masks[1]
                      THEN "null" ELSE "alloc"
      BY <1>1 DEF check_masks, PoolInv
    <3>2. frame.masks[1] \in Nat
      BY <1>0, FbInitAssumption
    <3> QED
      BY <3>1, <3>2 DEF TrueColour
  <2>2. Placed'
    BY <2>1, PlacedFirst
  <2> QED
    BY <1>0, <2>1, <2>2, SameFrame DEF PoolInv
<1>2. CASE bump_alloc
  BY <1>0, <1>2, PlacedNext DEF PoolInv
<1>3. CASE full_refresh
  <2>1. /\ Len(taken) = 6 /\ phase = "alloc" /\ phase' \in {"ready", "report"}
        /\ (phase' = "report" => taken[6] % 8 # 0)
        /\ UNCHANGED <<frame, bump_alloc_ptr, taken>>
    BY <1>3, Request DEF full_refresh, IsAligned, Alignments
  <2>2. Placed'
    BY <2>1, PlacedKept DEF PoolInv
  <2> QED
    BY <1>0, <2>1, <2>2 DEF PoolInv
<1>4. CASE UNCHANGED fbVars
  <2>1. UNCHANGED <<frame, bump_alloc_ptr, taken>> /\ UNCHANGED phase
    BY <1>4 DEF fbVars
  <2>2. Placed => Placed'
    BY <2>1, PlacedKept
  <2> QED
    BY <1>0, <2>1, <2>2, SameFrame DEF PoolInv
<1> QED
  BY <1>1, <1>2, <1>3, <1>4 DEF FbInitNext

(* A side of the framebuffer: s of its n pixels are used, in glyphs of g.  *)
LEMMA Inside ==
  ASSUME NEW n \in Nat, NEW s \in Nat, s <= n, NEW g \in {9, 18, 36, 16, 32, 64},
         NEW k \in 0..((s \div g) - 1), NEW p \in 0..(g - 1)
  PROVE  ((n \div 2) - (s \div 2)) + ((s % g) \div 2) + k * g + p \in 0..(n - 1)
<1>1. (n \div 2) - (s \div 2) \in Nat /\ (n \div 2) - (s \div 2) + s <= n
  OBVIOUS
<1>2. /\ s \div g \in Nat /\ s % g \in 0..(g - 1) /\ s = (s \div g) * g + (s % g)
  BY DivMod
<1>3. (s % g) \div 2 \in Nat /\ (s % g) \div 2 <= s % g
  BY <1>2
<1>4. (k + 1) * g <= (s \div g) * g /\ k * g \in Nat /\ (k + 1) * g = k * g + g
  BY <1>2, Multiples
<1> QED
  BY <1>1, <1>2, <1>3, <1>4

LEMMA InFrame ==
  ASSUME frame \in Framebuffers
  PROVE  /\ \A k \in 0..(Grid[1] - 1), g \in 0..(Glyph[1] - 1) : Pixel(1, k, g) \in 0..(frame.width - 1)
         /\ \A k \in 0..(Grid[2] - 1), g \in 0..(Glyph[2] - 1) : Pixel(2, k, g) \in 0..(frame.height - 1)
<1>0. frame.width \in Nat /\ frame.height \in Nat
  BY Sides
<1>1. Shown[1] \in Nat /\ Shown[1] <= frame.width
  <2>1. Limited(frame.width, 1920) \in Nat /\ Limited(frame.width, 1920) <= frame.width
    BY <1>0 DEF Limited
  <2> QED
    BY <2>1 DEF Shown, WidthLimit
<1>2. Shown[2] \in Nat /\ Shown[2] <= frame.height
  <2>1. Limited(frame.height, 1200) \in Nat /\ Limited(frame.height, 1200) <= frame.height
    BY <1>0 DEF Limited
  <2> QED
    BY <2>1 DEF Shown, HeightLimit
<1>3. ASSUME NEW k \in 0..(Grid[1] - 1), NEW g \in 0..(Glyph[1] - 1)
      PROVE  Pixel(1, k, g) \in 0..(frame.width - 1)
  <2>1. k \in 0..((Shown[1] \div Glyph[1]) - 1)
    BY <1>3 DEF Grid
  <2>2. ((frame.width \div 2) - (Shown[1] \div 2)) + ((Shown[1] % Glyph[1]) \div 2) + k * Glyph[1] + g
          \in 0..(frame.width - 1)
    BY <1>1, <1>3, <2>1, <1>0, GlyphSizes, Inside
  <2> QED
    BY <2>2 DEF Pixel, Corner, Offset
<1>4. ASSUME NEW k \in 0..(Grid[2] - 1), NEW g \in 0..(Glyph[2] - 1)
      PROVE  Pixel(2, k, g) \in 0..(frame.height - 1)
  <2>1. k \in 0..((Shown[2] \div Glyph[2]) - 1)
    BY <1>4 DEF Grid
  <2>2. ((frame.height \div 2) - (Shown[2] \div 2)) + ((Shown[2] % Glyph[2]) \div 2) + k * Glyph[2] + g
          \in 0..(frame.height - 1)
    BY <1>2, <1>4, <2>1, <1>0, GlyphSizes, Inside
  <2> QED
    BY <2>2 DEF Pixel, Corner, Offset
<1> QED
  BY <1>3, <1>4

LEMMA PoolFits == PoolInv => ScreenFits
<1> SUFFICES ASSUME PoolInv PROVE ScreenFits
  OBVIOUS
<1>1. frame \in Framebuffers
  BY DEF PoolInv
<1>2. ASSUME phase = "report" PROVE GridCells % 2 = 1
  <2>1. Placed /\ Len(taken) = 6 /\ taken[6] % 8 # 0
    BY <1>2 DEF PoolInv
  <2>2. taken[6] = Place(6)
    BY <2>1 DEF Placed
  <2>3. Place(6) = 41752 + 44 * GridCells
    BY DEF Place, Places
  <2>4. GridCells \in Nat
    BY <1>1, FewCells
  <2> QED
    BY <2>1, <2>2, <2>3, <2>4
<1> QED
  BY <1>1, <1>2, InFrame DEF PoolInv, ScreenFits

(* The terminal gets its memory and stays in the framebuffer, whatever the *)
(* size of the framebuffer.                                                *)
THEOREM TerminalFits == FbInitSpec => []ScreenFits
  BY PoolInitially, PoolNext, PoolFits, PTL DEF FbInitSpec

-----------------------------------------------------------------------------
(* Boot: the start of the kernel, and its two interrupts. *)

(* An interrupt is not requested before it is unmasked, which is one step  *)
(* of the main thread before its handler is stored, and the keyboard's is  *)
(* requested only when there is a byte to read.                            *)
WindowInv ==
  /\ Timer \in requested /\ Timer \notin irq_handlers => pc = "pit_handler"
  /\ Keyboard \in requested /\ Keyboard \notin irq_handlers => pc = "kb_handler"
  /\ Timer \notin masked => pc \notin {"start", "ioapic", "pit_unmask"}
  /\ Keyboard \notin masked =>
       pc \notin {"start", "ioapic", "pit_unmask", "pit_handler", "calibrate", "sleep",
                  "sleep_hlt", "asleep", "kb_unmask"}
  /\ pc \notin {"start", "ioapic", "pit_unmask", "pit_handler"} => Timer \in irq_handlers
  /\ pc \in {"shell", "hlt", "halted"} => Keyboard \in irq_handlers

PortInv == Keyboard \in requested => bytes > 0

BootIInv == BootTypeOK /\ WindowInv /\ PortInv

LEMMA BootInitially == BootInit => BootIInv
<1> SUFFICES ASSUME BootInit PROVE BootIInv
  OBVIOUS
<1>1. BootTypeOK
  <2>1. masked \subseteq Irqs /\ requested \subseteq Irqs /\ in_service \subseteq Irqs
    BY DEF BootInit
  <2>2. elapsed \in 0..Ms /\ bytes \in 0..MaxKeys
    BY BootAssumption DEF BootAssumption, BootInit
  <2> QED
    BY <2>1, <2>2 DEF BootInit, BootTypeOK
<1>2. WindowInv
  BY DEF BootInit, WindowInv, Irqs
<1>3. PortInv
  BY DEF BootInit, PortInv
<1> QED
  BY <1>1, <1>2, <1>3 DEF BootIInv

LEMMA TickStep == BootIInv /\ Tick => BootIInv'
  BY BootAssumption
  DEF BootAssumption, BootIInv, BootTypeOK, WindowInv, PortInv, Tick, Edge, Irqs, Timer, Keyboard

LEMMA KeyStep == BootIInv /\ Key => BootIInv'
<1> SUFFICES ASSUME BootIInv, Key PROVE BootIInv'
  OBVIOUS
<1>1. BootTypeOK'
  <2>1. requested' \subseteq Irqs
    BY DEF BootIInv, BootTypeOK, Key, Edge, Irqs
  <2>2. bytes' \in 0..MaxKeys
    BY BootAssumption DEF BootAssumption, BootIInv, BootTypeOK, Key
  <2>3. missed' \in BOOLEAN
    BY DEF BootIInv, BootTypeOK, Key
  <2> QED
    BY <2>1, <2>2, <2>3 DEF BootIInv, BootTypeOK, Key
<1>2. WindowInv'
  BY DEF BootIInv, BootTypeOK, WindowInv, Key, Edge, Irqs, Timer, Keyboard
<1>3. PortInv'
  BY BootAssumption DEF BootAssumption, BootIInv, BootTypeOK, PortInv, Key, Edge, Irqs, Timer, Keyboard
<1> QED
  BY <1>1, <1>2, <1>3 DEF BootIInv

(* A hlt ends in the same part of the start in which it began. *)
LEMMA WakeStep ==
  ASSUME BootIInv, Wake
  PROVE  /\ pc' \in {"start", "ioapic", "pit_unmask", "pit_handler", "calibrate", "sleep",
                     "sleep_hlt", "asleep", "kb_unmask", "kb_handler", "shell", "hlt", "halted"}
         /\ pc \in {"asleep", "halted"} \/ pc' = pc
         /\ pc = "asleep" => pc' = "sleep"
         /\ pc = "halted" => pc' = "shell"
  BY DEF BootIInv, BootTypeOK, Wake

LEMMA UnhandledStep ==
  ASSUME NEW irq \in Irqs, BootIInv, Deliverable(irq), Unhandled(irq), Wake,
         UNCHANGED <<irq_handlers, interrupts, masked, missed>>
  PROVE  BootIInv'
  BY WakeStep, BootAssumption
  DEF BootAssumption, BootIInv, BootTypeOK, WindowInv, PortInv, Deliverable, Unhandled, Irqs, Timer, Keyboard

LEMMA PitStep ==
  ASSUME NEW irq \in Irqs, BootIInv, Deliverable(irq), pit_handler(irq), Wake,
         UNCHANGED <<irq_handlers, interrupts, masked, missed>>
  PROVE  BootIInv'
  BY WakeStep, BootAssumption
  DEF BootAssumption, BootIInv, BootTypeOK, WindowInv, PortInv, Deliverable, pit_handler, Irqs, Timer, Keyboard

LEMMA KbStep ==
  ASSUME NEW irq \in Irqs, BootIInv, Deliverable(irq), kb_handler(irq), Wake,
         UNCHANGED <<irq_handlers, interrupts, masked, missed>>
  PROVE  BootIInv'
  BY WakeStep, BootAssumption
  DEF BootAssumption, BootIInv, BootTypeOK, WindowInv, PortInv, Deliverable, kb_handler, Irqs, Timer, Keyboard

LEMMA StartStep == BootIInv /\ _start => BootIInv'
<1> SUFFICES ASSUME BootIInv, _start PROVE BootIInv'
  OBVIOUS
<1> USE BootAssumption
    DEF BootAssumption, BootIInv, BootTypeOK, WindowInv, PortInv, Goto, apic, Irqs, Timer, Keyboard
<1>1. CASE idt_init
  BY <1>1 DEF idt_init
<1>2. CASE ioapic_init
  <2>1. BootTypeOK'
    <3>1. masked' \subseteq Irqs
      BY <1>2 DEF ioapic_init
    <3> QED
      BY <1>2, <3>1 DEF ioapic_init
  <2>2. WindowInv' /\ PortInv'
    BY <1>2 DEF ioapic_init
  <2> QED
    BY <2>1, <2>2
<1>3. CASE pit_init
  <2>1. CASE Goto("pit_unmask", "pit_handler") /\ Unmask(Timer)
    BY <2>1 DEF Unmask
  <2>2. CASE Goto("pit_handler", "calibrate") /\ StoreHandler(Timer)
    BY <2>2 DEF StoreHandler
  <2> QED
    BY <1>3, <2>1, <2>2 DEF pit_init
<1>4. CASE lapic_calibrate_timer
  BY <1>4 DEF lapic_calibrate_timer
<1>5. CASE kb_init
  <2>1. CASE Goto("kb_unmask", "kb_handler") /\ Unmask(Keyboard)
    BY <2>1 DEF Unmask
  <2>2. CASE Goto("kb_handler", "shell") /\ StoreHandler(Keyboard)
    BY <2>2 DEF StoreHandler
  <2> QED
    BY <1>5, <2>1, <2>2 DEF kb_init
<1>6. CASE shell_launch
  BY <1>6 DEF shell_launch
<1> QED
  BY <1>1, <1>2, <1>3, <1>4, <1>5, <1>6 DEF _start

LEMMA BootInductive == BootIInv /\ [BootNext]_bootVars => BootIInv'
<1> SUFFICES ASSUME BootIInv, [BootNext]_bootVars PROVE BootIInv'
  OBVIOUS
<1>1. CASE Tick
  BY <1>1, TickStep
<1>2. CASE Key
  BY <1>2, KeyStep
<1>3. ASSUME NEW irq \in Irqs, irq_handler(irq) PROVE BootIInv'
  BY <1>3, UnhandledStep, PitStep, KbStep DEF irq_handler
<1>4. CASE _start
  BY <1>4, StartStep
<1>5. CASE UNCHANGED bootVars
  BY <1>5 DEF BootIInv, BootTypeOK, WindowInv, PortInv, bootVars, apic
<1> QED
  BY <1>1, <1>2, <1>3, <1>4, <1>5 DEF BootNext

(* Type correctness: among others, no byte is read from an empty port      *)
(* (kb.c:18).                                                              *)
THEOREM BootTypeCorrect == BootSpec => []BootTypeOK
<1>1. BootIInv => BootTypeOK
  BY DEF BootIInv
<1> QED
  BY BootInitially, BootInductive, <1>1, PTL DEF BootSpec

LEMMA WindowOnly ==
  ASSUME BootIInv, BootNext, in_service' # in_service
  PROVE  \/ in_service' = {Timer} /\ pc = "pit_handler"
         \/ in_service' = {Keyboard} /\ pc = "kb_handler"
<1>1. ~ Tick /\ ~ Key /\ ~ _start
  BY DEF Tick, Key, _start, idt_init, ioapic_init, pit_init, lapic_calibrate_timer, kb_init,
         shell_launch, Unmask, StoreHandler, apic
<1>2. PICK irq \in Irqs : irq_handler(irq)
  BY <1>1 DEF BootNext
<1>3. Unhandled(irq) /\ irq \in requested
  BY <1>2 DEF irq_handler, pit_handler, kb_handler, Deliverable
<1> QED
  BY <1>3 DEF Unhandled, BootIInv, WindowInv, Irqs, Timer, Keyboard

(* Every interrupt is acknowledged, unless it comes between the two steps  *)
(* of its own irq_register (idt.c:73-77, 92-98).                           *)
THEOREM AcknowledgedOutsideWindow == BootSpec => OnlyInWindow
<1>1. BootIInv /\ [BootNext]_bootVars =>
        [in_service' # in_service =>
           \/ in_service' = {Timer} /\ pc = "pit_handler"
           \/ in_service' = {Keyboard} /\ pc = "kb_handler"]_bootVars
  BY WindowOnly
<1> QED
  BY BootInitially, BootInductive, <1>1, PTL DEF BootSpec, OnlyInWindow
=============================================================================
