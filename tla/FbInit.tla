------------------------------- MODULE FbInit -------------------------------
(***************************************************************************)
(* flanterm_fb_init, src/flanterm/backends/fb.c, as main.c calls it: the   *)
(* built-in font, no margin, no background picture, and memory from a pool *)
(* of a fixed size.  A step is one allocation.  What becomes of the text   *)
(* is in FbTerm.                                                           *)
(*                                                                         *)
(* The code is built with checks for undefined behaviour.  What mubsan     *)
(* would report here cannot be printed, since there is no terminal yet:    *)
(* the kernel stops.                                                       *)
(*                                                                         *)
(* A definition whose name ends in an underscore and a word is a faulty    *)
(* variant of the definition after it.                                     *)
(***************************************************************************)
EXTENDS Integers, Sequences

CONSTANT Framebuffers   \* those the boot loader may hand over

(* Sizes in pixels; the widths in bits of red, green and blue. *)
ASSUME FbInitAssumption ==
  \A f \in Framebuffers :
    f \in [width : Nat, height : Nat, masks : Nat \X Nat \X Nat]

VARIABLES
  frame,            \* the framebuffer
  bump_alloc_ptr,   \* what has been taken from the pool, in bytes
  taken,            \* where in the pool each allocation lies
  phase             \* "masks", "alloc", and then "ready", "null" or "report"

fbVars == <<frame, bump_alloc_ptr, taken, phase>>

PoolSize == 873000
WidthLimit == 1920
HeightLimit == 1200

(* On x86-64. *)
ContextSize == 792
CharSize == 12
ItemSize == 32
MapItemSize == 8

Limited(n, limit) == IF n > limit THEN limit ELSE n

(* The part of the framebuffer that is used, in the middle of it. *)
Shown_Both ==
  IF frame.width > WidthLimit /\ frame.height > HeightLimit
  THEN <<WidthLimit, HeightLimit>> ELSE <<frame.width, frame.height>>
Shown == <<Limited(frame.width, WidthLimit), Limited(frame.height, HeightLimit)>>
Corner == <<(frame.width \div 2) - (Shown[1] \div 2), (frame.height \div 2) - (Shown[2] \div 2)>>

FontScale ==
  CASE frame.width >= 3840 + 3840 \div 3 /\ frame.height >= 2160 + 2160 \div 3 -> 4
    [] frame.width >= 1920 + 1920 \div 3 /\ frame.height >= 1080 + 1080 \div 3 -> 2
    [] OTHER -> 1

(* The columns of a built-in glyph and the space after them, and its rows. *)
Font == <<8 + 1, 16>>
FontGlyphs == 256
Glyph == <<Font[1] * FontScale, Font[2] * FontScale>>

Grid == <<Shown[1] \div Glyph[1], Shown[2] \div Glyph[2]>>
Offset == <<(Shown[1] % Glyph[1]) \div 2, (Shown[2] % Glyph[2]) \div 2>>
GridCells == Grid[2] * Grid[1]

(* The context, the font as bits and as booleans, the grid, the queue and  *)
(* the map, with the alignment of what each is an array of.                *)
Requests ==
  <<ContextSize, (8 * Font[2] * FontGlyphs) \div 8, FontGlyphs * Font[2] * Font[1],
    GridCells * CharSize, GridCells * ItemSize, GridCells * MapItemSize>>
Alignments == <<8, 1, 1, 4, 8, 8>>

IsAligned(i) == taken[i] % Alignments[i] = 0
-----------------------------------------------------------------------------
FbInitInit ==
  /\ frame \in Framebuffers
  /\ bump_alloc_ptr = 0
  /\ taken = <<>>
  /\ phase = "masks"

check_masks ==
  /\ phase = "masks"
  /\ phase' = IF frame.masks[1] < 8 \/ \E i \in 2..3 : frame.masks[i] # frame.masks[1]
              THEN "null" ELSE "alloc"
  /\ UNCHANGED <<frame, bump_alloc_ptr, taken>>

bump_alloc ==
  /\ phase = "alloc"
  /\ Len(taken) < Len(Requests)
  /\ LET next_ptr == bump_alloc_ptr + Requests[Len(taken) + 1]
     IN  \/ /\ next_ptr <= PoolSize
            /\ taken' = Append(taken, bump_alloc_ptr)
            /\ bump_alloc_ptr' = next_ptr
            /\ UNCHANGED phase
         \/ /\ next_ptr > PoolSize
            /\ phase' = "null"
            /\ bump_alloc_ptr' = 0
            /\ UNCHANGED taken
  /\ UNCHANGED frame

(* The end of the call draws the text and the cursor, for which it looks   *)
(* into the map, if there is any cell for the cursor.                      *)
full_refresh ==
  /\ phase = "alloc"
  /\ Len(taken) = Len(Requests)
  /\ phase' = IF GridCells > 0 /\ ~ IsAligned(Len(Requests)) THEN "report" ELSE "ready"
  /\ UNCHANGED <<frame, bump_alloc_ptr, taken>>

FbInitNext == check_masks \/ bump_alloc \/ full_refresh

FbInitSpec == FbInitInit /\ [][FbInitNext]_fbVars
-----------------------------------------------------------------------------
(* Pixel g of the glyph in column, or row, k of the text: where it lies in *)
(* the framebuffer (plot_char).                                            *)
Pixel(axis, k, g) == Corner[axis] + Offset[axis] + k * Glyph[axis] + g

(* What flanterm_fb_init can draw on at all. *)
TrueColour == frame.masks[1] >= 8 /\ \A i \in 2..3 : frame.masks[i] = frame.masks[1]

(* The pool has room for the text of every framebuffer, however large it   *)
(* is, on one side or both, and however its font is scaled; every pixel of *)
(* the text lies in the framebuffer; and the pointers into the pool, which *)
(* is not aligned by anyone, are reported only of an odd number of cells   *)
(* (fb.c:39-58, 896-911, 1060-1098).                                       *)
ScreenFits ==
  /\ TrueColour => phase # "null"
  /\ phase = "ready" =>
       \A k \in 0..(Grid[1] - 1), g \in 0..(Glyph[1] - 1) : Pixel(1, k, g) \in 0..(frame.width - 1)
  /\ phase = "ready" =>
       \A k \in 0..(Grid[2] - 1), g \in 0..(Glyph[2] - 1) : Pixel(2, k, g) \in 0..(frame.height - 1)
  /\ phase = "report" => GridCells % 2 = 1
=============================================================================
