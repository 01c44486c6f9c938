------------------------------- MODULE Paper --------------------------------
(***************************************************************************)
(* What the callers of printf expect of the terminal: that it is a sheet   *)
(* of paper.  Text goes to the end of the last line, a full line goes on in*)
(* a new one, and the last height lines stay in view.  Terminal implements *)
(* this with a grid that it scrolls and a cursor that can be anywhere.     *)
(***************************************************************************)
EXTENDS Naturals, Sequences

CONSTANT
  Blank        \* the character of an empty place

VARIABLES
  width, height,
  chars,       \* the characters that are written
  lines,       \* the lines in view; the last one is written to
  column       \* where; width when the line is full

size == <<width, height, chars>>
paper == <<size, lines, column>>

BlankLine == [c \in 0..width - 1 |-> Blank]

(* A line is added, and the first one goes out of view. *)
Feed(line) == IF Len(lines) < height THEN Append(lines, line)
              ELSE Append(Tail(lines), line)

PaperInit == lines = <<BlankLine>> /\ column = 0

Write(g) ==
  \/ /\ column < width
     /\ lines' = [lines EXCEPT ![Len(lines)][column] = g]
     /\ column' = column + 1
  \/ /\ column = width
     /\ lines' = Feed([BlankLine EXCEPT ![0] = g])
     /\ column' = 1

NewLine == lines' = Feed(BlankLine) /\ column' = 0

(* Back to a place in the same line, to write over it. *)
Return == column' \in 0..column /\ UNCHANGED lines

PaperNext ==
  /\ NewLine \/ Return \/ \E g \in chars : Write(g)
  /\ UNCHANGED size

PaperSpec == PaperInit /\ [][PaperNext]_paper
=============================================================================
