---------------------------- MODULE FlantermProofs ----------------------------
(***************************************************************************)
(* Proofs about Flanterm: what is proved of the parser, of the colours and *)
(* of printf holds in the composition, where each step is one of theirs or *)
(* leaves their variables alone; and about what it does to the screen      *)
(* (Terminal).                                                             *)
(*                                                                         *)
(* The loops of Terminal are folds over the rounds.  A lemma named ...Run  *)
(* gives a loop as the sequence of the screens after each round, and the   *)
(* lemma Rounds is the induction over them.                                *)
(***************************************************************************)
EXTENDS Flanterm, SequenceTheorems, TLAPS

(* The composition implements the parser ... *)
LEMMA ImplementsParser == FlantermSpec => Front!Spec
<1>1. FlantermInit => Front!Init
  BY DEF FlantermInit
<1>2. [FlantermNext]_allVars => [Front!Next]_(Front!vars)
  BY DEF FlantermNext, allVars, parserVars, Front!vars, Front!flags, Front!sequence,
     Front!values, Front!unicode, Front!selection, Front!screenModes
<1> QED
  BY <1>1, <1>2, PTL DEF FlantermSpec, Front!Spec

(* ... and the colours. *)
LEMMA ImplementsColour == FlantermSpec => Front!SgrSpec
<1>1. FlantermInit => Front!SgrInit
  BY DEF FlantermInit
<1>2. [FlantermNext]_allVars => [Front!SgrNext]_(Front!sgrVars)
  BY DEF FlantermNext, allVars, colourVars, Front!sgrVars, Front!attributes, Front!history
<1> QED
  BY <1>1, <1>2, PTL DEF FlantermSpec, Front!SgrSpec

(* The composition implements printf. *)
LEMMA ImplementsPrinter == FlantermSpec => Printer!PrintSpec
<1>1. FlantermInit => Printer!JobOK(job) /\ Printer!PrintInit
  BY FlantermAssumption DEF FlantermInit, FlantermAssumption
<1>2. [FlantermNext]_allVars => [Printer!PrintNext]_(Printer!printVars)
  BY DEF FlantermNext, allVars, printerVars, Printer!printVars
<1> QED
  BY <1>1, <1>2, PTL DEF FlantermSpec, Printer!PrintSpec

(* Whatever is printed, a buffer is written within its size, and ends with *)
(* a NUL (printf.c:322-352).                                               *)
THEOREM BufferAlwaysKept == FlantermSpec => []BufferKept
<1>1. Printer!PrintSpec => []Printer!BufferKept
  BY FlantermAssumption, Printer!AlwaysKept DEF FlantermAssumption
<1> QED
  BY <1>1, ImplementsPrinter, PTL DEF BufferKept

(* Every valid call of printf prints what the C standard says, for every   *)
(* value, width and precision of its regular directives (printf.c:428-553, *)
(* 1024-1346).                                                             *)
THEOREM PrintsTheStandard == FlantermSpec => []PrintsAsStandard
<1>1. Printer!PrintSpec => []Printer!PrintsAsStandard
  BY FlantermAssumption, Printer!AlwaysStandard DEF FlantermAssumption
<1> QED
  BY <1>1, ImplementsPrinter, PTL DEF PrintsAsStandard

(* Whatever is written to the terminal, the parser's flags mean one state, *)
(* and a digit is stored within esc_values (flanterm.c:484-513, 1200-1346).*)
THEOREM AlwaysOneState == FlantermSpec => []OneState
<1>1. Front!Spec => []Front!OneState
  BY FlantermAssumption, Front!AlwaysOneState DEF FlantermAssumption
<1> QED
  BY <1>1, ImplementsParser, PTL DEF OneState

(* Whatever is written, a control sequence is taken for a private one      *)
(* exactly when its first byte is ?, or one that began so has been cut off *)
(* before (flanterm.c:384-385, 478-488, 525-527).                          *)
THEOREM PrivateWhenAsked == FlantermSpec => PrivateOnlyWhenAsked
<1>1. Front!Spec => Front!PrivateOnlyWhenAsked
  BY FlantermAssumption, Front!PrivateWhenAsked DEF FlantermAssumption
<1> QED
  BY <1>1, ImplementsParser DEF PrivateOnlyWhenAsked

(* Whatever is written, the values that a control sequence is carried out  *)
(* with are the ones its bytes spell, its first MaxValues and modulo Word, *)
(* each missing one at its default (flanterm.c:484-522).                   *)
THEOREM ValuesAsGrammar == FlantermSpec => []ParsesAsGrammar
<1>1. Front!Spec => []Front!ParsesAsGrammar
  BY FlantermAssumption, Front!ValuesAsGrammar DEF FlantermAssumption
<1> QED
  BY <1>1, ImplementsParser, PTL DEF ParsesAsGrammar

(* Whatever is written, a character of several bytes is decoded as RFC 3629*)
(* has it, and printed as a glyph or a block (flanterm.c:1213-1262).       *)
THEOREM Utf8IsDecoded == FlantermSpec => []DecodesUtf8
<1>1. Front!Spec => []Front!DecodesUtf8
  BY FlantermAssumption, Front!Utf8IsDecoded DEF FlantermAssumption
<1> QED
  BY <1>1, ImplementsParser, PTL DEF DecodesUtf8

(* For every palette, reverse video shows a text in the colours it would   *)
(* have had without, exchanged (flanterm.c:115-326).                       *)
THEOREM AlwaysMirrored == FlantermSpec => []ReverseMirrors
<1>1. Front!SgrSpec => []Front!ReverseMirrors
  BY FlantermAssumption, Front!AlwaysMirrored DEF FlantermAssumption
<1> QED
  BY <1>1, ImplementsColour, PTL DEF ReverseMirrors

(* For every palette, bold and blink change the brightness of a colour and *)
(* never the colour (flanterm.c:115-326).                                  *)
THEOREM BrightnessOnly == FlantermSpec => HueKept
<1>1. Front!SgrSpec => Front!HueKept
  BY FlantermAssumption, Front!BrightnessOnly DEF FlantermAssumption
<1> QED
  BY <1>1, ImplementsColour DEF HueKept
-----------------------------------------------------------------------------
(* The screen.  A grid is a screen of which the cursor can be right of its *)
(* row, while blanks are printed.                                          *)
Chars == Glyphs \cup {Space}
Grid == [text : [Cells -> Chars], x : Nat, y : 0..Max(rows, cols) - 1]

RegionOK ==
  /\ top \in Nat /\ bottom \in Nat /\ bottom <= rows
  /\ top < bottom - 1 \/ (top = 0 /\ bottom = rows)

LEMMA Sizes ==
  ASSUME bounds \in Screens
  PROVE  /\ rows \in Nat /\ rows > 0 /\ cols \in Nat /\ cols > 0
         /\ Values \subseteq Nat
         /\ Max(rows, cols) \in Nat /\ Max(rows, cols) >= rows /\ Max(rows, cols) >= cols
         /\ TabSize \in Nat /\ TabSize > 0
<1>1. rows \in Nat /\ rows > 0 /\ cols \in Nat /\ cols > 0 /\ Values \subseteq Nat
  BY TerminalAssumption DEF rows, cols, Values
<1> QED BY <1>1, TerminalAssumption DEF Max

(* A cell is a column and a row. *)
LEMMA CellIs ==
  ASSUME bounds \in Screens, NEW a \in Int, NEW b \in Int
  PROVE  <<a, b>> \in Cells <=> a \in 0..cols - 1 /\ b \in 0..rows - 1
BY Sizes DEF Cells

(* A cell has a column and a row. *)
LEMMA CellHas ==
  ASSUME bounds \in Screens, NEW c \in Cells
  PROVE  c[1] \in 0..cols - 1 /\ c[2] \in 0..rows - 1 /\ c = <<c[1], c[2]>>
BY Sizes DEF Cells

(* The fields of a grid. *)
LEMMA GridHas ==
  ASSUME NEW s \in Grid
  PROVE  s.text \in [Cells -> Chars] /\ s.x \in Nat /\ s.y \in 0..Max(rows, cols) - 1
BY DEF Grid

(* A move of the cursor keeps the text. *)
LEMMA MoveToGives ==
  ASSUME bounds \in Screens, NEW s \in Grid, NEW a \in Int, NEW b \in Int
  PROVE  /\ MoveTo(s, a, b) \in Grid
         /\ MoveTo(s, a, b).text = s.text
         /\ MoveTo(s, a, b).x = Clamped(a, cols)
         /\ MoveTo(s, a, b).y = Clamped(b, rows)
         /\ Clamped(a, cols) \in 0..cols - 1
         /\ Clamped(b, rows) \in 0..rows - 1
         /\ a \in 0..cols - 1 => Clamped(a, cols) = a
         /\ b \in 0..rows - 1 => Clamped(b, rows) = b
<1>1. /\ Clamped(a, cols) \in 0..cols - 1
      /\ Clamped(b, rows) \in 0..rows - 1
      /\ a \in 0..cols - 1 => Clamped(a, cols) = a
      /\ b \in 0..rows - 1 => Clamped(b, rows) = b
  BY Sizes DEF Clamped
<1>2. Clamped(a, cols) \in Nat /\ Clamped(b, rows) \in 0..Max(rows, cols) - 1
  BY <1>1, Sizes
<1>3. MoveTo(s, a, b) = [s EXCEPT !.x = Clamped(a, cols), !.y = Clamped(b, rows)]
  BY DEF MoveTo
<1>4. /\ MoveTo(s, a, b) \in Grid
      /\ MoveTo(s, a, b).text = s.text
      /\ MoveTo(s, a, b).x = Clamped(a, cols)
      /\ MoveTo(s, a, b).y = Clamped(b, rows)
  <2> DEFINE a2 == Clamped(a, cols)  b2 == Clamped(b, rows)  p == MoveTo(s, a, b)
  <2>1. a2 \in Nat /\ b2 \in 0..Max(rows, cols) - 1 /\ p = [s EXCEPT !.x = a2, !.y = b2]
    BY <1>2, <1>3
  <2> HIDE DEF a2, b2, p
  <2>2. p \in Grid /\ p.text = s.text /\ p.x = a2 /\ p.y = b2
    BY <2>1 DEF Grid
  <2> QED BY <2>2 DEF a2, b2, p
<1> QED BY <1>1, <1>4, Zenon

(* A scroll moves the rows of the region up ... *)
LEMMA ScrollGives ==
  ASSUME bounds \in Screens, RegionOK, NEW s \in Grid
  PROVE  /\ Scroll(s) \in Grid /\ Scroll(s).x = s.x /\ Scroll(s).y = s.y
         /\ Scroll(s).text = [c \in Cells |->
              CASE c[2] \in top..(bottom - 2) -> s.text[<<c[1], c[2] + 1>>]
                [] c[2] = bottom - 1          -> Space
                [] OTHER                      -> s.text[c]]
<1> DEFINE new(c) ==
             CASE c[2] \in top..(bottom - 2) -> s.text[<<c[1], c[2] + 1>>]
               [] c[2] = bottom - 1          -> Space
               [] OTHER                      -> s.text[c]
           text == [c \in Cells |-> new(c)]
<1>1. ASSUME NEW c \in Cells
      PROVE  new(c) \in Chars
  <2>1. s.text[c] \in Chars /\ Space \in Chars
    BY GridHas DEF Chars
  <2>2. CASE c[2] \in top..(bottom - 2)
    <3>1. <<c[1], c[2] + 1>> \in Cells
      BY <2>2, CellHas, CellIs, Sizes DEF RegionOK
    <3>2. s.text[<<c[1], c[2] + 1>>] \in Chars
      BY <3>1, GridHas
    <3>3. new(c) = s.text[<<c[1], c[2] + 1>>]
      <4>1. c[2] # bottom - 1
        BY <2>2, CellHas DEF RegionOK
      <4> QED BY ONLY <2>2, <4>1
    <3> QED BY ONLY <3>2, <3>3
  <2> QED BY <2>1, <2>2
<1>2. text \in [Cells -> Chars]
  BY <1>1
<1>3. Scroll(s) = [s EXCEPT !.text = text]
  BY DEF Scroll
<1> HIDE DEF text
<1>5. Scroll(s) \in Grid /\ Scroll(s).x = s.x /\ Scroll(s).y = s.y /\ Scroll(s).text = text
  <2> DEFINE p == Scroll(s)
  <2>1. p = [s EXCEPT !.text = text]
    BY <1>3
  <2> HIDE DEF p
  <2>2. p \in Grid /\ p.text = text /\ p.x = s.x /\ p.y = s.y
    BY <1>2, <2>1 DEF Grid
  <2> QED BY <2>2 DEF p
<1> QED BY <1>5 DEF text

(* ... and a scroll the other way the rows from a given one on down. *)
LEMMA RevscrollGives ==
  ASSUME bounds \in Screens, RegionOK, NEW s \in Grid, NEW first \in 0..rows - 1
  PROVE  /\ Revscroll(s, first) \in Grid /\ Revscroll(s, first).x = s.x
         /\ Revscroll(s, first).y = s.y
<1> DEFINE new(c) ==
             CASE c[2] \in (first + 1)..(bottom - 1) -> s.text[<<c[1], c[2] - 1>>]
               [] c[2] = first                       -> Space
               [] OTHER                              -> s.text[c]
           text == [c \in Cells |-> new(c)]
           p == Revscroll(s, first)
<1>1. ASSUME NEW c \in Cells
      PROVE  new(c) \in Chars
  <2>1. s.text[c] \in Chars /\ Space \in Chars
    BY GridHas DEF Chars
  <2>2. CASE c[2] \in (first + 1)..(bottom - 1)
    <3>1. <<c[1], c[2] - 1>> \in Cells
      BY <2>2, CellHas, CellIs, Sizes DEF RegionOK
    <3>2. s.text[<<c[1], c[2] - 1>>] \in Chars
      BY <3>1, GridHas
    <3>3. new(c) = s.text[<<c[1], c[2] - 1>>]
      <4>1. c[2] # first
        BY <2>2, CellHas DEF RegionOK
      <4> QED BY ONLY <2>2, <4>1
    <3> QED BY ONLY <3>2, <3>3
  <2> QED BY <2>1, <2>2
<1>2. text \in [Cells -> Chars]
  BY <1>1
<1>3. p = [s EXCEPT !.text = text]
  BY DEF Revscroll
<1> HIDE DEF text, p
<1>4. p \in Grid /\ p.x = s.x /\ p.y = s.y
  BY <1>2, <1>3 DEF Grid
<1> QED BY <1>4 DEF p

(* A character moved changes one cell, and only if it is on the screen. *)
LEMMA CopyGives ==
  ASSUME bounds \in Screens, NEW s \in Grid, NEW a \in Nat, NEW from \in 0..cols - 1,
         NEW row \in 0..rows - 1
  PROVE  LET p == Copy(s, a, from, row)
         IN  /\ p \in Grid /\ p.x = s.x /\ p.y = s.y
             /\ p.text = IF a < cols THEN [s.text EXCEPT ![<<a, row>>] = s.text[<<from, row>>]]
                         ELSE s.text
<1> DEFINE p == Copy(s, a, from, row)
<1>1. CASE a < cols
  <2> DEFINE v == s.text[<<from, row>>]  there == <<a, row>>
             t == [s.text EXCEPT ![there] = v]
  <2>1. v \in Chars
    BY CellIs, Sizes, GridHas
  <2>2. t \in [Cells -> Chars]
    BY <2>1, GridHas
  <2>3. p = [s EXCEPT !.text = t]
    BY <1>1, GridHas DEF Copy
  <2> HIDE DEF t, p
  <2>4. p \in Grid /\ p.x = s.x /\ p.y = s.y /\ p.text = t
    BY <2>2, <2>3 DEF Grid
  <2> QED BY <1>1, <2>4 DEF t, p
<1>2. CASE ~ (a < cols)
  BY <1>2 DEF Copy
<1> QED BY <1>1, <1>2

(* A cursor right of its row goes to the next one. *)
LEMMA WrappedGives ==
  ASSUME bounds \in Screens, RegionOK, NEW s \in Grid
  PROVE  LET p == Wrapped(s)
             row == IF s.y + 1 = bottom THEN s.y ELSE s.y + 1
         IN  /\ p \in Grid /\ p.x = 0 /\ p.y = IF row >= cols THEN cols - 1 ELSE row
             /\ p.text = IF s.y + 1 = bottom THEN Scroll(s).text ELSE s.text
<1> DEFINE p == Wrapped(s)
           t == IF s.y + 1 = bottom THEN Scroll(s) ELSE s
           row == IF s.y + 1 = bottom THEN s.y ELSE s.y + 1
           b == IF row >= cols THEN cols - 1 ELSE row
<1>1. t \in Grid /\ t.text = IF s.y + 1 = bottom THEN Scroll(s).text ELSE s.text
  BY ScrollGives
<1>2. b \in 0..Max(rows, cols) - 1
  BY Sizes, GridHas
<1>3. p = [t EXCEPT !.x = 0, !.y = b]
  BY DEF Wrapped
<1> HIDE DEF p, t, b
<1>4. p \in Grid /\ p.x = 0 /\ p.y = b /\ p.text = t.text
  BY <1>1, <1>2, <1>3 DEF Grid
<1> QED BY <1>1, <1>4 DEF p, b

(* Where a character is put. *)
Turns(s, on) == s.x >= cols /\ (s.y < bottom - 1 \/ on)
Turned(s, on) == IF Turns(s, on) THEN Wrapped(s) ELSE s

(* A character put changes one cell, after that. *)
LEMMA PutGives ==
  ASSUME bounds \in Screens, RegionOK, NEW s \in Grid, NEW g \in Chars, NEW on \in BOOLEAN
  PROVE  LET p == Put(s, g, on)  t == Turned(s, on)  here == <<t.x, t.y>>
         IN  /\ t \in Grid /\ p \in Grid /\ p.x = t.x + 1 /\ p.y = t.y
             /\ p.text = IF here \in Cells THEN [t.text EXCEPT ![here] = g] ELSE t.text
<1> DEFINE p == Put(s, g, on)  t == Turned(s, on)  here == <<t.x, t.y>>
           text == IF here \in Cells THEN [t.text EXCEPT ![here] = g] ELSE t.text
<1>1. t \in Grid
  BY WrappedGives DEF Turned
<1>2. p = [t EXCEPT !.text = IF here \in Cells THEN [@ EXCEPT ![here] = g] ELSE @, !.x = @ + 1]
  BY Zenon DEF Put, Turned, Turns
<1> HIDE DEF p, t
<1>3. text \in [Cells -> Chars] /\ t.x + 1 \in Nat
  BY <1>1, GridHas
<1>4. p = [t EXCEPT !.text = text, !.x = t.x + 1]
  BY <1>1, <1>2 DEF Grid
<1> DEFINE next == t.x + 1
<1> HIDE DEF text, next
<1>5. p \in Grid /\ p.x = next /\ p.y = t.y /\ p.text = text
  BY <1>1, <1>3, <1>4 DEF Grid, next
<1> QED BY <1>1, <1>5 DEF p, t, text, next
-----------------------------------------------------------------------------
(* Loops.  Repeat is the function that counts up, of which there is one.   *)
Total(S, n, F) == \A t \in S, k \in 1..n : F[<<t, k>>] \in S
IsRun(S, n, s, F, h) ==
  h \in [0..n -> S] /\ h[0] = s /\ \A k \in 1..n : h[k] = F[<<h[k - 1], k>>]

LEMMA Iterates ==
  ASSUME NEW S, NEW n \in Nat, NEW s \in S, NEW F, Total(S, n, F)
  PROVE  \E h : IsRun(S, n, s, F, h)
<1> USE DEF Total
<1> DEFINE Run(h, m) == h[0] = s /\ \A k \in 1..m : h[k] = F[<<h[k - 1], k>>]
           T == {m \in Nat : m <= n => \E h \in [0..m -> S] : Run(h, m)}
<1>1. 0 \in T
  <2>1. [k \in 0..0 |-> s] \in [0..0 -> S] /\ Run([k \in 0..0 |-> s], 0)
    OBVIOUS
  <2> QED BY <2>1
<1>2. ASSUME NEW m \in T PROVE m + 1 \in T
  <2> SUFFICES ASSUME m + 1 <= n PROVE \E h \in [0..m + 1 -> S] : Run(h, m + 1)
    OBVIOUS
  <2>1. m \in Nat /\ m <= n
    OBVIOUS
  <2>2. PICK h \in [0..m -> S] : Run(h, m)
    BY <2>1
  <2> DEFINE g == [k \in 0..m + 1 |-> IF k <= m THEN h[k] ELSE F[<<h[m], m + 1>>]]
  <2>3. F[<<h[m], m + 1>>] \in S
    BY <2>1, <2>2
  <2>4. g \in [0..m + 1 -> S]
    BY <2>1, <2>3
  <2>5. g[0] = s /\ \A k \in 0..m : g[k] = h[k]
    BY <2>1, <2>2
  <2>6. ASSUME NEW k \in 1..m + 1 PROVE g[k] = F[<<g[k - 1], k>>]
    <3>1. CASE k = m + 1
      <4>1. g[k] = F[<<h[m], m + 1>>] /\ k - 1 = m
        BY <2>1, <3>1
      <4>2. g[m] = h[m]
        BY <2>1
      <4> QED BY ONLY <3>1, <4>1, <4>2, Zenon
    <3>2. CASE k # m + 1
      <4>1. k \in 1..m /\ k - 1 \in 0..m /\ k \in 0..m
        BY <2>1, <3>2
      <4>2. g[k] = h[k] /\ g[k - 1] = h[k - 1] /\ h[k] = F[<<h[k - 1], k>>]
        BY <2>2, <2>5, <4>1
      <4> QED BY ONLY <4>2, Zenon
    <3> QED BY <3>1, <3>2
  <2> HIDE DEF g
  <2> QED BY <2>4, <2>5, <2>6
<1>3. T \in SUBSET Nat
  OBVIOUS
<1> HIDE DEF T
<1>4. n \in T
  BY <1>1, <1>2, <1>3, Front!Induction
<1> QED BY <1>4 DEF T, IsRun

(* What holds before, and after each round that it holds before, holds     *)
(* after all rounds.                                                       *)
LEMMA Rounds ==
  ASSUME NEW n \in Nat, NEW A, 0 \in A, \A k \in 1..n : k - 1 \in A => k \in A
  PROVE  \A k \in 0..n : k \in A
<1> DEFINE T == {m \in Nat : m <= n => m \in A}
<1>1. 0 \in T
  OBVIOUS
<1>2. ASSUME NEW m \in T PROVE m + 1 \in T
  <2>1. CASE m + 1 <= n
    <3>1. m + 1 \in 1..n /\ m \in A /\ (m + 1) - 1 = m
      BY <2>1
    <3>2. m + 1 \in A
      BY <3>1
    <3> QED BY <3>2
  <2> QED BY <2>1
<1>3. T \in SUBSET Nat
  OBVIOUS
<1> HIDE DEF T
<1>4. T = Nat
  BY <1>1, <1>2, <1>3, Front!Induction
<1> QED BY <1>4 DEF T

(* A set that no round leaves. *)
LEMMA RunStays ==
  ASSUME NEW S, NEW n \in Nat, NEW a, a[0] \in S,
         \A k \in 1..n : a[k - 1] \in S => a[k] \in S
  PROVE  \A k \in 0..n : a[k] \in S
<1> DEFINE A == {k \in 0..n : a[k] \in S}
<1>1. 0 \in A
  OBVIOUS
<1>2. ASSUME NEW k \in 1..n, k - 1 \in A PROVE k \in A
  BY <1>2
<1> HIDE DEF A
<1>3. \A k \in 0..n : k \in A
  BY <1>1, <1>2, Rounds
<1> QED BY <1>3 DEF A

-----------------------------------------------------------------------------
(* Between two sequences. *)
TerminalInv ==
  /\ bounds \in Screens
  /\ screen \in Grid /\ screen.x <= cols
  /\ RegionOK
  /\ saved_cursor \in Cells
  /\ saved_state \in (0..cols) \X (0..Max(rows, cols) - 1)

(* What the invariant says of the cursor. *)
LEMMA InvHas ==
  ASSUME TerminalInv
  PROVE  /\ bounds \in Screens /\ screen \in Grid /\ RegionOK
         /\ x \in 0..cols - 1 /\ y \in 0..rows - 1
         /\ screen.x < cols => x = screen.x
         /\ screen.y < rows => y = screen.y
<1>1. bounds \in Screens /\ screen \in Grid /\ RegionOK
  BY DEF TerminalInv
<1>2. screen.x \in Nat /\ screen.y \in Nat
  BY <1>1, GridHas, Sizes
<1> QED BY <1>1, <1>2, Sizes DEF x, y, X, Y, Min

(* What the size of the screen determines. *)
LEMMA SameBounds ==
  ASSUME UNCHANGED bounds
  PROVE  /\ rows' = rows /\ cols' = cols /\ Cells' = Cells /\ Chars' = Chars
         /\ Glyphs' = Glyphs /\ Grid' = Grid /\ Max(rows', cols') = Max(rows, cols)
<1>1. rows' = rows /\ cols' = cols /\ Glyphs' = Glyphs
  BY DEF rows, cols, Glyphs
<1>2. Cells' = Cells /\ Chars' = Chars
  BY <1>1 DEF Cells, Chars
<1> QED BY <1>1, <1>2 DEF Grid

(* What a step has to keep. *)
LEMMA InvKept ==
  ASSUME TerminalInv, UNCHANGED bounds, screen' \in Grid, screen'.x <= cols,
         \/ UNCHANGED margins
         \/ /\ top' \in Nat /\ bottom' \in Nat /\ bottom' <= rows
            /\ top' < bottom' - 1 \/ (top' = 0 /\ bottom' = rows),
         saved_cursor' \in Cells,
         saved_state' \in (0..cols) \X (0..Max(rows, cols) - 1)
  PROVE  TerminalInv'
<1>1. RegionOK'
  BY SameBounds DEF RegionOK, margins, TerminalInv
<1> QED BY <1>1, SameBounds DEF TerminalInv

(* A step that only changes the screen ... *)
LEMMA OnlyKeeps ==
  ASSUME TerminalInv, NEW name, NEW s \in Grid, s.x <= cols, Only(name, s)
  PROVE  TerminalInv'
BY InvKept DEF Only, Do, saves, TerminalInv

(* ... or only ends with a move on it. *)
LEMMA OnlyMoves ==
  ASSUME TerminalInv, NEW name, NEW s \in Grid, NEW a \in Int, NEW b \in Int,
         Only(name, MoveTo(s, a, b))
  PROVE  TerminalInv'
<1> DEFINE p == MoveTo(s, a, b)
<1>1. bounds \in Screens
  BY DEF TerminalInv
<1>2. p \in Grid /\ p.x \in 0..cols - 1
  BY <1>1, MoveToGives
<1> HIDE DEF p
<1>3. p.x <= cols
  BY <1>1, <1>2, Sizes
<1> QED BY <1>2, <1>3, OnlyKeeps DEF p
(* The rounds of each loop. *)
LEMMA BlanksRun ==
  ASSUME bounds \in Screens, RegionOK, NEW n \in Nat, NEW s \in Grid
  PROVE  \E h \in [0..n -> Grid] :
           /\ h[0] = s /\ h[n] = Blanks(n, s)
           /\ \A k \in 1..n : h[k] = Put(h[k - 1], Space, FALSE)
<1> DEFINE f(t, k) == Put(t, Space, FALSE)
           r == n
           F == [p \in Grid \X (1..r) |-> f(p[1], p[2])]
           G(q) == [k \in 0..r |-> IF k = 0 THEN s ELSE f(q[k - 1], k)]
           after == CHOOSE q : q = G(q)
<1>1. Blanks(n, s) = after[r]
  BY Zenon DEF Blanks, Repeat
<1>2. r \in Nat /\ s \in Grid /\ bounds \in Screens /\ RegionOK
  OBVIOUS
<1>3. ASSUME NEW t \in Grid, NEW k \in 1..r PROVE f(t, k) \in Grid
  BY PutGives DEF Chars
<1> HIDE DEF f, r
<1>4. Total(Grid, r, F) /\ \A t \in Grid, k \in 1..r : F[<<t, k>>] = f(t, k)
  BY <1>3 DEF Total
<1> HIDE DEF F
<1>5. \E q : q = G(q)
  <2>1. PICK q : IsRun(Grid, r, s, F, q)
    BY <1>2, <1>4, Iterates
  <2>2. ASSUME NEW k \in 1..r PROVE q[k - 1] \in Grid /\ q[k] = f(q[k - 1], k)
    <3>1. q[k - 1] \in Grid /\ q[k] = F[<<q[k - 1], k>>]
      BY <1>2, <2>1 DEF IsRun
    <3> QED BY <1>4, <3>1
  <2>3. q = G(q)
    BY <1>2, <2>1, <2>2 DEF IsRun
  <2> QED BY <2>3
<1>6. after = G(after)
  BY <1>5
<1> HIDE DEF after
<1>7. after[0] = s /\ \A k \in 1..r : after[k] = f(after[k - 1], k)
  BY <1>2, <1>6
<1>8. \A k \in 0..r : after[k] \in Grid
  BY <1>2, <1>3, <1>7, RunStays
<1>9. after \in [0..r -> Grid]
  BY <1>6, <1>8
<1> QED BY <1>1, <1>7, <1>9 DEF f, r

LEMMA ScrolledRun ==
  ASSUME TerminalInv, NEW n \in Nat
  PROVE  \E h \in [0..n -> Grid] :
           /\ h[0] = screen /\ h[n] = Scrolled(n)
           /\ \A k \in 1..n : h[k] = Scroll(h[k - 1])
<1> DEFINE f(t, k) == Scroll(t)
           r == n
           F == [p \in Grid \X (1..r) |-> f(p[1], p[2])]
           G(q) == [k \in 0..r |-> IF k = 0 THEN screen ELSE f(q[k - 1], k)]
           after == CHOOSE q : q = G(q)
<1>1. Scrolled(n) = after[r]
  BY Zenon DEF Scrolled, Repeat
<1>2. r \in Nat /\ screen \in Grid /\ bounds \in Screens /\ RegionOK
  BY InvHas
<1>3. ASSUME NEW t \in Grid, NEW k \in 1..r PROVE f(t, k) \in Grid
  BY <1>2, ScrollGives
<1> HIDE DEF f, r
<1>4. Total(Grid, r, F) /\ \A t \in Grid, k \in 1..r : F[<<t, k>>] = f(t, k)
  BY <1>3 DEF Total
<1> HIDE DEF F
<1>5. \E q : q = G(q)
  <2>1. PICK q : IsRun(Grid, r, screen, F, q)
    BY <1>2, <1>4, Iterates
  <2>2. ASSUME NEW k \in 1..r PROVE q[k - 1] \in Grid /\ q[k] = f(q[k - 1], k)
    <3>1. q[k - 1] \in Grid /\ q[k] = F[<<q[k - 1], k>>]
      BY <1>2, <2>1 DEF IsRun
    <3> QED BY <1>4, <3>1
  <2>3. q = G(q)
    BY <1>2, <2>1, <2>2 DEF IsRun
  <2> QED BY <2>3
<1>6. after = G(after)
  BY <1>5
<1> HIDE DEF after
<1>7. after[0] = screen /\ \A k \in 1..r : after[k] = f(after[k - 1], k)
  BY <1>2, <1>6
<1>8. \A k \in 0..r : after[k] \in Grid
  BY <1>2, <1>3, <1>7, RunStays
<1>9. after \in [0..r -> Grid]
  BY <1>6, <1>8
<1> QED BY <1>1, <1>7, <1>9 DEF f, r

LEMMA RevscrolledRun ==
  ASSUME TerminalInv, NEW n \in Nat
  PROVE  \E h \in [0..n -> Grid] :
           /\ h[0] = screen /\ h[n] = Revscrolled(n)
           /\ \A k \in 1..n : h[k] = Revscroll(h[k - 1], y)
<1> DEFINE f(t, k) == Revscroll(t, y)
           r == n
           F == [p \in Grid \X (1..r) |-> f(p[1], p[2])]
           G(q) == [k \in 0..r |-> IF k = 0 THEN screen ELSE f(q[k - 1], k)]
           after == CHOOSE q : q = G(q)
<1>1. Revscrolled(n) = after[r]
  BY Zenon DEF Revscrolled, Repeat
<1>2. r \in Nat /\ screen \in Grid /\ bounds \in Screens /\ RegionOK
  BY InvHas
<1>3. ASSUME NEW t \in Grid, NEW k \in 1..r PROVE f(t, k) \in Grid
  BY <1>2, InvHas, RevscrollGives
<1> HIDE DEF f, r
<1>4. Total(Grid, r, F) /\ \A t \in Grid, k \in 1..r : F[<<t, k>>] = f(t, k)
  BY <1>3 DEF Total
<1> HIDE DEF F
<1>5. \E q : q = G(q)
  <2>1. PICK q : IsRun(Grid, r, screen, F, q)
    BY <1>2, <1>4, Iterates
  <2>2. ASSUME NEW k \in 1..r PROVE q[k - 1] \in Grid /\ q[k] = f(q[k - 1], k)
    <3>1. q[k - 1] \in Grid /\ q[k] = F[<<q[k - 1], k>>]
      BY <1>2, <2>1 DEF IsRun
    <3> QED BY <1>4, <3>1
  <2>3. q = G(q)
    BY <1>2, <2>1, <2>2 DEF IsRun
  <2> QED BY <2>3
<1>6. after = G(after)
  BY <1>5
<1> HIDE DEF after
<1>7. after[0] = screen /\ \A k \in 1..r : after[k] = f(after[k - 1], k)
  BY <1>2, <1>6
<1>8. \A k \in 0..r : after[k] \in Grid
  BY <1>2, <1>3, <1>7, RunStays
<1>9. after \in [0..r -> Grid]
  BY <1>6, <1>8
<1> QED BY <1>1, <1>7, <1>9 DEF f, r

LEMMA OpenedRun ==
  ASSUME TerminalInv, NEW n \in Nat
  PROVE  \E h \in [0..(cols - x) -> Grid] :
           /\ h[0] = screen /\ h[(cols - x)] = Opened(n)
           /\ \A k \in 1..(cols - x) : h[k] = Put(MoveTo(Copy(h[k - 1], cols - k + n, cols - k, y), cols - k, y), Space, FALSE)
<1> DEFINE f(t, k) == Put(MoveTo(Copy(t, cols - k + n, cols - k, y), cols - k, y), Space, FALSE)
           r == (cols - x)
           F == [p \in Grid \X (1..r) |-> f(p[1], p[2])]
           G(q) == [k \in 0..r |-> IF k = 0 THEN screen ELSE f(q[k - 1], k)]
           after == CHOOSE q : q = G(q)
<1>1. Opened(n) = after[r]
  BY Zenon DEF Opened, Repeat
<1>2. r \in Nat /\ screen \in Grid /\ bounds \in Screens /\ RegionOK
  BY InvHas, Sizes
<1>3. ASSUME NEW t \in Grid, NEW k \in 1..r PROVE f(t, k) \in Grid
  <2> DEFINE u == Copy(t, cols - k + n, cols - k, y)  v == MoveTo(u, cols - k, y)
  <2>1. /\ cols - k \in 0..cols - 1 /\ cols - k + n \in Nat /\ cols - k \in Int
        /\ y \in 0..rows - 1 /\ y \in Int
    BY InvHas, Sizes
  <2>2. u \in Grid
    BY <1>2, <2>1, CopyGives
  <2>3. v \in Grid
    BY <1>2, <2>1, <2>2, MoveToGives
  <2> HIDE DEF v
  <2>4. Put(v, Space, FALSE) \in Grid
    BY <1>2, <2>3, PutGives DEF Chars
  <2> QED BY <2>4 DEF v
<1> HIDE DEF f, r
<1>4. Total(Grid, r, F) /\ \A t \in Grid, k \in 1..r : F[<<t, k>>] = f(t, k)
  BY <1>3 DEF Total
<1> HIDE DEF F
<1>5. \E q : q = G(q)
  <2>1. PICK q : IsRun(Grid, r, screen, F, q)
    BY <1>2, <1>4, Iterates
  <2>2. ASSUME NEW k \in 1..r PROVE q[k - 1] \in Grid /\ q[k] = f(q[k - 1], k)
    <3>1. q[k - 1] \in Grid /\ q[k] = F[<<q[k - 1], k>>]
      BY <1>2, <2>1 DEF IsRun
    <3> QED BY <1>4, <3>1
  <2>3. q = G(q)
    BY <1>2, <2>1, <2>2 DEF IsRun
  <2> QED BY <2>3
<1>6. after = G(after)
  BY <1>5
<1> HIDE DEF after
<1>7. after[0] = screen /\ \A k \in 1..r : after[k] = f(after[k - 1], k)
  BY <1>2, <1>6
<1>8. \A k \in 0..r : after[k] \in Grid
  BY <1>2, <1>3, <1>7, RunStays
<1>9. after \in [0..r -> Grid]
  BY <1>6, <1>8
<1> QED BY <1>1, <1>7, <1>9 DEF f, r

LEMMA ClosedRun ==
  ASSUME TerminalInv, NEW n \in Nat
  PROVE  \E h \in [0..(cols - x - Min(n, cols - x)) -> Grid] :
           /\ h[0] = screen /\ h[(cols - x - Min(n, cols - x))] = Closed(n)
           /\ \A k \in 1..(cols - x - Min(n, cols - x)) : h[k] = Copy(h[k - 1], x + k - 1, x + k - 1 + n, y)
<1> DEFINE f(t, k) == Copy(t, x + k - 1, x + k - 1 + n, y)
           r == (cols - x - Min(n, cols - x))
           F == [p \in Grid \X (1..r) |-> f(p[1], p[2])]
           G(q) == [k \in 0..r |-> IF k = 0 THEN screen ELSE f(q[k - 1], k)]
           after == CHOOSE q : q = G(q)
<1>1. Closed(n) = after[r]
  BY Zenon DEF Closed, Repeat
<1>2. r \in Nat /\ screen \in Grid /\ bounds \in Screens /\ RegionOK
  BY InvHas, Sizes DEF Min
<1>3. ASSUME NEW t \in Grid, NEW k \in 1..r PROVE f(t, k) \in Grid
  <2>1. /\ x + k - 1 \in Nat /\ x + k - 1 + n \in 0..cols - 1
        /\ y \in 0..rows - 1
    BY <1>2, InvHas, Sizes DEF Min
  <2> QED BY <1>2, <2>1, CopyGives
<1> HIDE DEF f, r
<1>4. Total(Grid, r, F) /\ \A t \in Grid, k \in 1..r : F[<<t, k>>] = f(t, k)
  BY <1>3 DEF Total
<1> HIDE DEF F
<1>5. \E q : q = G(q)
  <2>1. PICK q : IsRun(Grid, r, screen, F, q)
    BY <1>2, <1>4, Iterates
  <2>2. ASSUME NEW k \in 1..r PROVE q[k - 1] \in Grid /\ q[k] = f(q[k - 1], k)
    <3>1. q[k - 1] \in Grid /\ q[k] = F[<<q[k - 1], k>>]
      BY <1>2, <2>1 DEF IsRun
    <3> QED BY <1>4, <3>1
  <2>3. q = G(q)
    BY <1>2, <2>1, <2>2 DEF IsRun
  <2> QED BY <2>3
<1>6. after = G(after)
  BY <1>5
<1> HIDE DEF after
<1>7. after[0] = screen /\ \A k \in 1..r : after[k] = f(after[k - 1], k)
  BY <1>2, <1>6
<1>8. \A k \in 0..r : after[k] \in Grid
  BY <1>2, <1>3, <1>7, RunStays
<1>9. after \in [0..r -> Grid]
  BY <1>6, <1>8
<1> QED BY <1>1, <1>7, <1>9 DEF f, r

LEMMA ShiftedRun ==
  ASSUME TerminalInv
  PROVE  \E h \in [0..(cols - x) -> Grid] :
           /\ h[0] = screen /\ h[(cols - x)] = Shifted
           /\ \A k \in 1..(cols - x) : h[k] = Copy(h[k - 1], cols - k + 1, cols - k, y)
<1> DEFINE f(t, k) == Copy(t, cols - k + 1, cols - k, y)
           r == (cols - x)
           F == [p \in Grid \X (1..r) |-> f(p[1], p[2])]
           G(q) == [k \in 0..r |-> IF k = 0 THEN screen ELSE f(q[k - 1], k)]
           after == CHOOSE q : q = G(q)
<1>1. Shifted = after[r]
  BY Zenon DEF Shifted, Repeat
<1>2. r \in Nat /\ screen \in Grid /\ bounds \in Screens /\ RegionOK
  BY InvHas, Sizes
<1>3. ASSUME NEW t \in Grid, NEW k \in 1..r PROVE f(t, k) \in Grid
  <2>1. /\ cols - k + 1 \in Nat /\ cols - k \in 0..cols - 1
        /\ y \in 0..rows - 1
    BY InvHas, Sizes
  <2> QED BY <1>2, <2>1, CopyGives
<1> HIDE DEF f, r
<1>4. Total(Grid, r, F) /\ \A t \in Grid, k \in 1..r : F[<<t, k>>] = f(t, k)
  BY <1>3 DEF Total
<1> HIDE DEF F
<1>5. \E q : q = G(q)
  <2>1. PICK q : IsRun(Grid, r, screen, F, q)
    BY <1>2, <1>4, Iterates
  <2>2. ASSUME NEW k \in 1..r PROVE q[k - 1] \in Grid /\ q[k] = f(q[k - 1], k)
    <3>1. q[k - 1] \in Grid /\ q[k] = F[<<q[k - 1], k>>]
      BY <1>2, <2>1 DEF IsRun
    <3> QED BY <1>4, <3>1
  <2>3. q = G(q)
    BY <1>2, <2>1, <2>2 DEF IsRun
  <2> QED BY <2>3
<1>6. after = G(after)
  BY <1>5
<1> HIDE DEF after
<1>7. after[0] = screen /\ \A k \in 1..r : after[k] = f(after[k - 1], k)
  BY <1>2, <1>6
<1>8. \A k \in 0..r : after[k] \in Grid
  BY <1>2, <1>3, <1>7, RunStays
<1>9. after \in [0..r -> Grid]
  BY <1>6, <1>8
<1> QED BY <1>1, <1>7, <1>9 DEF f, r

LEMMA PrintedRun ==
  ASSUME TerminalInv, NEW g \in Glyphs, NEW n \in Nat
  PROVE  \E h \in [0..n -> Grid] :
           /\ h[0] = screen /\ h[n] = Printed(g, n)
           /\ \A k \in 1..n : h[k] = Put(h[k - 1], IF k = 1 THEN g ELSE Space, TRUE)
<1> DEFINE f(t, k) == Put(t, IF k = 1 THEN g ELSE Space, TRUE)
           r == n
           F == [p \in Grid \X (1..r) |-> f(p[1], p[2])]
           G(q) == [k \in 0..r |-> IF k = 0 THEN screen ELSE f(q[k - 1], k)]
           after == CHOOSE q : q = G(q)
<1>1. Printed(g, n) = after[r]
  BY Zenon DEF Printed, Repeat
<1>2. r \in Nat /\ screen \in Grid /\ bounds \in Screens /\ RegionOK
  BY InvHas
<1>3. ASSUME NEW t \in Grid, NEW k \in 1..r PROVE f(t, k) \in Grid
  <2> DEFINE c == IF k = 1 THEN g ELSE Space
  <2>1. c \in Chars
    BY DEF Chars
  <2>2. f(t, k) = Put(t, c, TRUE)
    OBVIOUS
  <2> HIDE DEF c, f
  <2> QED BY <1>2, <2>1, <2>2, PutGives
<1> HIDE DEF f, r
<1>4. Total(Grid, r, F) /\ \A t \in Grid, k \in 1..r : F[<<t, k>>] = f(t, k)
  BY <1>3 DEF Total
<1> HIDE DEF F
<1>5. \E q : q = G(q)
  <2>1. PICK q : IsRun(Grid, r, screen, F, q)
    BY <1>2, <1>4, Iterates
  <2>2. ASSUME NEW k \in 1..r PROVE q[k - 1] \in Grid /\ q[k] = f(q[k - 1], k)
    <3>1. q[k - 1] \in Grid /\ q[k] = F[<<q[k - 1], k>>]
      BY <1>2, <2>1 DEF IsRun
    <3> QED BY <1>4, <3>1
  <2>3. q = G(q)
    BY <1>2, <2>1, <2>2 DEF IsRun
  <2> QED BY <2>3
<1>6. after = G(after)
  BY <1>5
<1> HIDE DEF after
<1>7. after[0] = screen /\ \A k \in 1..r : after[k] = f(after[k - 1], k)
  BY <1>2, <1>6
<1>8. \A k \in 0..r : after[k] \in Grid
  BY <1>2, <1>3, <1>7, RunStays
<1>9. after \in [0..r -> Grid]
  BY <1>6, <1>8
<1> QED BY <1>1, <1>7, <1>9 DEF f, r

-----------------------------------------------------------------------------
(* What the loops do.  In a row that has room, blanks replace what is there.*)
Blanked(s, n) ==
  [c \in Cells |-> IF c[2] = s.y /\ s.x <= c[1] /\ c[1] < s.x + n THEN Space
                   ELSE s.text[c]]

(* A character put in a row that has room. *)
LEMMA PutInRow ==
  ASSUME bounds \in Screens, RegionOK, NEW s \in Grid, NEW g \in Chars,
         NEW on \in BOOLEAN, s.x < cols, s.y < rows
  PROVE  /\ Put(s, g, on) \in Grid /\ Put(s, g, on).x = s.x + 1 /\ Put(s, g, on).y = s.y
         /\ <<s.x, s.y>> \in Cells
         /\ Put(s, g, on).text = [s.text EXCEPT ![<<s.x, s.y>>] = g]
<1>1. s.x \in Nat /\ s.y \in Nat
  BY GridHas, Sizes
<1>2. Turned(s, on) = s
  BY <1>1, Sizes DEF Turned, Turns
<1>3. <<s.x, s.y>> \in Cells
  BY <1>1, CellIs, Sizes
<1> QED BY <1>2, <1>3, PutGives

(* As many blanks as there is room for. *)
LEMMA BlanksInRow ==
  ASSUME bounds \in Screens, RegionOK, NEW n \in Nat, NEW s \in Grid,
         s.x + n <= cols, s.y < rows
  PROVE  /\ Blanks(n, s) \in Grid /\ Blanks(n, s).x = s.x + n /\ Blanks(n, s).y = s.y
         /\ Blanks(n, s).text = Blanked(s, n)
<1>1. PICK h \in [0..n -> Grid] :
        /\ h[0] = s /\ h[n] = Blanks(n, s)
        /\ \A k \in 1..n : h[k] = Put(h[k - 1], Space, FALSE)
  BY BlanksRun
<1> DEFINE A == {k \in 0..n : h[k].x = s.x + k /\ h[k].y = s.y /\ h[k].text = Blanked(s, k)}
<1>2. s.x \in Nat /\ s.y \in Nat /\ s.text \in [Cells -> Chars]
  BY GridHas, Sizes
<1>3. 0 \in A
  <2>1. Blanked(s, 0) = s.text
    <3>1. \A c \in Cells : ~ (s.x <= c[1] /\ c[1] < s.x + 0)
      BY <1>2, CellHas
    <3> QED BY <1>2, <3>1 DEF Blanked
  <2> QED BY <1>1, <1>2, <2>1
<1>4. ASSUME NEW k \in 1..n, k - 1 \in A PROVE k \in A
  <2> DEFINE t == h[k - 1]  here == <<s.x + k - 1, s.y>>
  <2>1. /\ t \in Grid /\ t.x = s.x + k - 1 /\ t.y = s.y /\ t.text = Blanked(s, k - 1)
        /\ t.x < cols
    BY <1>1, <1>2, <1>4, Sizes
  <2>2. Space \in Chars /\ FALSE \in BOOLEAN
    BY DEF Chars
  <2>3. h[k] = Put(t, Space, FALSE)
    BY <1>1
  <2>4. h[k].x = s.x + k /\ h[k].y = s.y /\ h[k].text = [t.text EXCEPT ![here] = Space]
    <3>1. t.y < rows /\ <<t.x, t.y>> = here /\ t.x + 1 = s.x + k
      BY <1>2, <2>1
    <3> HIDE DEF t, here
    <3>2. /\ Put(t, Space, FALSE).x = t.x + 1 /\ Put(t, Space, FALSE).y = t.y
          /\ Put(t, Space, FALSE).text = [t.text EXCEPT ![<<t.x, t.y>>] = Space]
      BY <2>1, <2>2, <3>1, PutInRow
    <3> QED BY ONLY <2>1, <2>3, <3>1, <3>2, Zenon
  <2>5. [t.text EXCEPT ![here] = Space] = Blanked(s, k)
    <3>1. t.text = [c \in Cells |-> IF c[2] = s.y /\ s.x <= c[1] /\ c[1] < s.x + (k - 1)
                                     THEN Space ELSE s.text[c]]
      BY <2>1 DEF Blanked
    <3>2. ASSUME NEW c \in Cells
          PROVE  [t.text EXCEPT ![here] = Space][c] = Blanked(s, k)[c]
      <4>1. c[1] \in Nat /\ c[2] \in Nat /\ c = <<c[1], c[2]>>
        BY CellHas, Sizes
      <4>2. CASE c = here
        <5>1. c[1] = s.x + k - 1 /\ c[2] = s.y
          BY <4>2
        <5> QED BY <1>2, <3>1, <4>1, <4>2, <5>1 DEF Blanked
      <4>3. CASE c # here
        <5>1. ~ (c[1] = s.x + k - 1 /\ c[2] = s.y)
          BY <4>1, <4>3
        <5>2. (s.x <= c[1] /\ c[1] < s.x + (k - 1)) /\ c[2] = s.y
                <=> (s.x <= c[1] /\ c[1] < s.x + k) /\ c[2] = s.y
          BY <1>2, <4>1, <5>1
        <5>3. [t.text EXCEPT ![here] = Space][c] = t.text[c]
          BY <3>1, <4>3
        <5> HIDE DEF here, t
        <5> QED BY <3>1, <5>2, <5>3 DEF Blanked
      <4> QED BY <4>2, <4>3
    <3> QED BY <3>1, <3>2 DEF Blanked
  <2> QED BY <2>4, <2>5
<1> HIDE DEF A
<1>5. n \in A
  BY <1>3, <1>4, Rounds
<1> QED BY <1>1, <1>5 DEF A

(* Moves by rows stay on the screen ... *)
LEMMA RowMoves ==
  ASSUME TerminalInv, NEW n \in Nat, NEW column \in {0, x},
         CursorUp(column, n) \/ CursorDown(column, n)
  PROVE  TerminalInv'
<1>1. screen \in Grid /\ column \in Int /\ x \in Int /\ y \in Int /\ top \in Int /\ bottom \in Int
      /\ rows \in Int
  BY InvHas, Sizes DEF RegionOK
<1>2. CASE CursorUp(column, n)
  <2> DEFINE dest == y - Min(n, y)
             crosses == top \in dest..y \/ bottom \in dest..y
             b == IF crosses /\ dest < top THEN top ELSE dest
  <2>1. Only("move", MoveTo(screen, column, b))
    BY <1>2 DEF CursorUp
  <2>2. b \in Int
    BY <1>1 DEF Min
  <2> HIDE DEF b
  <2> QED BY <1>1, <2>1, <2>2, OnlyMoves
<1>3. CASE CursorDown(column, n)
  <2> DEFINE dest == Min(y + n, rows - 1)
             crosses == top \in y..dest \/ bottom \in y..dest
             b == IF crosses /\ dest >= bottom THEN bottom - 1 ELSE dest
  <2>1. Only("move", MoveTo(screen, column, b))
    BY <1>3 DEF CursorDown
  <2>2. b \in Int
    BY <1>1 DEF Min
  <2> HIDE DEF b
  <2> QED BY <1>1, <2>1, <2>2, OnlyMoves
<1> QED BY <1>2, <1>3

(* ... and so do the other ones. *)
LEMMA OtherMoves ==
  ASSUME TerminalInv, NEW n \in Nat, NEW m \in Nat,
         \/ CursorForward(n) \/ CursorBack(n) \/ ToRow(n) \/ ToColumn(n) \/ Position(n, m)
         \/ Tab \/ Backspace \/ CarriageReturn
  PROVE  TerminalInv'
<1>1. /\ screen \in Grid /\ x \in Int /\ y \in Int /\ rows \in Int /\ cols \in Int
      /\ TabSize \in Int
      /\ \A k \in Nat, size \in Int : Ordinal(k, size) \in Int
      /\ \A k \in Int : Min(n, k) \in Int
      /\ x \div TabSize \in Int
  BY InvHas, Sizes DEF Ordinal, Min
<1>2. CASE CursorForward(n)
  <2>1. Min(x + n, cols - 1) \in Int
    BY <1>1 DEF Min
  <2> QED BY <1>1, <1>2, <2>1, OnlyMoves DEF CursorForward
<1>3. CASE CursorBack(n)
  <2>1. x - Min(n, x) \in Int
    BY <1>1
  <2> QED BY <1>1, <1>3, <2>1, OnlyMoves DEF CursorBack
<1>4. CASE ToRow(n)
  BY <1>1, <1>4, OnlyMoves DEF ToRow
<1>5. CASE ToColumn(n)
  BY <1>1, <1>5, OnlyMoves DEF ToColumn
<1>6. CASE Position(n, m)
  <2> DEFINE a == Ordinal(IF m = 0 THEN 1 ELSE m, cols)
             b == Ordinal(IF n = 0 THEN 1 ELSE n, rows)
  <2>1. a \in Int /\ b \in Int
    BY <1>1
  <2>2. Only("position", MoveTo(screen, a, b))
    BY <1>6 DEF Position
  <2> HIDE DEF a, b
  <2> QED BY <1>1, <2>1, <2>2, OnlyMoves
<1>7. CASE Tab
  <2> DEFINE stop == x \div TabSize + 1
             a == IF stop >= cols THEN cols - 1 ELSE stop * TabSize
  <2>1. a \in Int
    BY <1>1
  <2>2. Only("tab", MoveTo(screen, a, y))
    BY <1>7 DEF Tab
  <2> HIDE DEF a
  <2> QED BY <1>1, <2>1, <2>2, OnlyMoves
<1>8. CASE Backspace
  <2>1. x - 1 \in Int
    BY <1>1
  <2> QED BY <1>1, <1>8, <2>1, OnlyMoves DEF Backspace
<1>9. CASE CarriageReturn
  BY <1>1, <1>9, OnlyMoves DEF CarriageReturn
<1> QED BY <1>2, <1>3, <1>4, <1>5, <1>6, <1>7, <1>8, <1>9

(* Loops over whole lines leave the cursor where it is. *)
LEMMA ScrolledGives ==
  ASSUME TerminalInv, NEW n \in Nat
  PROVE  Scrolled(n) \in Grid /\ Scrolled(n).x = screen.x /\ Scrolled(n).y = screen.y
<1>1. bounds \in Screens /\ RegionOK /\ screen \in Grid
  BY DEF TerminalInv
<1>2. PICK h \in [0..n -> Grid] :
        h[0] = screen /\ h[n] = Scrolled(n) /\ \A k \in 1..n : h[k] = Scroll(h[k - 1])
  BY ScrolledRun
<1> DEFINE A == {k \in 0..n : h[k].x = screen.x /\ h[k].y = screen.y}
<1>3. 0 \in A
  BY <1>2
<1>4. ASSUME NEW k \in 1..n, k - 1 \in A PROVE k \in A
  <2>1. h[k - 1] \in Grid /\ h[k - 1].x = screen.x /\ h[k - 1].y = screen.y
    BY <1>2, <1>4
  <2>2. h[k] = Scroll(h[k - 1])
    BY <1>2
  <2>3. h[k].x = screen.x /\ h[k].y = screen.y
    BY <1>1, <2>1, <2>2, ScrollGives
  <2> QED BY <2>3
<1> HIDE DEF A
<1>5. n \in A
  BY <1>3, <1>4, Rounds
<1> QED BY <1>2, <1>5 DEF A

LEMMA RevscrolledGives ==
  ASSUME TerminalInv, NEW n \in Nat
  PROVE  Revscrolled(n) \in Grid /\ Revscrolled(n).x = screen.x /\ Revscrolled(n).y = screen.y
<1>1. bounds \in Screens /\ RegionOK /\ screen \in Grid /\ y \in 0..rows - 1
  BY InvHas
<1>2. PICK h \in [0..n -> Grid] :
        h[0] = screen /\ h[n] = Revscrolled(n) /\ \A k \in 1..n : h[k] = Revscroll(h[k - 1], y)
  BY RevscrolledRun
<1> DEFINE A == {k \in 0..n : h[k].x = screen.x /\ h[k].y = screen.y}
<1>3. 0 \in A
  BY <1>2
<1>4. ASSUME NEW k \in 1..n, k - 1 \in A PROVE k \in A
  <2>1. h[k - 1] \in Grid /\ h[k - 1].x = screen.x /\ h[k - 1].y = screen.y
    BY <1>2, <1>4
  <2>2. h[k] = Revscroll(h[k - 1], y)
    BY <1>2
  <2>3. h[k].x = screen.x /\ h[k].y = screen.y
    BY <1>1, <2>1, <2>2, RevscrollGives
  <2> QED BY <2>3
<1> HIDE DEF A
<1>5. n \in A
  BY <1>3, <1>4, Rounds
<1> QED BY <1>2, <1>5 DEF A

(* M and L. *)
LEMMA LineLoops ==
  ASSUME TerminalInv, NEW n \in Nat, DeleteLines(n) \/ InsertLines(n)
  PROVE  TerminalInv'
<1>1. Min(n, rows) \in Nat
  BY InvHas, Sizes DEF Min
<1>2. screen.x <= cols
  BY DEF TerminalInv
<1>3. CASE DeleteLines(n)
  <2> DEFINE p == Scrolled(Min(n, rows))
  <2>1. p \in Grid /\ p.x <= cols
    BY <1>1, <1>2, ScrolledGives
  <2>2. Only("lines", p)
    BY <1>3 DEF DeleteLines
  <2> HIDE DEF p
  <2> QED BY <2>1, <2>2, OnlyKeeps
<1>4. CASE InsertLines(n)
  <2> DEFINE p == Revscrolled(Min(n, rows))
  <2>1. p \in Grid /\ p.x <= cols
    BY <1>1, <1>2, RevscrolledGives
  <2>2. Only("lines", p)
    BY <1>4 DEF InsertLines
  <2> HIDE DEF p
  <2> QED BY <2>1, <2>2, OnlyKeeps
<1> QED BY <1>3, <1>4

(* Blanks, wherever they end. *)
LEMMA BlanksFit ==
  ASSUME bounds \in Screens, RegionOK, NEW n \in Nat, NEW s \in Grid
  PROVE  Blanks(n, s) \in Grid
<1>1. PICK h \in [0..n -> Grid] : h[n] = Blanks(n, s)
  BY BlanksRun
<1> QED BY <1>1

(* A cleared screen. *)
LEMMA ClearGives ==
  ASSUME NEW s \in Grid
  PROVE  /\ Clear(s) \in Grid /\ Clear(s).x = s.x /\ Clear(s).y = s.y
         /\ Clear(s).text = [c \in Cells |-> Space]
<1> DEFINE text == [c \in Cells |-> Space]  p == Clear(s)
<1>1. text \in [Cells -> Chars]
  BY DEF Chars
<1>2. p = [s EXCEPT !.text = text]
  BY DEF Clear
<1> HIDE DEF text, p
<1>3. p \in Grid /\ p.x = s.x /\ p.y = s.y /\ p.text = text
  BY <1>1, <1>2 DEF Grid
<1> QED BY <1>3 DEF p, text

(* How many cells there are before a cell, and from it on. *)
LEMMA Counts ==
  ASSUME TerminalInv
  PROVE  ToClear \in Nat /\ y * cols + x + 1 \in Nat /\ cols - x \in Nat
<1>1. \A k \in Nat : k * cols \in Nat
  BY InvHas, Sizes
<1>2. y \in Nat /\ rows - (y + 1) \in Nat /\ x \in Nat /\ cols - (x + 1) \in Nat
  BY InvHas, Sizes
<1>3. y * cols \in Nat /\ (rows - (y + 1)) * cols \in Nat
  BY <1>1, <1>2
<1> QED BY <1>2, <1>3, InvHas, Sizes DEF ToClear

(* J, K and X. *)
LEMMA Erasing ==
  ASSUME TerminalInv, NEW n \in Nat, EraseDisplay(n) \/ EraseLine(n) \/ EraseChars(n)
  PROVE  TerminalInv'
<1>1. /\ bounds \in Screens /\ RegionOK /\ screen \in Grid /\ screen.x <= cols
      /\ x \in Int /\ y \in Int /\ 0 \in Int
  BY InvHas, Sizes DEF TerminalInv
<1>2. ASSUME NEW name, NEW k \in Nat, NEW s \in Grid, Only(name, MoveTo(Blanks(k, s), x, y))
      PROVE  TerminalInv'
  <2>1. Blanks(k, s) \in Grid
    BY <1>1, BlanksFit
  <2> QED BY <1>1, <1>2, <2>1, OnlyMoves
<1>3. MoveTo(screen, 0, 0) \in Grid /\ MoveTo(screen, 0, y) \in Grid
  BY <1>1, MoveToGives
<1>4. CASE EraseDisplay(n)
  <2>1. CASE n = 0
    <3>1. Only("erase", MoveTo(Blanks(ToClear, screen), x, y))
      BY <1>4, <2>1 DEF EraseDisplay
    <3> QED BY <1>1, <1>2, <3>1, Counts
  <2>2. CASE n = 1
    <3>1. Only("erase", MoveTo(Blanks(y * cols + x + 1, MoveTo(screen, 0, 0)), x, y))
      BY <1>4, <2>2 DEF EraseDisplay
    <3> QED BY <1>2, <1>3, <3>1, Counts
  <2>3. CASE n \in {2, 3}
    <3>1. Only("erase", Clear(screen))
      BY <1>4, <2>3 DEF EraseDisplay
    <3>2. Clear(screen) \in Grid /\ Clear(screen).x <= cols
      BY <1>1, ClearGives
    <3> QED BY <3>1, <3>2, OnlyKeeps
  <2>4. CASE n \notin {0, 1, 2, 3}
    <3>1. Only("erase", screen)
      BY <1>4, <2>4 DEF EraseDisplay
    <3> QED BY <1>1, <3>1, OnlyKeeps
  <2> QED BY <2>1, <2>2, <2>3, <2>4
<1>5. CASE EraseLine(n)
  <2>1. CASE n = 0
    <3>1. Only("erase", MoveTo(Blanks(cols - x, screen), x, y))
      BY <1>5, <2>1 DEF EraseLine
    <3> QED BY <1>1, <1>2, <3>1, Counts
  <2>2. CASE n = 1
    <3> DEFINE s == MoveTo(screen, 0, y)  p == Blanks(x, s)
    <3>1. Only("erase", p)
      BY <1>5, <2>2 DEF EraseLine
    <3>2. s \in Grid /\ s.x = 0 /\ s.y = y
      BY <1>1, InvHas, Sizes, MoveToGives
    <3>3. x \in Nat /\ s.x + x <= cols /\ s.y < rows
      BY <3>2, InvHas, Sizes
    <3> HIDE DEF s
    <3>4. p \in Grid /\ p.x = s.x + x
      BY <1>1, <3>2, <3>3, BlanksInRow
    <3> HIDE DEF p
    <3> QED BY <3>1, <3>3, <3>4, OnlyKeeps
  <2>3. CASE n = 2
    <3>1. Only("erase", MoveTo(Blanks(cols, MoveTo(screen, 0, y)), x, y))
      BY <1>5, <2>3 DEF EraseLine
    <3>2. cols \in Nat
      BY <1>1, Sizes
    <3> QED BY <1>2, <1>3, <3>1, <3>2
  <2>4. CASE n \notin {0, 1, 2}
    <3>1. Only("erase", screen)
      BY <1>5, <2>4 DEF EraseLine
    <3> QED BY <1>1, <3>1, OnlyKeeps
  <2> QED BY <2>1, <2>2, <2>3, <2>4
<1>6. CASE EraseChars(n)
  <2>1. Only("erase", MoveTo(Blanks(Min(n, cols), screen), x, y))
    BY <1>6 DEF EraseChars
  <2>2. Min(n, cols) \in Nat
    BY <1>1, Sizes DEF Min
  <2> QED BY <1>1, <1>2, <2>1, <2>2
<1> QED BY <1>4, <1>5, <1>6

(* The rest of a row moved right, and left. *)
LEMMA OpenedFits ==
  ASSUME TerminalInv, NEW n \in Nat
  PROVE  Opened(n) \in Grid
<1>1. cols - x \in Nat
  BY InvHas, Sizes
<1>2. PICK h \in [0..(cols - x) -> Grid] : h[cols - x] = Opened(n)
  BY OpenedRun
<1> QED BY <1>1, <1>2

LEMMA ClosedFits ==
  ASSUME TerminalInv, NEW n \in Nat
  PROVE  Closed(n) \in Grid
<1> DEFINE r == cols - x - Min(n, cols - x)
<1>1. r \in Nat
  BY InvHas, Sizes DEF Min
<1>2. PICK h \in [0..r -> Grid] : h[r] = Closed(n)
  BY ClosedRun
<1> QED BY <1>1, <1>2

(* @ and P. *)
LEMMA Editing ==
  ASSUME TerminalInv, NEW n \in Nat, InsertChars(n) \/ DeleteChars(n)
  PROVE  TerminalInv'
<1>1. bounds \in Screens /\ RegionOK /\ x \in Int /\ y \in Int /\ cols \in Nat
  BY InvHas, Sizes
<1>2. CASE InsertChars(n)
  BY <1>1, <1>2, OpenedFits, OnlyMoves DEF InsertChars
<1>3. CASE DeleteChars(n)
  <2> DEFINE s == MoveTo(Closed(n), cols - n, y)  p == Blanks(Min(n, cols), s)
  <2>1. s \in Grid /\ Min(n, cols) \in Nat
    BY <1>1, ClosedFits, MoveToGives DEF Min
  <2>2. Only("edit", MoveTo(p, x, y))
    BY <1>3 DEF DeleteChars
  <2> HIDE DEF s
  <2>3. p \in Grid
    BY <1>1, <2>1, BlanksFit
  <2> HIDE DEF p
  <2> QED BY <1>1, <2>2, <2>3, OnlyMoves
<1> QED BY <1>2, <1>3

(* The saved cursors are on the screen. *)
LEMMA Saving ==
  ASSUME TerminalInv, SaveCursor \/ RestoreCursor \/ save_state \/ restore_state
  PROVE  TerminalInv'
<1>1. /\ bounds \in Screens /\ RegionOK /\ screen \in Grid /\ screen.x <= cols
      /\ saved_cursor \in Cells
      /\ saved_state \in (0..cols) \X (0..Max(rows, cols) - 1)
  BY DEF TerminalInv
<1>2. CASE SaveCursor
  <2>1. <<x, y>> \in Cells
    BY <1>1, CellIs, InvHas, Sizes
  <2> QED BY <1>1, <1>2, <2>1, InvKept DEF SaveCursor, Do
<1>3. CASE RestoreCursor
  <2>1. saved_cursor[1] \in Int /\ saved_cursor[2] \in Int
    BY <1>1, CellHas, Sizes
  <2> QED BY <1>1, <1>3, <2>1, OnlyMoves DEF RestoreCursor
<1>4. CASE save_state
  <2>1. <<screen.x, screen.y>> \in (0..cols) \X (0..Max(rows, cols) - 1)
    BY <1>1, GridHas, Sizes
  <2> QED BY <1>1, <1>4, <2>1, InvKept DEF save_state, Do
<1>5. CASE restore_state
  <2> DEFINE a == saved_state[1]  b == saved_state[2]
             p == [screen EXCEPT !.x = a, !.y = b]
  <2>1. a \in Nat /\ a <= cols /\ b \in 0..Max(rows, cols) - 1
    BY <1>1, Sizes
  <2>2. Only("save", p)
    BY <1>5 DEF restore_state
  <2> HIDE DEF a, b
  <2>3. p \in Grid /\ p.x = a
    BY <1>1, <2>1 DEF Grid
  <2> HIDE DEF p
  <2> QED BY <2>1, <2>2, <2>3, OnlyKeeps
<1> QED BY <1>2, <1>3, <1>4, <1>5

(* The scroll region, insert mode and ESC c. *)
LEMMA Setting ==
  ASSUME TerminalInv,
         \/ \E n \in Nat, m \in Nat, count \in 0..2 : SetRegion(count, n, m)
         \/ \E on \in BOOLEAN : SetInsert(on)
         \/ Reset
  PROVE  TerminalInv'
<1>1. /\ bounds \in Screens /\ RegionOK /\ screen \in Grid /\ screen.x <= cols
      /\ saved_cursor \in Cells
      /\ saved_state \in (0..cols) \X (0..Max(rows, cols) - 1)
  BY DEF TerminalInv
<1>2. ASSUME NEW s \in Grid
      PROVE  MoveTo(s, 0, 0) \in Grid /\ MoveTo(s, 0, 0).x <= cols
  <2>1. MoveTo(s, 0, 0) \in Grid /\ MoveTo(s, 0, 0).x \in 0..cols - 1
    BY <1>1, MoveToGives
  <2> QED BY <1>1, <2>1, Sizes
<1>3. ASSUME NEW n \in Nat, NEW m \in Nat, NEW count \in 0..2, SetRegion(count, n, m)
      PROVE  TerminalInv'
  <2> DEFINE first == IF count > 0 THEN (IF n = 0 THEN 1 ELSE n) - 1 ELSE 0
             after == IF count > 1 THEN (IF m = 0 THEN 1 ELSE m) ELSE rows
             valid == Valid(first, after)
  <2>1. /\ UNCHANGED bounds /\ screen' = MoveTo(screen, 0, 0) /\ UNCHANGED saves
        /\ top' = IF valid THEN first ELSE 0
        /\ bottom' = IF valid THEN after ELSE rows
    BY <1>3 DEF SetRegion, Do
  <2>2. first \in Nat /\ after \in Nat /\ rows \in Nat
    BY <1>1, Sizes
  <2> HIDE DEF first, after
  <2>3. /\ top' \in Nat /\ bottom' \in Nat /\ bottom' <= rows
        /\ top' < bottom' - 1 \/ (top' = 0 /\ bottom' = rows)
    BY <2>1, <2>2 DEF Valid
  <2>4. UNCHANGED <<saved_cursor, saved_state>>
    BY <2>1 DEF saves
  <2> QED BY <1>1, <1>2, <2>1, <2>3, <2>4, InvKept
<1>4. ASSUME NEW on \in BOOLEAN, SetInsert(on)
      PROVE  TerminalInv'
  BY <1>1, <1>4, InvKept DEF SetInsert, Do, saves
<1>5. CASE Reset
  <2>1. Clear(screen) \in Grid
    BY <1>1, ClearGives
  <2>2. screen' \in Grid /\ screen'.x <= cols
    BY <1>2, <1>5, <2>1 DEF Reset, Do
  <2>3. <<0, 0>> \in Cells
    BY <1>1, CellIs, Sizes
  <2> QED BY <1>1, <1>5, <2>2, <2>3, InvKept, Sizes DEF Reset, Do
<1> QED BY <1>3, <1>4, <1>5

(* A line feed, down or up. *)
LEMMA Feeding ==
  ASSUME TerminalInv, Index \/ NextLine \/ ReverseIndex
  PROVE  TerminalInv'
<1>1. /\ bounds \in Screens /\ RegionOK /\ screen \in Grid /\ x \in Int /\ y \in Int
      /\ y + 1 \in Int /\ y - 1 \in Int /\ Scroll(screen) \in Grid
  <2>1. bounds \in Screens /\ RegionOK /\ screen \in Grid /\ x \in Int /\ y \in Int
    BY InvHas, Sizes
  <2>2. Scroll(screen) \in Grid
    BY <2>1, ScrollGives
  <2> QED BY <2>1, <2>2
<1>2. ASSUME NEW name, NEW a \in Int, Only(name, LineFeed(screen, a))
      PROVE  TerminalInv'
  <2>1. CASE y = bottom - 1
    <3>1. Only(name, MoveTo(Scroll(screen), a, y))
      BY <1>2, <2>1 DEF LineFeed
    <3> QED BY <1>1, <3>1, OnlyMoves
  <2>2. CASE y # bottom - 1
    <3>1. Only(name, MoveTo(screen, a, y + 1))
      BY <1>2, <2>2 DEF LineFeed
    <3> QED BY <1>1, <3>1, OnlyMoves
  <2> QED BY <2>1, <2>2
<1>3. CASE Index
  BY <1>1, <1>2, <1>3 DEF Index
<1>4. CASE NextLine
  BY <1>2, <1>4 DEF NextLine
<1>5. CASE ReverseIndex
  <2>1. CASE y = top
    <3>1. Only("index", MoveTo(Revscroll(screen, top), 0, y))
      BY <1>5, <2>1 DEF ReverseIndex
    <3>2. Revscroll(screen, top) \in Grid
      BY <1>1, <2>1, InvHas, RevscrollGives
    <3> QED BY <1>1, <3>1, <3>2, OnlyMoves
  <2>2. CASE y # top
    <3>1. Only("index", MoveTo(screen, 0, y - 1))
      BY <1>5, <2>2 DEF ReverseIndex
    <3> QED BY <1>1, <3>1, OnlyMoves
  <2> QED BY <2>1, <2>2
<1> QED BY <1>3, <1>4, <1>5
-----------------------------------------------------------------------------
(* Text.  What makes room for a character leaves the cursor alone. *)
LEMMA ShiftedGives ==
  ASSUME TerminalInv
  PROVE  Shifted \in Grid /\ Shifted.x = screen.x /\ Shifted.y = screen.y
<1>1. bounds \in Screens /\ RegionOK /\ screen \in Grid
  BY DEF TerminalInv
<1> DEFINE r == cols - x
<1>2. r \in Nat /\ \A k \in 1..r : cols - k \in 0..cols - 1 /\ cols - k + 1 \in Nat
  BY InvHas, Sizes
<1>3. PICK h \in [0..r -> Grid] :
        /\ h[0] = screen /\ h[r] = Shifted
        /\ \A k \in 1..r : h[k] = Copy(h[k - 1], cols - k + 1, cols - k, y)
  BY ShiftedRun
<1> HIDE DEF r
<1> DEFINE A == {k \in 0..r : h[k].x = screen.x /\ h[k].y = screen.y}
<1>4. 0 \in A
  BY <1>2, <1>3
<1>5. ASSUME NEW k \in 1..r, k - 1 \in A PROVE k \in A
  <2>1. h[k - 1] \in Grid /\ h[k - 1].x = screen.x /\ h[k - 1].y = screen.y
    BY <1>2, <1>3, <1>5
  <2>2. h[k] = Copy(h[k - 1], cols - k + 1, cols - k, y)
    BY <1>3
  <2>3. h[k].x = screen.x /\ h[k].y = screen.y
    <3> DEFINE s == h[k - 1]  a == cols - k + 1  b == cols - k
    <3>1. s \in Grid /\ a \in Nat /\ b \in 0..cols - 1 /\ y \in 0..rows - 1
      BY <1>2, <2>1, InvHas
    <3>2. h[k] = Copy(s, a, b, y) /\ s.x = screen.x /\ s.y = screen.y
      BY <2>1, <2>2
    <3> HIDE DEF s, a, b
    <3>3. Copy(s, a, b, y).x = s.x /\ Copy(s, a, b, y).y = s.y
      BY <1>1, <3>1, CopyGives
    <3> QED BY ONLY <3>2, <3>3, Zenon
  <2> QED BY <1>2, <2>3
<1> HIDE DEF A
<1>6. r \in A
  <2>1. r \in Nat
    BY <1>2
  <2>2. \A k \in 0..r : k \in A
    BY <1>4, <1>5, <2>1, Rounds
  <2> QED BY <2>1, <2>2
<1> QED BY <1>2, <1>3, <1>6 DEF A

(* Nothing is put beyond the screen: the cursor turns first. *)
LEMMA PutKeepsRow ==
  ASSUME bounds \in Screens, RegionOK, NEW s \in Grid, NEW g \in Chars, s.x <= cols
  PROVE  Put(s, g, TRUE) \in Grid /\ Put(s, g, TRUE).x <= cols
<1> DEFINE t == Turned(s, TRUE)  p == Put(s, g, TRUE)
<1>1. t \in Grid /\ p \in Grid /\ p.x = t.x + 1
  BY PutGives
<1>2. CASE s.x >= cols
  <2>1. Turns(s, TRUE) = TRUE
    BY <1>2 DEF Turns
  <2>2. t = Wrapped(s)
    BY <2>1 DEF Turned
  <2>3. t.x = 0
    BY <2>2, WrappedGives
  <2> HIDE DEF t, p
  <2>4. p.x <= cols
    BY <1>1, <2>3, Sizes
  <2> QED BY <1>1, <2>4 DEF p
<1>3. CASE ~ (s.x >= cols)
  <2>1. t = s
    BY <1>3 DEF Turned, Turns
  <2>2. s.x \in Nat
    BY GridHas
  <2> HIDE DEF t, p
  <2>3. p.x <= cols
    BY <1>1, <1>3, <2>1, <2>2, Sizes
  <2> QED BY <1>1, <2>3 DEF p
<1> QED BY <1>2, <1>3

(* Text, in insert mode as well. *)
LEMMA Printing ==
  ASSUME TerminalInv, NEW g \in Glyphs,
         PrintChar(g) \/ \E width \in 0..2 : PrintUnicode(g, width)
  PROVE  TerminalInv'
<1>1. bounds \in Screens /\ RegionOK /\ screen \in Grid /\ screen.x <= cols
  BY DEF TerminalInv
<1>2. g \in Chars /\ Space \in Chars
  BY DEF Chars
<1>3. CASE PrintChar(g)
  <2> DEFINE s == IF insert_mode THEN Shifted ELSE screen
             p == Put(s, g, TRUE)
  <2>1. s \in Grid /\ s.x <= cols
    BY <1>1, ShiftedGives
  <2>2. Only("print", p)
    BY <1>3 DEF PrintChar
  <2> HIDE DEF s
  <2>3. p \in Grid /\ p.x <= cols
    BY <1>1, <1>2, <2>1, PutKeepsRow
  <2> HIDE DEF p
  <2> QED BY <2>2, <2>3, OnlyKeeps
<1>4. ASSUME NEW width \in 0..2, PrintUnicode(g, width)
      PROVE  TerminalInv'
  <2> DEFINE p == Printed(g, width)
  <2>1. width \in Nat
    OBVIOUS
  <2>2. PICK h \in [0..width -> Grid] :
          /\ h[0] = screen /\ h[width] = p
          /\ \A k \in 1..width : h[k] = Put(h[k - 1], IF k = 1 THEN g ELSE Space, TRUE)
    BY <2>1, PrintedRun
  <2> DEFINE A == {k \in 0..width : h[k].x <= cols}
  <2>3. 0 \in A
    BY <1>1, <2>2
  <2>4. ASSUME NEW k \in 1..width, k - 1 \in A PROVE k \in A
    <3> DEFINE c == IF k = 1 THEN g ELSE Space
    <3>1. c \in Chars /\ h[k - 1] \in Grid /\ h[k - 1].x <= cols
      BY <1>2, <2>2, <2>4
    <3>2. h[k] = Put(h[k - 1], c, TRUE)
      BY <2>2
    <3> HIDE DEF c
    <3>3. h[k].x <= cols
      BY <1>1, <3>1, <3>2, PutKeepsRow
    <3> QED BY <3>3
  <2> HIDE DEF A, p
  <2>5. width \in A
    BY <2>1, <2>3, <2>4, Rounds
  <2>6. p \in Grid /\ p.x <= cols
    BY <2>2, <2>5 DEF A
  <2>7. Only("unicode", p)
    BY <1>4 DEF PrintUnicode, p
  <2> QED BY <2>6, <2>7, OnlyKeeps
<1> QED BY <1>3, <1>4

(* The invariant, from the start ... *)
LEMMA TerminalInvStarts ==
  ASSUME Init
  PROVE  TerminalInv
<1>1. bounds \in Screens
  BY DEF Init
<1>2. screen \in Grid /\ screen.x <= cols
  BY <1>1, Sizes DEF Init, Grid, Chars
<1>3. <<0, 0>> \in Cells /\ <<0, 0>> \in (0..cols) \X (0..Max(rows, cols) - 1)
  BY <1>1, CellIs, Sizes
<1>4. RegionOK
  BY <1>1, Sizes DEF Init, RegionOK
<1> QED BY <1>1, <1>2, <1>3, <1>4 DEF Init, TerminalInv

(* ... and in every step. *)
LEMMA TerminalInvStays ==
  ASSUME TerminalInv, [Next]_vars
  PROVE  TerminalInv'
<1>1. Values \subseteq Nat
  BY Sizes DEF TerminalInv
<1>2. CASE UNCHANGED vars
  <2>1. UNCHANGED <<bounds, screen, margins, saved_cursor, saved_state>>
    BY <1>2 DEF vars, saves
  <2> QED BY <2>1, InvKept DEF TerminalInv
<1>3. ASSUME NEW n \in Values, NEW column \in {0, x}, CursorUp(column, n) \/ CursorDown(column, n)
      PROVE  TerminalInv'
  BY <1>1, <1>3, RowMoves
<1>4. ASSUME NEW n \in Values,
             CursorForward(n) \/ CursorBack(n) \/ ToRow(n) \/ ToColumn(n)
      PROVE  TerminalInv'
  BY <1>1, <1>4, OtherMoves
<1>5. ASSUME NEW n \in Values, DeleteLines(n) \/ InsertLines(n)
      PROVE  TerminalInv'
  BY <1>1, <1>5, LineLoops
<1>6. ASSUME NEW n \in Values, EraseDisplay(n) \/ EraseLine(n) \/ EraseChars(n)
      PROVE  TerminalInv'
  BY <1>1, <1>6, Erasing
<1>7. ASSUME NEW n \in Values, InsertChars(n) \/ DeleteChars(n)
      PROVE  TerminalInv'
  BY <1>1, <1>7, Editing
<1>8. ASSUME NEW n \in Values, NEW m \in Values, Position(n, m)
      PROVE  TerminalInv'
  BY <1>1, <1>8, OtherMoves
<1>9. ASSUME NEW n \in Values, NEW m \in Values, NEW count \in 0..2, SetRegion(count, n, m)
      PROVE  TerminalInv'
  BY <1>1, <1>9, Setting
<1>10. ASSUME NEW on \in BOOLEAN, SetInsert(on)
       PROVE  TerminalInv'
  BY <1>10, Setting
<1>11. CASE Index \/ NextLine \/ ReverseIndex
  BY <1>11, Feeding
<1>12. CASE Reset
  BY <1>12, Setting
<1>13. CASE Tab \/ Backspace \/ CarriageReturn
  BY <1>13, OtherMoves
<1>14. CASE SaveCursor \/ RestoreCursor \/ save_state \/ restore_state
  BY <1>14, Saving
<1>15. ASSUME NEW g \in Glyphs, PrintChar(g) \/ \E width \in 0..2 : PrintUnicode(g, width)
       PROVE  TerminalInv'
  BY <1>15, Printing
<1> QED BY <1>2, <1>3, <1>4, <1>5, <1>6, <1>7, <1>8, <1>9, <1>10, <1>11, <1>12, <1>13,
           <1>14, <1>15 DEF Next
-----------------------------------------------------------------------------
(* Where a vertical move ends, up and down. *)
LEMMA EndsUp ==
  ASSUME TerminalInv, NEW n \in Nat, NEW column \in Int, CursorUp(column, n)
  PROVE  screen'.y = Max(y - n, IF y >= top THEN top ELSE 0)
<1>1. /\ bounds \in Screens /\ screen \in Grid /\ y \in 0..rows - 1
      /\ rows \in Nat /\ top \in Nat /\ bottom \in Nat /\ bottom <= rows /\ top < bottom
  BY InvHas, Sizes DEF RegionOK
<1> DEFINE dest == y - Min(n, y)
           crosses == top \in dest..y \/ bottom \in dest..y
           b == IF crosses /\ dest < top THEN top ELSE dest
<1>2. screen' = MoveTo(screen, column, b)
  BY DEF CursorUp, Only, Do
<1>3. b \in 0..rows - 1 /\ b = Max(y - n, IF y >= top THEN top ELSE 0)
  BY <1>1 DEF Min, Max
<1> HIDE DEF b
<1>4. b \in Int
  BY <1>1, <1>3
<1>5. screen'.y = b
  BY <1>1, <1>2, <1>3, <1>4, MoveToGives
<1> QED BY <1>3, <1>5

LEMMA EndsDown ==
  ASSUME TerminalInv, NEW n \in Nat, NEW column \in Int, CursorDown(column, n), y # bottom
  PROVE  screen'.y = Min(y + n, IF y < bottom THEN bottom - 1 ELSE rows - 1)
<1>1. /\ bounds \in Screens /\ screen \in Grid /\ y \in 0..rows - 1
      /\ rows \in Nat /\ top \in Nat /\ bottom \in Nat /\ bottom <= rows /\ top < bottom
  BY InvHas, Sizes DEF RegionOK
<1> DEFINE dest == Min(y + n, rows - 1)
           crosses == top \in y..dest \/ bottom \in y..dest
           b == IF crosses /\ dest >= bottom THEN bottom - 1 ELSE dest
<1>2. screen' = MoveTo(screen, column, b)
  BY DEF CursorDown, Only, Do
<1>3. b \in 0..rows - 1 /\ b = Min(y + n, IF y < bottom THEN bottom - 1 ELSE rows - 1)
  BY <1>1 DEF Min
<1> HIDE DEF b
<1>4. b \in Int
  BY <1>1, <1>3
<1>5. screen'.y = b
  BY <1>1, <1>2, <1>3, <1>4, MoveToGives
<1> QED BY <1>3, <1>5

(* In the region, every step but the ones that name a row stays there.     *)
LEMMA FeedStays ==
  ASSUME TerminalInv, InRegion(screen.y), Index \/ NextLine \/ ReverseIndex
  PROVE  InRegion(screen'.y)
<1>1. /\ bounds \in Screens /\ RegionOK /\ screen \in Grid /\ x \in Int /\ y \in 0..rows - 1
      /\ y \in Int /\ rows \in Nat /\ top \in Nat /\ bottom \in Nat /\ bottom <= rows
  BY InvHas, Sizes DEF RegionOK
<1>2. y = screen.y /\ top <= y /\ y < bottom
  BY <1>1, InvHas DEF InRegion
<1>3. Scroll(screen) \in Grid
  BY <1>1, ScrollGives
<1>4. ASSUME NEW a \in Int, screen' = LineFeed(screen, a)
      PROVE  InRegion(screen'.y)
  <2>1. CASE y = bottom - 1
    <3>1. screen' = MoveTo(Scroll(screen), a, y)
      BY <1>4, <2>1 DEF LineFeed
    <3>2. screen'.y = y
      BY <1>1, <1>3, <3>1, MoveToGives
    <3> QED BY <1>1, <1>2, <3>2 DEF InRegion
  <2>2. CASE y # bottom - 1
    <3> DEFINE b == y + 1
    <3>1. screen' = MoveTo(screen, a, b)
      BY <1>4, <2>2 DEF LineFeed
    <3>2. b \in Int /\ b \in 0..rows - 1 /\ b \in top..(bottom - 1)
      BY <1>1, <1>2, <2>2
    <3> HIDE DEF b
    <3>3. screen'.y = b
      BY <1>1, <3>1, <3>2, MoveToGives
    <3> QED BY <3>2, <3>3 DEF InRegion
  <2> QED BY <2>1, <2>2
<1>5. CASE Index
  BY <1>1, <1>4, <1>5 DEF Index, Only, Do
<1>6. CASE NextLine
  BY <1>4, <1>6 DEF NextLine, Only, Do
<1>7. CASE ReverseIndex
  <2>1. CASE y = top
    <3>1. Revscroll(screen, top) \in Grid
      BY <1>1, <2>1, RevscrollGives
    <3>2. screen' = MoveTo(Revscroll(screen, top), 0, y)
      BY <1>7, <2>1 DEF ReverseIndex, Only, Do
    <3>3. screen'.y = y
      BY <1>1, <3>1, <3>2, MoveToGives
    <3> QED BY <1>1, <1>2, <3>3 DEF InRegion
  <2>2. CASE y # top
    <3> DEFINE b == y - 1
    <3>1. screen' = MoveTo(screen, 0, b)
      BY <1>7, <2>2 DEF ReverseIndex, Only, Do
    <3>2. b \in Int /\ b \in 0..rows - 1 /\ b \in top..(bottom - 1)
      BY <1>1, <1>2, <2>2
    <3> HIDE DEF b
    <3>3. screen'.y = b
      BY <1>1, <3>1, <3>2, MoveToGives
    <3> QED BY <3>2, <3>3 DEF InRegion
  <2> QED BY <2>1, <2>2
<1> QED BY <1>5, <1>6, <1>7

(* ... and so does a character, on a screen that is wide enough ... *)
LEMMA PrintStays ==
  ASSUME TerminalInv, Landscape, InRegion(screen.y), NEW g \in Glyphs, PrintChar(g)
  PROVE  InRegion(screen'.y)
<1>1. /\ bounds \in Screens /\ RegionOK /\ screen \in Grid
      /\ rows \in Nat /\ cols \in Nat /\ top \in Nat /\ bottom \in Nat /\ bottom <= rows
      /\ screen.y \in Nat /\ g \in Chars
  BY InvHas, Sizes, GridHas DEF RegionOK, Chars
<1> DEFINE s == IF insert_mode THEN Shifted ELSE screen
           t == Turned(s, TRUE)
<1>2. s \in Grid /\ s.y = screen.y
  BY <1>1, ShiftedGives
<1>3. screen' = Put(s, g, TRUE)
  BY DEF PrintChar, Only, Do
<1> HIDE DEF s
<1>4. screen'.y = t.y
  BY <1>1, <1>2, <1>3, PutGives
<1>5. CASE Turns(s, TRUE)
  <2> DEFINE row == IF s.y + 1 = bottom THEN s.y ELSE s.y + 1
  <2>1. t = Wrapped(s)
    BY <1>5 DEF Turned
  <2>2. t.y = IF row >= cols THEN cols - 1 ELSE row
    BY <1>1, <1>2, <2>1, WrappedGives
  <2> HIDE DEF t
  <2>3. t.y \in top..(bottom - 1)
    BY <1>1, <1>2, <2>2 DEF Landscape, InRegion
  <2> QED BY <1>4, <2>3 DEF InRegion
<1>6. CASE ~ Turns(s, TRUE)
  <2>1. t = s
    BY <1>6 DEF Turned
  <2> QED BY <1>2, <1>4, <2>1
<1> QED BY <1>5, <1>6

(* ... and a move up or down. *)
LEMMA MovesStay ==
  ASSUME TerminalInv, InRegion(screen.y), NEW n \in Nat, CursorUp(x, n) \/ CursorDown(x, n)
  PROVE  InRegion(screen'.y)
<1>1. /\ screen \in Grid /\ x \in Int /\ y \in 0..rows - 1
      /\ rows \in Nat /\ top \in Nat /\ bottom \in Nat /\ bottom <= rows
  BY InvHas, Sizes DEF RegionOK
<1>2. y = screen.y /\ top <= y /\ y < bottom
  BY <1>1, InvHas DEF InRegion
<1>3. CASE CursorUp(x, n)
  <2>1. screen'.y = Max(y - n, top)
    BY <1>1, <1>2, <1>3, EndsUp
  <2> QED BY <1>1, <1>2, <2>1 DEF Max, InRegion
<1>4. CASE CursorDown(x, n)
  <2>1. screen'.y = Min(y + n, bottom - 1)
    BY <1>1, <1>2, <1>4, EndsDown
  <2> QED BY <1>1, <1>2, <2>1 DEF Min, InRegion
<1> QED BY <1>3, <1>4

(* Both parts of VerticalMoves, in a step. *)
LEMMA VerticalStep ==
  ASSUME TerminalInv
  PROVE  StaysInside /\ EndsNRowsOn
<1>1. Values \subseteq Nat /\ x \in Int
  BY InvHas, Sizes
<1>2. StaysInside
  BY <1>1, FeedStays, PrintStays, MovesStay DEF StaysInside
<1>3. EndsNRowsOn
  BY <1>1, EndsUp, EndsDown DEF EndsNRowsOn
<1> QED BY <1>2, <1>3
-----------------------------------------------------------------------------
(* A step of the terminal is one of its screen, or leaves that alone. *)
LEMMA ScreenStep ==
  ASSUME [FlantermNext]_allVars
  PROVE  [Next]_vars
BY DEF FlantermNext, allVars

LEMMA ScreenRuns == FlantermSpec => Init /\ [][Next]_vars
<1>1. FlantermInit => Init
  BY DEF FlantermInit
<1>2. [FlantermNext]_allVars => [Next]_vars
  BY ScreenStep
<1> QED BY <1>1, <1>2, PTL DEF FlantermSpec

LEMMA TerminalInvAlways == FlantermSpec => []TerminalInv
<1>1. Init => TerminalInv
  BY TerminalInvStarts
<1>2. TerminalInv /\ [Next]_vars => TerminalInv'
  BY TerminalInvStays
<1> QED BY <1>1, <1>2, ScreenRuns, PTL

(* On every screen, the fields of the terminal stay in their ranges: the   *)
(* cursor on the screen or right of it, the region within it, the parser's *)
(* counters within its arrays, the colours within the palette              *)
(* (flanterm.c:115-326, 484-522, 536-776, 1199-1346, fb.c:545-624, 789-809)*)
THEOREM FieldsInRange == FlantermSpec => []FieldsOK
<1>1. Front!Spec => []Front!TypeOK
  BY FlantermAssumption, Front!FieldsInRange DEF FlantermAssumption
<1>2. Front!SgrSpec => []Front!SgrTypeOK
  BY FlantermAssumption, Front!ColoursInRange DEF FlantermAssumption
<1>3. TerminalInv => TypeOK
  <2> SUFFICES ASSUME TerminalInv PROVE TypeOK
    OBVIOUS
  <2>1. /\ bounds \in Screens /\ screen \in Grid /\ screen.x <= cols
        /\ top \in Nat /\ bottom \in Nat /\ bottom <= rows
        /\ top < bottom - 1 \/ (top = 0 /\ bottom = rows)
        /\ saved_cursor \in Cells
        /\ saved_state \in (0..cols) \X (0..Max(rows, cols) - 1)
    BY DEF TerminalInv, RegionOK
  <2>2. /\ screen.text \in [Cells -> Glyphs \cup {Space}] /\ screen.x \in Nat
        /\ screen.y \in 0..Max(rows, cols) - 1 /\ cols \in Nat
    BY <2>1, GridHas, Sizes DEF Chars
  <2> QED BY <2>1, <2>2 DEF TypeOK
<1> QED
  BY <1>1, <1>2, <1>3, ImplementsParser, ImplementsColour, TerminalInvAlways, PTL DEF FieldsOK

(* For every screen, a vertical move, a line feed or a text takes the       *)
(* cursor to the row that it asks for, and not out of the region           *)
(* (flanterm.c:536-574, 1289-1298, fb.c:789-802).                          *)
THEOREM StaysInTheRegion == FlantermSpec => VerticalMoves
<1>1. TerminalInv => StaysInside /\ EndsNRowsOn
  BY VerticalStep
<1>2. TerminalInv => [StaysInside /\ EndsNRowsOn]_vars
  BY <1>1
<1> QED BY <1>2, TerminalInvAlways, PTL DEF VerticalMoves
-----------------------------------------------------------------------------
(* Cells in the order of the text, and their numbers.                      *)
Nth(column, row) == row * cols + column

LEMMA NthIs ==
  ASSUME bounds \in Screens, NEW a \in Nat, NEW b \in Nat
  PROVE  /\ Nth(a, b) \in Nat /\ Nth(a + 1, b) = Nth(a, b) + 1
         /\ Nth(0, b + 1) = Nth(cols, b)
<1>1. cols \in Nat
  BY Sizes
<1>2. b * cols \in Nat /\ (b + 1) * cols = b * cols + cols
  BY <1>1
<1> DEFINE p == b * cols  q == (b + 1) * cols
<1>3. p \in Nat /\ q = p + cols
  BY <1>2
<1> HIDE DEF p, q
<1>4. p + a \in Nat /\ p + (a + 1) = (p + a) + 1 /\ q + 0 = p + cols
  BY <1>1, <1>3
<1> QED BY <1>4 DEF Nth, p, q

(* A number has one column and one row. *)
LEMMA InOrder ==
  ASSUME bounds \in Screens, NEW a \in Nat, NEW b \in Nat, NEW u \in 1..cols, NEW v \in 1..cols
  PROVE  /\ Nth(u, a) = Nth(v, b) => a = b /\ u = v
         /\ Nth(u, a) < Nth(v, b) => a < b \/ (a = b /\ u < v)
<1>1. cols \in Nat
  BY Sizes
<1>2. ASSUME NEW d \in Nat, NEW e \in Nat, d < e PROVE e * cols >= d * cols + cols
  <2> DEFINE k == e - d - 1
  <2>1. k \in Nat /\ e = d + 1 + k
    BY <1>2
  <2> HIDE DEF k
  <2>2. e * cols = (d * cols + cols) + k * cols
    BY <1>1, <2>1
  <2>3. k * cols \in Nat /\ d * cols \in Nat
    BY <1>1, <2>1
  <2> DEFINE p == k * cols  q == d * cols
  <2> HIDE DEF p, q
  <2> QED BY <1>1, <2>2, <2>3 DEF p, q
<1> DEFINE p == a * cols  q == b * cols
<1>3. p \in Nat /\ q \in Nat
  BY <1>1
<1>4. (a < b => q >= p + cols) /\ (b < a => p >= q + cols)
  BY <1>2
<1> HIDE DEF p, q
<1>5. /\ p + u = q + v => a = b /\ u = v
      /\ p + u < q + v => a < b \/ (a = b /\ u < v)
  <2>1. CASE a = b
    <3>1. p = q
      BY <2>1 DEF p, q
    <3> QED BY <1>1, <1>3, <2>1, <3>1
  <2>2. CASE a # b
    BY <1>1, <1>3, <1>4, <2>2
  <2> QED BY <2>1, <2>2
<1> QED BY <1>5 DEF Nth, p, q

(* Blanks over several rows of a screen without a region. *)
Over(s, column, row) ==
  [c \in Cells |-> IF ~ Before(c, s.x, s.y) /\ Before(c, column, row) THEN Space
                   ELSE s.text[c]]

(* Blanks in the order of the text: one more. *)
LEMMA OneMore ==
  ASSUME bounds \in Screens, NEW s \in Grid, NEW a \in 0..cols - 1, NEW b \in 0..rows - 1,
         ~ Before(<<a, b>>, s.x, s.y)
  PROVE  [Over(s, a, b) EXCEPT ![<<a, b>>] = Space] = Over(s, a + 1, b)
<1> DEFINE here == <<a, b>>
<1>1. here \in Cells
  BY CellIs, Sizes
<1>2. ASSUME NEW c \in Cells
      PROVE  [Over(s, a, b) EXCEPT ![here] = Space][c] = Over(s, a + 1, b)[c]
  <2>1. c[1] \in Nat /\ c[2] \in Nat /\ c = <<c[1], c[2]>> /\ a \in Nat /\ b \in Nat
    BY CellHas, Sizes
  <2>2. CASE c = here
    <3>1. c[1] = a /\ c[2] = b
      BY <2>2
    <3>2. Before(c, a + 1, b) /\ ~ Before(c, s.x, s.y)
      BY <2>1, <2>2, <3>1 DEF Before
    <3> QED BY <1>1, <2>2, <3>2 DEF Over
  <2>3. CASE c # here
    <3>1. ~ (c[1] = a /\ c[2] = b)
      BY <2>1, <2>3
    <3>2. Before(c, a + 1, b) <=> Before(c, a, b)
      BY <2>1, <3>1 DEF Before
    <3>3. [Over(s, a, b) EXCEPT ![here] = Space][c] = Over(s, a, b)[c]
      BY <2>3 DEF Over
    <3> HIDE DEF here
    <3> QED BY <3>2, <3>3 DEF Over
  <2> QED BY <2>2, <2>3
<1> QED BY <1>2 DEF Over

(* The first column of a row comes after the last of the row before.       *)
LEMMA NextRow ==
  ASSUME bounds \in Screens, NEW s \in Grid, NEW b \in Nat
  PROVE  Over(s, cols, b) = Over(s, 0, b + 1)
<1>1. ASSUME NEW c \in Cells
      PROVE  Before(c, cols, b) <=> Before(c, 0, b + 1)
  BY CellHas, Sizes DEF Before
<1> QED BY <1>1 DEF Over

(* Blanks in the order of the text, over the ends of rows. *)
LEMMA BlanksOver ==
  ASSUME bounds \in Screens, RegionOK, Landscape, Whole, NEW s \in Grid,
         s.x < cols, s.y < rows, NEW column \in 1..cols, NEW row \in 0..rows - 1,
         NEW n \in Nat \ {0}, Nth(s.x, s.y) + n = Nth(column, row)
  PROVE  Blanks(n, s) \in Grid /\ Blanks(n, s).text = Over(s, column, row)
<1>1. PICK h \in [0..n -> Grid] :
        /\ h[0] = s /\ h[n] = Blanks(n, s)
        /\ \A k \in 1..n : h[k] = Put(h[k - 1], Space, FALSE)
  BY BlanksRun
<1>2. /\ s.x \in Nat /\ s.y \in Nat /\ s.text \in [Cells -> Chars]
      /\ rows \in Nat /\ cols \in Nat /\ cols > 0 /\ rows > 0 /\ cols >= rows
      /\ top = 0 /\ bottom = rows /\ Space \in Chars /\ FALSE \in BOOLEAN
  BY GridHas, Sizes DEF Landscape, Whole, Chars
<1> DEFINE At(p, k) ==
             /\ p.x <= cols /\ p.y < rows /\ (k > 0 => p.x > 0)
             /\ ~ Before(<<p.x, p.y>>, s.x, s.y)
             /\ Nth(p.x, p.y) = Nth(s.x, s.y) + k
             /\ p.text = Over(s, p.x, p.y)
           A == {k \in 0..n : At(h[k], k)}
<1>3. 0 \in A
  <2>1. Over(s, s.x, s.y) = s.text
    <3>1. \A c \in Cells : ~ (~ Before(c, s.x, s.y) /\ Before(c, s.x, s.y))
      OBVIOUS
    <3> QED BY <1>2, <3>1 DEF Over
  <2>2. ~ Before(<<s.x, s.y>>, s.x, s.y)
    BY <1>2 DEF Before
  <2>3. Nth(s.x, s.y) \in Nat
    BY <1>2, NthIs
  <2>4. At(s, 0)
    BY <1>2, <2>1, <2>2, <2>3
  <2> QED BY <1>1, <2>4
<1>4. ASSUME NEW k \in 1..n, k - 1 \in A PROVE k \in A
  <2> DEFINE p == h[k - 1]  t == Turned(p, FALSE)
  <2>1. p \in Grid /\ At(p, k - 1) /\ h[k] = Put(p, Space, FALSE)
    BY <1>1, <1>4
  <2>2. p.x \in Nat /\ p.y \in Nat
    BY <2>1, GridHas, Sizes
  <2> HIDE DEF p
  <2>3. /\ t \in Grid /\ t.x \in Nat /\ t.x < cols /\ t.y \in Nat /\ t.y < rows
        /\ ~ Before(<<t.x, t.y>>, s.x, s.y)
        /\ Nth(t.x, t.y) = Nth(s.x, s.y) + (k - 1)
        /\ t.text = Over(s, t.x, t.y)
    <3>1. CASE p.x >= cols
      <4>1. p.x = cols /\ p.x \in 1..cols
        BY <1>2, <2>1, <2>2, <3>1
      <4>2. Nth(p.x, p.y) < Nth(column, row)
        <5>1. /\ Nth(s.x, s.y) \in Nat
              /\ Nth(p.x, p.y) = Nth(s.x, s.y) + (k - 1)
              /\ Nth(column, row) = Nth(s.x, s.y) + n
          BY <1>2, <2>1, NthIs
        <5> QED BY <5>1
      <4>3. p.y < row
        BY <1>2, <2>2, <4>1, <4>2, InOrder
      <4>4. Turns(p, FALSE)
        BY <1>2, <2>2, <3>1, <4>3 DEF Turns
      <4>5. t = Wrapped(p) /\ p.y + 1 # bottom /\ p.y + 1 < cols
        BY <1>2, <2>2, <4>3, <4>4 DEF Turned
      <4>6. t \in Grid /\ t.x = 0 /\ t.y = p.y + 1 /\ t.text = p.text
        <5> DEFINE w == Wrapped(p)
        <5>1. /\ w \in Grid /\ w.x = 0 /\ w.text = p.text
              /\ w.y = IF p.y + 1 >= cols THEN cols - 1 ELSE p.y + 1
          BY <2>1, <4>5, WrappedGives
        <5>2. w = t
          BY <4>5
        <5> HIDE DEF w, t
        <5>3. w.y = p.y + 1
          BY <1>2, <2>2, <4>5, <5>1
        <5> QED BY <5>1, <5>2, <5>3
      <4>7. Nth(0, p.y + 1) = Nth(p.x, p.y)
        BY <2>2, <4>1, NthIs
      <4>8. p.text = Over(s, 0, p.y + 1)
        BY <2>1, <2>2, <4>1, NextRow
      <4>9. ~ Before(<<0, p.y + 1>>, s.x, s.y)
        BY <1>2, <2>1, <2>2 DEF Before
      <4>10. Nth(t.x, t.y) = Nth(s.x, s.y) + (k - 1)
        BY <2>1, <4>6, <4>7
      <4> HIDE DEF t
      <4> QED BY <1>2, <2>2, <4>3, <4>6, <4>8, <4>9, <4>10
    <3>2. CASE p.x < cols
      <4>1. t = p
        BY <2>2, <1>2, <3>2 DEF Turned, Turns
      <4> HIDE DEF t
      <4> QED BY <2>1, <2>2, <3>2, <4>1
    <3>3. p.x >= cols \/ p.x < cols
      BY <1>2, <2>2
    <3> QED BY ONLY <3>1, <3>2, <3>3
  <2>4. /\ h[k].x = t.x + 1 /\ h[k].y = t.y
        /\ h[k].text = [t.text EXCEPT ![<<t.x, t.y>>] = Space]
    <3>1. <<t.x, t.y>> \in Cells
      <4> DEFINE a == t.x  b == t.y
      <4> HIDE DEF t
      <4>1. a \in Int /\ b \in Int /\ a \in 0..cols - 1 /\ b \in 0..rows - 1
        BY <1>2, <2>3
      <4> HIDE DEF a, b
      <4>2. <<a, b>> \in Cells
        BY <4>1, CellIs
      <4> QED BY <4>2 DEF a, b
    <3> DEFINE q == Put(p, Space, FALSE)
    <3>2. /\ q.x = t.x + 1 /\ q.y = t.y
          /\ q.text = IF <<t.x, t.y>> \in Cells THEN [t.text EXCEPT ![<<t.x, t.y>>] = Space]
                      ELSE t.text
      BY <1>2, <2>1, PutGives
    <3>3. h[k] = q
      BY <2>1
    <3> HIDE DEF q, t
    <3> QED BY <3>1, <3>2, <3>3
  <2> HIDE DEF t
  <2> DEFINE a == t.x  b == t.y
  <2>5. /\ a \in Nat /\ a < cols /\ b \in Nat /\ b < rows
        /\ ~ Before(<<a, b>>, s.x, s.y) /\ Nth(a, b) = Nth(s.x, s.y) + (k - 1)
        /\ h[k].x = a + 1 /\ h[k].y = b
        /\ h[k].text = [Over(s, a, b) EXCEPT ![<<a, b>>] = Space]
    BY <2>3, <2>4
  <2> HIDE DEF a, b
  <2>6. h[k].text = Over(s, a + 1, b)
    BY <1>2, <2>5, OneMore
  <2>7. ~ Before(<<a + 1, b>>, s.x, s.y)
    BY <1>2, <2>5 DEF Before
  <2>8. Nth(a + 1, b) = Nth(s.x, s.y) + k
    <3>1. Nth(a + 1, b) = Nth(a, b) + 1 /\ Nth(s.x, s.y) \in Nat
      BY <1>2, <2>5, NthIs
    <3> QED BY <2>5, <3>1
  <2>9. At(h[k], k)
    BY <1>2, <2>5, <2>6, <2>7, <2>8
  <2> QED BY <2>9
<1> HIDE DEF A
<1>5. n \in A
  <2>1. n \in Nat
    OBVIOUS
  <2>2. \A k \in 0..n : k \in A
    BY <1>3, <1>4, <2>1, Rounds
  <2> QED BY <2>1, <2>2
<1> DEFINE z == Blanks(n, s)
<1>6. z \in Grid /\ At(z, n)
  BY <1>1, <1>5 DEF A
<1> HIDE DEF z
<1>7. z.x \in 1..cols /\ z.y \in Nat /\ Nth(z.x, z.y) = Nth(column, row)
  BY <1>2, <1>6, GridHas, Sizes
<1>8. z.y = row /\ z.x = column
  BY <1>2, <1>7, InOrder
<1> QED BY <1>6, <1>8 DEF z

(* What a command that erases has to show, once its text is known. *)
LEMMA ErasesIf ==
  ASSUME TerminalInv, InPlace, NEW name, NEW p \in Grid, NEW set,
         p.text = [c \in Cells |-> IF c \in set THEN Space ELSE screen.text[c]],
         Only(name, MoveTo(p, x, y))
  PROVE  Erases(set)
<1>1. bounds \in Screens /\ x \in 0..cols - 1 /\ y \in 0..rows - 1 /\ x \in Int /\ y \in Int
  BY InvHas, Sizes
<1>2. screen' = MoveTo(p, x, y)
  BY DEF Only, Do
<1> DEFINE q == MoveTo(p, x, y)
<1>3. q \in Grid /\ q.text = p.text /\ q.x = x /\ q.y = y
  BY <1>1, MoveToGives
<1>4. X(q) = x /\ Y(q) = y
  BY <1>1, <1>3, Sizes DEF X, Y, Min
<1> HIDE DEF q
<1>5. screen' = q
  BY <1>2 DEF q
<1>6. screen'.text = p.text /\ X(screen') = x /\ Y(screen') = y
  BY <1>3, <1>4, <1>5
<1> QED BY <1>6 DEF Erases

(* J, K and X, each with its set of cells. *)
LEMMA ErasesOnlyThatStep ==
  ASSUME TerminalInv
  PROVE  ErasesOnlyThat
<1> SUFFICES ASSUME InPlace
             PROVE  /\ Landscape /\ Whole /\ EraseDisplay(0)
                         => Erases({c \in Cells : ~ Before(c, x, y)})
                    /\ Landscape /\ Whole /\ EraseDisplay(1)
                         => Erases({c \in Cells : Before(c, x + 1, y)})
                    /\ EraseDisplay(2) => Erases(Cells)
                    /\ EraseLine(0) => Erases({c \in Cells : c[2] = y /\ c[1] >= x})
                    /\ EraseLine(1) => Erases({c \in Cells : c[2] = y /\ c[1] < x})
                    /\ EraseLine(2) => Erases({c \in Cells : c[2] = y})
                    /\ \A n \in Values : n <= cols - x /\ EraseChars(n) =>
                         Erases({c \in Cells : c[2] = y /\ c[1] \in x..(x + n - 1)})
  BY DEF ErasesOnlyThat
<1>1. /\ bounds \in Screens /\ RegionOK /\ screen \in Grid
      /\ x \in 0..cols - 1 /\ y \in 0..rows - 1 /\ x \in Nat /\ y \in Nat
      /\ screen.x = x /\ screen.y = y
      /\ rows \in Nat /\ cols \in Nat /\ rows > 0 /\ cols > 0 /\ Values \subseteq Nat
  BY InvHas, Sizes DEF InPlace
<1>2. ASSUME NEW n \in Nat, NEW s \in Grid, NEW a, NEW name, s.text = screen.text,
             a \in Nat, s.x = a, s.y = y, a + n <= cols, Only(name, MoveTo(Blanks(n, s), x, y))
      PROVE  Erases({c \in Cells : c[2] = y /\ a <= c[1] /\ c[1] < a + n})
  <2> DEFINE p == Blanks(n, s)  set == {c \in Cells : c[2] = y /\ a <= c[1] /\ c[1] < a + n}
  <2>1. p \in Grid /\ p.text = Blanked(s, n)
    BY <1>1, <1>2, BlanksInRow
  <2>2. Blanked(s, n) = [c \in Cells |-> IF c \in set THEN Space ELSE screen.text[c]]
    BY <1>2 DEF Blanked
  <2> HIDE DEF p, set
  <2>3. Only(name, MoveTo(p, x, y))
    BY <1>2 DEF p
  <2>4. Erases(set)
    BY <2>1, <2>2, <2>3, ErasesIf
  <2> QED BY <2>4 DEF set
<1>3. /\ MoveTo(screen, 0, y) \in Grid /\ MoveTo(screen, 0, y).text = screen.text
      /\ MoveTo(screen, 0, y).x = 0 /\ MoveTo(screen, 0, y).y = y
  BY <1>1, MoveToGives
<1>4. ASSUME Landscape, Whole, EraseDisplay(0)
      PROVE  Erases({c \in Cells : ~ Before(c, x, y)})
  <2> DEFINE p == Blanks(ToClear, screen)  row == rows - 1
             set == {c \in Cells : ~ Before(c, x, y)}
  <2>1. ToClear \in Nat \ {0} /\ Nth(x, y) + ToClear = Nth(cols, row)
    <3> DEFINE u == rows - (y + 1)  v == u * cols  w == y * cols
    <3>1. u \in Nat /\ row = y + u /\ row \in Nat
      BY <1>1
    <3>2. v \in Nat /\ w \in Nat
      BY <1>1, <3>1
    <3>3. row * cols = w + v
      BY <1>1, <3>1
    <3> HIDE DEF u, v, w, row
    <3>4. ToClear = v + (cols - (x + 1)) + 1 /\ Nth(x, y) = w + x /\ Nth(cols, row) = row * cols + cols
      BY DEF ToClear, Nth, u, v, w
    <3> QED BY <1>1, <3>2, <3>3, <3>4
  <2>2. row \in 0..rows - 1 /\ cols \in 1..cols
    BY <1>1
  <2> HIDE DEF row
  <2>3. p \in Grid /\ p.text = Over(screen, cols, row)
    BY <1>1, <1>4, <2>1, <2>2, BlanksOver DEF InPlace
  <2>4. Over(screen, cols, row) = [c \in Cells |-> IF c \in set THEN Space ELSE screen.text[c]]
    <3>1. ASSUME NEW c \in Cells PROVE Before(c, cols, row)
      BY <1>1, CellHas DEF Before, row
    <3> QED BY <1>1, <3>1 DEF Over
  <2>5. Only("erase", MoveTo(p, x, y))
    BY <1>4 DEF EraseDisplay
  <2> HIDE DEF p, set
  <2>6. Erases(set)
    BY <2>3, <2>4, <2>5, ErasesIf
  <2> QED BY <2>6 DEF set
<1>5. ASSUME Landscape, Whole, EraseDisplay(1)
      PROVE  Erases({c \in Cells : Before(c, x + 1, y)})
  <2> DEFINE s == MoveTo(screen, 0, 0)  n == y * cols + x + 1  p == Blanks(n, s)
             set == {c \in Cells : Before(c, x + 1, y)}
  <2>1. s \in Grid /\ s.x = 0 /\ s.y = 0 /\ s.text = screen.text
    BY <1>1, MoveToGives
  <2>2. n \in Nat \ {0} /\ Nth(0, 0) + n = Nth(x + 1, y)
    <3> DEFINE w == y * cols
    <3>1. w \in Nat /\ 0 * cols = 0
      BY <1>1
    <3> HIDE DEF w
    <3>2. Nth(0, 0) = 0 * cols + 0 /\ Nth(x + 1, y) = w + (x + 1) /\ n = w + x + 1
      BY DEF Nth, w
    <3> QED BY <1>1, <3>1, <3>2
  <2>3. Only("erase", MoveTo(p, x, y))
    BY <1>5 DEF EraseDisplay
  <2>4. x + 1 \in 1..cols
    BY <1>1
  <2> HIDE DEF s, n
  <2>5. p \in Grid /\ p.text = Over(s, x + 1, y)
    BY <1>1, <1>5, <2>1, <2>2, <2>4, BlanksOver
  <2>6. Over(s, x + 1, y) = [c \in Cells |-> IF c \in set THEN Space ELSE screen.text[c]]
    <3>1. ASSUME NEW c \in Cells PROVE ~ Before(c, 0, 0)
      BY <1>1, CellHas DEF Before
    <3> QED BY <2>1, <3>1 DEF Over
  <2> HIDE DEF p, set
  <2>7. Erases(set)
    BY <2>3, <2>5, <2>6, ErasesIf
  <2> QED BY <2>7 DEF set
<1>6. ASSUME EraseDisplay(2) PROVE Erases(Cells)
  <2> DEFINE p == Clear(screen)
  <2>1. screen' = p
    BY <1>6 DEF EraseDisplay, Only, Do
  <2>2. p.x = screen.x /\ p.y = screen.y /\ p.text = [c \in Cells |-> Space]
    BY <1>1, ClearGives
  <2> HIDE DEF p
  <2>3. X(screen') = x /\ Y(screen') = y
    BY <2>1, <2>2 DEF X, Y, x, y
  <2>4. screen'.text = [c \in Cells |-> IF c \in Cells THEN Space ELSE screen.text[c]]
    BY <2>1, <2>2
  <2> QED BY <2>3, <2>4 DEF Erases
<1>7. ASSUME EraseLine(0) PROVE Erases({c \in Cells : c[2] = y /\ c[1] >= x})
  <2> DEFINE n == cols - x
  <2>1. n \in Nat /\ x + n = cols /\ Only("erase", MoveTo(Blanks(n, screen), x, y))
    BY <1>1, <1>7 DEF EraseLine
  <2> HIDE DEF n
  <2>2. Erases({c \in Cells : c[2] = y /\ x <= c[1] /\ c[1] < x + n})
    BY <1>1, <1>2, <2>1
  <2>3. {c \in Cells : c[2] = y /\ x <= c[1] /\ c[1] < x + n}
          = {c \in Cells : c[2] = y /\ c[1] >= x}
    BY <1>1, <2>1, CellHas
  <2> QED BY <2>2, <2>3
<1>8. ASSUME EraseLine(1) PROVE Erases({c \in Cells : c[2] = y /\ c[1] < x})
  <2> DEFINE s == MoveTo(screen, 0, y)  p == Blanks(x, s)
  <2>1. screen' = p
    BY <1>8 DEF EraseLine, Only, Do
  <2>2. p \in Grid /\ p.x = x /\ p.y = y /\ p.text = Blanked(s, x)
    <3> HIDE DEF s
    <3>1. s \in Grid /\ s.text = screen.text /\ s.x = 0 /\ s.y = y
      BY <1>3 DEF s
    <3>2. s.x + x <= cols /\ s.y < rows /\ s.x + x = x
      BY <1>1, <3>1
    <3> QED BY <1>1, <3>1, <3>2, BlanksInRow
  <2>3. Blanked(s, x) = [c \in Cells |-> IF c \in {d \in Cells : d[2] = y /\ d[1] < x}
                                         THEN Space ELSE screen.text[c]]
    BY <1>1, <1>3, CellHas DEF Blanked
  <2> HIDE DEF p, s
  <2>4. X(screen') = x /\ Y(screen') = y
    BY <1>1, <2>1, <2>2 DEF X, Y, Min
  <2> QED BY <2>1, <2>2, <2>3, <2>4 DEF Erases
<1>9. ASSUME EraseLine(2) PROVE Erases({c \in Cells : c[2] = y})
  <2> DEFINE s == MoveTo(screen, 0, y)
  <2>1. Only("erase", MoveTo(Blanks(cols, s), x, y))
    BY <1>9 DEF EraseLine
  <2>2. s \in Grid /\ s.text = screen.text /\ s.x = 0 /\ s.y = y /\ 0 + cols <= cols
    BY <1>1, <1>3
  <2> HIDE DEF s
  <2>3. Erases({c \in Cells : c[2] = y /\ 0 <= c[1] /\ c[1] < 0 + cols})
    BY <1>1, <1>2, <2>1, <2>2
  <2>4. {c \in Cells : c[2] = y /\ 0 <= c[1] /\ c[1] < 0 + cols} = {c \in Cells : c[2] = y}
    BY <1>1, CellHas
  <2> QED BY <2>3, <2>4
<1>10. ASSUME NEW n \in Values, n <= cols - x, EraseChars(n)
       PROVE  Erases({c \in Cells : c[2] = y /\ c[1] \in x..(x + n - 1)})
  <2>1. n \in Nat /\ x + n <= cols /\ Min(n, cols) = n
    BY <1>1, <1>10 DEF Min
  <2>2. Only("erase", MoveTo(Blanks(n, screen), x, y))
    BY <1>10, <2>1 DEF EraseChars
  <2>3. Erases({c \in Cells : c[2] = y /\ x <= c[1] /\ c[1] < x + n})
    BY <1>1, <1>2, <2>1, <2>2
  <2>4. {c \in Cells : c[2] = y /\ x <= c[1] /\ c[1] < x + n}
          = {c \in Cells : c[2] = y /\ c[1] \in x..(x + n - 1)}
    BY <1>1, <2>1, CellHas
  <2> QED BY <2>3, <2>4
<1> QED BY <1>4, <1>5, <1>6, <1>7, <1>8, <1>9, <1>10
-----------------------------------------------------------------------------
(* The rest of the row, while it moves.  First what is opened: from column *)
(* a on it is n further right, and there is room before it.                *)
OpenedTo(n, a) ==
  [c \in Cells |->
     IF c[2] = y /\ c[1] >= a
     THEN IF c[1] < a + n THEN Space ELSE screen.text[<<c[1] - n, y>>]
     ELSE screen.text[c]]

LEMMA OpenedOne ==
  ASSUME TerminalInv, InPlace, NEW n \in Nat \ {0}, NEW a \in x..cols - 1, NEW s \in Grid,
         s.text = OpenedTo(n, a + 1)
  PROVE  LET p == Put(MoveTo(Copy(s, a + n, a, y), a, y), Space, FALSE)
         IN  p \in Grid /\ p.text = OpenedTo(n, a)
<1>1. /\ bounds \in Screens /\ RegionOK /\ screen \in Grid /\ screen.text \in [Cells -> Chars]
      /\ x \in 0..cols - 1 /\ y \in 0..rows - 1 /\ x \in Nat /\ y \in Nat
      /\ rows \in Nat /\ cols \in Nat /\ rows > 0 /\ cols > 0
      /\ Space \in Chars /\ FALSE \in BOOLEAN
  BY InvHas, GridHas, Sizes DEF Chars
<1>2. a \in Nat /\ a \in Int /\ a \in 0..cols - 1 /\ a + n \in Nat /\ y \in Int /\ a + 1 \in Nat
  BY <1>1
<1> DEFINE u == Copy(s, a + n, a, y)  v == MoveTo(u, a, y)  p == Put(v, Space, FALSE)
           here == <<a, y>>  there == <<a + n, y>>
<1>3. /\ u \in Grid
      /\ u.text = IF a + n < cols THEN [s.text EXCEPT ![there] = s.text[here]] ELSE s.text
  BY <1>1, <1>2, CopyGives
<1> HIDE DEF u
<1>4. v \in Grid /\ v.text = u.text /\ v.x = a /\ v.y = y
  BY <1>1, <1>2, <1>3, MoveToGives
<1> HIDE DEF v
<1>5. v.x < cols /\ v.y < rows
  BY <1>1, <1>2, <1>4
<1>6. p \in Grid /\ p.text = [v.text EXCEPT ![<<v.x, v.y>>] = Space]
  BY <1>1, <1>4, <1>5, PutInRow
<1> HIDE DEF p
<1>7. p.text = [u.text EXCEPT ![here] = Space]
  BY <1>4, <1>6
<1>8. s.text = [c \in Cells |->
        IF c[2] = y /\ c[1] >= a + 1
        THEN IF c[1] < (a + 1) + n THEN Space ELSE screen.text[<<c[1] - n, y>>]
        ELSE screen.text[c]]
  BY DEF OpenedTo
<1>9. here \in Cells
  BY <1>1, <1>2, CellIs
<1>10. s.text[here] = screen.text[here]
  <2>1. here[1] = a
    OBVIOUS
  <2> HIDE DEF here
  <2>2. s.text[here] = IF here[2] = y /\ here[1] >= a + 1
                       THEN IF here[1] < (a + 1) + n THEN Space
                            ELSE screen.text[<<here[1] - n, y>>]
                       ELSE screen.text[here]
    BY <1>8, <1>9
  <2>3. ~ (here[1] >= a + 1)
    BY <1>2, <2>1
  <2> QED BY ONLY <2>2, <2>3
<1>11. DOMAIN u.text = Cells
  BY <1>3, <1>8
<1>12. ASSUME NEW c \in Cells
       PROVE  p.text[c] = OpenedTo(n, a)[c]
  <2>1. c[1] \in Nat /\ c[2] \in Nat /\ c = <<c[1], c[2]>> /\ c[1] < cols
    BY <1>1, CellHas
  <2>2. OpenedTo(n, a)[c] = IF c[2] = y /\ c[1] >= a
                            THEN IF c[1] < a + n THEN Space ELSE screen.text[<<c[1] - n, y>>]
                            ELSE screen.text[c]
    BY DEF OpenedTo
  <2>3. CASE c = here
    <3>1. c[1] = a /\ c[2] = y
      BY <2>3
    <3>2. p.text[c] = Space
      BY <1>7, <1>9, <1>11, <2>3
    <3> QED BY <1>2, <2>2, <3>1, <3>2
  <2>4. CASE c = there
    <3>1. c[1] = a + n /\ c[2] = y /\ c # here /\ a + n < cols
      BY <1>2, <2>1, <2>4
    <3>2. p.text[c] = u.text[c]
      BY <1>7, <1>11, <3>1
    <3>3. u.text[c] = screen.text[here]
      BY <1>3, <1>8, <1>10, <2>4, <3>1
    <3>4. OpenedTo(n, a)[c] = screen.text[<<c[1] - n, y>>] /\ c[1] - n = a
      BY <1>2, <2>2, <3>1
    <3> QED BY <3>2, <3>3, <3>4
  <2>5. CASE c # here /\ c # there
    <3>1. ~ (c[1] = a /\ c[2] = y) /\ ~ (c[1] = a + n /\ c[2] = y)
      BY <2>1, <2>5
    <3>2. p.text[c] = u.text[c]
      BY <1>7, <1>11, <2>5
    <3>3. u.text[c] = s.text[c]
      BY <1>3, <1>8, <2>5
    <3>4. s.text[c] = IF c[2] = y /\ c[1] >= a + 1
                      THEN IF c[1] < (a + 1) + n THEN Space ELSE screen.text[<<c[1] - n, y>>]
                      ELSE screen.text[c]
      BY <1>8
    <3>5. /\ (c[2] = y /\ c[1] >= a + 1) <=> (c[2] = y /\ c[1] >= a)
          /\ c[2] = y => (c[1] < (a + 1) + n <=> c[1] < a + n)
      BY <1>2, <2>1, <3>1
    <3> QED BY <2>2, <3>2, <3>3, <3>4, <3>5
  <2> QED BY <2>3, <2>4, <2>5
<1>13. p.text = OpenedTo(n, a)
  <2>1. p.text = [c \in Cells |-> p.text[c]]
    BY <1>7, <1>11
  <2>2. OpenedTo(n, a) = [c \in Cells |-> OpenedTo(n, a)[c]]
    BY DEF OpenedTo
  <2> QED BY <1>12, <2>1, <2>2
<1> QED BY <1>6, <1>13 DEF p, v, u

(* All rounds of @. *)
LEMMA OpenedGives ==
  ASSUME TerminalInv, InPlace, NEW n \in Nat \ {0}
  PROVE  Opened(n) \in Grid /\ Opened(n).text = OpenedTo(n, x)
<1> DEFINE r == cols - x
<1>1. /\ bounds \in Screens /\ screen \in Grid /\ screen.text \in [Cells -> Chars]
      /\ cols \in Nat /\ x \in Nat /\ r \in Nat /\ cols - r = x /\ cols - 0 = cols
  BY InvHas, GridHas, Sizes
<1>2. PICK h \in [0..r -> Grid] :
        /\ h[0] = screen /\ h[r] = Opened(n)
        /\ \A k \in 1..r :
             h[k] = Put(MoveTo(Copy(h[k - 1], cols - k + n, cols - k, y), cols - k, y),
                        Space, FALSE)
  BY OpenedRun
<1> HIDE DEF r
<1> DEFINE A == {k \in 0..r : h[k].text = OpenedTo(n, cols - k)}
<1>3. 0 \in A
  <2>1. \A c \in Cells : ~ (c[1] >= cols)
    BY <1>1, CellHas
  <2>2. OpenedTo(n, cols) = screen.text
    BY <1>1, <2>1 DEF OpenedTo
  <2> QED BY <1>1, <1>2, <2>2
<1>4. ASSUME NEW k \in 1..r, k - 1 \in A PROVE k \in A
  <2> DEFINE a == cols - k  s == h[k - 1]
  <2>1. a \in x..cols - 1 /\ cols - (k - 1) = a + 1
    BY <1>1
  <2>2. s \in Grid /\ s.text = OpenedTo(n, a + 1)
    BY <1>1, <1>2, <1>4, <2>1
  <2>3. h[k] = Put(MoveTo(Copy(s, a + n, a, y), a, y), Space, FALSE)
    BY <1>2
  <2> HIDE DEF a, s
  <2>4. h[k].text = OpenedTo(n, a)
    BY <2>1, <2>2, <2>3, OpenedOne
  <2> QED BY <2>4 DEF a
<1> HIDE DEF A
<1>5. \A k \in 0..r : k \in A
  BY <1>1, <1>3, <1>4, Rounds
<1>6. r \in A
  BY <1>1, <1>5
<1> QED BY <1>1, <1>2, <1>6 DEF A

(* What is closed: up to column a it is n further left. *)
ClosedTo(n, a) ==
  [c \in Cells |-> IF c[2] = y /\ c[1] >= x /\ c[1] < a THEN screen.text[<<c[1] + n, y>>]
                   ELSE screen.text[c]]

LEMMA ClosedOne ==
  ASSUME TerminalInv, NEW n \in Nat, NEW a \in Nat, a >= x, a + n < cols, NEW s \in Grid,
         s.text = ClosedTo(n, a)
  PROVE  Copy(s, a, a + n, y).text = ClosedTo(n, a + 1)
<1>1. /\ bounds \in Screens /\ screen \in Grid /\ screen.text \in [Cells -> Chars]
      /\ x \in Nat /\ y \in Nat /\ y \in 0..rows - 1 /\ rows \in Nat /\ cols \in Nat
      /\ a + n \in 0..cols - 1 /\ a < cols
  BY InvHas, GridHas, Sizes
<1> DEFINE here == <<a, y>>  there == <<a + n, y>>  t == Copy(s, a, a + n, y).text
<1>2. t = [s.text EXCEPT ![here] = s.text[there]]
  BY <1>1, CopyGives
<1>3. s.text = [c \in Cells |->
        IF c[2] = y /\ c[1] >= x /\ c[1] < a THEN screen.text[<<c[1] + n, y>>]
        ELSE screen.text[c]]
  BY DEF ClosedTo
<1> HIDE DEF t
<1>4. there \in Cells /\ here \in Cells
  BY <1>1, CellIs
<1>5. s.text[there] = screen.text[there]
  BY <1>1, <1>3, <1>4
<1>6. ASSUME NEW c \in Cells
      PROVE  t[c] = ClosedTo(n, a + 1)[c]
  <2>1. c[1] \in Nat /\ c[2] \in Nat /\ c = <<c[1], c[2]>>
    BY <1>1, CellHas
  <2>2. ClosedTo(n, a + 1)[c] =
          IF c[2] = y /\ c[1] >= x /\ c[1] < a + 1 THEN screen.text[<<c[1] + n, y>>]
          ELSE screen.text[c]
    BY DEF ClosedTo
  <2>3. CASE c = here
    <3>1. c[1] = a /\ c[2] = y
      BY <2>3
    <3>2. t[c] = screen.text[there]
      BY <1>2, <1>3, <1>5, <2>3
    <3> QED BY <1>1, <2>2, <3>1, <3>2
  <2>4. CASE c # here
    <3>1. ~ (c[1] = a /\ c[2] = y)
      BY <2>1, <2>4
    <3>2. t[c] = s.text[c]
      BY <1>2, <1>3, <2>4
    <3>3. s.text[c] = IF c[2] = y /\ c[1] >= x /\ c[1] < a THEN screen.text[<<c[1] + n, y>>]
                      ELSE screen.text[c]
      BY <1>3
    <3>4. (c[2] = y /\ c[1] >= x /\ c[1] < a + 1) <=> (c[2] = y /\ c[1] >= x /\ c[1] < a)
      BY <1>1, <2>1, <3>1
    <3> QED BY <2>2, <3>2, <3>3, <3>4
  <2> QED BY <2>3, <2>4
<1>7. t = [c \in Cells |-> t[c]] /\ ClosedTo(n, a + 1) = [c \in Cells |-> ClosedTo(n, a + 1)[c]]
  BY <1>2, <1>3 DEF ClosedTo
<1> QED BY <1>6, <1>7 DEF t

(* All rounds of P. *)
LEMMA ClosedGives ==
  ASSUME TerminalInv, NEW n \in Nat, n <= cols - x
  PROVE  Closed(n) \in Grid /\ Closed(n).text = ClosedTo(n, cols - n)
<1> DEFINE r == cols - x - Min(n, cols - x)
<1>1. /\ bounds \in Screens /\ screen \in Grid /\ screen.text \in [Cells -> Chars]
      /\ cols \in Nat /\ x \in Nat /\ r \in Nat /\ x + r = cols - n /\ x + 0 = x
  BY InvHas, GridHas, Sizes DEF Min
<1>2. PICK h \in [0..r -> Grid] :
        /\ h[0] = screen /\ h[r] = Closed(n)
        /\ \A k \in 1..r : h[k] = Copy(h[k - 1], x + k - 1, x + k - 1 + n, y)
  BY ClosedRun
<1> HIDE DEF r
<1> DEFINE A == {k \in 0..r : h[k].text = ClosedTo(n, x + k)}
<1>3. 0 \in A
  <2>1. \A c \in Cells : ~ (c[1] >= x /\ c[1] < x)
    BY <1>1, CellHas
  <2>2. ClosedTo(n, x) = screen.text
    BY <1>1, <2>1 DEF ClosedTo
  <2> QED BY <1>1, <1>2, <2>2
<1>4. ASSUME NEW k \in 1..r, k - 1 \in A PROVE k \in A
  <2> DEFINE a == x + k - 1  s == h[k - 1]
  <2>1. a \in Nat /\ a >= x /\ a + n < cols /\ x + (k - 1) = a /\ x + k = a + 1
    BY <1>1
  <2>2. s \in Grid /\ s.text = ClosedTo(n, a)
    BY <1>1, <1>2, <1>4, <2>1
  <2>3. h[k] = Copy(s, a, a + n, y)
    BY <1>2
  <2> HIDE DEF a, s
  <2>4. h[k].text = ClosedTo(n, a + 1)
    BY <2>1, <2>2, <2>3, ClosedOne
  <2> QED BY <2>1, <2>4
<1> HIDE DEF A
<1>5. \A k \in 0..r : k \in A
  BY <1>1, <1>3, <1>4, Rounds
<1>6. r \in A
  BY <1>1, <1>5
<1> QED BY <1>1, <1>2, <1>6 DEF A

(* What makes room for one character: right of column a it is one further. *)
ShiftedTo(a) ==
  [c \in Cells |-> IF c[2] = y /\ c[1] > a THEN screen.text[<<c[1] - 1, y>>]
                   ELSE screen.text[c]]

(* One round of a character in insert mode. *)
LEMMA ShiftedOne ==
  ASSUME TerminalInv, NEW a \in 0..cols - 1, NEW s \in Grid, s.text = ShiftedTo(a + 1)
  PROVE  Copy(s, a + 1, a, y).text = ShiftedTo(a)
<1>1. /\ bounds \in Screens /\ screen \in Grid /\ screen.text \in [Cells -> Chars]
      /\ y \in Nat /\ y \in 0..rows - 1 /\ rows \in Nat /\ cols \in Nat
      /\ a \in Nat /\ a + 1 \in Nat
  BY InvHas, GridHas, Sizes
<1> DEFINE here == <<a, y>>  there == <<a + 1, y>>  t == Copy(s, a + 1, a, y).text
<1>2. t = IF a + 1 < cols THEN [s.text EXCEPT ![there] = s.text[here]] ELSE s.text
  BY <1>1, CopyGives
<1>3. s.text = [c \in Cells |->
        IF c[2] = y /\ c[1] > a + 1 THEN screen.text[<<c[1] - 1, y>>] ELSE screen.text[c]]
  BY DEF ShiftedTo
<1> HIDE DEF t
<1>4. here \in Cells
  BY <1>1, CellIs
<1>5. s.text[here] = screen.text[here]
  <2>1. here[1] = a
    OBVIOUS
  <2> HIDE DEF here
  <2>2. s.text[here] = IF here[2] = y /\ here[1] > a + 1
                       THEN screen.text[<<here[1] - 1, y>>] ELSE screen.text[here]
    BY <1>3, <1>4
  <2>3. ~ (here[1] > a + 1)
    BY <1>1, <2>1
  <2> QED BY ONLY <2>2, <2>3
<1>6. ASSUME NEW c \in Cells
      PROVE  t[c] = ShiftedTo(a)[c]
  <2>1. c[1] \in Nat /\ c[2] \in Nat /\ c = <<c[1], c[2]>> /\ c[1] < cols
    BY <1>1, CellHas
  <2>2. ShiftedTo(a)[c] =
          IF c[2] = y /\ c[1] > a THEN screen.text[<<c[1] - 1, y>>] ELSE screen.text[c]
    BY DEF ShiftedTo
  <2>3. CASE c = there
    <3>1. c[1] = a + 1 /\ c[2] = y /\ a + 1 < cols /\ c[1] - 1 = a
      BY <1>1, <2>1, <2>3
    <3>2. t[c] = screen.text[here]
      BY <1>2, <1>3, <1>5, <2>3, <3>1
    <3> QED BY <1>1, <2>2, <3>1, <3>2
  <2>4. CASE c # there
    <3>1. ~ (c[1] = a + 1 /\ c[2] = y)
      BY <2>1, <2>4
    <3>2. t[c] = s.text[c]
      BY <1>2, <1>3, <2>4
    <3>3. s.text[c] = IF c[2] = y /\ c[1] > a + 1 THEN screen.text[<<c[1] - 1, y>>]
                      ELSE screen.text[c]
      BY <1>3
    <3>4. (c[2] = y /\ c[1] > a + 1) <=> (c[2] = y /\ c[1] > a)
      BY <1>1, <2>1, <3>1
    <3> QED BY <2>2, <3>2, <3>3, <3>4
  <2> QED BY <2>3, <2>4
<1>7. t = [c \in Cells |-> t[c]] /\ ShiftedTo(a) = [c \in Cells |-> ShiftedTo(a)[c]]
  BY <1>2, <1>3 DEF ShiftedTo
<1> QED BY <1>6, <1>7 DEF t

(* All rounds of it. *)
LEMMA ShiftedText ==
  ASSUME TerminalInv
  PROVE  Shifted.text = ShiftedTo(x)
<1> DEFINE r == cols - x
<1>1. /\ bounds \in Screens /\ screen \in Grid /\ screen.text \in [Cells -> Chars]
      /\ cols \in Nat /\ x \in Nat /\ r \in Nat /\ cols - r = x /\ cols - 0 = cols
  BY InvHas, GridHas, Sizes
<1>2. PICK h \in [0..r -> Grid] :
        /\ h[0] = screen /\ h[r] = Shifted
        /\ \A k \in 1..r : h[k] = Copy(h[k - 1], cols - k + 1, cols - k, y)
  BY ShiftedRun
<1> HIDE DEF r
<1> DEFINE A == {k \in 0..r : h[k].text = ShiftedTo(cols - k)}
<1>3. 0 \in A
  <2>1. \A c \in Cells : ~ (c[1] > cols)
    BY <1>1, CellHas
  <2>2. ShiftedTo(cols) = screen.text
    BY <1>1, <2>1 DEF ShiftedTo
  <2> QED BY <1>1, <1>2, <2>2
<1>4. ASSUME NEW k \in 1..r, k - 1 \in A PROVE k \in A
  <2> DEFINE a == cols - k  s == h[k - 1]
  <2>1. a \in 0..cols - 1 /\ cols - (k - 1) = a + 1
    BY <1>1
  <2>2. s \in Grid /\ s.text = ShiftedTo(a + 1)
    BY <1>1, <1>2, <1>4, <2>1
  <2>3. h[k] = Copy(s, a + 1, a, y)
    BY <1>2
  <2> HIDE DEF a, s
  <2>4. h[k].text = ShiftedTo(a)
    BY <2>1, <2>2, <2>3, ShiftedOne
  <2> QED BY <2>4 DEF a
<1> HIDE DEF A
<1>5. \A k \in 0..r : k \in A
  BY <1>1, <1>3, <1>4, Rounds
<1>6. r \in A
  BY <1>1, <1>5
<1> QED BY <1>1, <1>2, <1>6 DEF A

(* @, P and a character in insert mode, each with its row. *)
LEMMA MovesTheRestStep ==
  ASSUME TerminalInv
  PROVE  MovesTheRest
<1> SUFFICES ASSUME InPlace
             PROVE  /\ \A n \in Values \ {0} : InsertChars(n) =>
                         LET new(column) == Inserted(n, Space, column) IN RowBecomes(new)
                    /\ \A n \in Values : n <= cols - x /\ DeleteChars(n) =>
                         LET new(column) == Deleted(n, column) IN RowBecomes(new)
                    /\ \A g \in Glyphs : insert_mode /\ PrintChar(g) =>
                         LET new(column) == Inserted(1, g, column) IN RowBecomes(new)
  BY DEF MovesTheRest
<1>1. /\ bounds \in Screens /\ RegionOK /\ screen \in Grid
      /\ x \in 0..cols - 1 /\ y \in 0..rows - 1 /\ x \in Nat /\ y \in Nat
      /\ screen.x = x /\ screen.y = y
      /\ rows \in Nat /\ cols \in Nat /\ rows > 0 /\ cols > 0 /\ Values \subseteq Nat
  BY InvHas, Sizes DEF InPlace
<1>2. ASSUME NEW n \in Values \ {0}, InsertChars(n)
      PROVE  screen'.text = [c \in Cells |->
               IF c[2] = y /\ c[1] >= x THEN Inserted(n, Space, c[1]) ELSE screen.text[c]]
  <2> DEFINE p == Opened(n)
  <2>1. n \in Nat \ {0}
    BY <1>1
  <2>2. p \in Grid /\ p.text = OpenedTo(n, x)
    BY <2>1, OpenedGives
  <2>3. screen' = MoveTo(p, x, y)
    BY <1>2 DEF InsertChars, Only, Do
  <2> HIDE DEF p
  <2>4. screen'.text = p.text
    BY <1>1, <2>2, <2>3, MoveToGives
  <2> QED BY <2>2, <2>4 DEF OpenedTo, Inserted
<1>3. ASSUME NEW n \in Values, n <= cols - x, DeleteChars(n)
      PROVE  screen'.text = [c \in Cells |->
               IF c[2] = y /\ c[1] >= x THEN Deleted(n, c[1]) ELSE screen.text[c]]
  <2> DEFINE q == Closed(n)  s == MoveTo(q, cols - n, y)  p == Blanks(n, s)
  <2>1. n \in Nat /\ cols - n \in Nat /\ Min(n, cols) = n /\ x <= cols - n
    BY <1>1, <1>3 DEF Min
  <2>2. q \in Grid /\ q.text = ClosedTo(n, cols - n)
    BY <1>3, <2>1, ClosedGives
  <2>3. screen' = MoveTo(p, x, y)
    BY <1>3, <2>1 DEF DeleteChars, Only, Do
  <2> HIDE DEF q
  <2>4. /\ s \in Grid /\ s.text = q.text /\ s.y = y
        /\ s.x = Clamped(cols - n, cols) /\ Clamped(cols - n, cols) \in 0..cols - 1
        /\ cols - n \in 0..cols - 1 => Clamped(cols - n, cols) = cols - n
    <3> DEFINE a == cols - n
    <3>1. a \in Int
      BY <2>1
    <3> HIDE DEF a
    <3>2. /\ MoveTo(q, a, y) \in Grid /\ MoveTo(q, a, y).text = q.text /\ MoveTo(q, a, y).y = y
          /\ MoveTo(q, a, y).x = Clamped(a, cols) /\ Clamped(a, cols) \in 0..cols - 1
          /\ a \in 0..cols - 1 => Clamped(a, cols) = a
      BY <1>1, <2>2, <3>1, MoveToGives
    <3> QED BY <3>2 DEF a
  <2> HIDE DEF s
  <2>5. s.x \in Nat /\ s.x + n <= cols /\ s.y < rows /\ (n > 0 => s.x = cols - n)
    BY <1>1, <2>1, <2>4
  <2>6. p \in Grid /\ p.text = Blanked(s, n)
    BY <1>1, <2>1, <2>4, <2>5, BlanksInRow
  <2> HIDE DEF p
  <2>7. screen'.text = p.text
    BY <1>1, <2>3, <2>6, MoveToGives
  <2>8. ASSUME NEW c \in Cells
        PROVE  Blanked(s, n)[c] = IF c[2] = y /\ c[1] >= x THEN Deleted(n, c[1])
                                  ELSE screen.text[c]
    <3>1. c[1] \in Nat /\ c[2] \in Nat /\ c = <<c[1], c[2]>> /\ c[1] < cols
      BY <1>1, CellHas
    <3>2. Blanked(s, n)[c] = IF c[2] = y /\ s.x <= c[1] /\ c[1] < s.x + n THEN Space
                             ELSE q.text[c]
      BY <2>4 DEF Blanked
    <3>3. q.text[c] = IF c[2] = y /\ c[1] >= x /\ c[1] < cols - n
                      THEN screen.text[<<c[1] + n, y>>] ELSE screen.text[c]
      BY <2>2 DEF ClosedTo
    <3>4. CASE c[2] = y /\ c[1] >= x
      <4>1. CASE c[1] + n < cols
        <5>1. ~ (s.x <= c[1] /\ c[1] < s.x + n) /\ c[1] < cols - n
          BY <1>1, <2>1, <2>5, <3>1, <4>1
        <5> QED BY <3>2, <3>3, <3>4, <4>1, <5>1 DEF Deleted
      <4>2. CASE ~ (c[1] + n < cols)
        <5>1. s.x <= c[1] /\ c[1] < s.x + n
          BY <1>1, <2>1, <2>5, <3>1, <4>2
        <5> QED BY <3>2, <3>4, <4>2, <5>1 DEF Deleted
      <4> QED BY <4>1, <4>2
    <3>5. CASE ~ (c[2] = y /\ c[1] >= x)
      <4>1. ~ (c[2] = y /\ s.x <= c[1] /\ c[1] < s.x + n)
        BY <1>1, <2>1, <2>5, <3>1, <3>5
      <4> QED BY <3>2, <3>3, <3>5, <4>1
    <3> QED BY <3>4, <3>5
  <2>9. Blanked(s, n) = [c \in Cells |-> Blanked(s, n)[c]]
    BY DEF Blanked
  <2> QED BY <2>6, <2>7, <2>8, <2>9
<1>4. ASSUME NEW g \in Glyphs, insert_mode, PrintChar(g)
      PROVE  screen'.text = [c \in Cells |->
               IF c[2] = y /\ c[1] >= x THEN Inserted(1, g, c[1]) ELSE screen.text[c]]
  <2> DEFINE s == Shifted  here == <<x, y>>
  <2>1. s \in Grid /\ s.x = x /\ s.y = y /\ s.text = ShiftedTo(x)
    BY <1>1, ShiftedGives, ShiftedText
  <2>2. screen' = Put(s, g, TRUE)
    BY <1>4 DEF PrintChar, Only, Do
  <2>3. g \in Chars /\ TRUE \in BOOLEAN
    BY DEF Chars
  <2> HIDE DEF s
  <2>4. s.x < cols /\ s.y < rows
    BY <1>1, <2>1
  <2>5. here \in Cells /\ screen'.text = [s.text EXCEPT ![here] = g]
    <3> DEFINE q == Put(s, g, TRUE)
    <3>1. <<s.x, s.y>> \in Cells /\ q.text = [s.text EXCEPT ![<<s.x, s.y>>] = g]
      BY <1>1, <2>1, <2>3, <2>4, PutInRow
    <3> HIDE DEF q
    <3>2. <<s.x, s.y>> = here
      BY <2>1
    <3> QED BY ONLY <2>2, <3>1, <3>2, Zenon DEF q
  <2>6. ASSUME NEW c \in Cells
        PROVE  screen'.text[c] = IF c[2] = y /\ c[1] >= x THEN Inserted(1, g, c[1])
                                 ELSE screen.text[c]
    <3>1. c[1] \in Nat /\ c[2] \in Nat /\ c = <<c[1], c[2]>> /\ DOMAIN s.text = Cells
      BY <1>1, <2>1, CellHas DEF ShiftedTo
    <3>2. CASE c = here
      <4>1. c[1] = x /\ c[2] = y
        BY <3>2
      <4>2. screen'.text[c] = g
        BY <2>5, <3>1, <3>2
      <4> QED BY <1>1, <4>1, <4>2 DEF Inserted
    <3>3. CASE c # here
      <4>1. ~ (c[1] = x /\ c[2] = y)
        BY <3>1, <3>3
      <4>2. screen'.text[c] = s.text[c]
        BY <2>5, <3>1, <3>3
      <4>3. s.text[c] = IF c[2] = y /\ c[1] > x THEN screen.text[<<c[1] - 1, y>>]
                        ELSE screen.text[c]
        BY <2>1 DEF ShiftedTo
      <4>4. CASE c[2] = y /\ c[1] >= x
        <5>1. c[1] > x /\ ~ (c[1] < x + 1)
          BY <1>1, <3>1, <4>1, <4>4
        <5> QED BY <4>2, <4>3, <4>4, <5>1 DEF Inserted
      <4>5. CASE ~ (c[2] = y /\ c[1] >= x)
        <5>1. ~ (c[2] = y /\ c[1] > x)
          BY <1>1, <3>1, <4>5
        <5> QED BY <4>2, <4>3, <4>5, <5>1
      <4> QED BY <4>4, <4>5
    <3> QED BY <3>2, <3>3
  <2>7. screen'.text = [c \in Cells |-> screen'.text[c]]
    BY <2>1, <2>5 DEF ShiftedTo
  <2> QED BY <2>6, <2>7
<1> QED BY <1>2, <1>3, <1>4 DEF RowBecomes

(* For every screen, erasing, inserting and deleting change the cells they *)
(* name and no others (flanterm.c:654-743, 1313-1346).                     *)
THEOREM EditsTheirCells == FlantermSpec => EditsExactly
<1>1. TerminalInv => [ErasesOnlyThat /\ MovesTheRest]_vars
  BY ErasesOnlyThatStep, MovesTheRestStep
<1> QED BY <1>1, TerminalInvAlways, PTL DEF EditsExactly
-----------------------------------------------------------------------------
(* The sheet of paper that is in view: the rows down to the cursor.        *)
Row(s, r) == [c \in 0..cols - 1 |-> s.text[<<c, r - 1>>]]
Rows(s) == [r \in 1..(Y(s) + 1) |-> Row(s, r)]

OnPaper ==
  /\ Whole /\ ~ insert_mode /\ screen.y < rows
  /\ \A c \in Cells : c[2] > screen.y => screen.text[c] = Space

PaperInv == OnlyPrints => OnPaper

(* Sequences as functions. *)
Longer(q, e) == [i \in 1..Len(q) + 1 |-> IF i <= Len(q) THEN q[i] ELSE e]
MovedOn(q, e) == [i \in 1..Len(q) |-> IF i < Len(q) THEN q[i + 1] ELSE e]

LEMMA AppendedIs ==
  ASSUME NEW S, NEW q \in Seq(S), NEW e \in S
  PROVE  /\ Append(q, e) = Longer(q, e)
         /\ q # << >> => Append(Tail(q), e) = MovedOn(q, e)
<1>1. ASSUME NEW p \in Seq(S)
      PROVE  Append(p, e) = [i \in 1..Len(p) + 1 |-> IF i <= Len(p) THEN p[i] ELSE e]
  <2> DEFINE z == Append(p, e)
  <2>1. /\ z \in Seq(S) /\ Len(z) = Len(p) + 1 /\ z[Len(p) + 1] = e
        /\ \A i \in 1..Len(p) : z[i] = p[i]
    BY <1>1, AppendProperties
  <2> HIDE DEF z
  <2>2. Len(p) \in Nat /\ DOMAIN z = 1..Len(z) /\ z = [i \in DOMAIN z |-> z[i]]
    BY <1>1, <2>1
  <2>3. \A i \in 1..Len(p) + 1 : z[i] = IF i <= Len(p) THEN p[i] ELSE e
    BY <2>1, <2>2
  <2>4. z = [i \in 1..Len(p) + 1 |-> IF i <= Len(p) THEN p[i] ELSE e]
    BY <2>1, <2>2, <2>3
  <2> QED BY <2>4 DEF z
<1>2. ASSUME q # << >>
      PROVE  Append(Tail(q), e) = [i \in 1..Len(q) |-> IF i < Len(q) THEN q[i + 1] ELSE e]
  <2> DEFINE p == Tail(q)
  <2>1. p \in Seq(S) /\ Len(p) = Len(q) - 1 /\ \A i \in 1..Len(p) : p[i] = q[i + 1]
    BY <1>2, HeadTailProperties
  <2>2. Len(q) \in Nat /\ Len(p) \in Nat
    BY <2>1
  <2>3. Append(p, e) = [i \in 1..Len(p) + 1 |-> IF i <= Len(p) THEN p[i] ELSE e]
    BY <1>1, <2>1
  <2> HIDE DEF p
  <2>4. Len(p) + 1 = Len(q) /\ \A i \in 1..Len(q) : i <= Len(p) <=> i < Len(q)
    BY <2>1, <2>2
  <2>5. \A i \in 1..Len(q) : (IF i <= Len(p) THEN p[i] ELSE e)
                              = (IF i < Len(q) THEN q[i + 1] ELSE e)
    BY <2>1, <2>2, <2>4
  <2>6. Append(p, e) = [i \in 1..Len(q) |-> IF i < Len(q) THEN q[i + 1] ELSE e]
    BY <2>3, <2>4, <2>5
  <2> QED BY <2>6 DEF p
<1> QED BY <1>1, <1>2 DEF Longer, MovedOn

LEMMA RowsAre ==
  ASSUME bounds \in Screens, NEW s \in Grid, s.y < rows
  PROVE  /\ Rows(s) = [r \in 1..(s.y + 1) |-> Row(s, r)]
         /\ Rows(s) \in Seq([0..cols - 1 -> Chars]) /\ Len(Rows(s)) = s.y + 1
         /\ Rows(s) # << >>
<1>1. s.y \in Nat /\ Y(s) = s.y /\ rows \in Nat /\ cols \in Nat
  BY GridHas, Sizes DEF Y, Min
<1>2. \A r \in 1..(s.y + 1) : Row(s, r) \in [0..cols - 1 -> Chars]
  <2>1. ASSUME NEW r \in 1..(s.y + 1), NEW c \in 0..cols - 1
        PROVE  s.text[<<c, r - 1>>] \in Chars
    <3>1. <<c, r - 1>> \in Cells
      BY <1>1, CellIs
    <3> QED BY <3>1, GridHas
  <2> QED BY <2>1 DEF Row
<1> DEFINE n == s.y + 1  q == [r \in 1..n |-> Row(s, r)]
<1>3. n \in Nat /\ n > 0 /\ Rows(s) = q
  BY <1>1 DEF Rows
<1> HIDE DEF n
<1>4. q \in Seq([0..cols - 1 -> Chars]) /\ Len(q) = n
  BY <1>2, <1>3 DEF n
<1> HIDE DEF q
<1>5. q # << >>
  BY <1>3, <1>4
<1> QED BY <1>3, <1>4, <1>5 DEF n, q

(* A line is fed: the rows above the new one are those that were there.    *)
LEMMA RowsFed ==
  ASSUME bounds \in Screens, NEW s \in Grid, NEW t \in Grid, s.y < rows,
         t.y = Min(s.y + 1, rows - 1),
         s.y < rows - 1 => \A c \in Cells : c[2] <= s.y => t.text[c] = s.text[c],
         s.y = rows - 1 =>
           \A c \in Cells : c[2] < rows - 1 => t.text[c] = s.text[<<c[1], c[2] + 1>>]
  PROVE  Rows(t) = IF Len(Rows(s)) < rows THEN Append(Rows(s), Row(t, t.y + 1))
                   ELSE Append(Tail(Rows(s)), Row(t, t.y + 1))
<1>1. /\ s.y \in Nat /\ rows \in Nat /\ cols \in Nat /\ rows > 0
      /\ t.y \in Nat /\ t.y < rows
  BY GridHas, Sizes DEF Min
<1> DEFINE S == [0..cols - 1 -> Chars]  q == Rows(s)  e == Row(t, t.y + 1)
<1>2. /\ q = [r \in 1..(s.y + 1) |-> Row(s, r)] /\ q \in Seq(S) /\ Len(q) = s.y + 1
      /\ q # << >>
  BY <1>1, RowsAre
<1>3. Rows(t) = [r \in 1..(t.y + 1) |-> Row(t, r)]
  BY <1>1, RowsAre
<1>4. e \in S
  <2>1. Rows(t) \in Seq(S) /\ Len(Rows(t)) = t.y + 1
    BY <1>1, RowsAre
  <2>2. t.y + 1 \in 1..Len(Rows(t)) /\ Rows(t)[t.y + 1] = e
    BY <1>1, <1>3, <2>1
  <2> HIDE DEF S, e
  <2> QED BY <2>1, <2>2
<1> HIDE DEF S, q
<1>5. CASE s.y < rows - 1
  <2>1. t.y = s.y + 1 /\ Len(q) < rows
    BY <1>1, <1>2, <1>5 DEF Min
  <2>2. ASSUME NEW r \in 1..(s.y + 1) PROVE Row(t, r) = q[r]
    <3>1. ASSUME NEW c \in 0..cols - 1 PROVE t.text[<<c, r - 1>>] = s.text[<<c, r - 1>>]
      <4>1. <<c, r - 1>> \in Cells /\ <<c, r - 1>>[2] <= s.y
        BY <1>1, <1>5, CellIs
      <4> QED BY <1>5, <4>1
    <3>2. Row(t, r) = Row(s, r)
      BY <3>1 DEF Row
    <3> QED BY <1>2, <3>2
  <2> HIDE DEF e
  <2>3. Append(q, e) = Longer(q, e)
    <3>1. q \in Seq(S) /\ e \in S
      BY <1>2, <1>4
    <3> QED BY ONLY <3>1, AppendedIs, Zenon
  <2>4. ASSUME NEW i \in 1..Len(q) + 1
        PROVE  Row(t, i) = IF i <= Len(q) THEN q[i] ELSE e
    <3>1. CASE i <= Len(q)
      <4>1. i \in 1..(s.y + 1)
        BY <1>1, <1>2, <3>1
      <4> QED BY ONLY <2>2, <3>1, <4>1
    <3>2. CASE ~ (i <= Len(q))
      <4>1. i = t.y + 1
        BY <1>1, <1>2, <2>1, <3>2
      <4> QED BY <3>2, <4>1 DEF e
    <3> QED BY <3>1, <3>2
  <2>5. Rows(t) = Append(q, e)
    <3>1. t.y + 1 = Len(q) + 1
      BY <1>1, <1>2, <2>1
    <3> QED BY ONLY <1>3, <2>3, <2>4, <3>1 DEF Longer, MovedOn
  <2> QED BY <2>1, <2>5 DEF q, e
<1>6. CASE s.y = rows - 1
  <2>1. t.y = s.y /\ ~ (Len(q) < rows) /\ Len(q) = rows
    BY <1>1, <1>2, <1>6 DEF Min
  <2>2. ASSUME NEW r \in 1..s.y PROVE Row(t, r) = q[r + 1]
    <3>1. ASSUME NEW c \in 0..cols - 1 PROVE t.text[<<c, r - 1>>] = s.text[<<c, (r + 1) - 1>>]
      <4>1. <<c, r - 1>> \in Cells /\ r - 1 < rows - 1 /\ (r - 1) + 1 = (r + 1) - 1
        BY <1>1, <1>6, CellIs
      <4>2. t.text[<<c, r - 1>>] = s.text[<<c, (r - 1) + 1>>]
        BY <1>6, <4>1
      <4> QED BY <4>1, <4>2
    <3>2. Row(t, r) = Row(s, r + 1)
      BY <3>1 DEF Row
    <3>3. r + 1 \in 1..(s.y + 1)
      BY <1>1
    <3> QED BY <1>2, <3>2, <3>3
  <2> HIDE DEF e
  <2>3. Append(Tail(q), e) = MovedOn(q, e)
    <3>1. q \in Seq(S) /\ q # << >> /\ e \in S
      BY <1>2, <1>4
    <3> QED BY ONLY <3>1, AppendedIs, Zenon
  <2>4. ASSUME NEW i \in 1..Len(q)
        PROVE  Row(t, i) = IF i < Len(q) THEN q[i + 1] ELSE e
    <3>1. CASE i < Len(q)
      <4>1. i \in 1..s.y
        BY <1>1, <1>2, <3>1
      <4> QED BY ONLY <2>2, <3>1, <4>1
    <3>2. CASE ~ (i < Len(q))
      <4>1. i = t.y + 1
        BY <1>1, <1>2, <2>1, <3>2
      <4> QED BY <3>2, <4>1 DEF e
    <3> QED BY <3>1, <3>2
  <2>5. Rows(t) = Append(Tail(q), e)
    <3>1. t.y + 1 = Len(q)
      BY <1>1, <1>2, <2>1
    <3> QED BY ONLY <1>3, <2>3, <2>4, <3>1 DEF Longer, MovedOn
  <2> QED BY <2>1, <2>5 DEF q, e
<1>7. s.y < rows - 1 \/ s.y = rows - 1
  BY <1>1
<1> QED BY ONLY <1>5, <1>6, <1>7

(* The sheet before and after a step. *)
LEMMA LinesAre ==
  ASSUME TerminalInv, UNCHANGED bounds, NEW t \in Grid, screen' = t
  PROVE  Lines = Rows(screen) /\ Lines' = Rows(t)
<1>1. Lines = Rows(screen)
  BY DEF Lines, Rows, Row
<1>2. rows' = rows /\ cols' = cols
  BY SameBounds
<1>3. Y(screen)' = Y(t)
  BY <1>2 DEF Y, Min
<1>4. Lines' = [r \in 1..(Y(screen)' + 1) |-> [c \in 0..cols' - 1 |-> screen'.text[<<c, r - 1>>]]]
  BY DEF Lines
<1> QED BY <1>1, <1>2, <1>3, <1>4 DEF Rows, Row

(* What is left to a terminal that only prints. *)
LEMMA PaperSteps ==
  ASSUME OnlyPrints, [Next]_vars
  PROVE  \/ UNCHANGED vars
         \/ \E g \in Glyphs : PrintChar(g)
         \/ NextLine \/ Backspace \/ CarriageReturn
<1>1. ASSUME NEW name, name \in bounds.commands PROVE name \in {"print", "feed", "line"}
  BY <1>1 DEF OnlyPrints
<1>2. ASSUME NEW name, NEW s, Do(name, s) PROVE name \in {"print", "feed", "line"}
  BY <1>1, <1>2 DEF Do
<1>3. ASSUME NEW name, NEW s, Only(name, s) PROVE name \in {"print", "feed", "line"}
  BY <1>2, <1>3 DEF Only
<1>4. ASSUME NEW n, NEW column
      PROVE  ~ CursorUp(column, n) /\ ~ CursorDown(column, n)
  <2>1. ASSUME NEW s PROVE ~ Only("move", s)
    BY <1>3
  <2> QED BY <2>1, Zenon DEF CursorUp, CursorDown
<1>5. ASSUME NEW n, NEW m
      PROVE  /\ ~ CursorForward(n) /\ ~ CursorBack(n) /\ ~ ToRow(n) /\ ~ ToColumn(n)
             /\ ~ DeleteLines(n) /\ ~ InsertLines(n) /\ ~ Position(n, m)
  <2>1. ASSUME NEW s PROVE ~ Only("move", s) /\ ~ Only("lines", s) /\ ~ Only("position", s)
    BY <1>3
  <2> QED BY <2>1, Zenon DEF CursorForward, CursorBack, ToRow, ToColumn, DeleteLines, InsertLines,
                             Position
<1>6. ASSUME NEW n
      PROVE  /\ ~ EraseDisplay(n) /\ ~ EraseLine(n) /\ ~ EraseChars(n)
             /\ ~ InsertChars(n) /\ ~ DeleteChars(n)
  <2>1. ASSUME NEW s PROVE ~ Only("erase", s) /\ ~ Only("edit", s)
    BY <1>3
  <2> QED BY <2>1, Zenon DEF EraseDisplay, EraseLine, EraseChars, InsertChars, DeleteChars
<1>7. ASSUME NEW n, NEW m, NEW count PROVE ~ SetRegion(count, n, m)
  <2>1. ASSUME NEW s PROVE ~ Do("region", s)
    BY <1>2
  <2> QED BY <2>1, Zenon DEF SetRegion
<1>8. ~ SaveCursor /\ ~ RestoreCursor /\ ~ save_state /\ ~ restore_state
  <2>1. ASSUME NEW s PROVE ~ Do("save", s) /\ ~ Only("save", s)
    BY <1>2, <1>3
  <2> QED BY <2>1, Zenon DEF SaveCursor, RestoreCursor, save_state, restore_state
<1>9. /\ \A on \in BOOLEAN : ~ SetInsert(on)
      /\ ~ Index /\ ~ ReverseIndex /\ ~ Reset /\ ~ Tab
  <2>1. ASSUME NEW s
        PROVE  ~ Do("insert", s) /\ ~ Only("index", s) /\ ~ Do("reset", s) /\ ~ Only("tab", s)
    BY <1>2, <1>3
  <2> QED BY <2>1, Zenon DEF SetInsert, Index, ReverseIndex, Reset, Tab
<1>10. ASSUME NEW g, NEW width PROVE ~ PrintUnicode(g, width)
  <2>1. ASSUME NEW s PROVE ~ Only("unicode", s)
    BY <1>3
  <2> QED BY <2>1, Zenon DEF PrintUnicode
<1> QED BY <1>4, <1>5, <1>6, <1>7, <1>8, <1>9, <1>10 DEF Next

(* The cursor at the beginning of a line that is fed, by a line feed or by *)
(* a character past the end of the row.                                    *)
LEMMA Turning ==
  ASSUME TerminalInv, OnPaper, Landscape, NEW u, u = LineFeed(screen, 0) \/ u = Wrapped(screen)
  PROVE  /\ u \in Grid /\ u.x = 0 /\ u.y = Min(screen.y + 1, rows - 1)
         /\ screen.y < rows - 1 =>
              \A c \in Cells : c[2] <= screen.y => u.text[c] = screen.text[c]
         /\ screen.y = rows - 1 =>
              \A c \in Cells : c[2] < rows - 1 => u.text[c] = screen.text[<<c[1], c[2] + 1>>]
         /\ \A c \in Cells : c[2] >= u.y => u.text[c] = Space
<1>1. /\ bounds \in Screens /\ RegionOK /\ screen \in Grid /\ y = screen.y /\ y \in 0..rows - 1
      /\ rows \in Nat /\ cols \in Nat /\ cols > 0 /\ rows > 0 /\ cols >= rows /\ y \in Nat
      /\ top = 0 /\ bottom = rows /\ 0 \in 0..cols - 1
      /\ \A c \in Cells : c[2] > y => screen.text[c] = Space
  BY InvHas, Sizes DEF OnPaper, Whole, Landscape
<1> DEFINE text == IF y = rows - 1 THEN Scroll(screen).text ELSE screen.text
           b == Min(y + 1, rows - 1)
<1>2. b = (IF y = rows - 1 THEN y ELSE y + 1) /\ b \in 0..rows - 1 /\ b \in Nat
  BY <1>1 DEF Min
<1>3. u \in Grid /\ u.x = 0 /\ u.y = b /\ u.text = text
  <2>1. CASE u = LineFeed(screen, 0)
    <3> DEFINE s == IF y = rows - 1 THEN Scroll(screen) ELSE screen
    <3>1. s \in Grid /\ s.text = text
      BY <1>1, ScrollGives
    <3>2. u = MoveTo(s, 0, b)
      <4>1. CASE y = bottom - 1
        BY <1>1, <1>2, <2>1, <4>1 DEF LineFeed
      <4>2. CASE y # bottom - 1
        BY <1>1, <1>2, <2>1, <4>2 DEF LineFeed
      <4> QED BY <4>1, <4>2
    <3> HIDE DEF s, b, text
    <3> QED BY <1>1, <1>2, <3>1, <3>2, MoveToGives
  <2>2. CASE u = Wrapped(screen)
    <3>1. y + 1 = bottom <=> y = rows - 1
      BY <1>1
    <3>2. /\ u \in Grid /\ u.x = 0
          /\ u.y = IF (IF y + 1 = bottom THEN y ELSE y + 1) >= cols THEN cols - 1
                   ELSE (IF y + 1 = bottom THEN y ELSE y + 1)
          /\ u.text = IF y + 1 = bottom THEN Scroll(screen).text ELSE screen.text
      BY <1>1, <2>2, WrappedGives
    <3>3. u.y = b
      BY <1>1, <1>2, <3>1, <3>2
    <3> QED BY <3>1, <3>2, <3>3
  <2> QED BY <2>1, <2>2
<1>4. CASE y < rows - 1
  <2>1. text = screen.text /\ b = y + 1
    BY <1>1, <1>2, <1>4
  <2>2. \A c \in Cells : c[2] >= b => c[2] > y
    BY <1>1, <2>1, CellHas
  <2> HIDE DEF text, b
  <2> QED BY <1>1, <1>3, <1>4, <2>1, <2>2 DEF b
<1>5. CASE y = rows - 1
  <2>1. text = [c \in Cells |->
           CASE c[2] \in top..(bottom - 2) -> screen.text[<<c[1], c[2] + 1>>]
             [] c[2] = bottom - 1          -> Space
             [] OTHER                      -> screen.text[c]]
    BY <1>1, <1>5, ScrollGives
  <2>2. b = rows - 1
    BY <1>2, <1>5
  <2>3. ASSUME NEW c \in Cells, c[2] < rows - 1
        PROVE  text[c] = screen.text[<<c[1], c[2] + 1>>]
    <3>1. c[2] \in top..(bottom - 2) /\ c[2] # bottom - 1
      BY <1>1, <2>3, CellHas
    <3> HIDE DEF text
    <3> QED BY <2>1, <3>1
  <2>4. ASSUME NEW c \in Cells, c[2] >= rows - 1
        PROVE  text[c] = Space
    <3>1. c[2] \notin top..(bottom - 2) /\ c[2] = bottom - 1
      BY <1>1, <2>4, CellHas
    <3> HIDE DEF text
    <3> QED BY <2>1, <3>1
  <2> HIDE DEF text, b
  <2> QED BY <1>1, <1>3, <1>5, <2>2, <2>3, <2>4 DEF b
<1>6. y < rows - 1 \/ y = rows - 1
  BY <1>1
<1> QED BY ONLY <1>4, <1>5, <1>6

(* What is fed is a line of paper. *)
LEMMA LineFed ==
  ASSUME TerminalInv, OnPaper, UNCHANGED bounds, NEW t \in Grid, screen' = t,
         t.y = Min(screen.y + 1, rows - 1),
         screen.y < rows - 1 =>
           \A c \in Cells : c[2] <= screen.y => t.text[c] = screen.text[c],
         screen.y = rows - 1 =>
           \A c \in Cells : c[2] < rows - 1 => t.text[c] = screen.text[<<c[1], c[2] + 1>>],
         NEW line, line = Row(t, t.y + 1)
  PROVE  Lines' = P!Feed(line)
<1>1. bounds \in Screens /\ screen \in Grid /\ screen.y < rows
  BY InvHas DEF OnPaper
<1>2. Rows(t) = IF Len(Rows(screen)) < rows THEN Append(Rows(screen), Row(t, t.y + 1))
                ELSE Append(Tail(Rows(screen)), Row(t, t.y + 1))
  BY <1>1, RowsFed
<1>3. Lines = Rows(screen) /\ Lines' = Rows(t)
  BY LinesAre
<1> QED BY ONLY <1>2, <1>3, line = Row(t, t.y + 1) DEF P!Feed

(* A line feed is a new line of the sheet. *)
LEMMA FeedsPaper ==
  ASSUME TerminalInv, OnlyPrints, OnPaper, NextLine
  PROVE  P!NewLine /\ OnPaper'
<1>1. /\ bounds \in Screens /\ RegionOK /\ screen \in Grid /\ cols \in Nat /\ rows \in Nat
      /\ cols > 0 /\ rows > 0 /\ Landscape /\ screen.y \in Nat /\ screen.y < rows
  BY InvHas, GridHas, Sizes DEF OnlyPrints, OnPaper
<1> DEFINE t == LineFeed(screen, 0)
<1>2. screen' = t /\ UNCHANGED <<bounds, margins, insert_mode>>
  BY DEF NextLine, Only, Do
<1>3. /\ t \in Grid /\ t.x = 0 /\ t.y = Min(screen.y + 1, rows - 1)
      /\ screen.y < rows - 1 =>
           \A c \in Cells : c[2] <= screen.y => t.text[c] = screen.text[c]
      /\ screen.y = rows - 1 =>
           \A c \in Cells : c[2] < rows - 1 => t.text[c] = screen.text[<<c[1], c[2] + 1>>]
      /\ \A c \in Cells : c[2] >= t.y => t.text[c] = Space
  BY <1>1, Turning
<1> HIDE DEF t
<1>4. t.y \in Nat /\ t.y < rows
  BY <1>1, <1>3 DEF Min
<1>5. Row(t, t.y + 1) = P!BlankLine
  <2>1. ASSUME NEW c \in 0..cols - 1 PROVE t.text[<<c, (t.y + 1) - 1>>] = Space
    <3> DEFINE here == <<c, t.y>>
    <3>1. here \in Cells /\ here[2] = t.y /\ (t.y + 1) - 1 = t.y
      BY <1>1, <1>4, CellIs
    <3>2. here[2] >= t.y
      BY <1>4, <3>1
    <3> HIDE DEF here
    <3>3. t.text[here] = Space
      BY <1>3, <3>1, <3>2
    <3> QED BY <3>1, <3>3 DEF here
  <2> QED BY <2>1 DEF Row, P!BlankLine
<1>6. Lines' = P!Feed(P!BlankLine)
  BY <1>2, <1>3, <1>5, LineFed
<1>7. OnPaper'
  <2>1. rows' = rows /\ Cells' = Cells
    BY <1>2, SameBounds
  <2>2. \A c \in Cells : c[2] > t.y => t.text[c] = Space
    BY <1>1, <1>3, <1>4, CellHas, Sizes
  <2> QED BY <1>2, <1>4, <2>1, <2>2 DEF OnPaper, Whole, margins
<1> QED BY <1>2, <1>3, <1>6, <1>7 DEF P!NewLine

(* A return and a backspace move within the last line. *)
LEMMA ReturnsOnPaper ==
  ASSUME TerminalInv, OnPaper, Backspace \/ CarriageReturn
  PROVE  P!Return /\ OnPaper'
<1>1. /\ bounds \in Screens /\ screen \in Grid /\ x \in 0..cols - 1 /\ y \in 0..rows - 1
      /\ cols \in Nat /\ rows \in Nat /\ screen.y = y /\ screen.x \in Nat /\ x <= screen.x
      /\ y \in Int /\ x \in Int
  BY InvHas, GridHas, Sizes DEF OnPaper, x, X, Min
<1>2. PICK a \in Int : a <= screen.x /\ screen' = MoveTo(screen, a, y)
  <2>1. CASE Backspace
    <3>1. x - 1 \in Int /\ x - 1 <= screen.x
      BY <1>1
    <3> QED BY <2>1, <3>1 DEF Backspace, Only, Do
  <2>2. CASE CarriageReturn
    <3>1. 0 \in Int /\ 0 <= screen.x
      BY <1>1
    <3> QED BY <2>2, <3>1 DEF CarriageReturn, Only, Do
  <2> QED BY <2>1, <2>2
<1>3. UNCHANGED <<bounds, margins, insert_mode>>
  BY DEF Backspace, CarriageReturn, Only, Do
<1> DEFINE t == MoveTo(screen, a, y)
<1>4. t \in Grid /\ t.text = screen.text /\ t.y = screen.y /\ t.x = Clamped(a, cols)
  BY <1>1, MoveToGives
<1>5. Clamped(a, cols) \in 0..screen.x
  BY <1>1, <1>2, Sizes DEF Clamped
<1>6. screen' = t
  BY <1>2
<1> HIDE DEF t
<1>7. Lines = Rows(screen) /\ Lines' = Rows(t)
  BY <1>3, <1>4, <1>6, LinesAre
<1>8. Rows(t) = Rows(screen)
  BY <1>4 DEF Rows, Row, Y
<1>9. OnPaper'
  <2>1. rows' = rows /\ Cells' = Cells
    BY <1>3, SameBounds
  <2> QED BY <1>3, <1>4, <1>6, <2>1 DEF OnPaper, Whole, margins
<1> QED BY <1>4, <1>5, <1>6, <1>7, <1>8, <1>9 DEF P!Return

(* A character, in a line that has room ... *)
LEMMA PrintsInLine ==
  ASSUME TerminalInv, OnPaper, NEW g \in Glyphs, PrintChar(g), screen.x < cols
  PROVE  P!Write(g) /\ OnPaper'
<1>1. /\ bounds \in Screens /\ RegionOK /\ screen \in Grid /\ screen.text \in [Cells -> Chars]
      /\ screen.x \in Nat /\ screen.y \in Nat /\ screen.y < rows /\ ~ insert_mode
      /\ cols \in Nat /\ rows \in Nat /\ g \in Chars /\ TRUE \in BOOLEAN
  BY InvHas, GridHas, Sizes DEF OnPaper, Chars
<1> DEFINE t == Put(screen, g, TRUE)  here == <<screen.x, screen.y>>
           n == screen.y + 1  a == screen.x
<1>2. screen' = t /\ UNCHANGED <<bounds, margins, insert_mode>>
  BY <1>1 DEF PrintChar, Only, Do
<1>3. /\ t \in Grid /\ t.x = screen.x + 1 /\ t.y = screen.y /\ here \in Cells
      /\ t.text = [screen.text EXCEPT ![here] = g]
  BY <1>1, PutInRow
<1> HIDE DEF t
<1>4. Lines = Rows(screen) /\ Lines' = Rows(t)
  BY <1>2, <1>3, LinesAre
<1>5. /\ Rows(screen) = [r \in 1..n |-> Row(screen, r)] /\ Len(Rows(screen)) = n
      /\ Rows(t) = [r \in 1..n |-> Row(t, r)]
  BY <1>1, <1>3, RowsAre
<1>6. ASSUME NEW r \in 1..n
      PROVE  Row(t, r) = IF r = n THEN [Row(screen, r) EXCEPT ![a] = g] ELSE Row(screen, r)
  <2>1. ASSUME NEW c \in 0..cols - 1
        PROVE  t.text[<<c, r - 1>>] = IF r = n /\ c = a THEN g ELSE screen.text[<<c, r - 1>>]
    <3>1. <<c, r - 1>> \in Cells
      BY <1>1, CellIs
    <3>2. <<c, r - 1>> = here <=> r = n /\ c = a
      BY <1>1
    <3> HIDE DEF here, n, a
    <3> QED BY <1>1, <1>3, <3>1, <3>2
  <2> QED BY <2>1 DEF Row
<1>7. Rows(t) = [Rows(screen) EXCEPT ![n] = [Rows(screen)[n] EXCEPT ![a] = g]]
  <2> HIDE DEF n, a
  <2> DEFINE q == Rows(screen)  e == [Row(screen, n) EXCEPT ![a] = g]
  <2>1. n \in 1..n
    BY <1>1 DEF n
  <2>2. q = [r \in 1..n |-> Row(screen, r)] /\ q[n] = Row(screen, n)
    BY <1>5, <2>1
  <2>3. \A r \in 1..n : Row(t, r) = IF r = n THEN e ELSE Row(screen, r)
    BY <1>6
  <2> HIDE DEF q, e
  <2>4. [r \in 1..n |-> Row(t, r)] = [q EXCEPT ![n] = e]
    BY <2>2, <2>3
  <2>5. [q EXCEPT ![n] = e] = [q EXCEPT ![n] = [q[n] EXCEPT ![a] = g]]
    BY <2>2 DEF e
  <2>6. Rows(t) = [q EXCEPT ![n] = [q[n] EXCEPT ![a] = g]]
    BY ONLY <1>5, <2>4, <2>5
  <2> QED BY <2>6 DEF q
<1>8. Lines' = [Lines EXCEPT ![Len(Lines)][screen.x] = g]
  BY <1>4, <1>5, <1>7
<1>9. screen'.x = screen.x + 1
  BY <1>2, <1>3
<1>10. OnPaper'
  <2>1. rows' = rows /\ Cells' = Cells
    BY <1>2, SameBounds
  <2>2. ASSUME NEW c \in Cells, c[2] > t.y PROVE t.text[c] = Space
    <3>1. c # here
      BY <1>1, <1>3, <2>2
    <3>2. t.text[c] = screen.text[c]
      BY <1>1, <1>3, <3>1
    <3> QED BY <1>3, <2>2, <3>2 DEF OnPaper
  <2> QED BY <1>1, <1>2, <1>3, <2>1, <2>2 DEF OnPaper, Whole, margins
<1> QED BY <1>8, <1>9, <1>10 DEF P!Write

(* ... and after a full one, where it wraps. *)
LEMMA PrintsInNext ==
  ASSUME TerminalInv, OnlyPrints, OnPaper, NEW g \in Glyphs, PrintChar(g), screen.x = cols
  PROVE  P!Write(g) /\ OnPaper'
<1>1. /\ bounds \in Screens /\ RegionOK /\ screen \in Grid
      /\ screen.x \in Nat /\ screen.y \in Nat /\ screen.y < rows /\ ~ insert_mode /\ Landscape
      /\ cols \in Nat /\ rows \in Nat /\ cols > 0 /\ rows > 0 /\ g \in Chars /\ TRUE \in BOOLEAN
      /\ 0 \in 0..cols - 1
  BY InvHas, GridHas, Sizes DEF OnPaper, OnlyPrints, Chars
<1> DEFINE u == Wrapped(screen)  t == Put(screen, g, TRUE)  here == <<0, u.y>>
<1>2. screen' = t /\ UNCHANGED <<bounds, margins, insert_mode>>
  BY <1>1 DEF PrintChar, Only, Do
<1>3. /\ u \in Grid /\ u.x = 0 /\ u.y = Min(screen.y + 1, rows - 1)
      /\ screen.y < rows - 1 =>
           \A c \in Cells : c[2] <= screen.y => u.text[c] = screen.text[c]
      /\ screen.y = rows - 1 =>
           \A c \in Cells : c[2] < rows - 1 => u.text[c] = screen.text[<<c[1], c[2] + 1>>]
      /\ \A c \in Cells : c[2] >= u.y => u.text[c] = Space
  BY <1>1, Turning
<1>4. /\ u.y \in Nat /\ u.y < rows
      /\ screen.y < rows - 1 => u.y = screen.y + 1
      /\ screen.y = rows - 1 => u.y = rows - 1
  <2> HIDE DEF u
  <2> QED BY <1>1, <1>3 DEF Min
<1>5. /\ t \in Grid /\ t.x = 1 /\ t.y = u.y /\ here \in Cells
      /\ t.text = [u.text EXCEPT ![here] = g]
  <2>1. Turned(screen, TRUE) = u
    BY <1>1 DEF Turned, Turns
  <2> HIDE DEF u
  <2>2. /\ t \in Grid /\ t.x = u.x + 1 /\ t.y = u.y
        /\ t.text = IF <<u.x, u.y>> \in Cells THEN [u.text EXCEPT ![<<u.x, u.y>>] = g]
                    ELSE u.text
    BY <1>1, <2>1, PutGives
  <2> HIDE DEF t
  <2>3. here \in Cells
    <3> DEFINE b == u.y
    <3>1. b \in Int /\ b \in 0..rows - 1
      BY <1>1, <1>4
    <3> HIDE DEF b
    <3>2. <<0, b>> \in Cells
      BY <1>1, <3>1, CellIs
    <3> QED BY <3>2 DEF b
  <2>4. <<u.x, u.y>> = here /\ u.x + 1 = 1
    BY <1>3
  <2> QED BY ONLY <2>2, <2>3, <2>4
<1> HIDE DEF t, u
<1>6. u.text \in [Cells -> Chars]
  BY <1>3, GridHas
<1>7. ASSUME NEW c \in Cells, c[2] # u.y PROVE t.text[c] = u.text[c]
  <2>1. c # here
    BY <1>7
  <2> QED BY <1>5, <1>6, <2>1
<1>8. /\ screen.y < rows - 1 =>
           \A c \in Cells : c[2] <= screen.y => t.text[c] = screen.text[c]
      /\ screen.y = rows - 1 =>
           \A c \in Cells : c[2] < rows - 1 => t.text[c] = screen.text[<<c[1], c[2] + 1>>]
  <2>1. ASSUME screen.y < rows - 1, NEW c \in Cells, c[2] <= screen.y
        PROVE  t.text[c] = screen.text[c]
    <3>1. c[2] # u.y
      BY <1>1, <1>4, <2>1, CellHas
    <3> QED BY <1>3, <1>7, <2>1, <3>1
  <2>2. ASSUME screen.y = rows - 1, NEW c \in Cells, c[2] < rows - 1
        PROVE  t.text[c] = screen.text[<<c[1], c[2] + 1>>]
    <3>1. c[2] # u.y
      BY <1>1, <1>4, <2>2, CellHas
    <3> QED BY <1>3, <1>7, <2>2, <3>1
  <2> QED BY <2>1, <2>2
<1> DEFINE line == [P!BlankLine EXCEPT ![0] = g]
<1>9. line = Row(t, t.y + 1)
  <2>1. ASSUME NEW c \in 0..cols - 1
        PROVE  t.text[<<c, (t.y + 1) - 1>>] = IF c = 0 THEN g ELSE Space
    <3> DEFINE cell == <<c, u.y>>
    <3>1. (t.y + 1) - 1 = u.y
      BY <1>4, <1>5
    <3>2. cell \in Cells /\ cell[2] >= u.y
      <4> DEFINE b == u.y
      <4>1. b \in Int /\ b \in 0..rows - 1 /\ c \in Int /\ b >= b
        BY <1>1, <1>4
      <4> HIDE DEF b
      <4>2. <<c, b>> \in Cells /\ <<c, b>>[2] >= b
        BY <1>1, <4>1, CellIs
      <4> QED BY <4>2 DEF b
    <3>3. cell = here <=> c = 0
      OBVIOUS
    <3>4. u.text[cell] = Space
      BY <1>3, <3>2
    <3> HIDE DEF cell, here
    <3>5. t.text[cell] = IF c = 0 THEN g ELSE Space
      BY <1>5, <1>6, <3>2, <3>3, <3>4
    <3> QED BY <3>1, <3>5 DEF cell
  <2>2. Row(t, t.y + 1) = [c \in 0..cols - 1 |-> IF c = 0 THEN g ELSE Space]
    BY <2>1 DEF Row
  <2>3. line = [c \in 0..cols - 1 |-> IF c = 0 THEN g ELSE Space]
    BY <1>1 DEF P!BlankLine
  <2> QED BY <2>2, <2>3
<1> HIDE DEF line
<1>10. t.y = Min(screen.y + 1, rows - 1)
  BY <1>3, <1>5
<1>11. Lines' = P!Feed(line)
  BY <1>2, <1>5, <1>8, <1>9, <1>10, LineFed
<1>12. OnPaper'
  <2>1. rows' = rows /\ Cells' = Cells
    BY <1>2, SameBounds
  <2>2. ASSUME NEW c \in Cells, c[2] > t.y PROVE t.text[c] = Space
    <3>1. c[2] # u.y /\ c[2] >= u.y
      BY <1>1, <1>4, <1>5, <2>2, CellHas
    <3> QED BY <1>3, <1>7, <3>1
  <2> QED BY <1>1, <1>2, <1>4, <1>5, <2>1, <2>2 DEF OnPaper, Whole, margins
<1>13. screen'.x = 1
  BY <1>2, <1>5
<1> QED BY <1>11, <1>12, <1>13 DEF P!Write, line

(* Either way it is written at the end of the sheet. *)
LEMMA PrintsOnPaper ==
  ASSUME TerminalInv, OnlyPrints, OnPaper, NEW g \in Glyphs, PrintChar(g)
  PROVE  P!Write(g) /\ OnPaper'
<1>1. screen.x < cols \/ screen.x = cols
  BY InvHas, GridHas, Sizes DEF TerminalInv
<1> QED BY <1>1, PrintsInLine, PrintsInNext

(* The size of the screen never changes. *)
LEMMA BoundsKept ==
  ASSUME [Next]_vars
  PROVE  UNCHANGED bounds
<1>1. ASSUME NEW name, NEW s, Do(name, s) \/ Only(name, s) PROVE UNCHANGED bounds
  BY <1>1 DEF Do, Only
<1>2. ASSUME NEW n, NEW m, NEW column, NEW count,
             \/ CursorUp(column, n) \/ CursorDown(column, n)
             \/ CursorForward(n) \/ CursorBack(n) \/ ToRow(n) \/ ToColumn(n)
             \/ DeleteLines(n) \/ InsertLines(n) \/ Position(n, m)
             \/ EraseDisplay(n) \/ EraseLine(n) \/ EraseChars(n)
             \/ InsertChars(n) \/ DeleteChars(n) \/ SetRegion(count, n, m)
      PROVE  UNCHANGED bounds
  BY <1>1, <1>2, Zenon DEF CursorUp, CursorDown, CursorForward, CursorBack, ToRow, ToColumn,
     DeleteLines, InsertLines, Position, EraseDisplay, EraseLine, EraseChars, InsertChars,
     DeleteChars, SetRegion
<1>3. CASE \/ SaveCursor \/ RestoreCursor \/ save_state \/ restore_state
           \/ \E on \in BOOLEAN : SetInsert(on)
           \/ Index \/ NextLine \/ ReverseIndex \/ Reset
           \/ Tab \/ Backspace \/ CarriageReturn
  BY <1>1, <1>3, Zenon DEF SaveCursor, RestoreCursor, save_state, restore_state, SetInsert, Index,
     NextLine, ReverseIndex, Reset, Tab, Backspace, CarriageReturn
<1>4. ASSUME NEW g, NEW width, PrintChar(g) \/ PrintUnicode(g, width) PROVE UNCHANGED bounds
  BY <1>1, <1>4, Zenon DEF PrintChar, PrintUnicode
<1>5. CASE UNCHANGED vars
  BY <1>5 DEF vars
<1> QED BY <1>2, <1>3, <1>4, <1>5 DEF Next

(* Every step of a terminal that only prints is one of the sheet. *)
LEMMA PaperStep ==
  ASSUME TerminalInv, PaperInv, [Next]_vars
  PROVE  PaperInv' /\ [OnlyPrints => P!PaperNext]_(P!paper)
<1>1. CASE UNCHANGED vars
  <2>1. UNCHANGED <<bounds, screen, top, bottom, insert_mode>>
    BY <1>1 DEF vars, margins
  <2>2. rows' = rows /\ cols' = cols /\ Cells' = Cells /\ Glyphs' = Glyphs
    BY <2>1, SameBounds
  <2>3. PaperInv'
    BY <2>1, <2>2 DEF PaperInv, OnlyPrints, Landscape, OnPaper, Whole
  <2>4. UNCHANGED P!paper
    BY <2>1, <2>2 DEF P!paper, P!size, Lines, Y, Min
  <2> QED BY <2>3, <2>4
<1>2. ASSUME OnlyPrints, OnPaper, UNCHANGED bounds, OnPaper',
             P!NewLine \/ P!Return \/ \E g \in Glyphs : P!Write(g)
      PROVE  PaperInv' /\ [OnlyPrints => P!PaperNext]_(P!paper)
  <2>1. UNCHANGED P!size
    BY <1>2, SameBounds DEF P!size
  <2> QED BY <1>2, <2>1 DEF PaperInv, P!PaperNext
<1>3. CASE OnlyPrints
  <2>1. OnPaper
    BY <1>3 DEF PaperInv
  <2>2. CASE NextLine
    <3>1. UNCHANGED bounds
      BY <2>2 DEF NextLine, Only, Do
    <3> QED BY <1>2, <1>3, <2>1, <2>2, <3>1, FeedsPaper
  <2>3. CASE Backspace \/ CarriageReturn
    <3>1. UNCHANGED bounds
      BY <2>3 DEF Backspace, CarriageReturn, Only, Do
    <3> QED BY <1>2, <1>3, <2>1, <2>3, <3>1, ReturnsOnPaper
  <2>4. ASSUME NEW g \in Glyphs, PrintChar(g)
        PROVE  PaperInv' /\ [OnlyPrints => P!PaperNext]_(P!paper)
    <3>1. UNCHANGED bounds
      BY <2>4 DEF PrintChar, Only, Do
    <3> QED BY <1>2, <1>3, <2>1, <2>4, <3>1, PrintsOnPaper
  <2> QED BY <1>1, <1>3, <2>2, <2>3, <2>4, PaperSteps
<1>4. CASE ~ OnlyPrints
  <2>1. bounds' = bounds
    BY BoundsKept
  <2>2. ~ OnlyPrints'
    BY <1>4, <2>1, SameBounds DEF OnlyPrints, Landscape
  <2> QED BY <1>4, <2>2 DEF PaperInv
<1> QED BY <1>3, <1>4

(* For every screen that has not more rows than columns, what is printed   *)
(* in lines appears as on a sheet of paper whose last lines are in view    *)
(* (flanterm.c:1270-1346, fb.c:573-596, 789-809).                          *)
THEOREM IsASheetOfPaper == FlantermSpec => ImplementsPaper
<1>1. Init => PaperInv
  <2> SUFFICES ASSUME Init PROVE OnPaper
    BY DEF PaperInv
  <2>1. bounds \in Screens
    BY DEF Init
  <2>2. 0 < rows
    BY <2>1, Sizes
  <2> QED BY <2>2 DEF Init, OnPaper, Whole
<1>2. Init => P!PaperInit
  <2> SUFFICES ASSUME Init PROVE P!PaperInit
    OBVIOUS
  <2>1. rows \in Nat /\ rows > 0
    BY Sizes DEF Init
  <2>2. Y(screen) = 0
    BY <2>1 DEF Init, Y, Min
  <2>3. \A c \in 0..cols - 1 : screen.text[<<c, 1 - 1>>] = Space
    <3>1. ASSUME NEW c \in 0..cols - 1 PROVE screen.text[<<c, 1 - 1>>] = Space
      <4>1. <<c, 1 - 1>> \in Cells
        BY <2>1, CellIs, Sizes DEF Init
      <4> QED BY <4>1 DEF Init
    <3> QED BY <3>1
  <2>4. Lines = [r \in 1..1 |-> P!BlankLine]
    BY <2>2, <2>3 DEF Lines, P!BlankLine
  <2>5. Lines = <<P!BlankLine>>
    BY <2>4
  <2> QED BY <2>5 DEF Init, P!PaperInit
<1>3. TerminalInv /\ TerminalInv' /\ PaperInv /\ [Next]_vars
        => PaperInv' /\ [OnlyPrints => P!PaperNext]_(P!paper)
  BY PaperStep
<1> QED BY <1>1, <1>2, <1>3, TerminalInvAlways, ScreenRuns, PTL DEF ImplementsPaper
=============================================================================
