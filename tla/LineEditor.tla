----------------------------- MODULE LineEditor -----------------------------
(***************************************************************************)
(* What the keyboard and the shell promise a typist: the keys take effect  *)
(* one at a time, in the order they are pressed, each exactly once.        *)
(***************************************************************************)
EXTENDS Naturals, Sequences, SequencesExt

CONSTANT MaxLine   \* the longest line

VARIABLES
  key,    \* a key that has been pressed and has had no effect yet, or Nul
  stroke, \* changes with every key that is pressed
  line,   \* the line being edited
  ran     \* the line that the shell is handling

Nul == "nul"
Enter == "enter"
Backspace == "back"
ClearScreen == "clear"

EditInit == key = Nul /\ stroke \in BOOLEAN /\ line = <<>> /\ ran = <<>>

Press ==
  /\ key = Nul
  /\ stroke' # stroke
  /\ UNCHANGED <<line, ran>>

Insert ==
  /\ key \notin {Nul, Enter, Backspace, ClearScreen}
  /\ line' = IF Len(line) < MaxLine THEN Append(line, key) ELSE line
  /\ UNCHANGED ran

Erase ==
  /\ key = Backspace
  /\ line' = IF line = <<>> THEN line ELSE Front(line)
  /\ UNCHANGED ran

Submit ==
  /\ key \in {Enter, ClearScreen}
  /\ ran' = IF key = Enter THEN line ELSE <<>>
  /\ line' = <<>>

(* The shell is done with the line. *)
Handle ==
  /\ ran' = <<>>
  /\ UNCHANGED <<key, stroke, line>>

TakeEffect ==
  /\ key # Nul
  /\ key' = Nul
  /\ Insert \/ Erase \/ Submit
  /\ UNCHANGED stroke

EditNext == Press \/ Handle \/ TakeEffect

EditSpec == EditInit /\ [][EditNext]_<<key, stroke, line, ran>>
=============================================================================
