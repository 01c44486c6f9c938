------------------------------ MODULE Keyboard ------------------------------
(***************************************************************************)
(* The keyboard driver, src/dev/char/kb.c, with its caller, the loop of    *)
(* src/utils/shell.c.  The interrupt handler and kb_get_string communicate *)
(* through kb_char, a mailbox of one character with no lock.  The handler  *)
(* runs with interrupts disabled, in one step; kb_get_string takes one step*)
(* for each time it reads or writes a variable that the handler writes (the*)
(* kernel is built without optimisation, so every read is done).           *)
(*                                                                         *)
(* kb_get_char and its kb_key_pressed, which nothing calls or reads, are   *)
(* left out; the release of a key that is no modifier changes nothing.     *)
(*                                                                         *)
(* A definition whose name ends in an underscore and a word is a faulty    *)
(* variant of the definition after it.                                     *)
(***************************************************************************)
EXTENDS Naturals, Sequences, SequencesExt

CONSTANTS
  N,      \* the size of the buffer (1024 in the shell)
  Typists \* who may be typing: the keys one presses, and whether one is calm
          \* and waits until kb_get_string is done with a key

Modifiers == {"lshift", "rshift", "ctrl"}

Nul == "nul"
Enter == "enter"
Backspace == "back"

(* kb_map_keys, kb_map_keys_shift and kb_map_keys_caps: two letters, of    *)
(* which one is special, the two control characters, a key that maps to 0. *)
(* A key like "win" has a scan code past the end of the three tables.      *)
kb_map_keys ==
  [a |-> "a", l |-> "l", enter |-> Enter, back |-> Backspace, f1 |-> Nul]
kb_map_keys_shift ==
  [a |-> "A", l |-> "L", enter |-> Enter, back |-> Backspace, f1 |-> Nul]
kb_map_keys_caps == kb_map_keys_shift

ASSUME KeyboardAssumption ==
  /\ N \in Nat \ {0}
  /\ \A t \in Typists :
       /\ t.keys \subseteq DOMAIN kb_map_keys \cup Modifiers \cup {"caps", "win"}
       /\ t.calm \in BOOLEAN

VARIABLES
  typist,   \* one of Typists
  kb_char, kb_shift, kb_ctrl, kb_caps,
  down,     \* the modifier keys that are held down
  buf,      \* the buffer, of N characters
  pos,      \* kb_get_string: the length of the line
  pc,       \* where kb_get_string is; "hlt" is the processor asleep in it
  halted,   \* the processor has stopped for good
  stroke    \* history: changes with every key that is not a modifier

driver == <<kb_char, kb_shift, kb_ctrl, kb_caps, down>>
editor == <<buf, pos>>
vars == <<typist, driver, editor, pc, halted, stroke>>

Zeroed == [i \in 1..N |-> Nul]

(* The string a caller sees in b: what comes before the first NUL. *)
CString(b) ==
  SubSeq(b, 1, (CHOOSE k \in 0..N : /\ k = N \/ b[k + 1] = Nul
                                    /\ \A i \in 1..k : b[i] # Nul))

Init ==
  /\ typist \in Typists
  /\ kb_char = Nul
  /\ kb_shift = FALSE /\ kb_ctrl = FALSE /\ kb_caps = FALSE
  /\ down = {}
  /\ buf = Zeroed
  /\ pos = 0
  /\ pc = "shell"
  /\ halted = FALSE
  /\ stroke = FALSE
-----------------------------------------------------------------------------
(* Interrupts.  Any of them ends a hlt. *)

At(place) == pc = place /\ ~ halted

Wake == pc' = IF pc = "hlt" THEN "switch" ELSE pc

Interruptible ==
  /\ ~ halted
  /\ typist.calm => kb_char = Nul /\ pc \in {"shell", "loop", "hlt"}

Press(key) ==
  /\ key \in Modifiers \cup {"caps"}
  /\ kb_shift' = (kb_shift \/ key \in {"lshift", "rshift"})
  /\ kb_ctrl' = (kb_ctrl \/ key = "ctrl")
  /\ kb_caps' = IF key = "caps" THEN ~ kb_caps ELSE kb_caps
  /\ down' = down \cup ({key} \cap Modifiers)
  /\ Wake
  /\ UNCHANGED <<kb_char, halted, stroke, editor>>

Type(key) ==
  /\ key \in DOMAIN kb_map_keys
  /\ kb_char' = CASE kb_shift -> kb_map_keys_shift[key]
                  [] ~ kb_shift /\ kb_caps -> kb_map_keys_caps[key]
                  [] OTHER -> kb_map_keys[key]
  /\ Wake
  /\ stroke' = ~ stroke
  /\ UNCHANGED <<kb_shift, kb_ctrl, kb_caps, down, halted, editor>>

(* The handler indexes a table out of bounds: the sanitizer's handler stops*)
(* the processor with interrupts disabled and the interrupt not acknowledged.*)
OutOfBounds(key) ==
  /\ key = "win"
  /\ halted' = TRUE
  /\ UNCHANGED <<driver, editor, pc, stroke>>

Release_OneShift(key) ==
  /\ key \in down
  /\ kb_shift' = (kb_shift /\ key # "lshift")
  /\ kb_ctrl' = (kb_ctrl /\ key # "ctrl")
  /\ down' = down \ {key}
  /\ Wake
  /\ UNCHANGED <<kb_char, kb_caps, halted, stroke, editor>>

Release(key) ==
  /\ key \in down
  /\ kb_shift' = (kb_shift /\ key \notin {"lshift", "rshift"})
  /\ kb_ctrl' = (kb_ctrl /\ key # "ctrl")
  /\ down' = down \ {key}
  /\ Wake
  /\ UNCHANGED <<kb_char, kb_caps, halted, stroke, editor>>

kb_handler ==
  /\ Interruptible
  /\ \E key \in typist.keys : Press(key) \/ Type(key) \/ OutOfBounds(key) \/ Release(key)

pit_handler_NoTick == At("hlt") /\ UNCHANGED vars

(* The timer's interrupt, which changes nothing here but that. *)
pit_handler ==
  /\ At("hlt")
  /\ Wake
  /\ UNCHANGED <<driver, halted, stroke, editor>>
-----------------------------------------------------------------------------
(* The shell's loop and kb_get_string. *)

(* The shell handles the line, and calls kb_get_string again. *)
shell ==
  /\ At("shell")
  /\ buf' = Zeroed
  /\ pos' = 0
  /\ pc' = "loop"
  /\ UNCHANGED <<driver, halted, stroke>>

Hlt ==
  /\ At("loop")
  /\ pc' = "hlt"
  /\ UNCHANGED <<driver, halted, stroke, editor>>

(* The first read of kb_char decides what kind of key it is. *)
Switch ==
  /\ At("switch")
  /\ pc' = CASE kb_char = Nul -> "clear"
             [] kb_char = Enter -> "return"
             [] kb_char = Backspace -> IF pos = 0 THEN "clear" ELSE "erase"
             [] OTHER -> "ctrl"
  /\ UNCHANGED <<driver, halted, stroke, editor>>

EraseLast_Left ==
  /\ At("erase")
  /\ pos' = pos - 1
  /\ pc' = "clear"
  /\ UNCHANGED <<driver, halted, stroke, buf>>

EraseLast ==
  /\ At("erase")
  /\ pos' = pos - 1
  /\ buf' = [buf EXCEPT ![pos] = Nul]
  /\ pc' = "clear"
  /\ UNCHANGED <<driver, halted, stroke>>

Room == IF pos >= N - 1 THEN "clear" ELSE "echo"

(* kb_ctrl && (kb_char == 'l' || kb_char == 'L'), a read at a time. *)
TestCtrl ==
  /\ \/ At("ctrl") /\ pc' = IF kb_ctrl THEN "lower" ELSE Room
     \/ At("lower") /\ pc' = IF kb_char = "l" THEN "home" ELSE "upper"
     \/ At("upper") /\ pc' = IF kb_char = "L" THEN "home" ELSE Room
  /\ UNCHANGED <<driver, halted, stroke, editor>>

Echo ==
  /\ At("echo")
  /\ pc' = "store"
  /\ UNCHANGED <<driver, halted, stroke, editor>>

Store ==
  /\ At("store")
  /\ buf' = [buf EXCEPT ![pos + 1] = kb_char]
  /\ pos' = pos + 1
  /\ pc' = "clear"
  /\ UNCHANGED <<driver, halted, stroke>>

Emptied_Not == UNCHANGED <<driver, halted, stroke>>
Emptied ==
  /\ kb_char' = Nul
  /\ UNCHANGED <<kb_shift, kb_ctrl, kb_caps, down, halted, stroke>>

Clear ==
  /\ At("clear")
  /\ Emptied
  /\ pc' = "loop"
  /\ UNCHANGED editor

(* kb_get_string returns, with the line or, after Ctrl-L, with nothing. *)
Return ==
  /\ At("return") \/ At("home")
  /\ Emptied
  /\ buf' = IF pc = "home" THEN Zeroed ELSE buf
  /\ pc' = "shell"
  /\ UNCHANGED pos

kb_get_string ==
  Hlt \/ Switch \/ EraseLast \/ TestCtrl \/ Echo \/ Store \/ Clear \/ Return

Shell == (shell \/ kb_get_string) /\ UNCHANGED typist
Timer == pit_handler /\ UNCHANGED typist
Interrupt == kb_handler /\ UNCHANGED typist
Next == Interrupt \/ Timer \/ Shell

(* The processor executes, and the timer ticks a thousand times a second.  *)
Spec == Init /\ [][Next]_vars /\ WF_vars(Shell) /\ WF_vars(Timer)
-----------------------------------------------------------------------------
Chars == Range(kb_map_keys) \cup Range(kb_map_keys_shift)

TypeOK ==
  /\ typist \in Typists /\ kb_char \in Chars
  /\ kb_shift \in BOOLEAN /\ kb_ctrl \in BOOLEAN /\ kb_caps \in BOOLEAN
  /\ down \subseteq Modifiers
  /\ buf \in [1..N -> Chars]
  /\ pos \in 0..(N - 1)
  /\ pc \in {"shell", "loop", "hlt", "switch", "erase", "ctrl", "lower", "upper",
             "home", "echo", "store", "clear", "return"}
  /\ halted \in BOOLEAN /\ stroke \in BOOLEAN

(* Whenever keys arrive, the line stays within the buffer and what follows *)
(* it is zero, so that the shell gets a terminated string (kb.c:67, 88-89, *)
(* 101-107).                                                               *)
Terminated == TypeOK /\ \A i \in (pos + 1)..N : buf[i] = Nul

(* No modifier stays active once every modifier key has been released      *)
(* (kb.c:21-29, 42-50).                                                    *)
NoStuckModifier == down = {} => ~ kb_shift /\ ~ kb_ctrl

(* A character in the mailbox is taken out, whenever it arrived: one that  *)
(* comes just before the hlt waits for the next tick of the timer, not for *)
(* the next key (kb.c:71, 111).                                            *)
MailboxEmptied == (kb_char # Nul) ~> (kb_char = Nul \/ halted)

(* What a calm typist sees of it: the line, what the shell has been given, *)
(* and the key that has had no effect yet.                                 *)
LineEdited == IF ~ typist.calm \/ pc = "shell" THEN <<>> ELSE CString(buf)
LineRun == IF typist.calm /\ pc = "shell" THEN CString(buf) ELSE <<>>
KeyWaiting ==
  IF ~ typist.calm \/ pc = "clear" THEN Nul
  ELSE IF kb_ctrl /\ kb_char \in {"l", "L"} THEN "clear" ELSE kb_char

(* The keys of a calm typist take effect in order, each exactly once: the  *)
(* key that is in the mailbox has had no effect until its line changes, and*)
(* then it has had it (kb.c:66-113).                                       *)
Editor == INSTANCE LineEditor WITH
  MaxLine <- N - 1, line <- LineEdited, ran <- LineRun, key <- KeyWaiting,
  stroke <- typist.calm /\ stroke

EditsLines == Editor!EditSpec
=============================================================================
