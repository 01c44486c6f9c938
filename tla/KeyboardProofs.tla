---------------------------- MODULE KeyboardProofs ----------------------------
(***************************************************************************)
(* Proofs about Keyboard, for every size of the buffer and every typist,   *)
(* also one who presses keys at any moment.                                *)
(***************************************************************************)
EXTENDS Keyboard, SequenceTheorems, TLAPS

(* kb_get_string has made room before it stores or erases: the handler, in *)
(* between, changes what is typed and not where.                           *)
RoomInv ==
  /\ pc = "erase" => pos > 0
  /\ pc \in {"echo", "store"} => pos < N - 1

(* The flags are set only while a key of theirs is held down. *)
HeldInv ==
  /\ kb_shift => down \cap {"lshift", "rshift"} # {}
  /\ kb_ctrl => "ctrl" \in down

Line == \A i \in (pos + 1)..N : buf[i] = Nul

IInv == TypeOK /\ Line /\ RoomInv /\ HeldInv

LEMMA Keys ==
  /\ \A key \in DOMAIN kb_map_keys :
       {kb_map_keys[key], kb_map_keys_shift[key], kb_map_keys_caps[key]} \subseteq Chars
  /\ Nul \in Chars
  BY DEF Chars, Range, kb_map_keys, kb_map_keys_shift, kb_map_keys_caps, Nul, Enter, Backspace

LEMMA Initially == Init => IInv
<1> SUFFICES ASSUME Init PROVE IInv
  OBVIOUS
<1>1. buf \in [1..N -> Chars] /\ pos \in 0..(N - 1)
  BY Keys, KeyboardAssumption DEF Init, Zeroed, KeyboardAssumption
<1>2. TypeOK
  BY <1>1, Keys DEF Init, TypeOK, Modifiers
<1>3. Line /\ RoomInv /\ HeldInv
  BY KeyboardAssumption DEF Init, Line, RoomInv, HeldInv, Zeroed, KeyboardAssumption
<1> QED
  BY <1>2, <1>3 DEF IInv

(* A hlt that ends does not lead to a place where room is needed. *)
LEMMA Woken ==
  ASSUME IInv, Wake, UNCHANGED <<typist, halted, editor>>, stroke' \in BOOLEAN,
         kb_char' \in Chars, kb_shift' \in BOOLEAN, kb_ctrl' \in BOOLEAN,
         kb_caps' \in BOOLEAN, down' \subseteq Modifiers, HeldInv'
  PROVE  IInv'
<1>1. pc' = pc \/ pc' = "switch"
  BY DEF Wake
<1>2. TypeOK'
  BY <1>1 DEF IInv, TypeOK, editor
<1>3. Line' /\ RoomInv'
  BY <1>1 DEF IInv, Line, RoomInv, editor
<1> QED
  BY <1>2, <1>3 DEF IInv

LEMMA PressStep ==
  ASSUME IInv, NEW key, Press(key), UNCHANGED typist
  PROVE  IInv'
<1>1. kb_shift' \in BOOLEAN /\ kb_ctrl' \in BOOLEAN /\ kb_caps' \in BOOLEAN
  BY DEF IInv, TypeOK, Press
<1>2. down' \subseteq Modifiers
  BY DEF IInv, TypeOK, Press
<1>3. HeldInv'
  BY DEF IInv, HeldInv, Press, Modifiers
<1> QED
  BY <1>1, <1>2, <1>3, Woken DEF IInv, TypeOK, Press

LEMMA TypeStep ==
  ASSUME IInv, NEW key, Type(key), UNCHANGED typist
  PROVE  IInv'
<1>1. kb_char' \in Chars /\ stroke' \in BOOLEAN
  BY Keys DEF IInv, TypeOK, Type
<1>2. HeldInv'
  BY DEF IInv, HeldInv, Type
<1> QED
  BY <1>1, <1>2, Woken DEF IInv, TypeOK, Type

LEMMA ReleaseStep ==
  ASSUME IInv, NEW key, Release(key), UNCHANGED typist
  PROVE  IInv'
<1>1. kb_shift' \in BOOLEAN /\ kb_ctrl' \in BOOLEAN
  BY DEF IInv, TypeOK, Release
<1>2. down' \subseteq Modifiers
  BY DEF IInv, TypeOK, Release
<1>3. HeldInv'
  BY DEF IInv, TypeOK, HeldInv, Release, Modifiers
<1> QED
  BY <1>1, <1>2, <1>3, Woken DEF IInv, TypeOK, Release

LEMMA InterruptStep == IInv /\ Interrupt => IInv'
<1> SUFFICES ASSUME IInv, Interrupt PROVE IInv'
  OBVIOUS
<1>1. PICK key \in typist.keys : Press(key) \/ Type(key) \/ OutOfBounds(key) \/ Release(key)
  BY DEF Interrupt, kb_handler
<1>2. CASE OutOfBounds(key)
  BY <1>2 DEF Interrupt, OutOfBounds, driver, editor, IInv, TypeOK, Line, RoomInv, HeldInv
<1> QED
  BY <1>1, <1>2, PressStep, TypeStep, ReleaseStep DEF Interrupt

LEMMA TimerStep == IInv /\ Timer => IInv'
<1> SUFFICES ASSUME IInv, Timer PROVE IInv'
  OBVIOUS
<1>1. HeldInv'
  BY DEF IInv, HeldInv, Timer, pit_handler, driver
<1> QED
  BY <1>1, Woken DEF IInv, TypeOK, Timer, pit_handler, driver

LEMMA ShellStep == IInv /\ Shell => IInv'
<1> SUFFICES ASSUME IInv, Shell PROVE IInv'
  OBVIOUS
<1> USE KeyboardAssumption DEF KeyboardAssumption
<1>1. CASE shell
  <2>1. buf' \in [1..N -> Chars] /\ pos' \in 0..(N - 1)
    BY <1>1, Keys DEF shell, Zeroed
  <2>2. TypeOK' /\ HeldInv'
    BY <1>1, <2>1 DEF Shell, shell, driver, IInv, TypeOK, HeldInv
  <2> QED
    BY <1>1, <2>2 DEF shell, Zeroed, IInv, Line, RoomInv
<1>2. CASE Hlt
  BY <1>2 DEF Shell, Hlt, driver, editor, IInv, TypeOK, Line, RoomInv, HeldInv
<1>3. CASE Switch
  <2>1. pc' \in {"clear", "return", "erase", "ctrl"} /\ (pc' = "erase" => pos > 0)
    BY <1>3 DEF Switch, IInv, TypeOK
  <2> QED
    BY <1>3, <2>1 DEF Shell, Switch, driver, editor, IInv, TypeOK, Line, RoomInv, HeldInv
<1>4. CASE EraseLast
  <2>1. pos \in 1..(N - 1) /\ pos' = pos - 1 /\ pos' \in 0..(N - 1)
    BY <1>4 DEF EraseLast, At, IInv, TypeOK, RoomInv
  <2>2. buf' \in [1..N -> Chars]
    BY <1>4, <2>1, Keys DEF EraseLast, IInv, TypeOK
  <2>3. TypeOK' /\ HeldInv'
    BY <1>4, <2>1, <2>2 DEF Shell, EraseLast, driver, IInv, TypeOK, HeldInv
  <2>4. Line'
    BY <1>4, <2>1 DEF EraseLast, IInv, TypeOK, Line
  <2> QED
    BY <1>4, <2>3, <2>4 DEF EraseLast, IInv, RoomInv
<1>5. CASE TestCtrl
  <2>1. /\ pc' \in {"lower", "home", "upper", "clear", "echo"}
        /\ pc' = "echo" => pos < N - 1
    BY <1>5 DEF TestCtrl, Room, At, IInv, TypeOK
  <2> QED
    BY <1>5, <2>1 DEF Shell, TestCtrl, driver, editor, IInv, TypeOK, Line, RoomInv, HeldInv
<1>6. CASE Echo
  BY <1>6 DEF Shell, Echo, At, driver, editor, IInv, TypeOK, Line, RoomInv, HeldInv
<1>7. CASE Store
  <2>1. pos \in 0..(N - 2) /\ pos' = pos + 1
    BY <1>7 DEF Store, At, IInv, TypeOK, RoomInv
  <2>2. buf' \in [1..N -> Chars]
    BY <1>7, <2>1 DEF Store, IInv, TypeOK
  <2>3. TypeOK' /\ HeldInv'
    BY <1>7, <2>1, <2>2 DEF Shell, Store, driver, IInv, TypeOK, HeldInv
  <2>4. Line'
    BY <1>7, <2>1 DEF Store, IInv, TypeOK, Line
  <2> QED
    BY <1>7, <2>3, <2>4 DEF Store, IInv, RoomInv
<1>8. CASE Clear
  BY <1>8, Keys DEF Shell, Clear, Emptied, driver, editor, IInv, TypeOK, Line, RoomInv, HeldInv
<1>9. CASE Return
  <2>1. buf' \in [1..N -> Chars] /\ Line'
    BY <1>9, Keys DEF Return, Zeroed, IInv, TypeOK, Line
  <2>2. TypeOK' /\ HeldInv'
    BY <1>9, <2>1, Keys DEF Shell, Return, Emptied, driver, IInv, TypeOK, HeldInv
  <2> QED
    BY <1>9, <2>1, <2>2 DEF Return, IInv, RoomInv
<1> QED
  BY <1>1, <1>2, <1>3, <1>4, <1>5, <1>6, <1>7, <1>8, <1>9 DEF Shell, kb_get_string

LEMMA Inductive == IInv /\ [Next]_vars => IInv'
<1>1. IInv /\ UNCHANGED vars => IInv'
  BY DEF IInv, TypeOK, Line, RoomInv, HeldInv, vars, driver, editor
<1> QED
  BY <1>1, InterruptStep, TimerStep, ShellStep DEF Next

(* However the keys and the reads of the mailbox interleave, the line is   *)
(* within the buffer and the string is terminated (kb.c:66-113).           *)
THEOREM AlwaysTerminated == Spec => []Terminated
<1>1. IInv => Terminated
  BY DEF IInv, Terminated, Line
<1> QED
  BY Initially, Inductive, <1>1, PTL DEF Spec

(* With every modifier key released, no modifier is active (kb.c:21-50).   *)
THEOREM ModifiersReleased == Spec => []NoStuckModifier
<1>1. IInv => NoStuckModifier
  BY DEF IInv, HeldInv, NoStuckModifier
<1> QED
  BY Initially, Inductive, <1>1, PTL DEF Spec
-----------------------------------------------------------------------------
(* What a calm typist is promised. *)

(* A character other than NUL, Enter and Backspace, which is handled below *)
(* the switch.                                                             *)
Ordinary == kb_char \notin {Nul, Enter, Backspace}
ClearsScreen == kb_ctrl /\ kb_char \in {"l", "L"}

(* Nothing that a calm typist does changes the mailbox under kb_get_string,*)
(* so that what it has read of it is still true; and no character of the   *)
(* line is NUL.                                                            *)
CalmInv ==
  typist.calm =>
    /\ pc # "shell" => \A i \in 1..pos : buf[i] # Nul
    /\ pc = "erase" => kb_char = Backspace
    /\ pc = "return" => kb_char = Enter
    /\ pc \in {"ctrl", "lower", "upper", "home", "echo", "store"} => Ordinary
    /\ pc \in {"lower", "upper", "home"} => kb_ctrl
    /\ pc = "upper" => kb_char # "l"
    /\ pc = "home" => ClearsScreen
    /\ pc \in {"echo", "store"} => ~ ClearsScreen

EInv == IInv /\ CalmInv

(* An interrupt finds a calm typist's mailbox empty, and nothing in hand.  *)
LEMMA InterruptKeepsCalm == EInv /\ Interrupt => CalmInv'
<1> SUFFICES ASSUME EInv, Interrupt, typist.calm PROVE CalmInv'
  BY DEF CalmInv, Interrupt
<1>1. pc \in {"shell", "loop", "hlt"} /\ typist' = typist
  BY DEF Interrupt, kb_handler, Interruptible
<1>2. pc' \in {"shell", "loop", "switch", "hlt"} /\ UNCHANGED editor /\ (pc' = "shell" <=> pc = "shell")
  <2>1. PICK key \in typist.keys : Press(key) \/ Type(key) \/ OutOfBounds(key) \/ Release(key)
    BY DEF Interrupt, kb_handler
  <2> QED
    BY <1>1, <2>1 DEF Press, Type, OutOfBounds, Release, Wake
<1> QED
  BY <1>1, <1>2 DEF EInv, CalmInv, editor

LEMMA TimerKeepsCalm == EInv /\ Timer => CalmInv'
  BY DEF EInv, CalmInv, Timer, pit_handler, Wake, At, driver, editor, Ordinary, ClearsScreen

LEMMA ShellKeepsCalm == EInv /\ Shell => CalmInv'
<1> SUFFICES ASSUME EInv, Shell, typist.calm PROVE CalmInv'
  BY DEF CalmInv, Shell
<1> USE DEF EInv, CalmInv, Ordinary, ClearsScreen
<1>1. CASE shell
  BY <1>1, KeyboardAssumption DEF shell, Zeroed, KeyboardAssumption
<1>2. CASE Hlt
  BY <1>2 DEF Hlt, At, editor, driver
<1>3. CASE Switch
  BY <1>3 DEF Switch, At, editor, driver
<1>4. CASE EraseLast
  <2>1. pos \in 1..(N - 1) /\ buf \in [1..N -> Chars]
    BY <1>4 DEF EraseLast, At, IInv, TypeOK, RoomInv
  <2>2. pc = "erase" /\ pc' = "clear" /\ pos' = pos - 1
    BY <1>4 DEF EraseLast, At
  <2>3. \A i \in 1..pos' : i \in 1..pos /\ i # pos
    BY <2>1, <2>2
  <2>4. \A i \in 1..pos' : buf'[i] = buf[i]
    BY <1>4, <2>1, <2>3, KeyboardAssumption DEF EraseLast, KeyboardAssumption
  <2> QED
    BY <2>2, <2>3, <2>4
<1>5. CASE TestCtrl
  <2>1. UNCHANGED <<editor, driver>> /\ pc' # "shell" /\ pc # "shell"
    BY <1>5 DEF TestCtrl, At, Room
  <2>2. /\ pc' \in {"lower", "home", "upper", "clear", "echo"}
        /\ pc \in {"ctrl", "lower", "upper"}
        /\ pc' \in {"lower", "home", "upper"} => kb_ctrl
        /\ pc' = "upper" => kb_char # "l"
        /\ pc' = "home" => ClearsScreen
        /\ pc' = "echo" => ~ ClearsScreen
    BY <1>5 DEF TestCtrl, At, Room
  <2> QED
    BY <2>1, <2>2 DEF editor, driver
<1>6. CASE Echo
  BY <1>6 DEF Echo, At, editor, driver
<1>7. CASE Store
  <2>1. pos \in 0..(N - 2) /\ buf \in [1..N -> Chars]
    BY <1>7, KeyboardAssumption DEF Store, At, IInv, TypeOK, RoomInv, KeyboardAssumption
  <2>2. pc = "store" /\ pc' = "clear" /\ pos' = pos + 1
    BY <1>7 DEF Store, At
  <2>3. \A i \in 1..pos' : i \in 1..N /\ (i \in 1..pos \/ i = pos + 1)
    BY <2>1, <2>2, KeyboardAssumption DEF KeyboardAssumption
  <2>4. \A i \in 1..pos' : buf'[i] = IF i = pos + 1 THEN kb_char ELSE buf[i]
    BY <1>7, <2>1, <2>3 DEF Store
  <2> QED
    BY <2>2, <2>3, <2>4
<1>8. CASE Clear
  BY <1>8 DEF Clear, At, editor
<1>9. CASE Return
  BY <1>9 DEF Return
<1> QED
  BY <1>1, <1>2, <1>3, <1>4, <1>5, <1>6, <1>7, <1>8, <1>9 DEF Shell, kb_get_string

LEMMA EInvStep == EInv /\ [Next]_vars => EInv'
<1>1. EInv /\ UNCHANGED vars => CalmInv'
  BY DEF EInv, CalmInv, vars, driver, editor, Ordinary, ClearsScreen
<1> QED
  BY <1>1, Inductive, InterruptKeepsCalm, TimerKeepsCalm, ShellKeepsCalm DEF EInv, Next

(* The string ends where the line does. *)
LEMMA StringIsLine ==
  ASSUME NEW b \in [1..N -> Chars], NEW p \in 0..(N - 1),
         \A i \in 1..p : b[i] # Nul, b[p + 1] = Nul
  PROVE  CString(b) = SubSeq(b, 1, p)
<1> DEFINE Ends(k) == (k = N \/ b[k + 1] = Nul) /\ \A i \in 1..k : b[i] # Nul
<1>0. N \in Nat \ {0}
  BY KeyboardAssumption DEF KeyboardAssumption
<1>1. Ends(p) /\ p \in 0..N
  BY <1>0
<1>2. ASSUME NEW k \in 0..N, Ends(k) PROVE k = p
  <2>1. ~ (k < p)
    <3> SUFFICES ASSUME k < p PROVE FALSE
      OBVIOUS
    <3>1. k # N /\ k + 1 \in 1..p
      BY <1>0
    <3> QED BY <1>2, <3>1
  <2>2. ~ (p < k)
    <3> SUFFICES ASSUME p < k PROVE FALSE
      OBVIOUS
    <3>1. p + 1 \in 1..k
      BY <1>0
    <3> QED BY <1>2, <3>1
  <2> QED BY <2>1, <2>2
<1>3. (CHOOSE k \in 0..N : Ends(k)) = p
  <2> HIDE DEF Ends
  <2> QED BY <1>1, <1>2
<1> QED BY <1>3 DEF CString

(* In a line that has been cut off or begun anew there is nothing. *)
LEMMA ZeroedIsEmpty == CString(Zeroed) = <<>>
<1>1. Zeroed \in [1..N -> Chars] /\ 0 \in 0..(N - 1) /\ Zeroed[0 + 1] = Nul
  BY Keys, KeyboardAssumption DEF Zeroed, KeyboardAssumption
<1>2. \A i \in 1..0 : Zeroed[i] # Nul
  OBVIOUS
<1>3. CString(Zeroed) = SubSeq(Zeroed, 1, 0)
  BY <1>1, <1>2, StringIsLine
<1> QED BY <1>3, SubSeqEmpty

(* While kb_get_string is in it, the line is the first pos characters.     *)
LEMMA LineIs ==
  ASSUME EInv, typist.calm, pc # "shell"
  PROVE  LineEdited = SubSeq(buf, 1, pos)
<1>1. buf \in [1..N -> Chars] /\ pos \in 0..(N - 1) /\ N \in Nat
  BY KeyboardAssumption DEF EInv, IInv, TypeOK, KeyboardAssumption
<1>2. buf[pos + 1] = Nul /\ \A i \in 1..pos : buf[i] # Nul
  <2>1. pos + 1 \in (pos + 1)..N
    BY <1>1
  <2> QED BY <2>1 DEF EInv, IInv, Line, CalmInv
<1> QED BY <1>1, <1>2, StringIsLine DEF LineEdited

(* The same after a step. *)
LEMMA LineWillBe ==
  ASSUME EInv', typist'.calm, pc' # "shell"
  PROVE  LineEdited' = SubSeq(buf', 1, pos')
<1>1. buf' \in [1..N -> Chars] /\ pos' \in 0..(N - 1) /\ N \in Nat
  BY KeyboardAssumption DEF EInv, IInv, TypeOK, KeyboardAssumption
<1>2. buf'[pos' + 1] = Nul /\ \A i \in 1..pos' : buf'[i] # Nul
  <2>0. \A q \in 0..(N - 1) : q + 1 \in (q + 1)..N
    BY <1>1
  <2>1. pos' + 1 \in (pos' + 1)..N
    BY <1>1, <2>0
  <2> QED BY <2>1 DEF EInv, IInv, Line, CalmInv
<1> QED BY <1>1, <1>2, StringIsLine DEF LineEdited

(* A line without its last character, and with one more. *)
LEMMA Shorter ==
  ASSUME NEW b \in [1..N -> Chars], NEW p \in 1..(N - 1), N \in Nat \ {0},
         NEW c \in [1..N -> Chars], c = [b EXCEPT ![p] = Nul]
  PROVE  SubSeq(c, 1, p - 1) = Front(SubSeq(b, 1, p)) /\ SubSeq(b, 1, p) # <<>>
<1> DEFINE s == SubSeq(b, 1, p)  t == SubSeq(c, 1, p - 1)  f == Front(s)
<1>1. \A i \in 1..p : b[i] \in Chars
  OBVIOUS
<1>2. \A i \in 1..(p - 1) : c[i] \in Chars /\ c[i] = b[i]
  OBVIOUS
<1>3. s \in Seq(Chars) /\ Len(s) = p /\ \A i \in 1..p : s[i] = b[i]
  <2>1. p - 1 + 1 = p /\ 1 <= p /\ \A i \in 1..p : 1 + i - 1 = i
    OBVIOUS
  <2> QED BY <1>1, <2>1, SubSeqProperties
<1>4. t \in Seq(Chars) /\ Len(t) = p - 1 /\ \A i \in 1..(p - 1) : t[i] = b[i]
  <2>1. p - 1 \in Int /\ p - 1 - 1 + 1 = p - 1 /\ (~ (1 <= p - 1) => p - 1 = 0) /\ \A i \in 1..(p - 1) : 1 + i - 1 = i
    OBVIOUS
  <2> QED BY <1>2, <2>1, SubSeqProperties
<1>5. f \in Seq(Chars) /\ Len(f) = p - 1 /\ \A i \in 1..(p - 1) : f[i] = b[i]
  <2>1. f = SubSeq(s, 1, p - 1)
    BY <1>3 DEF Front
  <2>2. p - 1 \in Int /\ p - 1 - 1 + 1 = p - 1 /\ (~ (1 <= p - 1) => p - 1 = 0) /\ \A i \in 1..(p - 1) : 1 + i - 1 = i /\ i \in 1..p
    OBVIOUS
  <2>3. \A i \in 1..(p - 1) : s[i] \in Chars
    BY <1>1, <1>3, <2>2
  <2> HIDE DEF s, f
  <2>4. SubSeq(s, 1, p - 1) \in Seq(Chars) /\ Len(SubSeq(s, 1, p - 1)) = p - 1
        /\ \A i \in 1..(p - 1) : SubSeq(s, 1, p - 1)[i] = s[i]
    BY <2>2, <2>3, SubSeqProperties
  <2> QED BY <1>3, <2>1, <2>2, <2>4
<1> HIDE DEF s, t, f
<1>6. t = f
  BY <1>4, <1>5, SeqEqual
<1>7. s # <<>>
  BY <1>3, EmptySeq
<1> QED BY <1>6, <1>7 DEF s, t, f

LEMMA Longer ==
  ASSUME NEW b \in [1..N -> Chars], NEW p \in 0..(N - 2), N \in Nat \ {0}, NEW k \in Chars,
         NEW c, c = [b EXCEPT ![p + 1] = k]
  PROVE  SubSeq(c, 1, p + 1) = Append(SubSeq(b, 1, p), k) /\ Len(SubSeq(b, 1, p)) < N - 1
<1> DEFINE s == SubSeq(b, 1, p)  t == SubSeq(c, 1, p + 1)  a == Append(s, k)
<1>1. \A i \in 1..p : b[i] \in Chars
  OBVIOUS
<1>2. \A i \in 1..(p + 1) : c[i] \in Chars /\ c[i] = IF i = p + 1 THEN k ELSE b[i]
  OBVIOUS
<1>3. s \in Seq(Chars) /\ Len(s) = p /\ \A i \in 1..p : s[i] = b[i]
  <2>1. p - 1 + 1 = p /\ (~ (1 <= p) => p = 0) /\ \A i \in 1..p : 1 + i - 1 = i
    OBVIOUS
  <2> QED BY <1>1, <2>1, SubSeqProperties
<1>4. t \in Seq(Chars) /\ Len(t) = p + 1 /\ \A i \in 1..(p + 1) : t[i] = c[i]
  <2>1. p + 1 \in Int /\ p + 1 - 1 + 1 = p + 1 /\ 1 <= p + 1 /\ \A i \in 1..(p + 1) : 1 + i - 1 = i
    OBVIOUS
  <2> QED BY <1>2, <2>1, SubSeqProperties
<1> HIDE DEF s, t
<1>5. a \in Seq(Chars) /\ Len(a) = p + 1 /\ \A i \in 1..(p + 1) : a[i] = IF i = p + 1 THEN k ELSE s[i]
  BY <1>3
<1>6. \A i \in 1..(p + 1) : t[i] = a[i]
  <2> SUFFICES ASSUME NEW i \in 1..(p + 1) PROVE t[i] = a[i]
    OBVIOUS
  <2>1. i = p + 1 \/ i \in 1..p
    OBVIOUS
  <2> HIDE DEF a
  <2> QED BY <1>2, <1>3, <1>4, <1>5, <2>1
<1> HIDE DEF a
<1>7. t = a
  BY <1>4, <1>5, <1>6, SeqEqual
<1> QED BY <1>3, <1>7 DEF s, t, a

(* Nothing is seen of one who is not calm. *)
LEMMA RashSeesNothing ==
  ASSUME ~ typist.calm, typist' = typist
  PROVE  UNCHANGED <<KeyWaiting, typist.calm /\ stroke, LineEdited, LineRun>>
BY DEF KeyWaiting, LineEdited, LineRun

(* What is seen depends on these only. *)
Same == UNCHANGED <<KeyWaiting, typist.calm /\ stroke, LineEdited, LineRun>>

(* Modifiers, and ticks of the timer, change nothing: a line that is edited*)
(* goes on being edited, and a key that waits does so with the same flags. *)
LEMMA InterruptEdits ==
  ASSUME EInv, Interrupt, typist.calm
  PROVE  Same \/ Editor!EditNext
<1>1. /\ pc \in {"shell", "loop", "hlt"} /\ kb_char = Nul /\ UNCHANGED <<typist, editor>>
      /\ typist.calm /\ stroke \in BOOLEAN
  BY DEF Interrupt, kb_handler, Interruptible, EInv, IInv, TypeOK, Press, Type, OutOfBounds, Release, driver
<1>2. PICK key \in typist.keys : Press(key) \/ Type(key) \/ OutOfBounds(key) \/ Release(key)
  BY DEF Interrupt, kb_handler
<1>3. pc' \in {"shell", "loop", "hlt", "switch"} /\ (pc' = "shell" <=> pc = "shell")
  BY <1>1, <1>2 DEF Press, Type, OutOfBounds, Release, Wake
<1>4. LineEdited' = LineEdited /\ LineRun' = LineRun
  BY <1>1, <1>3 DEF LineEdited, LineRun, editor
<1>5. KeyWaiting = Nul
  BY <1>1 DEF KeyWaiting, Nul
<1>6. CASE Type(key)
  <2>1. stroke' = ~ stroke
    BY <1>6 DEF Type
  <2>2. (typist.calm /\ stroke)' # (typist.calm /\ stroke)
    BY <1>1, <2>1
  <2> QED
    BY <1>4, <1>5, <2>2 DEF Editor!EditNext, Editor!Press, Editor!Nul, Nul
<1>7. CASE ~ Type(key)
  <2>1. kb_char' = kb_char /\ stroke' = stroke
    BY <1>2, <1>7 DEF Press, OutOfBounds, Release, driver
  <2>2. KeyWaiting' = Nul
    BY <1>1, <1>3, <2>1 DEF KeyWaiting, Nul
  <2> QED
    BY <1>1, <1>4, <1>5, <2>1, <2>2 DEF Same
<1> QED
  BY <1>6, <1>7

LEMMA TimerEdits ==
  ASSUME EInv, Timer
  PROVE  Same
BY DEF Timer, pit_handler, Wake, At, driver, editor, Same, KeyWaiting, LineEdited, LineRun

(* The shell is done with the line that it had. *)
LEMMA ShellHandles ==
  ASSUME EInv, shell, UNCHANGED typist, typist.calm
  PROVE  Editor!EditNext
<1>1. pc = "shell" /\ pc' = "loop" /\ buf' = Zeroed /\ UNCHANGED <<driver, stroke>>
  BY DEF shell, At
<1>2. LineEdited' = LineEdited /\ LineRun' = <<>>
  BY <1>1, ZeroedIsEmpty DEF LineEdited, LineRun
<1>3. UNCHANGED <<KeyWaiting, typist.calm /\ stroke>>
  BY <1>1 DEF KeyWaiting, driver
<1> QED
  BY <1>2, <1>3 DEF Editor!EditNext, Editor!Handle

(* The key in hand takes effect, in one of three ways. *)
LEMMA TakesEffect ==
  ASSUME typist.calm, UNCHANGED <<typist, stroke>>, KeyWaiting # Nul, KeyWaiting' = Nul,
         \/ /\ KeyWaiting \notin {Nul, Enter, Backspace, "clear"} /\ LineRun' = LineRun
            /\ LineEdited' = IF Len(LineEdited) < N - 1 THEN Append(LineEdited, KeyWaiting)
                             ELSE LineEdited
         \/ /\ KeyWaiting = Backspace /\ LineRun' = LineRun
            /\ LineEdited' = IF LineEdited = <<>> THEN LineEdited ELSE Front(LineEdited)
         \/ /\ KeyWaiting \in {Enter, "clear"} /\ LineEdited' = <<>>
            /\ LineRun' = IF KeyWaiting = Enter THEN LineEdited ELSE <<>>
  PROVE  Editor!EditNext
<1>1. UNCHANGED (typist.calm /\ stroke)
  OBVIOUS
<1>2. Editor!TakeEffect
  BY <1>1 DEF Editor!TakeEffect, Editor!Insert, Editor!Erase, Editor!Submit, Editor!Nul,
     Editor!Enter, Editor!Backspace, Editor!ClearScreen, Nul, Enter, Backspace, Editor!Front, Front
<1> QED BY <1>2 DEF Editor!EditNext

(* The steps of kb_get_string that only look. *)
Looks ==
  /\ UNCHANGED <<driver, editor, stroke>>
  /\ pc \notin {"shell", "clear"} /\ pc' \notin {"shell", "clear"}
LEMMA LookingIsUnseen ==
  ASSUME Looks, UNCHANGED typist
  PROVE  Same
BY DEF Looks, Same, KeyWaiting, LineEdited, LineRun, driver, editor

LEMMA ShellEdits ==
  ASSUME EInv, Shell, typist.calm
  PROVE  Same \/ Editor!EditNext
<1>0. UNCHANGED <<typist, stroke>> /\ N \in Nat \ {0}
  BY KeyboardAssumption DEF Shell, shell, kb_get_string, Hlt, Switch, EraseLast, TestCtrl, Echo, Store, Clear,
     Return, Emptied, KeyboardAssumption
<1>10. buf \in [1..N -> Chars] /\ pos \in 0..(N - 1) /\ kb_char \in Chars
  BY DEF EInv, IInv, TypeOK
<1>1. CASE shell
  BY <1>0, <1>1, ShellHandles
<1>2. CASE Hlt
  <2>1. Looks
    BY <1>0, <1>2 DEF Hlt, At, Looks
  <2> QED BY <1>0, <2>1, LookingIsUnseen
<1>3. CASE Switch
  <2>1. pc = "switch" /\ UNCHANGED <<driver, editor>>
    BY <1>3 DEF Switch, At
  <2>2. CASE pc' # "clear"
    <3>1. pc' # "shell"
      BY <1>3 DEF Switch
    <3>2. Looks
      BY <1>0, <2>1, <2>2, <3>1 DEF Looks
    <3> QED BY <1>0, <3>2, LookingIsUnseen
  <2>3. CASE pc' = "clear"
    <3>1. kb_char = Nul \/ (kb_char = Backspace /\ pos = 0)
      BY <1>3, <2>3 DEF Switch
    <3>2. KeyWaiting = kb_char /\ KeyWaiting' = Nul
      BY <1>0, <2>1, <2>3, <3>1 DEF KeyWaiting, Nul, Backspace
    <3>3. UNCHANGED <<LineEdited, LineRun>>
      BY <1>0, <2>1, <2>3 DEF LineEdited, LineRun, editor
    <3>4. CASE kb_char = Nul
      BY <1>0, <3>2, <3>3, <3>4 DEF Same
    <3>5. CASE kb_char = Backspace /\ pos = 0
      <4>1. LineEdited = <<>>
        <5>1. LineEdited = SubSeq(buf, 1, pos)
          BY <2>1, LineIs
        <5> QED BY <3>5, <5>1, SubSeqEmpty
      <4>2. KeyWaiting # Nul
        BY <3>2, <3>5 DEF Nul, Backspace
      <4> QED BY <1>0, <3>2, <3>3, <3>5, <4>1, <4>2, TakesEffect
    <3> QED BY <3>1, <3>4, <3>5
  <2> QED BY <2>2, <2>3
<1>4. CASE EraseLast
  <2>1. pc = "erase" /\ pc' = "clear" /\ pos' = pos - 1 /\ UNCHANGED driver
    BY <1>4 DEF EraseLast, At
  <2>2. pos \in 1..(N - 1) /\ buf' = [buf EXCEPT ![pos] = Nul]
    BY <1>4, <1>10, <2>1 DEF EraseLast, EInv, IInv, RoomInv
  <2>3. LineEdited = SubSeq(buf, 1, pos)
    BY <2>1, LineIs
  <2>4. EInv'
    BY EInvStep DEF Next
  <2>5. LineEdited' = SubSeq(buf', 1, pos')
    BY <1>0, <2>1, <2>4, LineWillBe
  <2>6. LineEdited' = Front(LineEdited) /\ LineEdited # <<>>
    <3>1. buf' \in [1..N -> Chars]
      BY <2>4 DEF EInv, IInv, TypeOK
    <3> QED BY <1>0, <1>10, <2>1, <2>2, <2>3, <2>5, <3>1, Shorter
  <2>7. KeyWaiting = Backspace /\ KeyWaiting' = Nul /\ LineRun' = LineRun
    BY <1>0, <2>1 DEF KeyWaiting, LineRun, EInv, CalmInv, Backspace, driver
  <2> QED BY <1>0, <2>6, <2>7, TakesEffect DEF Backspace, Nul
<1>5. CASE TestCtrl
  <2>1. pc \in {"ctrl", "lower", "upper"} /\ UNCHANGED <<driver, editor>> /\ pc' # "shell"
    BY <1>5 DEF TestCtrl, At, Room
  <2>2. CASE pc' # "clear"
    <3>1. Looks
      BY <1>0, <2>1, <2>2 DEF Looks
    <3> QED BY <1>0, <3>1, LookingIsUnseen
  <2>3. CASE pc' = "clear"
    <3>1. pos >= N - 1 /\ ~ ClearsScreen
      BY <1>5, <2>3 DEF TestCtrl, At, Room, ClearsScreen, EInv, CalmInv
    <3>2. KeyWaiting = kb_char /\ KeyWaiting' = Nul
      BY <1>0, <2>1, <2>3, <3>1 DEF KeyWaiting, ClearsScreen
    <3>3. UNCHANGED <<LineEdited, LineRun>>
      BY <1>0, <2>1, <2>3 DEF LineEdited, LineRun, editor
    <3>4. KeyWaiting \notin {Nul, Enter, Backspace, "clear"}
      BY <2>1, <3>2, <1>10 DEF EInv, CalmInv, Ordinary, Chars, Range, kb_map_keys, kb_map_keys_shift, Nul, Enter, Backspace
    <3>5. Len(LineEdited) = N - 1
      <4>1. LineEdited = SubSeq(buf, 1, pos)
        BY <2>1, LineIs
      <4>2. \A i \in 1..pos : buf[i] \in Chars
        BY <1>0, <1>10
      <4>3. Len(LineEdited) = IF 1 <= pos THEN pos - 1 + 1 ELSE 0
        BY <1>10, <4>1, <4>2, SubSeqProperties
      <4> QED BY <1>0, <1>10, <3>1, <4>3
    <3> QED BY <1>0, <3>2, <3>3, <3>4, <3>5, TakesEffect
  <2> QED BY <2>2, <2>3
<1>6. CASE Echo
  <2>1. Looks
    BY <1>0, <1>6 DEF Echo, At, Looks
  <2> QED BY <1>0, <2>1, LookingIsUnseen
<1>7. CASE Store
  <2>1. pc = "store" /\ pc' = "clear" /\ pos' = pos + 1 /\ UNCHANGED driver
    BY <1>7 DEF Store, At
  <2>2. pos \in 0..(N - 2) /\ buf' = [buf EXCEPT ![pos + 1] = kb_char]
    BY <1>0, <1>7, <1>10, <2>1 DEF Store, EInv, IInv, RoomInv
  <2>3. LineEdited = SubSeq(buf, 1, pos)
    BY <2>1, LineIs
  <2>4. EInv'
    BY EInvStep DEF Next
  <2>5. LineEdited' = SubSeq(buf', 1, pos')
    BY <1>0, <2>1, <2>4, LineWillBe
  <2>6. LineEdited' = Append(LineEdited, kb_char) /\ Len(LineEdited) < N - 1
    BY <1>0, <1>10, <2>1, <2>2, <2>3, <2>5, Longer
  <2>7. KeyWaiting = kb_char /\ KeyWaiting' = Nul /\ LineRun' = LineRun
    BY <1>0, <2>1 DEF KeyWaiting, LineRun, EInv, CalmInv, ClearsScreen
  <2>8. KeyWaiting \notin {Nul, Enter, Backspace, "clear"}
    BY <2>1, <2>7, <1>10 DEF EInv, CalmInv, Ordinary, Chars, Range, kb_map_keys, kb_map_keys_shift, Nul, Enter, Backspace
  <2> QED BY <1>0, <2>6, <2>7, <2>8, TakesEffect
<1>8. CASE Clear
  <2>1. pc = "clear" /\ pc' = "loop" /\ kb_char' = Nul /\ UNCHANGED editor
    BY <1>8 DEF Clear, At, Emptied
  <2> QED BY <1>0, <2>1 DEF Same, KeyWaiting, LineEdited, LineRun, editor, Nul
<1>9. CASE Return
  <2>1. /\ pc \in {"return", "home"} /\ pc' = "shell" /\ kb_char' = Nul
        /\ buf' = IF pc = "home" THEN Zeroed ELSE buf
    BY <1>9 DEF Return, At, Emptied
  <2>2. KeyWaiting' = Nul /\ LineEdited' = <<>> /\ LineRun' = CString(buf')
    BY <1>0, <2>1 DEF KeyWaiting, LineEdited, LineRun, Nul
  <2>3. KeyWaiting = IF pc = "home" THEN "clear" ELSE Enter
    BY <2>1 DEF KeyWaiting, EInv, CalmInv, ClearsScreen, Enter
  <2>4. LineRun' = IF pc = "home" THEN <<>> ELSE LineEdited
    BY <2>1, <2>2, ZeroedIsEmpty DEF LineEdited
  <2> QED BY <1>0, <2>1, <2>2, <2>3, <2>4, TakesEffect DEF Enter, Nul
<1> QED
  BY <1>1, <1>2, <1>3, <1>4, <1>5, <1>6, <1>7, <1>8, <1>9 DEF Shell, kb_get_string

(* The keys of a calm typist take effect in order, each exactly once, for  *)
(* every size of the buffer: the driver and the shell are an editor of     *)
(* lines (kb.c:66-113).                                                    *)
THEOREM EditsAsTyped == Spec => EditsLines
<1>1. Init => EInv /\ Editor!EditInit
  <2> SUFFICES ASSUME Init PROVE EInv /\ Editor!EditInit
    OBVIOUS
  <2>1. EInv
    BY Initially, KeyboardAssumption DEF EInv, CalmInv, Init, Ordinary, ClearsScreen, KeyboardAssumption
  <2>2. LineEdited = <<>> /\ LineRun = <<>> /\ KeyWaiting = Nul
    BY ZeroedIsEmpty DEF Init, LineEdited, LineRun, KeyWaiting, Nul
  <2>3. (typist.calm /\ stroke) \in BOOLEAN
    BY DEF Init
  <2> QED BY <2>1, <2>2, <2>3 DEF Editor!EditInit, Editor!Nul, Nul
<1>2. EInv /\ [Next]_vars => [Editor!EditNext]_<<KeyWaiting, typist.calm /\ stroke, LineEdited, LineRun>>
  <2> SUFFICES ASSUME EInv, [Next]_vars PROVE Same \/ Editor!EditNext
    BY DEF Same
  <2>1. CASE UNCHANGED vars
    BY <2>1 DEF vars, driver, editor, Same, KeyWaiting, LineEdited, LineRun
  <2>2. CASE Next /\ ~ typist.calm
    BY <2>2, RashSeesNothing DEF Next, Interrupt, Timer, Shell, Same
  <2>3. CASE Next /\ typist.calm
    BY <2>3, InterruptEdits, TimerEdits, ShellEdits DEF Next
  <2> QED BY <2>1, <2>2, <2>3
<1> QED BY <1>1, <1>2, EInvStep, PTL DEF Spec, EditsLines, Editor!EditSpec
=============================================================================
