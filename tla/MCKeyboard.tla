----------------------------- MODULE MCKeyboard -----------------------------
(* Small instances of Keyboard. *)
EXTENDS Keyboard

(* A calm typist has every kind of key.  One who is not has those that     *)
(* kb_get_string tells apart, and the modifiers that change what it reads. *)
MCTypists ==
  {[keys |-> DOMAIN kb_map_keys \cup Modifiers \cup {"caps", "win"}, calm |-> TRUE],
   [keys |-> {"l", "enter", "back", "f1", "win"} \cup Modifiers, calm |-> FALSE]}
=============================================================================
