----------------------------- MODULE Interrupts -----------------------------
(***************************************************************************)
(* The two views of an interrupt side by side: in Boot it is one step of   *)
(* the controllers, the handler and the main thread, in Entry it is what   *)
(* the stubs do with the stack and the registers between the delivery and  *)
(* iretq.  They share no state, so that each goes its own way.             *)
(***************************************************************************)
EXTENDS Boot, Entry

interruptsVars == <<bootVars, entryVars>>

InterruptsInit == BootInit /\ EntryInit

InterruptsNext ==
  \/ BootNext /\ UNCHANGED entryVars
  \/ EntryNext /\ UNCHANGED bootVars

InterruptsSpec == InterruptsInit /\ [][InterruptsNext]_interruptsVars /\ Fairness
=============================================================================
