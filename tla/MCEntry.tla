------------------------------ MODULE MCEntry ------------------------------
(* Every vector of the interrupt descriptor table. *)
EXTENDS Entry

AllVectors == 0..255
=============================================================================
