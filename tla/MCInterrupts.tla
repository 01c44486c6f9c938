---------------------------- MODULE MCInterrupts ----------------------------
(* A small instance of Interrupts: the first and the last vector of every  *)
(* kind, by what the processor pushes and by the stub.                     *)
EXTENDS Interrupts

MCVectors == {0, 8, 14, 21, 29, 30, 31, 32, 33, 255}
=============================================================================
