------------------------------- MODULE MCHeap -------------------------------
(* Small instances of Heap: pages of two units, so that blocks of one and  *)
(* two pages occur next to each other and are split and merged.            *)
EXTENDS Heap

Entry(b, l, u) == [base |-> b, length |-> l, usable |-> u]

(* Nine pages, of which 2 to 8 are free at boot: page 1 is the bitmap.    *)
HeapMap == <<Entry(0, 1, FALSE), Entry(1, 8, TRUE)>>
=============================================================================
