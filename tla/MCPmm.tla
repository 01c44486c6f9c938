-------------------------------- MODULE MCPmm --------------------------------
(* Small memory maps for Pmm.  With 2-bit bytes and 2-byte pages a page of *)
(* the bitmap covers 4 pages.                                              *)
EXTENDS Pmm

Entry(b, l, u) == [base |-> b, length |-> l, usable |-> u]

(* The bitmap in the middle of memory, a small entry above it.  14 pages,  *)
(* 16 bits: pages 1, 2, 8, 9, 10 and 12, 13 are free at boot.              *)
SplitMap == <<Entry(1, 2, TRUE), Entry(3, 1, FALSE), Entry(4, 7, TRUE), Entry(12, 2, TRUE)>>

(* As many pages as the bitmap has bits: nothing follows the last page.    *)
ExactMap == <<Entry(0, 1, FALSE), Entry(1, 7, TRUE)>>
=============================================================================
