------------------------------- MODULE PmmInit -------------------------------
(***************************************************************************)
(* What pmm_init (src/mm/pmm.c) computes from the boot loader's memory     *)
(* map: the number of pages, the size and the place of the bitmap, and the *)
(* bits that are clear when it returns.  Addresses and lengths are counted *)
(* in pages: the boot protocol aligns usable entries to the page size, and *)
(* every address the code forms from them is a multiple of PAGE_SIZE.      *)
(***************************************************************************)
EXTENDS Integers, Sequences

CONSTANTS
  Memmap,     \* the map: a sequence of [base, length, usable], in pages
  ByteBits,   \* bits in a byte of the bitmap (8 in the code)
  PageBytes   \* bytes in a page (PAGE_SIZE, 4096 in the code)

Usable == {i \in DOMAIN Memmap : Memmap[i].usable}

EntryEnd(i) == Memmap[i].base + Memmap[i].length

EntryPages(i) == Memmap[i].base .. (EntryEnd(i) - 1)

(* The boot protocol's promises that pmm_init relies on: some entry is     *)
(* usable, usable entries do not overlap, and page 0 is never usable       *)
(* (pmm_alloc takes a run that starts at page 0 for a failure).            *)
ASSUME MemmapAssumption ==
  /\ Memmap \in Seq([base : Nat, length : Nat \ {0}, usable : BOOLEAN])
  /\ ByteBits \in Nat \ {0}
  /\ PageBytes \in Nat \ {0}
  /\ \A i \in Usable : Memmap[i].base > 0
  /\ \A i, j \in Usable : i # j => EntryPages(i) \cap EntryPages(j) = {}
  /\ \E i \in Usable : \A j \in Usable : EntryEnd(j) <= EntryEnd(i)
  /\ \E i \in Usable : \A j \in Usable : Memmap[j].length <= Memmap[i].length

(* pmm_page_count: the end of the highest usable entry. *)
PageCount ==
  EntryEnd(CHOOSE i \in Usable : \A j \in Usable : EntryEnd(j) <= EntryEnd(i))

(* The entry the bitmap is put in: the first of the largest ones. *)
IsDefault(i) ==
  /\ i \in Usable
  /\ \A j \in Usable : Memmap[j].length <= Memmap[i].length
  /\ \A j \in Usable : j < i => Memmap[j].length < Memmap[i].length

(* bitmap_size, and the bits and the pages it amounts to.  The division    *)
(* by ByteBits rounds down before ALIGN_UP rounds up.                      *)
BitmapBytes ==
  (((PageCount \div ByteBits) + (PageBytes - 1)) \div PageBytes) * PageBytes

BitmapBits == BitmapBytes * ByteBits

BitmapLength == BitmapBytes \div PageBytes

(* pmm_init does not check that the bitmap fits in its entry; if it did    *)
(* not, the length that is left would wrap around.                         *)
ASSUME BitmapFitsAssumption ==
  \A i \in Usable : IsDefault(i) => BitmapLength <= Memmap[i].length

(* The pages the bitmap itself occupies, at the start of its entry. *)
BitmapPages ==
  {p \in 0..PageCount :
     \E i \in Usable : /\ IsDefault(i)
                       /\ p >= Memmap[i].base
                       /\ p < Memmap[i].base + BitmapLength}

(* A faulty variant of the next definition: the bitmap is not set aside.   *)
FreeAtBoot_WithBitmap == UNION {EntryPages(i) : i \in Usable}

(* The pages whose bit pmm_init clears: every usable page, except that the *)
(* bitmap's entry now starts after the bitmap.                             *)
FreeAtBoot ==
  {p \in 0..(PageCount - 1) :
     \E i \in Usable :
       /\ p \in EntryPages(i)
       /\ IsDefault(i) => p >= Memmap[i].base + BitmapLength}

(* The bitmap has at least one bit more than there are pages, so that the  *)
(* bit a search reads just past the last page is one pmm_init's memset set.*)
(* It fails when PageCount \div ByteBits is a multiple of PageBytes.       *)
Padded == PageCount < BitmapBits

(* A run of n pages that starts at page s. *)
Run(s, n) == s .. (s + n - 1)
=============================================================================
