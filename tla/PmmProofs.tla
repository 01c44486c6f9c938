------------------------------ MODULE PmmProofs ------------------------------
(***************************************************************************)
(* Proofs about the physical memory manager, for every memory map, size of *)
(* a byte and a page, and largest request: from the assumptions of PmmInit *)
(* and from Padded, which pmm_init does not ensure (the run PmmExact shows *)
(* what happens without it).                                               *)
(***************************************************************************)
EXTENDS Pmm, TLAPS

(* pmm_init's arithmetic yields numbers, and page 0, the pages past the    *)
(* last one and the pages of the bitmap are not free at boot (pmm.c:34-46).*)
LEMMA BootFacts ==
  /\ PageCount \in Nat
  /\ BitmapBits \in Nat
  /\ BitmapLength \in Nat
  /\ FreeAtBoot \subseteq 1..(PageCount - 1)
  /\ FreeAtBoot \cap BitmapPages = {}
<1> DEFINE IsTop(i) == i \in Usable /\ \A j \in Usable : EntryEnd(j) <= EntryEnd(i)
<1>1. \A i \in Usable : /\ Memmap[i].base \in Nat \ {0}
                        /\ Memmap[i].length \in Nat \ {0}
                        /\ i \in Nat
  <2> DEFINE Entries == [base : Nat, length : Nat \ {0}, usable : BOOLEAN]
  <2>1. Memmap \in Seq(Entries)
    BY MemmapAssumption
  <2>2. DOMAIN Memmap \subseteq Nat /\ \A i \in DOMAIN Memmap : Memmap[i] \in Entries
    <3> HIDE DEF Entries
    <3> QED BY <2>1
  <2>3. Usable \subseteq DOMAIN Memmap
    BY DEF Usable
  <2>4. \A i \in Usable : Memmap[i].base > 0
    BY MemmapAssumption
  <2> SUFFICES ASSUME NEW i \in Usable
               PROVE  /\ Memmap[i].base \in Nat \ {0}
                      /\ Memmap[i].length \in Nat \ {0}
                      /\ i \in Nat
    OBVIOUS
  <2>5. Memmap[i] \in Entries /\ i \in Nat
    BY <2>2, <2>3
  <2>6. Memmap[i].base \in Nat /\ Memmap[i].length \in Nat \ {0}
    BY <2>5
  <2> QED BY <2>4, <2>5, <2>6
<1>2. PageCount \in Nat
  <2>1. \A i \in Usable : EntryEnd(i) \in Nat
    BY <1>1 DEF EntryEnd
  <2>2. \E i : IsTop(i)
    BY MemmapAssumption
  <2>3. IsTop(CHOOSE i \in Usable : \A j \in Usable : EntryEnd(j) <= EntryEnd(i))
    BY <2>2
  <2> QED BY <2>1, <2>3 DEF PageCount
<1>3. BitmapBytes \in Nat
  <2>1. \A a \in Nat, b \in Nat \ {0} : a \div b \in Nat
    OBVIOUS
  <2> DEFINE bytes == PageCount \div ByteBits
             roundup == (bytes + (PageBytes - 1)) \div PageBytes
  <2>2. ByteBits \in Nat \ {0} /\ PageBytes \in Nat \ {0}
    BY MemmapAssumption
  <2>3. bytes \in Nat
    BY <1>2, <2>1, <2>2
  <2>4. bytes + (PageBytes - 1) \in Nat
    <3> HIDE DEF bytes
    <3> QED BY <2>2, <2>3
  <2>5. roundup \in Nat
    BY <2>1, <2>2, <2>4
  <2>6. BitmapBytes = roundup * PageBytes
    BY DEF BitmapBytes
  <2> HIDE DEF roundup
  <2> QED BY <2>2, <2>5, <2>6
<1>4. BitmapBits \in Nat /\ BitmapLength \in Nat
  <2>1. ByteBits \in Nat \ {0} /\ PageBytes \in Nat \ {0}
    BY MemmapAssumption
  <2> QED BY <1>3, <2>1 DEF BitmapBits, BitmapLength
<1>5. FreeAtBoot \subseteq 1..(PageCount - 1)
  BY <1>1, <1>2 DEF FreeAtBoot, EntryPages, EntryEnd
<1>6. FreeAtBoot \cap BitmapPages = {}
  <2> SUFFICES ASSUME NEW p \in FreeAtBoot, p \in BitmapPages
               PROVE  FALSE
    OBVIOUS
  <2>1. PICK i \in Usable : /\ p \in EntryPages(i)
                            /\ IsDefault(i) => p >= Memmap[i].base + BitmapLength
    BY DEF FreeAtBoot
  <2>2. PICK d \in Usable : /\ IsDefault(d)
                            /\ p >= Memmap[d].base
                            /\ p < Memmap[d].base + BitmapLength
    BY DEF BitmapPages
  <2>3. p \in Nat
    BY <1>2 DEF FreeAtBoot
  <2>4. p \in EntryPages(d)
    BY <1>1, <1>4, <2>2, <2>3, BitmapFitsAssumption DEF EntryPages, EntryEnd
  <2>5. i = d
    BY <2>1, <2>4, MemmapAssumption
  <2> QED BY <1>1, <1>4, <2>1, <2>2, <2>3, <2>5
<1> QED BY <1>2, <1>4, <1>5, <1>6
-----------------------------------------------------------------------------
(* The invariant holds when pmm_init returns (pmm.c:19-51).                *)
LEMMA InitInv == ASSUME Padded PROVE Init => Inv
<1> SUFFICES ASSUME Init PROVE Inv
  OBVIOUS
<1>1. TypeOK
  BY BootFacts, MaxRunAssumption DEF Init, TypeOK
<1>2. Accounting
  BY BootFacts DEF Init, Accounting, HeldPages
<1>3. HeldAtBoot /\ HeldDisjoint /\ RowInv /\ ScanInv
  BY DEF Init, HeldAtBoot, HeldDisjoint, RowInv, ScanInv, Searching
<1> QED BY <1>1, <1>2, <1>3 DEF Inv

(* What a free bit says, while the invariant holds.                        *)
LEMMA ClearBits ==
  ASSUME Padded, TypeOK, Accounting, HeldAtBoot
  PROVE  /\ \A p \in 0..PageCount : p \notin pmm_bitmap => p \in FreeAtBoot /\ p \notin HeldPages
         /\ 0 \in pmm_bitmap
         /\ PageCount \in pmm_bitmap
         /\ \A p \in pmm_bitmap : p \in Nat
<1>1. PageCount \in Nat /\ BitmapBits \in Nat /\ PageCount < BitmapBits
  BY BootFacts DEF Padded
<1>2. 0..PageCount \subseteq 0..(BitmapBits - 1)
  BY <1>1
<1>3. 0 \notin FreeAtBoot /\ PageCount \notin FreeAtBoot
  BY BootFacts
<1> QED BY <1>1, <1>2, <1>3 DEF Accounting, TypeOK

(* A search that reads a bit reads one of the bitmap's, and reads it right. *)
LEMMA ReadsBitmap ==
  ASSUME Padded, TypeOK, RowInv, Searching
  PROVE  /\ FALSE \in bitmap_get(pmm_last_page + pages)
              => pmm_last_page + pages \notin pmm_bitmap
         /\ TRUE \in bitmap_get(pmm_last_page + pages)
              => pmm_last_page + pages \in pmm_bitmap
<1>1. pmm_last_page + pages <= PageCount /\ PageCount < BitmapBits
  BY DEF RowInv, Padded
<1>2. pmm_last_page + pages < BitmapBits
  BY <1>1, BootFacts DEF TypeOK
<1> DEFINE bit == pmm_last_page + pages
<1>3. bitmap_get(bit) = {bit \in pmm_bitmap}
  BY <1>2, Zenon DEF bitmap_get
<1> HIDE DEF bit
<1>4. FALSE \in bitmap_get(bit) => bit \notin pmm_bitmap
  BY <1>3, Zenon
<1>5. TRUE \in bitmap_get(bit) => bit \in pmm_bitmap
  BY <1>3, Zenon
<1> QED BY <1>4, <1>5 DEF bit

(* The steps that find a free bit or a used one say so. *)
LEMMA CommitFacts ==
  ASSUME Padded, Inv, Commit
  PROVE  /\ Searching
         /\ Run(pmm_last_page, n) \cap pmm_bitmap = {}
         /\ Run(pmm_last_page, n) \subseteq FreeAtBoot
         /\ pmm_last_page + n <= PageCount
         /\ pmm_bitmap' = pmm_bitmap \cup Run(pmm_last_page, n)
         /\ first_page = pmm_last_page
         /\ first_page \in Nat \ {0}
         /\ n \in Nat \ {0}
         /\ pmm_last_page' = pmm_last_page + n
         /\ pc' = "idle"
         /\ held' = held \cup {<<first_page, n>>}
         /\ reply' = first_page
         /\ UNCHANGED search
<1>1. Searching /\ pages + 1 = n
  BY DEF Commit
<1>2. /\ n \in Nat \ {0}
      /\ first_page = pmm_last_page
      /\ pmm_last_page + pages <= PageCount
      /\ \A b \in Run(pmm_last_page, pages) : b \notin pmm_bitmap
  BY <1>1 DEF Inv, RowInv
<1>3. pmm_last_page + pages \notin pmm_bitmap
  BY <1>1, ReadsBitmap DEF Commit, Inv
<1>4. pmm_last_page \in Nat /\ pages \in Nat /\ PageCount \in Nat /\ BitmapBits \in Nat
  BY BootFacts DEF Inv, TypeOK
<1>5. Run(pmm_last_page, n) \cap pmm_bitmap = {}
  BY <1>1, <1>2, <1>3, <1>4 DEF Run
<1>6. pmm_last_page + pages # PageCount
  BY <1>3, ClearBits DEF Inv
<1>7. pmm_last_page + n <= PageCount
  BY <1>1, <1>2, <1>4, <1>6
<1>8. Run(pmm_last_page, n) \subseteq 0..PageCount
  BY <1>2, <1>4, <1>7 DEF Run
<1>9. Run(pmm_last_page, n) \subseteq FreeAtBoot
  BY <1>5, <1>8, ClearBits DEF Inv
<1>10. first_page # 0
  <2>1. pmm_last_page \in Run(pmm_last_page, n)
    BY <1>2, <1>4 DEF Run
  <2> QED BY <2>1, <1>2, <1>9, BootFacts
<1>11. pmm_bitmap' = pmm_bitmap \cup Run(pmm_last_page, n)
  BY <1>4, <1>8, BootFacts DEF Commit, Taken, Padded
<1> QED BY <1>1, <1>2, <1>4, <1>5, <1>7, <1>9, <1>10, <1>11 DEF Commit

(* An empty row has no pages; stated for any p, since the provers do not   *)
(* add 0 to a primed variable.                                             *)
LEMMA EmptyRow == \A p \in Nat : p + 0 = p /\ Run(p, 0) = {}
BY DEF Run

(* If no run of n free pages starts in either of two adjacent ranges, none *)
(* starts in their union.                                                  *)
LEMMA NoneFromJoin ==
  \A a, b, c \in Nat : NoneFrom(a, b) /\ NoneFrom(b, c) => NoneFrom(a, c)
<1> SUFFICES ASSUME NEW a \in Nat, NEW b \in Nat, NEW c \in Nat,
                    NoneFrom(a, b), NoneFrom(b, c), NEW s \in a..(c - 1)
             PROVE  ~ FreeRun(s, n)
  BY DEF NoneFrom
<1>1. s \in a..(b - 1) \/ s \in b..(c - 1)
  OBVIOUS
<1> QED BY <1>1 DEF NoneFrom

(* A used bit lies within memory or just past it, the cursor moves to it   *)
(* or just past it, and no run of n free pages starts at a page that was   *)
(* passed (pmm.c:77-82).                                                   *)
LEMMA SkipFacts ==
  ASSUME Padded, Inv, Skip
  PROVE  /\ Searching
         /\ pmm_last_page' \in Nat
         /\ pmm_last_page < pmm_last_page'
         /\ pmm_last_page' <= PageCount
         /\ first_page' = pmm_last_page'
         /\ pages' = 0
         /\ NoneFrom(pmm_last_page, pmm_last_page')
         /\ UNCHANGED <<pmm_bitmap, pc, n, entry, held, reply>>
<1>1. Searching
  BY DEF Skip
<1>2. /\ n \in Nat \ {0}
      /\ pages < n
      /\ pmm_last_page + pages <= PageCount
  BY <1>1 DEF Inv, RowInv
<1>3. pmm_last_page \in Nat /\ pages \in Nat /\ PageCount \in Nat /\ pmm_last_page <= PageCount
  BY BootFacts DEF Inv, TypeOK
<1>4. pmm_last_page + pages \in pmm_bitmap
  BY <1>1, ReadsBitmap DEF Skip, Inv
<1>5. pmm_last_page' = pmm_last_page + (IF pages = 0 THEN 1 ELSE pages)
  BY DEF Skip, Skipped
<1>6. pmm_last_page' \in Nat /\ pmm_last_page < pmm_last_page' /\ pmm_last_page' <= PageCount
  BY <1>2, <1>3, <1>5 DEF Skip
<1>7. NoneFrom(pmm_last_page, pmm_last_page')
  <2> SUFFICES ASSUME NEW s \in pmm_last_page..(pmm_last_page' - 1)
               PROVE  ~ FreeRun(s, n)
    BY DEF NoneFrom
  <2>1. pmm_last_page + pages \in Run(s, n)
    BY <1>2, <1>3, <1>5 DEF Run
  <2> QED BY <2>1, <1>4 DEF FreeRun
<1> QED BY <1>1, <1>6, <1>7 DEF Skip

-----------------------------------------------------------------------------
(* The call of pmm_alloc preserves the invariant: nothing has been         *)
(* searched yet (pmm.c:87-88, 54-55).                                      *)
LEMMA AllocInv ==
  ASSUME Padded, Inv, NEW k \in 1..MaxRun, pmm_alloc(k)
  PROVE  Inv'
<1> USE DEF pmm_alloc
<1>1. pmm_last_page \in 0..PageCount /\ PageCount \in Nat
  BY BootFacts DEF Inv, TypeOK
<1>2. TypeOK'
  BY <1>1, MaxRunAssumption DEF Inv, TypeOK
<1>3. Accounting' /\ HeldAtBoot' /\ HeldDisjoint'
  BY DEF Inv, Accounting, HeldPages, HeldAtBoot, HeldDisjoint
<1>4. RowInv'
  BY <1>1, MaxRunAssumption DEF RowInv, Run, Searching
<1>5. ScanInv'
  BY <1>1 DEF ScanInv, NoneFrom
<1> QED BY <1>2, <1>3, <1>4, <1>5 DEF Inv

(* So does the end of memory: after the first search no run starts at or   *)
(* after its origin, which is what the second one relies on (pmm.c:58-61,  *)
(* 89-92).                                                                 *)
LEMMA ExhaustedInv ==
  ASSUME Padded, Inv, Exhausted
  PROVE  Inv'
<1>1. pmm_last_page = PageCount /\ PageCount \in Nat /\ UNCHANGED pmm_bitmap /\ Searching
  BY BootFacts DEF Exhausted
<1>2. n \in Nat \ {0} /\ entry \in 0..PageCount
  BY <1>1 DEF Inv, RowInv, TypeOK
<1>3. CASE /\ pc = "first"
           /\ pc' = "retry"
           /\ pmm_last_page' = 0
           /\ pages' = 0
           /\ first_page' = 0
           /\ UNCHANGED <<n, entry, held, reply>>
  <2>1. TypeOK'
    BY <1>1, <1>3 DEF Inv, TypeOK
  <2>2. Accounting' /\ HeldAtBoot' /\ HeldDisjoint'
    BY <1>1, <1>3 DEF Inv, Accounting, HeldPages, HeldAtBoot, HeldDisjoint
  <2>3. RowInv'
    BY <1>1, <1>2, <1>3 DEF RowInv, Run, Searching
  <2>4. NoneFrom(entry, PageCount + 1)
    <3>1. NoneFrom(entry, PageCount)
      BY <1>1, <1>3 DEF Inv, ScanInv
    <3>2. ~ FreeRun(PageCount, n)
      BY <1>1, <1>2 DEF FreeRun
    <3> QED BY <1>1, <1>2, <3>1, <3>2 DEF NoneFrom
  <2>5. ScanInv'
    BY <1>1, <1>3, <2>4 DEF ScanInv, NoneFrom, FreeRun
  <2> QED BY <2>1, <2>2, <2>3, <2>5 DEF Inv
<1>4. CASE /\ pc = "retry"
           /\ pc' = "idle"
           /\ pmm_last_page' = pmm_last_page
           /\ reply' = 0
           /\ UNCHANGED <<search, held>>
  <2>1. TypeOK'
    BY <1>1, <1>4 DEF Inv, TypeOK, search
  <2>2. Accounting' /\ HeldAtBoot' /\ HeldDisjoint'
    BY <1>1, <1>4 DEF Inv, Accounting, HeldPages, HeldAtBoot, HeldDisjoint
  <2>3. RowInv' /\ ScanInv'
    BY <1>4 DEF RowInv, ScanInv, Searching
  <2> QED BY <2>1, <2>2, <2>3 DEF Inv
<1> QED BY <1>3, <1>4 DEF Exhausted, Failed, RetryFrom

(* So does one more free page in the row (pmm.c:63-65).                    *)
LEMMA ExtendInv ==
  ASSUME Padded, Inv, Extend
  PROVE  Inv'
<1> USE DEF Extend
<1>1. pmm_last_page \in Nat /\ pages \in Nat /\ PageCount \in Nat
  BY BootFacts DEF Inv, TypeOK
<1>2. /\ n \in Nat \ {0}
      /\ pages < n
      /\ first_page = pmm_last_page
      /\ pmm_last_page + pages <= PageCount
      /\ \A b \in Run(pmm_last_page, pages) : b \notin pmm_bitmap
  BY DEF Inv, RowInv
<1>3. pmm_last_page + pages \notin pmm_bitmap
  BY ReadsBitmap DEF Inv
<1>4. pmm_last_page + pages # PageCount
  BY <1>3, ClearBits DEF Inv
<1>5. TypeOK'
  BY <1>1 DEF Inv, TypeOK
<1>6. Accounting' /\ HeldAtBoot' /\ HeldDisjoint'
  BY DEF Inv, Accounting, HeldPages, HeldAtBoot, HeldDisjoint
<1>7. RowInv'
  BY <1>1, <1>2, <1>3, <1>4 DEF RowInv, Run
<1>8. ScanInv'
  BY DEF Inv, ScanInv, NoneFrom, FreeRun
<1> QED BY <1>5, <1>6, <1>7, <1>8 DEF Inv

(* So does a used page, which moves the cursor (pmm.c:77-82).              *)
LEMMA SkipInv ==
  ASSUME Padded, Inv, Skip
  PROVE  Inv'
<1>1. /\ Searching
      /\ pmm_last_page' \in Nat
      /\ pmm_last_page < pmm_last_page'
      /\ pmm_last_page' <= PageCount
      /\ first_page' = pmm_last_page'
      /\ pages' = 0
      /\ UNCHANGED <<pmm_bitmap, pc, n, entry, held, reply>>
  BY SkipFacts
<1>9. NoneFrom(pmm_last_page, pmm_last_page')
  BY SkipFacts
<1>2. pmm_last_page \in Nat /\ PageCount \in Nat /\ entry \in 0..PageCount
  BY BootFacts DEF Inv, TypeOK
<1>3. TypeOK'
  BY <1>1, <1>2 DEF Inv, TypeOK
<1>4. Accounting' /\ HeldAtBoot' /\ HeldDisjoint'
  BY <1>1 DEF Inv, Accounting, HeldPages, HeldAtBoot, HeldDisjoint
<1>5. RowInv'
  <2>1. pmm_last_page' + 0 = pmm_last_page' /\ Run(pmm_last_page', 0) = {}
    BY <1>1, EmptyRow
  <2>2. n \in Nat \ {0} /\ 0 < n
    BY <1>1 DEF Inv, RowInv
  <2> QED BY <1>1, <2>1, <2>2 DEF RowInv
<1>6. \A lo \in Nat : NoneFrom(lo, pmm_last_page) => NoneFrom(lo, pmm_last_page')
  BY <1>1, <1>2, <1>9, NoneFromJoin
<1>7. ASSUME pc = "first"
      PROVE  entry <= pmm_last_page' /\ NoneFrom(entry, pmm_last_page')
  BY <1>1, <1>2, <1>6, <1>7 DEF Inv, ScanInv
<1>8. ASSUME pc = "retry"
      PROVE  NoneFrom(entry, PageCount + 1) /\ NoneFrom(0, pmm_last_page')
  BY <1>2, <1>6, <1>8 DEF Inv, ScanInv
<1>10. ScanInv'
  BY <1>1, <1>7, <1>8 DEF ScanInv, NoneFrom, FreeRun
<1> QED BY <1>3, <1>4, <1>5, <1>10 DEF Inv

(* So does the allocation itself: the row is free, so it overlaps no run   *)
(* that is held (pmm.c:66-74).                                             *)
LEMMA CommitInv ==
  ASSUME Padded, Inv, Commit
  PROVE  Inv'
<1> DEFINE R == Run(pmm_last_page, n)
<1>1. /\ R \cap pmm_bitmap = {}
      /\ R \subseteq FreeAtBoot
      /\ pmm_last_page + n <= PageCount
      /\ pmm_bitmap' = pmm_bitmap \cup R
      /\ first_page = pmm_last_page
      /\ first_page \in Nat \ {0}
      /\ n \in Nat \ {0}
      /\ pmm_last_page' = pmm_last_page + n
      /\ pc' = "idle"
      /\ held' = held \cup {<<first_page, n>>}
      /\ reply' = first_page
      /\ UNCHANGED search
  BY CommitFacts
<1>2. PageCount \in Nat /\ BitmapBits \in Nat /\ PageCount < BitmapBits /\ FreeAtBoot \subseteq 1..(PageCount - 1)
  BY BootFacts DEF Padded
<1>3. R \subseteq 0..(BitmapBits - 1)
  <2>1. 1..(PageCount - 1) \subseteq 0..(BitmapBits - 1)
    BY <1>2
  <2> HIDE DEF R
  <2> QED BY <1>1, <1>2, <2>1
<1>4. TypeOK'
  <2>1. pmm_last_page + n \in 0..PageCount
    BY <1>1, <1>2
  <2>2. held' \subseteq (Nat \ {0}) \X (Nat \ {0})
    BY <1>1 DEF Inv, TypeOK
  <2> HIDE DEF R
  <2>3. pmm_bitmap' \subseteq 0..(BitmapBits - 1)
    BY <1>1, <1>3 DEF Inv, TypeOK
  <2> QED BY <1>1, <1>2, <2>1, <2>2, <2>3 DEF Inv, TypeOK, search
<1>5. \A r \in held' : r \in held \/ Run(r[1], r[2]) = R
  BY <1>1
<1>6. \A p : p \in HeldPages' <=> p \in HeldPages \/ p \in R
  <2>1. HeldPages' = UNION {Run(r[1], r[2]) : r \in held'}
    BY DEF HeldPages
  <2>2. \A p : p \in HeldPages' => p \in HeldPages \/ p \in R
    <3> HIDE DEF R
    <3> QED BY <1>5, <2>1 DEF HeldPages
  <2>3. \A p \in R : p \in HeldPages'
    <3>1. <<first_page, n>> \in held' /\ Run(<<first_page, n>>[1], <<first_page, n>>[2]) = R
      BY <1>1
    <3> HIDE DEF R
    <3> QED BY <2>1, <3>1
  <2>4. \A p \in HeldPages : p \in HeldPages'
    BY <1>1, <2>1 DEF HeldPages
  <2> QED BY <2>2, <2>3, <2>4
<1>7. Accounting'
  <2> HIDE DEF R
  <2> QED BY <1>1, <1>6 DEF Inv, Accounting
<1>8. HeldAtBoot'
  <2>1. \A r \in held' : Run(r[1], r[2]) \subseteq FreeAtBoot
    BY <1>1, <1>5 DEF Inv, HeldAtBoot
  <2> QED BY <2>1 DEF HeldAtBoot
<1>9. \A r \in held : Run(r[1], r[2]) \cap R = {}
  <2> SUFFICES ASSUME NEW r \in held, NEW p \in Run(r[1], r[2]), p \in R
               PROVE  FALSE
    OBVIOUS
  <2>1. p \in HeldPages
    BY DEF HeldPages
  <2>2. p \notin pmm_bitmap /\ p \in 0..(BitmapBits - 1)
    BY <1>1, <1>3
  <2> QED BY <2>1, <2>2 DEF Inv, Accounting
<1>10. HeldDisjoint'
  <2> SUFFICES ASSUME NEW r \in held', NEW s \in held', r # s
               PROVE  Run(r[1], r[2]) \cap Run(s[1], s[2]) = {}
    BY DEF HeldDisjoint
  <2> DEFINE new == <<first_page, n>>
  <2>1. Run(new[1], new[2]) = R
    BY <1>1
  <2>2. \/ r \in held /\ s \in held
        \/ r \in held /\ s = new
        \/ r = new /\ s \in held
    BY <1>1
  <2> HIDE DEF R, new
  <2> QED BY <1>9, <2>1, <2>2 DEF Inv, HeldDisjoint
<1>11. RowInv' /\ ScanInv'
  BY <1>1 DEF RowInv, ScanInv, Searching
<1> QED BY <1>4, <1>7, <1>8, <1>10, <1>11 DEF Inv

(* So does pmm_free of a run that is held: no other run loses a bit        *)
(* (pmm.c:102-106).                                                        *)
LEMMA FreeInv ==
  ASSUME Padded, Inv, NEW r \in held, pmm_free(r)
  PROVE  Inv'
<1> DEFINE R == Run(r[1], r[2])
<1>1. /\ pc = "idle"
      /\ pmm_bitmap' = pmm_bitmap \ R
      /\ held' = held \ {r}
      /\ UNCHANGED <<pmm_last_page, pc, search, reply>>
  BY DEF pmm_free, Freed
<1> HIDE DEF R
<1>2. TypeOK'
  BY <1>1 DEF Inv, TypeOK, search
<1>3. R \subseteq FreeAtBoot
  BY DEF R, Inv, HeldAtBoot
<1>4. \A p : p \in HeldPages' <=> p \in HeldPages /\ p \notin R
  <2>1. \A p : p \in HeldPages <=> \E t \in held : p \in Run(t[1], t[2])
    BY DEF HeldPages
  <2>2. \A p : p \in HeldPages' <=> \E t \in held' : p \in Run(t[1], t[2])
    BY DEF HeldPages
  <2>3. \A t \in held' : t \in held /\ Run(t[1], t[2]) \cap R = {}
    BY <1>1 DEF R, Inv, HeldDisjoint
  <2>4. \A t \in held : t \in held' \/ Run(t[1], t[2]) = R
    BY <1>1 DEF R
  <2> QED BY <2>1, <2>2, <2>3, <2>4
<1>5. Accounting'
  BY <1>1, <1>3, <1>4 DEF Inv, Accounting
<1>6. HeldAtBoot' /\ HeldDisjoint'
  BY <1>1 DEF Inv, HeldAtBoot, HeldDisjoint
<1>7. RowInv' /\ ScanInv'
  BY <1>1 DEF RowInv, ScanInv, Searching
<1> QED BY <1>2, <1>5, <1>6, <1>7 DEF Inv

(* Every step preserves the invariant.                                     *)
LEMMA NextInv == ASSUME Padded PROVE Inv /\ [Next]_vars => Inv'
<1> SUFFICES ASSUME Inv, [Next]_vars PROVE Inv'
  OBVIOUS
<1>1. ASSUME NEW k \in 1..MaxRun, pmm_alloc(k) PROVE Inv'
  BY <1>1, AllocInv
<1>2. CASE Exhausted
  BY <1>2, ExhaustedInv
<1>3. CASE Extend
  BY <1>3, ExtendInv
<1>4. CASE Commit
  BY <1>4, CommitInv
<1>5. CASE Skip
  BY <1>5, SkipInv
<1>6. ASSUME NEW r \in held, pmm_free(r) PROVE Inv'
  BY <1>6, FreeInv
<1>7. CASE UNCHANGED vars
  <2>1. UNCHANGED <<pmm_bitmap, pmm_last_page, pc, n, pages, first_page, entry, held, reply>>
    BY <1>7 DEF vars, search
  <2>2. TypeOK' /\ Accounting' /\ HeldAtBoot' /\ HeldDisjoint'
    BY <2>1 DEF Inv, TypeOK, Accounting, HeldPages, HeldAtBoot, HeldDisjoint
  <2>3. RowInv' /\ ScanInv'
    BY <2>1 DEF Inv, RowInv, ScanInv, Searching, NoneFrom, FreeRun
  <2> QED BY <2>2, <2>3 DEF Inv
<1> QED BY <1>1, <1>2, <1>3, <1>4, <1>5, <1>6, <1>7 DEF Next, pmm_find_pages
-----------------------------------------------------------------------------
(* The invariant holds in every state that the allocator reaches, on any   *)
(* machine whose bitmap has a bit to spare (pmm.c:53-106).                 *)
THEOREM Invariance == ASSUME Padded PROVE Spec => []Inv
<1>1. Init => Inv
  BY InitInv
<1>2. Inv /\ [Next]_vars => Inv'
  BY NextInv
<1> QED BY <1>1, <1>2, PTL DEF Spec

(* The variables keep their types, in every memory map. *)
THEOREM TypeCorrect == ASSUME Padded PROVE Spec => []TypeOK
<1>1. Inv => TypeOK
  BY DEF Inv
<1> QED BY <1>1, Invariance, PTL

(* The bitmap accounts for every page, between any two steps of a search:  *)
(* no page is lost and none is free while it is owned (pmm.c:64-72).       *)
THEOREM BitmapAccounts == ASSUME Padded PROVE Spec => []Accounting
<1>1. Inv => Accounting
  BY DEF Inv
<1> QED BY <1>1, Invariance, PTL

(* No page is ever in two runs that callers hold (pmm.c:74).               *)
THEOREM NoDoubleAllocation == ASSUME Padded PROVE Spec => []HeldDisjoint
<1>1. Inv => HeldDisjoint
  BY DEF Inv
<1> QED BY <1>1, Invariance, PTL

(* A run that is handed out consists of pages that were free at boot and   *)
(* holds none of the bitmap itself (pmm.c:37-46, 63-74).                   *)
THEOREM OnlyUsablePages == ASSUME Padded PROVE Spec => []HeldUsable
<1>1. Inv => HeldUsable
  BY BootFacts DEF Inv, HeldAtBoot, HeldUsable, HeldPages
<1> QED BY <1>1, Invariance, PTL

(* No run of n free pages starts anywhere when the second search has       *)
(* reached the end of memory.                                              *)
LEMMA ExhaustedMeansFull ==
  ASSUME Padded, Inv, Exhausted
  PROVE  /\ pc = "first" => \A s \in entry..PageCount : ~ FreeRun(s, n)
         /\ pc = "retry" => \A s \in 0..PageCount : ~ FreeRun(s, n)
<1>1. pmm_last_page = PageCount /\ PageCount \in Nat /\ Searching
  BY BootFacts DEF Exhausted
<1>2. n \in Nat \ {0} /\ entry \in 0..PageCount
  BY <1>1 DEF Inv, RowInv, TypeOK
<1>3. ~ FreeRun(PageCount, n)
  BY <1>1, <1>2 DEF FreeRun
<1>4. pc = "first" => NoneFrom(entry, PageCount)
  BY <1>1 DEF Inv, ScanInv
<1>5. pc = "retry" => NoneFrom(0, PageCount)
  BY <1>1 DEF Inv, ScanInv
<1> QED BY <1>1, <1>2, <1>3, <1>4, <1>5 DEF NoneFrom

(* pmm_alloc fails only when no run of n free pages exists anywhere,       *)
(* whatever was allocated and freed before (pmm.c:77-82, 89-95).           *)
THEOREM RefusalMeansFull == ASSUME Padded PROVE Spec => RefusedOnlyWhenFull
<1> DEFINE A == (pc = "retry" /\ pc' = "idle" /\ reply' = 0)
                  => \A s \in 0..PageCount : ~ FreeRun(s, n)
<1>1. Inv /\ [Next]_vars => [A]_vars
  <2> SUFFICES ASSUME Inv, Next, pc = "retry", pc' = "idle", reply' = 0
               PROVE  \A s \in 0..PageCount : ~ FreeRun(s, n)
    OBVIOUS
  <2>1. CASE Exhausted
    BY <2>1, ExhaustedMeansFull
  <2>2. CASE Commit
    <3>1. reply' \in Nat \ {0}
      BY <2>2, CommitFacts
    <3> QED BY <3>1
  <2>3. CASE Extend \/ Skip
    BY <2>3 DEF Extend, Skip
  <2>4. CASE (\E k \in 1..MaxRun : pmm_alloc(k)) \/ (\E r \in held : pmm_free(r))
    BY <2>4 DEF pmm_alloc, pmm_free
  <2> QED BY <2>1, <2>2, <2>3, <2>4 DEF Next, pmm_find_pages
<1> QED BY <1>1, Invariance, PTL DEF Spec, RefusedOnlyWhenFull
-----------------------------------------------------------------------------
(* Refinement.  The steps of a search other than its last one are stutters *)
(* of the next-fit allocator; the last one is Alloc or Refuse.             *)

(* The abstract allocator starts with the same memory.                     *)
LEMMA SameBoot ==
  /\ Abstract!PageCount = PageCount
  /\ Abstract!FreeAtBoot = FreeAtBoot
  /\ \A s, k : Abstract!Run(s, k) = Run(s, k)
<1>1. Abstract!Usable = Usable /\ \A i : Abstract!EntryEnd(i) = EntryEnd(i)
  BY DEF Abstract!Usable, Usable, Abstract!EntryEnd, EntryEnd
<1>2. Abstract!PageCount = PageCount
  BY DEF Abstract!PageCount, PageCount, Abstract!Usable, Usable, Abstract!EntryEnd, EntryEnd
<1>3. /\ \A i : Abstract!EntryPages(i) = EntryPages(i)
      /\ \A i : Abstract!IsDefault(i) <=> IsDefault(i)
  BY <1>1 DEF Abstract!EntryPages, EntryPages, Abstract!IsDefault, IsDefault
<1>4. Abstract!BitmapLength = BitmapLength
  BY <1>2 DEF Abstract!BitmapLength, BitmapLength, Abstract!BitmapBytes, BitmapBytes
<1>5. Abstract!FreeAtBoot = FreeAtBoot
  BY <1>1, <1>2, <1>3, <1>4 DEF Abstract!FreeAtBoot, FreeAtBoot
<1>6. \A s, k : Abstract!Run(s, k) = Run(s, k)
  BY DEF Abstract!Run, Run
<1> QED BY <1>2, <1>5, <1>6

(* A run is free for the abstract allocator exactly if it is for the       *)
(* search.                                                                 *)
LEMMA AbsFreeRun ==
  ASSUME NEW s \in Nat, NEW k \in Nat
  PROVE  FreeRun(s, k) <=> Abstract!FreeRun(s, k)
<1>1. PageCount \in Nat
  BY BootFacts
<1>2. s + k <= PageCount => Run(s, k) \subseteq 0..PageCount
  BY <1>1 DEF Run
<1> QED BY <1>2, SameBoot DEF FreeRun, Abstract!FreeRun

(* The initial states are those of the abstract allocator.                 *)
LEMMA InitRefines == ASSUME Padded PROVE Init => Abstract!AbsInit
<1>1. PageCount \in Nat /\ BitmapBits \in Nat /\ PageCount < BitmapBits
  BY BootFacts DEF Padded
<1>2. ((0..(BitmapBits - 1)) \ FreeAtBoot) \cap (0..PageCount) = (0..PageCount) \ FreeAtBoot
  BY <1>1
<1> QED BY <1>2, SameBoot DEF Init, Abstract!AbsInit

(* The end of a successful search is a next-fit allocation, from the       *)
(* cursor that pmm_alloc was called with.                                  *)
LEMMA CommitRefines == ASSUME Padded, Inv, Commit PROVE Abstract!AbsNext
<1> DEFINE R == Run(pmm_last_page, n)
           usedBar == pmm_bitmap \cap (0..PageCount)
           lastBar == IF pc = "idle" THEN pmm_last_page ELSE entry
<1>1. /\ Searching
      /\ R \cap pmm_bitmap = {}
      /\ R \subseteq FreeAtBoot
      /\ pmm_last_page + n <= PageCount
      /\ pmm_bitmap' = pmm_bitmap \cup R
      /\ first_page = pmm_last_page
      /\ first_page \in Nat \ {0}
      /\ n \in Nat \ {0}
      /\ pmm_last_page' = pmm_last_page + n
      /\ pc' = "idle"
      /\ held' = held \cup {<<first_page, n>>}
      /\ reply' = first_page
  BY CommitFacts
<1>2. n \in 1..MaxRun /\ entry \in 0..PageCount /\ PageCount \in Nat
  BY <1>1, MaxRunAssumption, BootFacts DEF Inv, TypeOK
<1>3. first_page \in 1..PageCount
  BY <1>1, <1>2
<1>4. FreeRun(first_page, n) /\ Abstract!FreeRun(first_page, n)
  BY <1>1, <1>2, AbsFreeRun DEF FreeRun
<1>5. pc = "first" => Abstract!NextFit(entry, first_page, n)
  <2> SUFFICES ASSUME pc = "first" PROVE Abstract!NextFit(entry, first_page, n)
    OBVIOUS
  <2>1. first_page >= entry /\ NoneFrom(entry, first_page)
    BY <1>1, <1>2 DEF Inv, ScanInv
  <2>2. \A t \in entry..(first_page - 1) : ~ Abstract!FreeRun(t, n)
    BY <1>1, <1>2, <2>1, AbsFreeRun DEF NoneFrom
  <2> QED BY <1>4, <2>1, <2>2 DEF Abstract!NextFit
<1>6. pc = "retry" => Abstract!NoFit(entry, n) /\ Abstract!NextFit(0, first_page, n)
  <2> SUFFICES ASSUME pc = "retry"
               PROVE  Abstract!NoFit(entry, n) /\ Abstract!NextFit(0, first_page, n)
    OBVIOUS
  <2>1. NoneFrom(entry, PageCount + 1) /\ NoneFrom(0, first_page)
    BY <1>1 DEF Inv, ScanInv
  <2>2. \A t \in entry..PageCount : ~ Abstract!FreeRun(t, n)
    BY <1>1, <1>2, <2>1, AbsFreeRun DEF NoneFrom
  <2>3. \A t \in 0..(first_page - 1) : ~ Abstract!FreeRun(t, n)
    BY <1>1, <1>2, <2>1, AbsFreeRun DEF NoneFrom
  <2> QED BY <1>1, <1>4, <2>2, <2>3, SameBoot DEF Abstract!NextFit, Abstract!NoFit
<1>7. Abstract!Grant(first_page, n)
  <2>1. R \subseteq 0..PageCount
    <3>1. 1..(PageCount - 1) \subseteq 0..PageCount
      BY <1>2
    <3> HIDE DEF R
    <3> QED BY <1>1, <3>1, BootFacts
  <2>2. usedBar' = usedBar \cup R
    <3> HIDE DEF R
    <3> QED BY <1>1, <2>1
  <2>3. lastBar' = first_page + n
    BY <1>1
  <2> QED BY <1>1, <2>2, <2>3, SameBoot DEF Abstract!Grant
<1>8. lastBar = entry /\ (pc = "first" \/ pc = "retry")
  BY <1>1 DEF Searching
<1>9. Abstract!Alloc(n)
  BY <1>3, <1>5, <1>6, <1>7, <1>8, SameBoot DEF Abstract!Alloc
<1> QED BY <1>2, <1>9 DEF Abstract!AbsNext

(* The end of the second, failed search is a refusal.                      *)
LEMMA RefuseRefines ==
  ASSUME Padded, Inv, Exhausted, pc = "retry"
  PROVE  Abstract!AbsNext
<1>1. /\ pmm_last_page = PageCount
      /\ pc' = "idle"
      /\ UNCHANGED <<pmm_bitmap, pmm_last_page, held>>
      /\ reply' = 0
      /\ PageCount \in Nat
  BY BootFacts DEF Exhausted, Failed
<1>2. n \in 1..MaxRun
  BY MaxRunAssumption DEF Inv, RowInv, TypeOK, Searching
<1>3. \A s \in 0..PageCount : ~ Abstract!FreeRun(s, n)
  BY <1>1, <1>2, ExhaustedMeansFull, AbsFreeRun, MaxRunAssumption
<1>4. Abstract!Refuse(n)
  BY <1>1, <1>3, SameBoot DEF Abstract!Refuse, Abstract!NoFit
<1> QED BY <1>2, <1>4 DEF Abstract!AbsNext

(* pmm_free is the abstract Free.                                          *)
LEMMA FreeRefines ==
  ASSUME NEW r \in held, pmm_free(r)
  PROVE  Abstract!AbsNext
<1>1. Abstract!Free(r)
  BY SameBoot DEF pmm_free, Freed, Abstract!Free
<1> QED BY <1>1 DEF Abstract!AbsNext

(* Every step is a step of the abstract allocator or changes nothing of    *)
(* it.                                                                     *)
LEMMA NextRefines ==
  ASSUME Padded
  PROVE  Inv /\ [Next]_vars => [Abstract!AbsNext]_(Abstract!absVars)
<1> SUFFICES ASSUME Inv, [Next]_vars
             PROVE  Abstract!AbsNext \/ UNCHANGED Abstract!absVars
  OBVIOUS
<1>1. ASSUME NEW k \in 1..MaxRun, pmm_alloc(k) PROVE UNCHANGED Abstract!absVars
  BY <1>1 DEF pmm_alloc, Abstract!absVars
<1>2. CASE Exhausted
  <2>1. CASE pc = "retry"
    BY <1>2, <2>1, RefuseRefines
  <2>2. CASE pc = "first"
    BY <1>2, <2>2 DEF Exhausted, Failed, Abstract!absVars
  <2> QED BY <1>2, <2>1, <2>2 DEF Exhausted, Searching
<1>3. CASE Extend
  BY <1>3 DEF Extend, Searching, Abstract!absVars
<1>4. CASE Commit
  BY <1>4, CommitRefines
<1>5. CASE Skip
  BY <1>5, SkipFacts DEF Searching, Abstract!absVars
<1>6. ASSUME NEW r \in held, pmm_free(r) PROVE Abstract!AbsNext
  BY <1>6, FreeRefines
<1>7. CASE UNCHANGED vars
  BY <1>7 DEF vars, search, Abstract!absVars
<1> QED BY <1>1, <1>2, <1>3, <1>4, <1>5, <1>6, <1>7 DEF Next, pmm_find_pages

(* The search of pmm_find_pages, called once or twice by pmm_alloc, and    *)
(* pmm_free implement the next-fit allocator (pmm.c:53-106).               *)
THEOREM Refinement == ASSUME Padded PROVE Spec => ImplementsPageAllocator
<1>1. Init => Abstract!AbsInit
  BY InitRefines
<1>2. Inv /\ [Next]_vars => [Abstract!AbsNext]_(Abstract!absVars)
  BY NextRefines
<1> QED BY <1>1, <1>2, Invariance, PTL DEF Spec, ImplementsPageAllocator, Abstract!AbsSpec
=============================================================================
