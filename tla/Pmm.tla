--------------------------------- MODULE Pmm ---------------------------------
(***************************************************************************)
(* The physical memory manager, src/mm/pmm.c over src/mm/bitmap.h: one     *)
(* step per iteration of the search loop of pmm_find_pages, which pmm_alloc*)
(* runs once from the cursor and, if that fails, once more from page 0.    *)
(* The state after pmm_init is computed in PmmInit.  A caller frees a run  *)
(* exactly as it got it, as heap_free does.                                *)
(*                                                                         *)
(* A definition whose name ends in an underscore and a word is a faulty    *)
(* variant of the definition after it.                                     *)
(***************************************************************************)
EXTENDS PmmInit

CONSTANT MaxRun   \* the largest request (bounds n)

ASSUME MaxRunAssumption == MaxRun \in Nat \ {0}

VARIABLES
  pmm_bitmap,      \* the set of the bits that are set, within the bitmap
  pmm_last_page,   \* the cursor, which the search itself moves
  pc,              \* "idle", or the search of pmm_alloc that runs
  n,               \* the argument of pmm_alloc
  pages,           \* pmm_find_pages: free pages found in a row
  first_page,      \* pmm_find_pages: where that row starts
  entry,           \* history: the cursor when pmm_alloc was called
  held,            \* history: the runs the callers own
  reply            \* what the latest pmm_alloc returned, as a page; 0 is NULL

search == <<n, pages, first_page, entry>>
vars == <<pmm_bitmap, pmm_last_page, pc, search, held, reply>>

Init ==
  /\ pmm_bitmap = (0..(BitmapBits - 1)) \ FreeAtBoot
  /\ pmm_last_page = 0
  /\ pc = "idle"
  /\ n = 0 /\ pages = 0 /\ first_page = 0 /\ entry = 0
  /\ held = {}
  /\ reply = 0

(* The values reading a bit can yield.  Past the end of the bitmap lies    *)
(* memory that belongs to somebody else and holds anything.                *)
bitmap_get(bit) == IF bit < BitmapBits THEN {bit \in pmm_bitmap} ELSE BOOLEAN

pmm_alloc(k) ==
  /\ pc = "idle"
  /\ pc' = "first"
  /\ n' = k
  /\ pages' = 0
  /\ first_page' = pmm_last_page
  /\ entry' = pmm_last_page
  /\ UNCHANGED <<pmm_bitmap, pmm_last_page, held, reply>>

(* Where the second search starts. *)
RetryFrom_Cursor == pmm_last_page
RetryFrom == 0

(* pmm_find_pages returned 0, leaving the cursor at c: the first search is *)
(* followed by one from page 0, the second by the failure of pmm_alloc.    *)
Failed(c) ==
  \/ /\ pc = "first"
     /\ pc' = "retry"
     /\ pmm_last_page' = RetryFrom
     /\ pages' = 0
     /\ first_page' = RetryFrom
     /\ UNCHANGED <<n, entry, held, reply>>
  \/ /\ pc = "retry"
     /\ pc' = "idle"
     /\ pmm_last_page' = c
     /\ reply' = 0
     /\ UNCHANGED <<search, held>>

Searching == pc \in {"first", "retry"}

Exhausted ==
  /\ Searching
  /\ pmm_last_page = PageCount
  /\ Failed(pmm_last_page)
  /\ UNCHANGED pmm_bitmap

(* One more free page, but not yet n of them. *)
Extend ==
  /\ Searching
  /\ pmm_last_page # PageCount
  /\ FALSE \in bitmap_get(pmm_last_page + pages)
  /\ pages + 1 # n
  /\ pages' = pages + 1
  /\ UNCHANGED <<pmm_bitmap, pmm_last_page, pc, n, first_page, entry, held, reply>>

(* The bits that are set for a run. *)
Taken_Short == Run(pmm_last_page, pages)
Taken == Run(pmm_last_page, n)

(* The n-th free page in a row: the bits are set and the cursor moves past *)
(* the run.  A run at page 0 is indistinguishable from a failure.          *)
Commit ==
  /\ Searching
  /\ pmm_last_page # PageCount
  /\ FALSE \in bitmap_get(pmm_last_page + pages)
  /\ pages + 1 = n
  /\ pmm_bitmap' = pmm_bitmap \cup {b \in Taken : b < BitmapBits}
  /\ \/ /\ first_page = 0
        /\ Failed(pmm_last_page + n)
     \/ /\ first_page # 0
        /\ pmm_last_page' = pmm_last_page + n
        /\ pc' = "idle"
        /\ held' = held \cup {<<first_page, n>>}
        /\ reply' = first_page
        /\ UNCHANGED search

(* How far the cursor moves. *)
Skipped_Nowhere == pages
Skipped_TooFar == pages + 1
Skipped == IF pages = 0 THEN 1 ELSE pages

(* A used page: the search restarts at it or, if it is the first of the    *)
(* row, just after it.                                                     *)
Skip ==
  /\ Searching
  /\ pmm_last_page # PageCount
  /\ TRUE \in bitmap_get(pmm_last_page + pages)
  /\ pmm_last_page' = pmm_last_page + Skipped
  /\ first_page' = pmm_last_page'
  /\ pages' = 0
  /\ UNCHANGED <<pmm_bitmap, pc, n, entry, held, reply>>

pmm_find_pages == Exhausted \/ Extend \/ Commit \/ Skip

(* The bits that are cleared for a run. *)
Freed_Short(r) == Run(r[1], r[2] - 1)
Freed(r) == Run(r[1], r[2])

pmm_free(r) ==
  /\ pc = "idle"
  /\ pmm_bitmap' = pmm_bitmap \ Freed(r)
  /\ held' = held \ {r}
  /\ UNCHANGED <<pmm_last_page, pc, search, reply>>

Next ==
  \/ \E k \in 1..MaxRun : pmm_alloc(k)
  \/ pmm_find_pages
  \/ \E r \in held : pmm_free(r)

(* The search is the kernel's only thread of execution while it runs;      *)
(* nothing obliges a caller to allocate or to free.                        *)
Spec == Init /\ [][Next]_vars /\ WF_vars(pmm_find_pages)
-----------------------------------------------------------------------------
(* Types; the cursor, which the search compares with the page count for    *)
(* equality only, never passes it (pmm.c:58, 74, 79).                      *)
TypeOK ==
  /\ pmm_bitmap \subseteq 0..(BitmapBits - 1)
  /\ pmm_last_page \in 0..PageCount
  /\ pc \in {"idle", "first", "retry"}
  /\ n \in 0..MaxRun
  /\ pages \in Nat
  /\ first_page \in Nat
  /\ entry \in 0..PageCount
  /\ held \subseteq (Nat \ {0}) \X (Nat \ {0})
  /\ reply \in Nat

HeldPages == UNION {Run(r[1], r[2]) : r \in held}

(* The bitmap accounts for every page, in every state: a bit is clear if   *)
(* and only if its page was free at boot and is in no run a caller holds.  *)
(* No page is lost, and none is handed out while still owned or while it   *)
(* holds the bitmap (pmm.c:64-72, 102-106).                                *)
Accounting ==
  \A p \in 0..(BitmapBits - 1) :
    p \in pmm_bitmap <=> p \notin FreeAtBoot \/ p \in HeldPages

(* Two runs that callers hold at once have no page in common (pmm.c:74).   *)
HeldDisjoint ==
  \A r, s \in held : r # s => Run(r[1], r[2]) \cap Run(s[1], s[2]) = {}

(* A caller only ever gets pages that were free at boot: never a page past *)
(* the end of memory, never page 0, never a page of the bitmap itself      *)
(* (pmm.c:37-46, 63-74).                                                   *)
HeldUsable == HeldPages \subseteq FreeAtBoot \ BitmapPages

FreeRun(s, k) == s + k <= PageCount /\ Run(s, k) \cap pmm_bitmap = {}

(* What a search knows: the bits of the row it counts are clear, and no    *)
(* run of n free pages starts between where it began and the cursor; the   *)
(* second one also relies on the first, up to the end of memory.           *)
RowInv ==
  Searching =>
    /\ n \in Nat \ {0}
    /\ pages < n
    /\ first_page = pmm_last_page
    /\ pmm_last_page + pages <= PageCount
    /\ \A b \in Run(pmm_last_page, pages) : b \notin pmm_bitmap

NoneFrom(lo, hi) == \A s \in lo..(hi - 1) : ~ FreeRun(s, n)

ScanInv ==
  /\ pc = "first" => entry <= pmm_last_page /\ NoneFrom(entry, pmm_last_page)
  /\ pc = "retry" => NoneFrom(entry, PageCount + 1) /\ NoneFrom(0, pmm_last_page)

HeldAtBoot == \A r \in held : Run(r[1], r[2]) \subseteq FreeAtBoot

(* Inductive: with what a search knows, what it passes over is never a run *)
(* it was asked for, whichever calls came before (pmm.c:63-82).            *)
Inv == TypeOK /\ Accounting /\ HeldAtBoot /\ HeldDisjoint /\ RowInv /\ ScanInv

(* pmm_alloc returns NULL only if no run of n free pages exists anywhere,  *)
(* although it skips several pages at a time and starts in the middle      *)
(* (pmm.c:77-82, 89-95).                                                   *)
RefusedOnlyWhenFull ==
  [][(pc = "retry" /\ pc' = "idle" /\ reply' = 0)
       => \A s \in 0..PageCount : ~ FreeRun(s, n)]_vars

(* Every search comes to an end.  The loop tests the cursor for equality   *)
(* with the page count and moves it by more than one, so this is not       *)
(* obvious (pmm.c:58, 79).                                                 *)
SearchEnds == (pc # "idle") ~> (pc = "idle")

(* pmm_alloc and pmm_free implement the next-fit allocator: until a search *)
(* is over, the cursor is the one it was called with.                      *)
Abstract == INSTANCE PageAllocator WITH
  used <- pmm_bitmap \cap (0..PageCount),
  last <- IF pc = "idle" THEN pmm_last_page ELSE entry

ImplementsPageAllocator == Abstract!AbsSpec
=============================================================================
