-------------------------------- MODULE Heap --------------------------------
(***************************************************************************)
(* The kernel heap, src/mm/heap.c behind src/mm/kmalloc.c, over the        *)
(* physical memory manager in its abstract form.  Every block is a run of  *)
(* pages of its own whose first unit is a header; the headers form a ring  *)
(* through the list head.  Memory is a sequence of units, one of which     *)
(* holds a header.  The kernel calls the heap from one thread of execution *)
(* and never from an interrupt.                                            *)
(*                                                                         *)
(* A refused pmm_alloc is not noticed: the header is then written over     *)
(* physical page 0.  The model includes that step and nothing after it, and*)
(* only for heap_alloc: memory is not exhausted when heap_create is called.*)
(*                                                                         *)
(* A definition whose name ends in an underscore and a word is a faulty    *)
(* variant of the definition after it.                                     *)
(***************************************************************************)
EXTENDS PageAllocator, FiniteSets

CONSTANTS
  PageUnits,   \* units in a page: PAGE_SIZE / sizeof(heap_block)
  Sizes,       \* the sizes callers ask for, in units
  Values,      \* what callers write
  MaxLive,     \* the blocks that callers hold at once
  Shrinks      \* whether callers make a block smaller with krealloc

ASSUME HeapAssumption ==
  /\ PageUnits \in Nat \ {0}
  /\ Sizes \subseteq Nat
  /\ MaxLive \in Nat /\ MaxRun \in Nat \ {0}
  /\ Shrinks \in BOOLEAN

VARIABLES
  mem,        \* the units of memory, by number
  heap,       \* kernel_heap: its page, and the page block_head points to
  pc,         \* "boot", "create" (in heap_create), "idle", "copy" (in heap_realloc),
              \* "lost" (a refusal went unnoticed)
  blocks,     \* history: the blocks callers own
  old,        \* in heap_realloc: the block to be replaced
  ret         \* what the latest call returned: a header's page, or NULL

heapVars == <<mem, heap, pc, blocks, old, ret>>

NULL == -1
Unwritten == [magic |-> FALSE, value |-> NULL]
Datum(v) == [magic |-> FALSE, value |-> v]
Header(next, prev, size) == [magic |-> TRUE, next |-> next, prev |-> prev, size |-> size]

Block(page, size, value, len) ==
  [page |-> page, size |-> size, value |-> value, len |-> len]
NoBlock == Block(0, 0, NULL, 0)

(* DIV_CEILING(sizeof(heap_block) + n, PAGE_SIZE) *)
PagesFor(n) == (1 + n + PageUnits - 1) \div PageUnits

Unit(page) == page * PageUnits
hdr(page) == mem[Unit(page)]

(* Writing a field of what should be a header.  If something else lies     *)
(* there, part of it is lost.                                              *)
SetField(u, field, page) ==
  IF u.magic THEN [u EXCEPT ![field] = page] ELSE Unwritten

(* Memory m with the header of page's next, or prev, changed. *)
SetNext(m, page, next) == [m EXCEPT ![Unit(page)] = SetField(@, "next", next)]
SetPrev(m, page, prev) == [m EXCEPT ![Unit(page)] = SetField(@, "prev", prev)]

ListHead == heap.block_head

(* The tail of heap_alloc: a header for n units on page, linked in before  *)
(* the list head.                                                          *)
Linked(page, n) ==
  LET prev == hdr(ListHead).prev
      new  == [mem EXCEPT ![Unit(page)] = Header(ListHead, prev, n)]
  IN  SetPrev(SetNext(new, prev, page), ListHead, page)

Unlinked_OneWay(m, page) ==
  LET b == m[Unit(page)]
  IN  SetNext(m, b.prev, b.next)

(* The middle of heap_free: the header of page taken out of the ring m.    *)
Unlinked(m, page) ==
  LET b == m[Unit(page)]
  IN  SetPrev(SetNext(m, b.prev, b.next), b.next, b.prev)

Copied_Short(from, to, size) ==
  [u \in DOMAIN mem |->
     IF u \in (Unit(to) + 1)..(Unit(to) + size - 1)
     THEN mem[u - Unit(to) + Unit(from)]
     ELSE mem[u]]

(* memcpy of size units from the data of one block to that of another. *)
Copied(from, to, size) ==
  [u \in DOMAIN mem |->
     IF u \in (Unit(to) + 1)..(Unit(to) + size)
     THEN mem[u - Unit(to) + Unit(from)]
     ELSE mem[u]]
-----------------------------------------------------------------------------
Init ==
  /\ AbsInit
  /\ mem = [u \in 0..(Unit(PageCount + MaxRun) - 1) |-> Unwritten]
  /\ heap = [page |-> 0, block_head |-> 0]
  /\ pc = "boot"
  /\ blocks = {}
  /\ old = NoBlock
  /\ ret = NULL

(* heap_create: the page of the heap structure, then that of the list head,*)
(* a block of its own that is the whole ring.                              *)
heap_create ==
  \/ /\ pc = "boot"
     /\ Alloc(1)
     /\ heap' = [heap EXCEPT !.page = reply']
     /\ pc' = "create"
     /\ UNCHANGED <<mem, blocks, old, ret>>
  \/ /\ pc = "create"
     /\ Alloc(1)
     /\ heap' = [heap EXCEPT !.block_head = reply']
     /\ mem' = [mem EXCEPT ![Unit(reply')] = Header(reply', reply', 0)]
     /\ pc' = "idle"
     /\ UNCHANGED <<blocks, old, ret>>

(* A block of n units is linked in, wherever pmm_alloc says. *)
Granted(n, next_pc) ==
  /\ Alloc(PagesFor(n)) \/ Refuse(PagesFor(n))
  /\ mem' = Linked(reply', n)
  /\ pc' = IF reply' = 0 THEN "lost" ELSE next_pc

heap_alloc(n) ==
  /\ pc = "idle"
  /\ Cardinality(blocks) < MaxLive
  /\ Granted(n, "idle")
  /\ ret' = reply'
  /\ blocks' = blocks \cup {Block(reply', n, NULL, 0)}
  /\ UNCHANGED <<heap, old>>

(* A caller fills its block. *)
Write(b, v) ==
  /\ pc = "idle"
  /\ mem' = [u \in DOMAIN mem |->
               IF u \in (Unit(b.page) + 1)..(Unit(b.page) + b.size) THEN Datum(v) ELSE mem[u]]
  /\ blocks' = (blocks \ {b}) \cup {Block(b.page, b.size, v, b.size)}
  /\ UNCHANGED <<absVars, heap, pc, old, ret>>

(* The number of pages that heap_free returns for a block of size units.   *)
PagesOf_Down(size) == (1 + size) \div PageUnits
PagesOf(size) == PagesFor(size)

(* heap_free of the pointer past page's header, when memory is m: what     *)
(* does not have a block's magic is left alone.  Nothing reads a free page,*)
(* so the model forgets what freed pages hold.                             *)
Released(m, page) ==
  LET b == m[Unit(page)]
  IN  \/ ~ b.magic /\ mem' = m /\ UNCHANGED absVars
      \/ LET r == <<page, PagesOf(b.size)>>
         IN  /\ b.magic
             /\ Free(r)
             /\ mem' = [u \in DOMAIN m |-> IF u \div PageUnits \in Run(r[1], r[2])
                                          THEN Unwritten ELSE Unlinked(m, page)[u]]

(* The pointers callers pass: those to their blocks, and stray ones that   *)
(* point past some data of theirs.                                         *)
Pointers ==
  UNION {{b.page} \cup {b.page + k : k \in 1..(b.len \div PageUnits)} : b \in blocks}

At(page) == {b \in blocks : b.page = page}

heap_free(page) ==
  /\ pc = "idle"
  /\ Released(mem, page)
  /\ blocks' = blocks \ At(page)
  /\ UNCHANGED <<heap, pc, old, ret>>

(* heap_realloc up to the return of heap_alloc, and the rest of it.        *)
heap_realloc(page, n) ==
  /\ pc = "idle"
  /\ \/ /\ ~ hdr(page).magic
        /\ ret' = NULL
        /\ UNCHANGED <<absVars, mem, heap, pc, blocks, old>>
     \/ /\ hdr(page).magic
        /\ Shrinks \/ n >= hdr(page).size
        /\ Granted(n, "copy")
        /\ old' \in At(page)
        /\ blocks' = (blocks \ At(page)) \cup {Block(reply', n, NULL, 0)}
        /\ UNCHANGED <<heap, ret>>

heap_realloc_copy ==
  /\ pc = "copy"
  /\ Released(Copied(old.page, reply, hdr(old.page).size), old.page)
  /\ blocks' = (blocks \ At(reply)) \cup
       {Block(b.page, b.size, old.value, IF old.len < b.size THEN old.len ELSE b.size) :
          b \in At(reply)}
  /\ ret' = reply
  /\ pc' = "idle"
  /\ old' = NoBlock
  /\ UNCHANGED heap

Next ==
  \/ heap_create
  \/ \E n \in Sizes : heap_alloc(n)
  \/ \E b \in blocks, v \in Values : Write(b, v)
  \/ \E p \in Pointers : heap_free(p)
  \/ \E p \in Pointers, n \in Sizes : heap_realloc(p, n)
  \/ heap_realloc_copy

Spec == Init /\ [][Next]_<<absVars, heapVars>>
-----------------------------------------------------------------------------
TypeOK ==
  /\ mem \in [DOMAIN mem ->
       [magic : {FALSE}, value : Values \cup {NULL}]
       \cup [magic : {TRUE}, next : 0..PageCount, prev : 0..PageCount, size : Sizes \cup {0}]]
  /\ heap \in [page : 0..PageCount, block_head : 0..PageCount]
  /\ pc \in {"boot", "create", "idle", "copy", "lost"}
  /\ blocks \subseteq [page : 0..PageCount, size : Sizes, value : Values \cup {NULL}, len : Nat]
  /\ ret \in {NULL} \cup 0..PageCount

Created == pc \in {"idle", "copy", "lost"}

(* The blocks whose headers should be in the ring: those that callers own  *)
(* and, within heap_realloc, still the one to be replaced.  The replaced   *)
(* one keeps its place in the ring.                                        *)
Owned == blocks \cup (IF old = NoBlock THEN {} ELSE {old})

Pages == {b.page : b \in Owned} \cup {ListHead}

(* The pages are linked to each other in a circle, in both directions. *)
Ring ==
  /\ \A p \in Pages : /\ hdr(p).magic
                      /\ hdr(p).next \in Pages /\ hdr(p).prev \in Pages
                      /\ hdr(hdr(p).next).prev = p
                      /\ hdr(hdr(p).prev).next = p
  /\ \A S \in SUBSET Pages :
       ListHead \in S /\ (\A p \in S : hdr(p).next \in S) => S = Pages

(* The headers of the blocks in use, with the list head, form one ring in  *)
(* both directions, and nothing else is in it: no block is lost from it and*)
(* no freed one left in it (heap.c:24-27, 39-40).                          *)
RingOK == TypeOK /\ (Created => Ring)

(* What the heap holds of the page allocator is what its blocks need: no   *)
(* page is leaked or returned twice, although heap_free and heap_realloc   *)
(* recompute the number of pages from the header (heap.c:19, 41).          *)
NoLeak ==
  (Created /\ pc # "lost") =>
    held = {<<b.page, PagesFor(b.size)>> : b \in Owned}
             \cup {<<heap.page, 1>>, <<ListHead, 1>>}

(* A caller reads back what it wrote, whatever other blocks are allocated, *)
(* freed, written and moved, and krealloc keeps a block's contents         *)
(* (heap.c:21-27, 39-40, 53).                                              *)
ContentsKept ==
  \A b \in Owned : \A k \in 1..b.len : mem[Unit(b.page) + k] = Datum(b.value)

(* A failed allocation is reported.  heap_realloc tests heap_alloc's result*)
(* for NULL (heap.c:52).                                                   *)
FailureReported == pc = "lost" => ret = NULL

(* The test that heap_free and heap_realloc make of a block's magic fails  *)
(* only for what is not a block (heap.c:34-35, 47-48).                     *)
LiveBlocksHaveMagic == \A b \in Owned : hdr(b.page).magic
=============================================================================
