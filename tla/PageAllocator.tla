---------------------------- MODULE PageAllocator ----------------------------
(***************************************************************************)
(* What the physical memory manager promises its callers, with no search:  *)
(* a next-fit allocator.  A request for n pages is answered, in one step,  *)
(* with the first free run at or after the cursor, or with the first free  *)
(* run of all when there is none; it is refused only when no run of n free *)
(* pages exists.                                                           *)
(***************************************************************************)
EXTENDS PmmInit

CONSTANT MaxRun   \* the largest request

VARIABLES
  used,   \* the pages that are not free
  last,   \* the cursor: the next search starts here
  held,   \* the runs handed out and not yet freed: <<first page, length>>
  reply   \* the answer to the latest request: a page, or 0 for NULL

absVars == <<used, last, held, reply>>

FreeRun(s, n) == s + n <= PageCount /\ Run(s, n) \cap used = {}

NextFit(lo, s, n) ==
  /\ s >= lo
  /\ FreeRun(s, n)
  /\ \A t \in lo..(s - 1) : ~ FreeRun(t, n)

NoFit(lo, n) == \A t \in lo..PageCount : ~ FreeRun(t, n)

AbsInit ==
  /\ used = (0..PageCount) \ FreeAtBoot
  /\ last = 0
  /\ held = {}
  /\ reply = 0

Grant(s, n) ==
  /\ used' = used \cup Run(s, n)
  /\ last' = s + n
  /\ held' = held \cup {<<s, n>>}
  /\ reply' = s

Alloc(n) ==
  \E s \in 1..PageCount :
    /\ NextFit(last, s, n) \/ (NoFit(last, n) /\ NextFit(0, s, n))
    /\ Grant(s, n)

Refuse(n) ==
  /\ NoFit(0, n)
  /\ last' = PageCount
  /\ reply' = 0
  /\ UNCHANGED <<used, held>>

Free(r) ==
  /\ used' = used \ Run(r[1], r[2])
  /\ held' = held \ {r}
  /\ UNCHANGED <<last, reply>>

AbsNext ==
  \/ \E n \in 1..MaxRun : Alloc(n) \/ Refuse(n)
  \/ \E r \in held : Free(r)

AbsSpec == AbsInit /\ [][AbsNext]_absVars
=============================================================================
