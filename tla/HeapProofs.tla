------------------------------ MODULE HeapProofs ------------------------------
(***************************************************************************)
(* Proofs about Heap, for every memory map, size of a page, sizes of blocks*)
(* and contents, as long as no caller makes a block smaller (the run       *)
(* HeapShrink shows what happens then): the headers form one ring, no page *)
(* is leaked, and blocks keep their contents.                              *)
(***************************************************************************)
EXTENDS Heap, TLAPS

(* pmm_init counts the pages. *)
LEMMA CountIsNat == PageCount \in Nat
<1> DEFINE IsTop(i) == i \in Usable /\ \A j \in Usable : EntryEnd(j) <= EntryEnd(i)
           Entries == [base : Nat, length : Nat \ {0}, usable : BOOLEAN]
<1>1. \A i \in Usable : EntryEnd(i) \in Nat
  <2>1. Memmap \in Seq(Entries)
    BY MemmapAssumption
  <2>2. \A i \in DOMAIN Memmap : Memmap[i] \in Entries
    <3> HIDE DEF Entries
    <3> QED BY <2>1
  <2>3. ASSUME NEW i \in Usable PROVE Memmap[i].base \in Nat /\ Memmap[i].length \in Nat
    <3>1. Memmap[i] \in Entries
      BY <2>2 DEF Usable
    <3> QED
      BY <3>1
  <2> QED
    BY <2>3 DEF EntryEnd
<1>2. \E i : IsTop(i)
  BY MemmapAssumption
<1>3. IsTop(CHOOSE i \in Usable : \A j \in Usable : EntryEnd(j) <= EntryEnd(i))
  BY <1>2
<1> QED
  BY <1>1, <1>3 DEF PageCount

-----------------------------------------------------------------------------
(* Units and pages. *)
PageOf(u) == u \div PageUnits

LEMMA Division ==
  ASSUME NEW c \in Nat \ {0}, NEW p \in Nat, NEW k \in Nat
  PROVE  /\ p * c + k \in Nat
         /\ (p * c + k) \div c = p + (k \div c)
  OBVIOUS

LEMMA Quotient ==
  ASSUME NEW c \in Nat \ {0}, NEW k \in Nat
  PROVE  k \div c \in Nat /\ (k \div c) * c <= k /\ k < (k \div c) * c + c
  OBVIOUS

LEMMA Monotone ==
  ASSUME NEW c \in Nat \ {0}, NEW k \in Nat, NEW n \in Nat, k <= n
  PROVE  k \div c <= n \div c
<1> DEFINE a == k \div c
           b == n \div c
<1>1. a \in Nat /\ b \in Nat /\ a * c <= k /\ n < b * c + c
  BY Quotient
<1> HIDE DEF a, b
<1>2. ASSUME b + 1 <= a PROVE FALSE
  <2>1. PICK d \in Nat : a = b + 1 + d
    <3>1. a - (b + 1) \in Nat /\ a = b + 1 + (a - (b + 1))
      BY <1>1, <1>2
    <3> QED
      BY <3>1
  <2>2. a * c = b * c + c + d * c /\ d * c \in Nat
    BY <1>1, <2>1
  <2>3. a * c \in Int /\ b * c \in Int
    BY <1>1
  <2> QED
    BY <1>1, <2>2, <2>3
<1>3. a <= b
  BY <1>1, <1>2
<1> QED
  BY <1>3 DEF a, b

(* A block's units lie in the pages that are allocated for it. *)
LEMMA Covered ==
  ASSUME NEW n \in Nat
  PROVE  /\ PagesFor(n) \in Nat \ {0}
         /\ \A k \in 0..n : k \div PageUnits \in 0..(PagesFor(n) - 1)
<1>1. PageUnits \in Nat \ {0}
  BY HeapAssumption
<1>2. PagesFor(n) = 1 + (n \div PageUnits)
  <2>1. 1 + n + PageUnits - 1 = 1 * PageUnits + n
    BY <1>1
  <2>2. (1 * PageUnits + n) \div PageUnits = 1 + (n \div PageUnits)
    BY <1>1, Division
  <2> QED
    BY <2>1, <2>2 DEF PagesFor
<1>3. n \div PageUnits \in Nat
  BY <1>1, Quotient
<1>4. ASSUME NEW k \in 0..n PROVE k \div PageUnits \in 0..(PagesFor(n) - 1)
  <2>1. k \in Nat /\ k <= n
    OBVIOUS
  <2>2. k \div PageUnits \in Nat /\ k \div PageUnits <= n \div PageUnits
    BY <1>1, <2>1, Quotient, Monotone
  <2> QED
    BY <1>2, <1>3, <2>2
<1> QED
  BY <1>2, <1>3, <1>4

LEMMA Units ==
  ASSUME NEW p \in Nat
  PROVE  /\ Unit(p) \in Nat /\ PageOf(Unit(p)) = p
         /\ \A k \in Nat : Unit(p) + k \in Nat /\ PageOf(Unit(p) + k) = p + (k \div PageUnits)
<1>1. PageUnits \in Nat \ {0}
  BY HeapAssumption
<1>2. \A k \in Nat : p * PageUnits + k \in Nat
                     /\ (p * PageUnits + k) \div PageUnits = p + (k \div PageUnits)
  BY <1>1, Division
<1>3. p * PageUnits \in Nat /\ p * PageUnits = p * PageUnits + 0
  BY <1>1
<1>4. 0 \div PageUnits = 0
  BY <1>1
<1> QED
  BY <1>2, <1>3, <1>4 DEF Unit, PageOf
-----------------------------------------------------------------------------
(* Rings: P is one circle through h, in both directions. *)
Circle(P, h, nxt, prv) ==
  /\ h \in P
  /\ \A p \in P : nxt[p] \in P /\ prv[p] \in P /\ prv[nxt[p]] = p /\ nxt[prv[p]] = p
  /\ \A S \in SUBSET P : h \in S /\ (\A p \in S : nxt[p] \in S) => S = P

LEMMA SameCircle ==
  ASSUME NEW P, NEW h, NEW nxt, NEW prv, NEW nxt2, NEW prv2, Circle(P, h, nxt, prv),
         \A p \in P : nxt2[p] = nxt[p] /\ prv2[p] = prv[p]
  PROVE  Circle(P, h, nxt2, prv2)
<1>1. h \in P /\ \A p \in P : /\ nxt2[p] \in P /\ prv2[p] \in P
                            /\ prv2[nxt2[p]] = p /\ nxt2[prv2[p]] = p
  BY DEF Circle
<1>2. ASSUME NEW S \in SUBSET P, h \in S, \A p \in S : nxt2[p] \in S
      PROVE  S = P
  <2>1. \A p \in S : nxt[p] \in S
    BY <1>2
  <2> QED
    BY <1>2, <2>1 DEF Circle
<1> QED
  BY <1>1, <1>2 DEF Circle

(* Something new is put before h. *)
Insertion(P, h, x, nxt, prv, nxt2, prv2) ==
  /\ x \notin P
  /\ nxt2[x] = h /\ nxt2[prv[h]] = x /\ \A p \in P : p # prv[h] => nxt2[p] = nxt[p]
  /\ prv2[x] = prv[h] /\ prv2[h] = x /\ \A p \in P : p # h => prv2[p] = prv[p]

LEMMA Inserted ==
  ASSUME NEW P, NEW h, NEW x, NEW nxt, NEW prv, NEW nxt2, NEW prv2,
         Circle(P, h, nxt, prv), Insertion(P, h, x, nxt, prv, nxt2, prv2)
  PROVE  Circle(P \cup {x}, h, nxt2, prv2)
<1> USE DEF Insertion
<1> DEFINE Q == P \cup {x}
<1>1. h \in P /\ prv[h] \in P /\ nxt[prv[h]] = h
  BY DEF Circle
<1>2. \A p \in Q : nxt2[p] \in Q /\ prv2[p] \in Q /\ prv2[nxt2[p]] = p /\ nxt2[prv2[p]] = p
  <2>1. nxt2[x] \in Q /\ prv2[x] \in Q /\ prv2[nxt2[x]] = x /\ nxt2[prv2[x]] = x
    BY <1>1
  <2>2. ASSUME NEW p \in P, p # prv[h] PROVE nxt2[p] \in Q /\ prv2[nxt2[p]] = p
    BY <2>2, <1>1 DEF Circle
  <2>3. nxt2[prv[h]] \in Q /\ prv2[nxt2[prv[h]]] = prv[h]
    OBVIOUS
  <2>4. ASSUME NEW p \in P, p # h PROVE prv2[p] \in Q /\ nxt2[prv2[p]] = p
    BY <2>4, <1>1 DEF Circle
  <2>5. prv2[h] \in Q /\ nxt2[prv2[h]] = h
    OBVIOUS
  <2> QED
    BY <2>1, <2>2, <2>3, <2>4, <2>5
<1>3. ASSUME NEW S \in SUBSET Q, h \in S, \A p \in S : nxt2[p] \in S
      PROVE  S = Q
  <2> DEFINE T == S \cap P
  <2>1. \A p \in T : nxt[p] \in T
    BY <1>1, <1>3 DEF Circle
  <2>2. T = P
    BY <1>1, <1>3, <2>1 DEF Circle
  <2>3. x \in S
    BY <1>1, <1>3, <2>2
  <2> QED
    BY <2>2, <2>3
<1> QED
  BY <1>1, <1>2, <1>3 DEF Circle

(* Something other than h is taken out. *)
Removal(P, h, x, nxt, prv, nxt2, prv2) ==
  /\ x \in P /\ x # h
  /\ nxt2[prv[x]] = nxt[x] /\ \A p \in P : p \notin {x, prv[x]} => nxt2[p] = nxt[p]
  /\ prv2[nxt[x]] = prv[x] /\ \A p \in P : p \notin {x, nxt[x]} => prv2[p] = prv[p]

LEMMA Removed ==
  ASSUME NEW P, NEW h, NEW x, NEW nxt, NEW prv, NEW nxt2, NEW prv2,
         Circle(P, h, nxt, prv), Removal(P, h, x, nxt, prv, nxt2, prv2)
  PROVE  Circle(P \ {x}, h, nxt2, prv2)
<1> USE DEF Removal
<1> DEFINE Q == P \ {x}
<1>1. nxt[x] # x /\ prv[x] # x
  <2>1. ASSUME nxt[x] = x \/ prv[x] = x PROVE FALSE
    <3>1. prv[x] = x /\ h \in Q
      BY <2>1 DEF Circle
    <3>2. \A p \in Q : nxt[p] \in Q
      BY <3>1 DEF Circle
    <3> QED
      BY <3>1, <3>2 DEF Circle
  <2> QED
    BY <2>1
<1>2. nxt[x] \in Q /\ prv[x] \in Q /\ prv[nxt[x]] = x /\ nxt[prv[x]] = x /\ h \in Q
  BY <1>1 DEF Circle
<1>3. \A p \in Q : nxt2[p] \in Q /\ prv2[p] \in Q /\ prv2[nxt2[p]] = p /\ nxt2[prv2[p]] = p
  <2>1. ASSUME NEW p \in Q, p # prv[x] PROVE nxt2[p] \in Q /\ prv2[nxt2[p]] = p
    <3>1. nxt2[p] = nxt[p] /\ nxt[p] \in P /\ prv[nxt[p]] = p
      BY <2>1 DEF Circle
    <3>2. nxt[p] # x /\ nxt[p] # nxt[x]
      BY <2>1, <3>1 DEF Circle
    <3> QED
      BY <3>1, <3>2
  <2>2. ASSUME NEW p \in Q, p # nxt[x] PROVE prv2[p] \in Q /\ nxt2[prv2[p]] = p
    <3>1. prv2[p] = prv[p] /\ prv[p] \in P /\ nxt[prv[p]] = p
      BY <2>2 DEF Circle
    <3>2. prv[p] # x /\ prv[p] # prv[x]
      BY <2>2, <3>1 DEF Circle
    <3> QED
      BY <3>1, <3>2
  <2> QED
    BY <1>2, <2>1, <2>2
<1>4. ASSUME NEW S \in SUBSET Q, h \in S, \A p \in S : nxt2[p] \in S
      PROVE  S = Q
  <2> DEFINE T == S \cup {y \in {x} : prv[x] \in S}
  <2>1. \A p \in T : nxt[p] \in T
    <3>1. ASSUME NEW p \in S, p # prv[x] PROVE nxt[p] \in S
      BY <1>4, <3>1
    <3>2. prv[x] \in S => nxt[x] \in S
      BY <1>4
    <3> QED
      BY <1>2, <3>1, <3>2
  <2>2. T \in SUBSET P /\ h \in T
    BY <1>4
  <2>3. T = P
    <3> HIDE DEF T
    <3> QED
      BY <2>1, <2>2 DEF Circle
  <2> QED
    BY <1>4, <2>3
<1> QED
  BY <1>2, <1>3, <1>4 DEF Circle
-----------------------------------------------------------------------------
(* Memory, whose cells are plain or headers. *)
Headers ==
  [magic : {TRUE}, next : 0..PageCount, prev : 0..PageCount, size : Sizes \cup {0}]
Plain == [magic : {FALSE}, value : Values \cup {NULL}]
Places == 0..(Unit(PageCount + MaxRun) - 1)
Memories == [Places -> Plain \cup Headers]

LEMMA Addressed ==
  /\ \A p \in 0..PageCount : Unit(p) \in Places
  /\ \A u \in Nat : PageOf(u) < PageCount => u \in Places
<1>1. PageUnits \in Nat \ {0} /\ PageCount \in Nat /\ MaxRun \in Nat \ {0}
  BY HeapAssumption, CountIsNat
<1>2. ASSUME NEW p \in Nat, p < PageCount + MaxRun, NEW u \in Nat, u < p * PageUnits + PageUnits
      PROVE  u \in Places
  <2>1. PICK d \in Nat : PageCount + MaxRun = p + 1 + d
    <3>1. PageCount + MaxRun - (p + 1) \in Nat
      BY <1>1, <1>2
    <3> QED
      BY <1>1, <3>1
  <2>2. /\ (p + 1 + d) * PageUnits = p * PageUnits + PageUnits + d * PageUnits
        /\ d * PageUnits \in Nat /\ p * PageUnits \in Nat
    BY <1>1
  <2>3. u < (PageCount + MaxRun) * PageUnits
    BY <1>1, <1>2, <2>1, <2>2
  <2>4. (PageCount + MaxRun) * PageUnits \in Nat
    BY <1>1
  <2> QED
    BY <2>3, <2>4 DEF Places, Unit
<1>3. ASSUME NEW p \in 0..PageCount PROVE Unit(p) \in Places
  <2>1. p \in Nat /\ p < PageCount + MaxRun /\ p * PageUnits \in Nat
    BY <1>1
  <2>2. p * PageUnits < p * PageUnits + PageUnits
    BY <1>1, <2>1
  <2> QED
    BY <1>2, <2>1, <2>2 DEF Unit
<1>4. ASSUME NEW u \in Nat, PageOf(u) < PageCount PROVE u \in Places
  <2>1. /\ PageOf(u) \in Nat /\ u < PageOf(u) * PageUnits + PageUnits
        /\ PageOf(u) < PageCount + MaxRun
    BY <1>1, <1>4, Quotient DEF PageOf
  <2> QED
    BY <1>2, <2>1
<1> QED
  BY <1>3, <1>4

LEMMA OneUnit == \A p, q \in 0..PageCount : Unit(p) = Unit(q) => p = q
<1>1. \A p \in 0..PageCount : PageOf(Unit(p)) = p
  BY Units, CountIsNat
<1> QED
  BY <1>1

(* The ring of the headers on the pages P in memory m. *)
Nexts(m, P) == [p \in P |-> m[Unit(p)].next]
Prevs(m, P) == [p \in P |-> m[Unit(p)].prev]

RingIn(m, P) ==
  /\ \A p \in P : m[Unit(p)].magic
  /\ Circle(P, ListHead, Nexts(m, P), Prevs(m, P))

LEMMA RingKept ==
  ASSUME NEW m, NEW n, NEW P, RingIn(m, P), \A p \in P : n[Unit(p)] = m[Unit(p)]
  PROVE  RingIn(n, P)
<1>1. Nexts(n, P) = Nexts(m, P) /\ Prevs(n, P) = Prevs(m, P)
  BY DEF Nexts, Prevs
<1> QED
  BY <1>1 DEF RingIn

LEMMA RingIsRing == Ring <=> RingIn(mem, Pages)
<1>1. ListHead \in Pages
  BY DEF Pages
<1> QED
  BY <1>1 DEF Ring, RingIn, Circle, Nexts, Prevs, hdr

LEMMA HeaderCell ==
  ASSUME NEW u \in Plain \cup Headers, u.magic
  PROVE  u \in Headers
  BY DEF Plain, Headers

LEMMA SetFields ==
  ASSUME NEW u \in Headers, NEW p \in 0..PageCount
  PROVE  /\ SetField(u, "next", p) \in Headers /\ SetField(u, "prev", p) \in Headers
         /\ SetField(u, "next", p).next = p /\ SetField(u, "next", p).prev = u.prev
         /\ SetField(u, "prev", p).prev = p /\ SetField(u, "prev", p).next = u.next
         /\ SetField(u, "next", p).size = u.size /\ SetField(u, "prev", p).size = u.size
  BY DEF SetField, Headers

(* Only headers of P or of x differ between m and n. *)
Elsewhere(m, n, P) ==
  \A u \in Places : (\A p \in P : u # Unit(p)) => n[u] = m[u]

(* One field of one header is written. *)
NextIs(m, n, P, a, y) ==
  /\ n \in Memories /\ Elsewhere(m, n, P)
  /\ \A p \in P : /\ n[Unit(p)] \in Headers
                  /\ n[Unit(p)].next = IF p = a THEN y ELSE m[Unit(p)].next
                  /\ n[Unit(p)].prev = m[Unit(p)].prev
                  /\ n[Unit(p)].size = m[Unit(p)].size

PrevIs(m, n, P, a, y) ==
  /\ n \in Memories /\ Elsewhere(m, n, P)
  /\ \A p \in P : /\ n[Unit(p)] \in Headers
                  /\ n[Unit(p)].prev = IF p = a THEN y ELSE m[Unit(p)].prev
                  /\ n[Unit(p)].next = m[Unit(p)].next
                  /\ n[Unit(p)].size = m[Unit(p)].size

LEMMA NextSet ==
  ASSUME NEW m \in Memories, NEW P \in SUBSET (0..PageCount),
         \A p \in P : m[Unit(p)] \in Headers, NEW a \in P, NEW y \in 0..PageCount
  PROVE  NextIs(m, SetNext(m, a, y), P, a, y)
<1> DEFINE c == SetField(m[Unit(a)], "next", y)
           n == SetNext(m, a, y)
<1>1. \A p \in P : Unit(p) \in Places /\ (Unit(p) = Unit(a) => p = a)
  BY Addressed, OneUnit
<1>2. /\ c \in Headers /\ c.next = y /\ c.prev = m[Unit(a)].prev
      /\ c.size = m[Unit(a)].size
  BY SetFields
<1>3. n = [m EXCEPT ![Unit(a)] = c]
  BY DEF SetNext
<1> HIDE DEF c, n
<1>4. n \in Memories /\ n[Unit(a)] = c /\ \A u \in Places : u # Unit(a) => n[u] = m[u]
  BY <1>1, <1>2, <1>3 DEF Memories
<1>5. Elsewhere(m, n, P)
  BY <1>4 DEF Elsewhere
<1>6. ASSUME NEW p \in P
      PROVE  /\ n[Unit(p)] \in Headers
             /\ n[Unit(p)].next = IF p = a THEN y ELSE m[Unit(p)].next
             /\ n[Unit(p)].prev = m[Unit(p)].prev
             /\ n[Unit(p)].size = m[Unit(p)].size
  <2>1. CASE p = a
    BY <1>2, <1>4, <2>1
  <2>2. CASE p # a
    BY <1>1, <1>4, <2>2
  <2> QED
    BY <2>1, <2>2
<1> QED
  BY <1>4, <1>5, <1>6 DEF n, NextIs

LEMMA PrevSet ==
  ASSUME NEW m \in Memories, NEW P \in SUBSET (0..PageCount),
         \A p \in P : m[Unit(p)] \in Headers, NEW a \in P, NEW y \in 0..PageCount
  PROVE  PrevIs(m, SetPrev(m, a, y), P, a, y)
<1> DEFINE c == SetField(m[Unit(a)], "prev", y)
           n == SetPrev(m, a, y)
<1>1. \A p \in P : Unit(p) \in Places /\ (Unit(p) = Unit(a) => p = a)
  BY Addressed, OneUnit
<1>2. /\ c \in Headers /\ c.prev = y /\ c.next = m[Unit(a)].next
      /\ c.size = m[Unit(a)].size
  BY SetFields
<1>3. n = [m EXCEPT ![Unit(a)] = c]
  BY DEF SetPrev
<1> HIDE DEF c, n
<1>4. n \in Memories /\ n[Unit(a)] = c /\ \A u \in Places : u # Unit(a) => n[u] = m[u]
  BY <1>1, <1>2, <1>3 DEF Memories
<1>5. Elsewhere(m, n, P)
  BY <1>4 DEF Elsewhere
<1>6. ASSUME NEW p \in P
      PROVE  /\ n[Unit(p)] \in Headers
             /\ n[Unit(p)].prev = IF p = a THEN y ELSE m[Unit(p)].prev
             /\ n[Unit(p)].next = m[Unit(p)].next
             /\ n[Unit(p)].size = m[Unit(p)].size
  <2>1. CASE p = a
    BY <1>2, <1>4, <2>1
  <2>2. CASE p # a
    BY <1>1, <1>4, <2>2
  <2> QED
    BY <2>1, <2>2
<1> QED
  BY <1>4, <1>5, <1>6 DEF n, PrevIs

LEMMA RingHeaders ==
  ASSUME NEW m \in Memories, NEW P \in SUBSET (0..PageCount), RingIn(m, P)
  PROVE  \A p \in P : /\ m[Unit(p)] \in Headers
                      /\ m[Unit(p)].next \in P /\ m[Unit(p)].prev \in P
<1>1. \A p \in P : m[Unit(p)] \in Headers
  BY HeaderCell, Addressed DEF Memories, RingIn
<1>2. \A p \in P : m[Unit(p)].next \in P /\ m[Unit(p)].prev \in P
  BY DEF RingIn, Circle, Nexts, Prevs
<1> QED
  BY <1>1, <1>2

(* The ring with a block of n units on page x, and without page x. *)
LinkedIn(L, P, x, n) ==
  /\ L \in Memories /\ RingIn(L, P \cup {x})
  /\ L[Unit(x)].size = n
  /\ \A p \in P : L[Unit(p)].size = mem[Unit(p)].size
  /\ Elsewhere(mem, L, P \cup {x})

UnlinkedFrom(m, U, P, x) ==
  /\ U \in Memories /\ RingIn(U, P \ {x})
  /\ \A p \in P : U[Unit(p)].size = m[Unit(p)].size
  /\ Elsewhere(m, U, P)

(* heap_alloc puts a header into the ring. *)
LEMMA Linking ==
  ASSUME mem \in Memories, NEW P \in SUBSET (0..PageCount), RingIn(mem, P),
         NEW x \in 0..PageCount, x \notin P, NEW n \in Sizes
  PROVE  LinkedIn(Linked(x, n), P, x, n)
<1> DEFINE Q == P \cup {x}
           h == ListHead
           prev == hdr(ListHead).prev
           first == [mem EXCEPT ![Unit(x)] = Header(h, prev, n)]
           second == SetNext(first, prev, x)
           L == Linked(x, n)
<1>1. h \in P /\ prev \in P
  BY RingHeaders DEF RingIn, Circle, hdr
<1>2. \A p \in P : mem[Unit(p)] \in Headers /\ Unit(p) \in Places /\ Unit(p) # Unit(x)
  BY RingHeaders, Addressed, OneUnit
<1>3. Header(h, prev, n) \in Headers /\ Unit(x) \in Places
  BY <1>1, Addressed DEF Header, Headers
<1>4. L = SetPrev(second, h, x)
  BY DEF Linked
<1> HIDE DEF L, h, prev
<1>5. /\ first \in Memories /\ first[Unit(x)] = Header(h, prev, n)
      /\ \A u \in Places : u # Unit(x) => first[u] = mem[u]
  BY <1>3 DEF Memories
<1> HIDE DEF first
<1>6. \A p \in Q : first[Unit(p)] \in Headers
  BY <1>2, <1>3, <1>5
<1>7. NextIs(first, second, Q, prev, x)
  <2>1. Q \in SUBSET (0..PageCount) /\ prev \in Q
    BY <1>1
  <2> HIDE DEF Q
  <2> QED
    BY <1>5, <1>6, <2>1, NextSet
<1> HIDE DEF second
<1>8. PrevIs(second, L, Q, h, x)
  <2>1. Q \in SUBSET (0..PageCount) /\ h \in Q
    BY <1>1
  <2>2. second \in Memories /\ \A p \in Q : second[Unit(p)] \in Headers
    BY <1>7 DEF NextIs
  <2> HIDE DEF Q
  <2> QED
    BY <1>4, <2>1, <2>2, PrevSet
<1> USE <1>7, <1>8 DEF NextIs, PrevIs
<1>9. /\ first[Unit(x)].next = h /\ first[Unit(x)].prev = prev /\ first[Unit(x)].size = n
      /\ \A p \in P : first[Unit(p)] = mem[Unit(p)]
  BY <1>2, <1>5 DEF Header
<1>10. RingIn(L, Q)
  <2> DEFINE nxt == Nexts(mem, P)
             prv == Prevs(mem, P)
             nxt2 == Nexts(L, Q)
             prv2 == Prevs(L, Q)
  <2>1. prv[h] = prev
    BY <1>1 DEF Prevs, hdr, h, prev
  <2>2. nxt2[x] = h /\ prv2[x] = prev
    BY <1>1, <1>7, <1>8, <1>9 DEF Nexts, Prevs
  <2>3. nxt2[prev] = x /\ prv2[h] = x
    BY <1>1, <1>7, <1>8 DEF Nexts, Prevs
  <2>4. \A p \in P : p # prev => nxt2[p] = nxt[p]
    BY <1>7, <1>8, <1>9 DEF Nexts
  <2>5. \A p \in P : p # h => prv2[p] = prv[p]
    BY <1>7, <1>8, <1>9 DEF Prevs
  <2>6. Circle(P, h, nxt, prv)
    BY DEF RingIn, h
  <2> HIDE DEF nxt, prv, nxt2, prv2
  <2>7. Insertion(P, h, x, nxt, prv, nxt2, prv2)
    BY <2>1, <2>2, <2>3, <2>4, <2>5 DEF Insertion
  <2>8. Circle(Q, h, nxt2, prv2)
    BY <2>6, <2>7, Inserted
  <2>9. \A p \in Q : L[Unit(p)].magic
    BY <1>8 DEF Headers
  <2> QED
    BY <2>8, <2>9 DEF RingIn, nxt2, prv2, h
<1>11. Elsewhere(mem, L, Q)
  BY <1>5, <1>7, <1>8 DEF Elsewhere
<1>12. L[Unit(x)].size = n /\ \A p \in P : L[Unit(p)].size = mem[Unit(p)].size
  BY <1>7, <1>8, <1>9
<1> QED
  BY <1>8, <1>10, <1>11, <1>12 DEF L, LinkedIn

(* heap_free takes one out. *)
LEMMA Unlinking ==
  ASSUME NEW m \in Memories, NEW P \in SUBSET (0..PageCount), RingIn(m, P),
         NEW x \in P, x # ListHead
  PROVE  UnlinkedFrom(m, Unlinked(m, x), P, x)
<1> DEFINE Q == P \ {x}
           h == ListHead
           prev == m[Unit(x)].prev
           next == m[Unit(x)].next
           first == SetNext(m, prev, next)
           U == Unlinked(m, x)
<1>1. next \in P /\ prev \in P /\ \A p \in P : m[Unit(p)] \in Headers
  BY RingHeaders
<1>2. U = SetPrev(first, next, prev)
  BY DEF Unlinked
<1>3. x # h
  OBVIOUS
<1> HIDE DEF U, h
<1>4. NextIs(m, first, P, prev, next)
  <2>1. next \in 0..PageCount
    BY <1>1
  <2> HIDE DEF prev, next
  <2> QED
    BY <1>1, <2>1, NextSet
<1> HIDE DEF first
<1>5. PrevIs(first, U, P, next, prev)
  <2>1. prev \in 0..PageCount
    BY <1>1
  <2>2. first \in Memories /\ \A p \in P : first[Unit(p)] \in Headers
    BY <1>4 DEF NextIs
  <2> HIDE DEF prev, next
  <2> QED
    BY <1>1, <1>2, <2>1, <2>2, PrevSet
<1> USE <1>4, <1>5 DEF NextIs, PrevIs
<1>6. RingIn(U, Q)
  <2> DEFINE nxt == Nexts(m, P)
             prv == Prevs(m, P)
             nxt2 == Nexts(U, Q)
             prv2 == Prevs(U, Q)
             nxt3 == Nexts(U, P)
             prv3 == Prevs(U, P)
  <2>1. prv[x] = prev /\ nxt[x] = next
    BY DEF Prevs, Nexts
  <2>2. nxt3[prev] = next /\ prv3[next] = prev
    BY <1>1, <1>4, <1>5 DEF Nexts, Prevs
  <2>3. \A p \in P : p # prev => nxt3[p] = nxt[p]
    BY <1>4, <1>5 DEF Nexts
  <2>4. \A p \in P : p # next => prv3[p] = prv[p]
    BY <1>4, <1>5 DEF Prevs
  <2>5. Circle(P, h, nxt, prv)
    BY DEF RingIn, h
  <2>6. \A p \in Q : nxt3[p] = nxt2[p] /\ prv3[p] = prv2[p]
    BY DEF Nexts, Prevs
  <2> HIDE DEF nxt, prv, nxt2, prv2, nxt3, prv3, prev, next
  <2>7. Removal(P, h, x, nxt, prv, nxt3, prv3)
    BY <1>3, <2>1, <2>2, <2>3, <2>4 DEF Removal
  <2>8. Circle(Q, h, nxt3, prv3)
    BY <2>5, <2>7, Removed
  <2>9. Circle(Q, h, nxt2, prv2)
    <3>1. \A p \in Q : nxt2[p] = nxt3[p] /\ prv2[p] = prv3[p]
      BY <2>6
    <3> HIDE DEF Q
    <3> QED
      BY <2>8, <3>1, SameCircle
  <2>10. \A p \in Q : U[Unit(p)].magic
    BY <1>5 DEF Headers
  <2> QED
    BY <2>9, <2>10 DEF RingIn, nxt2, prv2, h
<1>7. Elsewhere(m, U, P)
  BY <1>4, <1>5 DEF Elsewhere
<1>8. \A p \in P : U[Unit(p)].size = m[Unit(p)].size
  BY <1>4, <1>5
<1> QED
  BY <1>5, <1>6, <1>7, <1>8 DEF U, UnlinkedFrom
-----------------------------------------------------------------------------
(* The runs that the page allocator has handed out do not overlap. *)
Disjoint(H) ==
  /\ \A r \in H : r[1] \in 1..PageCount /\ r[2] \in Nat \ {0} /\ r[1] + r[2] <= PageCount
  /\ \A r, q \in H : r # q => Run(r[1], r[2]) \cap Run(q[1], q[2]) = {}

AllocInv ==
  /\ Disjoint(held)
  /\ \A r \in held : Run(r[1], r[2]) \subseteq used
  /\ reply \in 0..PageCount

(* Page x is in no run of H. *)
Outside(x, H) == \A r \in H : x \notin Run(r[1], r[2])

LEMMA AllocGrants ==
  ASSUME AllocInv, NEW n \in Nat \ {0}, Alloc(n)
  PROVE  /\ AllocInv' /\ reply' \in 1..PageCount
         /\ held' = held \cup {<<reply', n>>}
         /\ Outside(reply', held)
<1>1. PICK s \in 1..PageCount : FreeRun(s, n) /\ Grant(s, n)
  BY DEF Alloc, NextFit
<1>2. /\ reply' = s /\ held' = held \cup {<<s, n>>} /\ used' = used \cup Run(s, n)
      /\ s + n <= PageCount /\ Run(s, n) \cap used = {}
  BY <1>1 DEF Grant, FreeRun
<1>3. s \in Run(s, n)
  BY CountIsNat DEF Run
<1>4. \A r \in held : Run(r[1], r[2]) \subseteq used /\ Run(r[1], r[2]) \cap Run(s, n) = {}
  BY <1>2 DEF AllocInv
<1>5. Disjoint(held')
  <2>1. /\ \A r \in held : r[1] \in 1..PageCount /\ r[2] \in Nat \ {0} /\ r[1] + r[2] <= PageCount
        /\ \A r, q \in held : r # q => Run(r[1], r[2]) \cap Run(q[1], q[2]) = {}
    BY DEF AllocInv, Disjoint
  <2>2. <<s, n>>[1] = s /\ <<s, n>>[2] = n
    OBVIOUS
  <2> QED
    BY <1>2, <1>4, <2>1, <2>2 DEF Disjoint
<1>6. \A r \in held' : Run(r[1], r[2]) \subseteq used'
  BY <1>2, <1>4
<1> QED
  BY <1>2, <1>3, <1>4, <1>5, <1>6 DEF AllocInv, Outside

LEMMA AllocRefuses ==
  ASSUME AllocInv, NEW n \in Nat \ {0}, Refuse(n)
  PROVE  AllocInv' /\ reply' = 0 /\ held' = held /\ Outside(0, held)
<1>1. ASSUME NEW r \in held PROVE 0 \notin Run(r[1], r[2])
  <2>1. r[1] \in 1..PageCount
    BY DEF AllocInv, Disjoint
  <2> QED
    BY <2>1 DEF Run
<1>2. reply' = 0 /\ held' = held /\ used' = used
  BY DEF Refuse
<1>3. AllocInv'
  BY <1>2, CountIsNat DEF AllocInv, Disjoint
<1> QED
  BY <1>1, <1>2, <1>3 DEF Outside

LEMMA AllocFrees ==
  ASSUME AllocInv, NEW r \in held, Free(r)
  PROVE  AllocInv' /\ held' = held \ {r}
<1>1. held' = held \ {r} /\ used' = used \ Run(r[1], r[2]) /\ reply' = reply
  BY DEF Free
<1>2. \A q \in held' : Run(q[1], q[2]) \subseteq used'
  BY <1>1 DEF AllocInv, Disjoint
<1>3. Disjoint(held')
  BY <1>1 DEF AllocInv, Disjoint
<1> QED
  BY <1>1, <1>2, <1>3 DEF AllocInv

LEMMA AllocStays == AllocInv /\ UNCHANGED absVars => AllocInv'
  BY DEF AllocInv, Disjoint, absVars
-----------------------------------------------------------------------------
(* The heap with memory m and blocks O on the runs H. *)
Blocks == [page : 0..PageCount, size : Sizes, value : Values \cup {NULL}, len : Nat]
RunOf(b) == Run(b.page, PagesFor(b.size))
PagesIn(O) == {b.page : b \in O} \cup {ListHead}

Contents(m, O) == \A b \in O : \A k \in 1..b.len : m[Unit(b.page) + k] = Datum(b.value)

Sound(m, O, H) ==
  /\ m \in Memories
  /\ heap.page \in 1..PageCount /\ ListHead \in 1..PageCount
  /\ O \subseteq Blocks
  /\ \A b \in O : b.page # 0 /\ b.page # heap.page /\ b.page # ListHead
  /\ \A b, c \in O : b.page = c.page => b = c
  /\ \A b \in O : b.len <= b.size /\ m[Unit(b.page)].size = b.size
  /\ RingIn(m, PagesIn(O))
  /\ Contents(m, O)
  /\ H = {<<b.page, PagesFor(b.size)>> : b \in O} \cup {<<heap.page, 1>>, <<ListHead, 1>>}

LEMMA Typed ==
  ASSUME NEW m, NEW O, NEW H, Sound(m, O, H), NEW b \in O
  PROVE  /\ b.page \in Nat /\ b.page \in 0..PageCount /\ Unit(b.page) \in Nat
         /\ b.size \in Sizes /\ b.size \in Nat /\ PagesFor(b.size) \in Nat \ {0}
         /\ b.len \in Nat /\ b.len <= b.size /\ b.value \in Values \cup {NULL}
<1>1. b \in Blocks /\ b.len <= b.size
  BY DEF Sound
<1>2. /\ b.page \in 0..PageCount /\ b.size \in Sizes /\ b.len \in Nat
      /\ b.value \in Values \cup {NULL}
  BY <1>1 DEF Blocks
<1>3. b.page \in Nat /\ b.size \in Nat
  <2>1. 0..PageCount \subseteq Nat
    BY CountIsNat
  <2>2. Sizes \subseteq Nat
    BY HeapAssumption
  <2> QED
    BY <1>2, <2>1, <2>2
<1> QED
  BY <1>1, <1>2, <1>3, Units, Covered

LEMMA Apart ==
  ASSUME NEW m, NEW O, NEW H, Sound(m, O, H), Disjoint(H)
  PROVE  /\ \A b \in O : \A k \in 0..b.size : /\ Unit(b.page) + k \in Places
                                              /\ PageOf(Unit(b.page) + k) \in RunOf(b)
         /\ \A b \in O : \A p \in PagesIn(O) : p # b.page => p \notin RunOf(b)
         /\ \A b, c \in O : b # c => RunOf(b) \cap RunOf(c) = {}
         /\ PagesIn(O) \in SUBSET (0..PageCount)
<1>1. \A b \in O : /\ b \in Blocks /\ b.page \in 0..PageCount /\ b.size \in Sizes /\ b.size \in Nat
                   /\ <<b.page, PagesFor(b.size)>> \in H /\ b.page # ListHead
                   /\ b.page \in Nat /\ PagesFor(b.size) \in Nat \ {0}
  <2>1. \A b \in O : /\ b \in Blocks /\ <<b.page, PagesFor(b.size)>> \in H
                     /\ b.page # ListHead
    BY DEF Sound
  <2> QED
    BY <2>1, Typed
<1>2. <<ListHead, 1>> \in H /\ ListHead \in 1..PageCount /\ ListHead \in 0..PageCount
  BY CountIsNat DEF Sound
<1>3. \A p \in Nat, n \in Nat \ {0} : p \in Run(p, n)
  BY DEF Run
<1>4. ASSUME NEW b \in O, NEW c \in O, b # c
      PROVE  RunOf(b) \cap RunOf(c) = {}
  <2>1. b.page # c.page
    BY <1>4 DEF Sound
  <2>2. <<b.page, PagesFor(b.size)>> # <<c.page, PagesFor(c.size)>>
    BY <2>1
  <2> QED
    BY <1>1, <2>2 DEF Disjoint, RunOf
<1>5. ASSUME NEW b \in O, NEW p \in PagesIn(O), p # b.page
      PROVE  p \notin RunOf(b)
  <2>1. CASE p = ListHead
    <3>1. <<b.page, PagesFor(b.size)>> # <<ListHead, 1>>
      BY <1>1
    <3>2. p \in Run(ListHead, 1)
      BY <1>2, <1>3, <2>1
    <3> QED
      BY <1>1, <1>2, <3>1, <3>2 DEF Disjoint, RunOf
  <2>2. CASE p # ListHead
    <3>1. PICK c \in O : p = c.page
      BY <2>2 DEF PagesIn
    <3>2. c.page \in RunOf(c)
      BY <1>1, <1>3 DEF RunOf
    <3>3. c # b
      BY <1>5, <3>1
    <3> QED
      BY <1>4, <3>1, <3>2, <3>3
  <2> QED
    BY <2>1, <2>2
<1>6. ASSUME NEW b \in O, NEW k \in 0..b.size
      PROVE  /\ Unit(b.page) + k \in Places
             /\ PageOf(Unit(b.page) + k) \in RunOf(b)
  <2> DEFINE u == Unit(b.page) + k
             j == k \div PageUnits
  <2>1. b.page \in Nat /\ k \in Nat /\ PagesFor(b.size) \in Nat
    <3>1. b.page \in Nat /\ PagesFor(b.size) \in Nat /\ b.size \in Nat
      BY <1>1
    <3> QED
      BY <3>1
  <2>2. u \in Nat /\ PageOf(u) = b.page + j /\ j \in 0..(PagesFor(b.size) - 1)
    BY <1>1, <2>1, Units, Covered
  <2>3. b.page + PagesFor(b.size) <= PageCount
    <3>1. \A p, n : <<p, n>>[1] = p /\ <<p, n>>[2] = n
      OBVIOUS
    <3> QED
      BY <1>1, <3>1 DEF Disjoint
  <2> HIDE DEF u, j
  <2>4. PageOf(u) \in RunOf(b) /\ PageOf(u) < PageCount
    BY <2>1, <2>2, <2>3, CountIsNat DEF RunOf, Run
  <2> QED
    BY <2>2, <2>4, Addressed DEF u
<1>7. PagesIn(O) \in SUBSET (0..PageCount)
  BY <1>1, <1>2 DEF PagesIn
<1> QED
  BY <1>4, <1>5, <1>6, <1>7

(* A block is linked in on page x: nothing that was there is disturbed. *)
LEMMA Put ==
  ASSUME NEW O, NEW H, Sound(mem, O, H), Disjoint(H),
         NEW x \in 0..PageCount, Outside(x, H), NEW n \in Sizes
  PROVE  /\ x \notin PagesIn(O)
         /\ LinkedIn(Linked(x, n), PagesIn(O), x, n)
         /\ Contents(Linked(x, n), O)
<1> DEFINE P == PagesIn(O)
           L == Linked(x, n)
<1>1. /\ \A b \in O : <<b.page, PagesFor(b.size)>> \in H
      /\ <<ListHead, 1>> \in H /\ ListHead \in Nat
  BY DEF Sound
<1>2. \A b \in O : b.page \in Nat /\ PagesFor(b.size) \in Nat \ {0} /\ b.len \in Nat
                   /\ b.size \in Nat /\ b.len <= b.size
  BY Typed
<1>3. \A b \in O : x \notin RunOf(b)
  BY <1>1 DEF Outside, RunOf
<1>4. x \notin P
  <2>1. \A b \in O : b.page \in RunOf(b)
    BY <1>2 DEF RunOf, Run
  <2>2. ListHead \in Run(ListHead, 1) /\ x \notin Run(ListHead, 1)
    BY <1>1 DEF Run, Outside
  <2> QED
    BY <1>3, <2>1, <2>2 DEF PagesIn
<1>5. P \in SUBSET (0..PageCount)
  BY Apart
<1>6. LinkedIn(L, P, x, n)
  <2> HIDE DEF P, L
  <2>1. mem \in Memories /\ RingIn(mem, P)
    BY DEF Sound, P
  <2> QED
    BY <1>4, <1>5, <2>1, Linking DEF L
<1>7. Contents(L, O)
  <2>1. ASSUME NEW b \in O, NEW k \in 1..b.len
        PROVE  L[Unit(b.page) + k] = mem[Unit(b.page) + k]
    <3> DEFINE u == Unit(b.page) + k
    <3>1. b.page \in Nat /\ k \in Nat /\ k # 0 /\ k \in 0..b.size
      <4>1. b.page \in Nat /\ b.size \in Nat /\ b.len \in Nat /\ b.len <= b.size
        BY <1>2
      <4> QED
        BY <4>1
    <3>2. u \in Places /\ PageOf(u) \in RunOf(b)
      BY <3>1, Apart
    <3>3. \A p \in P \cup {x} : p # b.page => p \notin RunOf(b)
      BY <1>3, Apart
    <3>4. \A p \in P \cup {x} : PageOf(Unit(p)) = p
      <4>1. \A p \in P \cup {x} : p \in Nat
        BY <1>5, CountIsNat
      <4> QED
        BY <4>1, Units
    <3>5. u # Unit(b.page)
      <4>1. Unit(b.page) \in Nat
        BY <3>1, Units
      <4> QED
        BY <3>1, <4>1
    <3> HIDE DEF P
    <3>6. \A p \in P \cup {x} : u # Unit(p)
      BY <3>2, <3>3, <3>4, <3>5
    <3> QED
      BY <1>6, <3>2, <3>6 DEF LinkedIn, Elsewhere
  <2>2. Contents(mem, O)
    BY DEF Sound
  <2> QED
    BY <2>1, <2>2 DEF Contents
<1> QED
  BY <1>4, <1>6, <1>7

(* A new block. *)
LEMMA Grown ==
  ASSUME NEW O, NEW H, Sound(mem, O, H), Disjoint(H),
         NEW x \in 1..PageCount, Outside(x, H), NEW n \in Sizes
  PROVE  Sound(Linked(x, n), O \cup {Block(x, n, NULL, 0)}, H \cup {<<x, PagesFor(n)>>})
<1> DEFINE new == Block(x, n, NULL, 0)
           L == Linked(x, n)
           Q == O \cup {new}
           P == PagesIn(O)
<1>1. new.page = x /\ new.size = n /\ new.len = 0 /\ new \in Blocks
  <2>1. x \in 0..PageCount
    BY CountIsNat
  <2> QED
    BY <2>1 DEF Block, Blocks
<1> HIDE DEF new
<1>2. x \notin P /\ LinkedIn(L, P, x, n) /\ Contents(L, O)
  BY CountIsNat, Put
<1>3. PagesIn(Q) = P \cup {x}
  BY <1>1 DEF PagesIn
<1> HIDE DEF L
<1>4. L \in Memories /\ RingIn(L, PagesIn(Q))
  BY <1>2, <1>3 DEF LinkedIn
<1>5. \A b \in Q : b \in Blocks /\ b.page # 0 /\ b.page # ListHead
  BY <1>1, <1>2 DEF Sound, PagesIn
<1>6. \A b \in Q : b.page # heap.page
  <2>1. <<heap.page, 1>> \in H /\ heap.page \in Nat
    BY DEF Sound
  <2>2. heap.page # x
    BY <2>1 DEF Outside, Run
  <2> QED
    BY <1>1, <2>2 DEF Sound
<1>7. \A b, c \in Q : b.page = c.page => b = c
  BY <1>1, <1>2 DEF Sound, PagesIn
<1>8. \A b \in Q : b.len <= b.size /\ L[Unit(b.page)].size = b.size
  <2>1. \A b \in O : b.len <= b.size /\ L[Unit(b.page)].size = b.size
    BY <1>2 DEF Sound, PagesIn, LinkedIn
  <2>2. 0 <= n
    BY HeapAssumption
  <2> QED
    BY <1>1, <1>2, <2>1, <2>2 DEF LinkedIn
<1>9. Contents(L, Q)
  BY <1>1, <1>2 DEF Contents
<1>10. H \cup {<<x, PagesFor(n)>>}
         = {<<b.page, PagesFor(b.size)>> : b \in Q} \cup {<<heap.page, 1>>, <<ListHead, 1>>}
  BY <1>1 DEF Sound
<1>11. Q \subseteq Blocks /\ heap.page \in 1..PageCount /\ ListHead \in 1..PageCount
  BY <1>5 DEF Sound
<1>12. Sound(L, Q, H \cup {<<x, PagesFor(n)>>})
  <2> HIDE DEF Q
  <2> QED
    BY <1>4, <1>5, <1>6, <1>7, <1>8, <1>9, <1>10, <1>11 DEF Sound
<1> QED
  BY <1>12 DEF new, L

(* Block b becomes c: only its data changes. *)
LEMMA Rewritten ==
  ASSUME NEW m, NEW O, NEW H, Sound(m, O, H), Disjoint(H), NEW n \in Memories,
         NEW b \in O, NEW c \in Blocks, c.page = b.page, c.size = b.size, c.len <= c.size,
         \A u \in Places : u \notin (Unit(b.page) + 1)..(Unit(b.page) + b.size) => n[u] = m[u],
         \A k \in 1..c.len : n[Unit(b.page) + k] = Datum(c.value)
  PROVE  Sound(n, (O \ {b}) \cup {c}, H) /\ PagesIn((O \ {b}) \cup {c}) = PagesIn(O)
<1> DEFINE Q == (O \ {b}) \cup {c}
<1>1. PagesIn(Q) = PagesIn(O)
  BY DEF PagesIn
<1>2. /\ \A a \in Q : a \in Blocks /\ a.page # 0 /\ a.page # heap.page /\ a.page # ListHead
      /\ \A a, d \in Q : a.page = d.page => a = d
  BY DEF Sound
<1>3. ASSUME NEW u, u \in (Unit(b.page) + 1)..(Unit(b.page) + b.size)
      PROVE  /\ PageOf(u) \in RunOf(b)
             /\ u # Unit(b.page)
  <2>1. Unit(b.page) \in Nat /\ b.size \in Nat
    BY Typed
  <2>2. u - Unit(b.page) \in 0..b.size /\ u = Unit(b.page) + (u - Unit(b.page))
    BY <1>3, <2>1
  <2>3. PageOf(u) \in RunOf(b)
    BY <2>2, Apart
  <2> QED
    BY <1>3, <2>1, <2>3
<1>4. \A p \in PagesIn(O) : n[Unit(p)] = m[Unit(p)]
  <2>1. ASSUME NEW p \in PagesIn(O)
        PROVE  Unit(p) \in Places /\ Unit(p) \notin (Unit(b.page) + 1)..(Unit(b.page) + b.size)
    <3>1. p \in 0..PageCount /\ p \in Nat
      BY Apart, CountIsNat
    <3>2. Unit(p) \in Places /\ PageOf(Unit(p)) = p
      BY <3>1, Addressed, Units
    <3>3. p # b.page => p \notin RunOf(b)
      BY Apart
    <3> QED
      BY <1>3, <3>2, <3>3
  <2> QED
    BY <2>1
<1>5. RingIn(n, PagesIn(O))
  BY <1>4, RingKept DEF Sound
<1>6. \A a \in Q : a.len <= a.size /\ n[Unit(a.page)].size = a.size
  <2>1. \A a \in O : a.len <= a.size /\ n[Unit(a.page)].size = a.size
    BY <1>4 DEF Sound, PagesIn
  <2> QED
    BY <2>1
<1>7. ASSUME NEW a \in O \ {b}, NEW k \in 1..a.len
      PROVE  n[Unit(a.page) + k] = Datum(a.value)
  <2> DEFINE u == Unit(a.page) + k
  <2>1. a.size \in Nat /\ a.len \in Nat /\ a.len <= a.size
    BY Typed
  <2>2. k \in 0..a.size
    BY <2>1
  <2>3. u \in Places /\ PageOf(u) \in RunOf(a)
    BY <2>2, Apart
  <2>4. RunOf(a) \cap RunOf(b) = {}
    BY Apart
  <2>5. m[u] = Datum(a.value)
    BY DEF Sound, Contents
  <2> HIDE DEF u
  <2>6. u \notin (Unit(b.page) + 1)..(Unit(b.page) + b.size)
    BY <1>3, <2>3, <2>4
  <2>7. n[u] = Datum(a.value)
    BY <2>3, <2>5, <2>6
  <2> QED
    BY <2>7 DEF u
<1>8. Contents(n, Q)
  BY <1>7 DEF Contents
<1>9. H = {<<a.page, PagesFor(a.size)>> : a \in Q} \cup {<<heap.page, 1>>, <<ListHead, 1>>}
  BY DEF Sound
<1> QED
  BY <1>1, <1>2, <1>5, <1>6, <1>8, <1>9 DEF Sound

(* Memory m after the block on page is freed. *)
Freed(m, page, r) ==
  [u \in DOMAIN m |-> IF u \div PageUnits \in Run(r[1], r[2])
                      THEN Unwritten ELSE Unlinked(m, page)[u]]

LEMMA Gone ==
  ASSUME NEW m, NEW O, NEW H, Sound(m, O, H), Disjoint(H), NEW b \in O
  PROVE  LET r == <<b.page, PagesFor(b.size)>>
         IN  r \in H /\ Sound(Freed(m, b.page, r), O \ {b}, H \ {r})
<1> DEFINE r == <<b.page, PagesFor(b.size)>>
           x == b.page
           P == PagesIn(O)
           U == Unlinked(m, x)
           n == Freed(m, x, r)
           Q == O \ {b}
<1>1. /\ x \in P /\ x # ListHead /\ P \in SUBSET (0..PageCount)
      /\ PagesIn(Q) = P \ {x} /\ m \in Memories /\ RingIn(m, P)
  <2>1. x \in P /\ x # ListHead /\ PagesIn(Q) = P \ {x}
    BY DEF Sound, PagesIn
  <2>2. m \in Memories /\ RingIn(m, P)
    BY DEF Sound
  <2> QED
    BY <2>1, <2>2, Apart
<1>2. UnlinkedFrom(m, U, P, x)
  <2> HIDE DEF P, x, U
  <2> QED
    BY <1>1, Unlinking DEF U
<1>3. Run(r[1], r[2]) = RunOf(b)
  BY DEF RunOf
<1> HIDE DEF P, U
<1>4. /\ n \in Memories
      /\ \A u \in Places : PageOf(u) \notin RunOf(b) => n[u] = U[u]
  <2>1. U \in Memories /\ DOMAIN m = Places
    BY <1>1, <1>2 DEF UnlinkedFrom, Memories
  <2>2. n = [u \in Places |-> IF PageOf(u) \in RunOf(b) THEN Unwritten ELSE U[u]]
    BY <1>3, <2>1 DEF Freed, PageOf, U
  <2>3. Unwritten \in Plain
    BY DEF Unwritten, Plain
  <2> HIDE DEF n
  <2> QED
    BY <2>1, <2>2, <2>3 DEF Memories
<1> HIDE DEF n
<1>5. \A p \in P \ {x} : n[Unit(p)] = U[Unit(p)]
  <2>1. ASSUME NEW p \in P \ {x}
        PROVE  Unit(p) \in Places /\ PageOf(Unit(p)) \notin RunOf(b)
    <3>1. p \in 0..PageCount /\ p \in Nat
      BY <1>1, CountIsNat
    <3>2. Unit(p) \in Places /\ PageOf(Unit(p)) = p
      BY <3>1, Addressed, Units
    <3>3. p \notin RunOf(b)
      BY Apart DEF P
    <3> QED
      BY <3>2, <3>3
  <2> QED
    BY <1>4, <2>1
<1>6. RingIn(n, PagesIn(Q))
  <2>1. RingIn(U, PagesIn(Q)) /\ \A p \in PagesIn(Q) : n[Unit(p)] = U[Unit(p)]
    BY <1>1, <1>2, <1>5 DEF UnlinkedFrom
  <2> HIDE DEF Q
  <2> QED
    BY <2>1, RingKept
<1>7. /\ Q \subseteq Blocks
      /\ \A a \in Q : a.page # 0 /\ a.page # heap.page /\ a.page # ListHead
      /\ \A a, d \in Q : a.page = d.page => a = d
      /\ heap.page \in 1..PageCount /\ ListHead \in 1..PageCount
  BY DEF Sound
<1>8. \A a \in Q : a.len <= a.size /\ n[Unit(a.page)].size = a.size
  <2>1. ASSUME NEW a \in Q
        PROVE  a.len <= a.size /\ m[Unit(a.page)].size = a.size /\ a.page \in P \ {x}
    <3>1. a \in O /\ a.page \in P /\ a.page # x
      BY DEF Sound, P, PagesIn
    <3> QED
      BY <3>1 DEF Sound
  <2> QED
    BY <1>2, <1>5, <2>1 DEF UnlinkedFrom
<1>9. ASSUME NEW a \in Q, NEW k \in 1..a.len
      PROVE  n[Unit(a.page) + k] = Datum(a.value)
  <2> DEFINE u == Unit(a.page) + k
  <2>1. /\ a.size \in Nat /\ a.len \in Nat /\ a.len <= a.size /\ a.page \in Nat
        /\ Unit(a.page) \in Nat
    BY Typed
  <2>2. k \in 0..a.size /\ u # Unit(a.page)
    BY <2>1
  <2>3. u \in Places /\ PageOf(u) \in RunOf(a)
    BY <2>2, Apart
  <2>4. RunOf(a) \cap RunOf(b) = {}
    BY Apart
  <2>5. m[u] = Datum(a.value)
    BY DEF Sound, Contents
  <2>6. \A p \in P : p # a.page => p \notin RunOf(a)
    BY Apart DEF P
  <2>7. \A p \in P : PageOf(Unit(p)) = p
    BY <1>1, Units, CountIsNat
  <2>8. u # Unit(a.page)
    BY <2>2
  <2> HIDE DEF u
  <2>9. \A p \in P : u # Unit(p)
    BY <2>3, <2>6, <2>7, <2>8
  <2>10. U[u] = m[u]
    BY <1>2, <2>3, <2>9 DEF UnlinkedFrom, Elsewhere
  <2>11. n[u] = Datum(a.value)
    BY <1>4, <2>3, <2>4, <2>5, <2>10
  <2> QED
    BY <2>11 DEF u
<1>10. Contents(n, Q)
  BY <1>9 DEF Contents
<1>11. r \in H
  BY DEF Sound
<1>12. H \ {r} = {<<a.page, PagesFor(a.size)>> : a \in Q} \cup {<<heap.page, 1>>, <<ListHead, 1>>}
  <2>1. \A a \in Q : <<a.page, PagesFor(a.size)>> # r
    BY DEF Sound
  <2>2. <<heap.page, 1>> # r /\ <<ListHead, 1>> # r
    BY DEF Sound
  <2> HIDE DEF r
  <2>3. H = {<<a.page, PagesFor(a.size)>> : a \in Q} \cup {r, <<heap.page, 1>>, <<ListHead, 1>>}
    BY DEF Sound, r
  <2> QED
    BY <2>1, <2>2, <2>3
<1>13. Sound(n, Q, H \ {r})
  <2> HIDE DEF Q, r
  <2> QED
    BY <1>4, <1>6, <1>7, <1>8, <1>10, <1>12 DEF Sound
<1> QED
  BY <1>11, <1>13 DEF n
-----------------------------------------------------------------------------
(* heap_realloc before its copy: the block to be replaced, and the new one. *)
Copying ==
  /\ old # NoBlock /\ old \notin blocks
  /\ \E new \in blocks : new.page = reply /\ old.size <= new.size

IInv ==
  /\ AllocInv
  /\ pc \in {"boot", "create", "idle", "copy", "lost"}
  /\ heap \in [page : 0..PageCount, block_head : 0..PageCount]
  /\ ret \in {NULL} \cup 0..PageCount
  /\ mem \in Memories
  /\ blocks \subseteq Blocks
  /\ Contents(mem, Owned)
  /\ pc \in {"boot", "create"} => blocks = {} /\ old = NoBlock
  /\ pc = "boot" => held = {}
  /\ pc = "create" => heap.page \in 1..PageCount /\ held = {<<heap.page, 1>>}
  /\ pc \in {"idle", "copy"} => Sound(mem, Owned, held)
  /\ pc = "idle" => old = NoBlock
  /\ pc = "copy" => Copying
  /\ pc = "lost" => RingIn(mem, PagesIn(Owned))

LEMMA SoundPrimed ==
  ASSUME heap' = heap, Sound(mem', Owned', held')
  PROVE  Sound(mem, Owned, held)'
  BY DEF Sound, RingIn, PagesIn, Contents, ListHead

LEMMA RingPrimed ==
  ASSUME heap' = heap, RingIn(mem', PagesIn(Owned'))
  PROVE  RingIn(mem, PagesIn(Owned))'
  BY DEF RingIn, PagesIn, ListHead

LEMMA ContentsPrimed ==
  ASSUME Contents(mem', Owned')
  PROVE  Contents(mem, Owned)'
  BY DEF Contents

LEMMA InvImplies == IInv => RingOK /\ NoLeak /\ ContentsKept
<1> SUFFICES ASSUME IInv PROVE RingOK /\ NoLeak /\ ContentsKept
  OBVIOUS
<1> USE DEF IInv
<1>1. TypeOK
  <2>1. mem \in [DOMAIN mem -> Plain \cup Headers]
    BY DEF Memories
  <2> QED
    BY <2>1 DEF TypeOK, Plain, Headers, Blocks
<1>2. Pages = PagesIn(Owned)
  BY DEF Pages, PagesIn
<1>3. Created => Ring
  BY <1>2, RingIsRing DEF Created, Sound
<1>4. NoLeak
  BY DEF NoLeak, Created, Sound
<1>5. ContentsKept
  BY DEF ContentsKept, Contents
<1> QED
  BY <1>1, <1>3, <1>4, <1>5 DEF RingOK

LEMMA InitInv == Init => IInv
<1> SUFFICES ASSUME Init PROVE IInv
  OBVIOUS
<1>1. AllocInv
  BY CountIsNat DEF Init, AbsInit, AllocInv, Disjoint
<1>2. mem \in Memories
  BY DEF Init, Memories, Places, Unwritten, Plain
<1>3. Owned = {}
  BY DEF Init, Owned
<1>4. Contents(mem, Owned)
  BY <1>3 DEF Contents
<1>5. heap \in [page : 0..PageCount, block_head : 0..PageCount]
  BY CountIsNat DEF Init
<1>6. pc = "boot" /\ blocks = {} /\ old = NoBlock /\ ret = NULL /\ held = {}
  BY DEF Init, AbsInit
<1> QED
  BY <1>1, <1>2, <1>4, <1>5, <1>6 DEF IInv

(* heap_create. *)
LEMMA CreateInv == IInv /\ heap_create => IInv'
<1> SUFFICES ASSUME IInv, heap_create PROVE IInv'
  OBVIOUS
<1>1. blocks = {} /\ blocks' = {} /\ old' = NoBlock /\ ret' = ret /\ Owned' = {}
  BY DEF IInv, heap_create, Owned
<1>2. Alloc(1) /\ AllocInv
  BY DEF IInv, heap_create
<1>3. AllocInv' /\ reply' \in 1..PageCount /\ held' = held \cup {<<reply', 1>>}
      /\ Outside(reply', held)
  BY <1>2, AllocGrants
<1>4. reply' \in 0..PageCount
  BY <1>3, CountIsNat
<1>5. CASE pc = "boot"
  <2>1. heap' = [heap EXCEPT !.page = reply'] /\ pc' = "create" /\ mem' = mem /\ held = {}
    BY <1>5 DEF IInv, heap_create
  <2> QED
    BY <1>1, <1>3, <1>4, <2>1 DEF IInv, Contents
<1>6. CASE pc = "create"
  <2> DEFINE x == reply'
  <2>1. /\ heap' = [heap EXCEPT !.block_head = x] /\ pc' = "idle"
        /\ mem' = [mem EXCEPT ![Unit(x)] = Header(x, x, 0)]
        /\ held = {<<heap.page, 1>>} /\ heap.page \in 1..PageCount
    BY <1>6 DEF IInv, heap_create
  <2>2. /\ heap' \in [page : 0..PageCount, block_head : 0..PageCount]
        /\ heap'.page = heap.page /\ ListHead' = x
    BY <1>4, <2>1 DEF IInv, ListHead
  <2>3. Unit(x) \in Places /\ Header(x, x, 0) \in Headers
    BY <1>4, Addressed DEF Header, Headers
  <2>4. mem' \in Memories /\ mem'[Unit(x)] = Header(x, x, 0)
    BY <2>1, <2>3 DEF IInv, Memories
  <2>5. RingIn(mem, PagesIn(Owned))'
    <3>1. PagesIn(Owned)' = {x}
      BY <1>1, <2>2 DEF PagesIn
    <3>2. mem'[Unit(x)].next = x /\ mem'[Unit(x)].prev = x /\ mem'[Unit(x)].magic
      BY <2>4 DEF Header
    <3> QED
      BY <2>2, <3>1, <3>2 DEF RingIn, Circle, Nexts, Prevs
  <2>6. Contents(mem, Owned)'
    BY <1>1 DEF Contents
  <2>7. Sound(mem, Owned, held)'
    BY <1>1, <1>3, <2>1, <2>2, <2>4, <2>5, <2>6 DEF Sound
  <2> QED
    BY <1>1, <1>3, <2>1, <2>2, <2>4, <2>6, <2>7 DEF IInv
<1> QED
  BY <1>5, <1>6 DEF heap_create

(* What both callers of pmm_alloc get: a block that the caller owns, or a  *)
(* header over page 0.                                                     *)
LEMMA GrantedBlock ==
  ASSUME IInv, pc = "idle", NEW n \in Sizes, NEW next_pc, Granted(n, next_pc)
  PROVE  LET new == Block(reply', n, NULL, 0)
         IN  /\ AllocInv' /\ new \in Blocks /\ reply' \in 0..PageCount
             /\ \A b \in blocks : b.page # reply'
             /\ \/ /\ pc' = next_pc /\ reply' # 0
                   /\ Sound(mem', blocks \cup {new}, held')
                \/ /\ pc' = "lost"
                   /\ mem' \in Memories /\ Contents(mem', blocks \cup {new})
                   /\ RingIn(mem', PagesIn(blocks \cup {new}))
<1> DEFINE new == Block(reply', n, NULL, 0)
<1>1. AllocInv /\ Disjoint(held) /\ Sound(mem, blocks, held)
  <2>1. Owned = blocks
    BY DEF IInv, Owned
  <2> QED
    BY <2>1 DEF IInv, AllocInv
<1>2. PagesFor(n) \in Nat \ {0}
  BY Covered, HeapAssumption
<1>3. mem' = Linked(reply', n) /\ pc' = IF reply' = 0 THEN "lost" ELSE next_pc
  BY DEF Granted
<1>4. reply' \in 0..PageCount => new \in Blocks
  BY DEF Block, Blocks
<1>5. reply' \in 0..PageCount /\ Outside(reply', held) =>
        /\ reply' \notin PagesIn(blocks)
        /\ LinkedIn(mem', PagesIn(blocks), reply', n)
        /\ Contents(mem', blocks)
  BY <1>1, <1>3, Put
<1>6. CASE Alloc(PagesFor(n))
  <2>1. /\ AllocInv' /\ reply' \in 1..PageCount
        /\ held' = held \cup {<<reply', PagesFor(n)>>} /\ Outside(reply', held)
    BY <1>1, <1>2, <1>6, AllocGrants
  <2>2. Sound(mem', blocks \cup {new}, held')
    BY <1>1, <1>3, <2>1, Grown
  <2>3. reply' \in 0..PageCount /\ reply' # 0
    BY <2>1, CountIsNat
  <2>4. \A b \in blocks : b.page # reply'
    BY <1>5, <2>1, <2>3 DEF PagesIn
  <2> QED
    BY <1>3, <1>4, <2>1, <2>2, <2>3, <2>4
<1>7. CASE Refuse(PagesFor(n))
  <2>1. AllocInv' /\ reply' = 0 /\ Outside(reply', held)
    BY <1>1, <1>2, <1>7, AllocRefuses
  <2>2. reply' \in 0..PageCount
    BY <2>1, CountIsNat
  <2>3. reply' \notin PagesIn(blocks) /\ LinkedIn(mem', PagesIn(blocks), reply', n)
        /\ Contents(mem', blocks)
    BY <1>5, <2>1, <2>2
  <2>4. new.page = reply' /\ new.len = 0
    BY DEF Block
  <2> HIDE DEF new
  <2>5. PagesIn(blocks \cup {new}) = PagesIn(blocks) \cup {reply'}
    BY <2>4 DEF PagesIn
  <2>6. Contents(mem', blocks \cup {new})
    BY <2>3, <2>4 DEF Contents
  <2>7. \A b \in blocks : b.page # reply'
    BY <2>3 DEF PagesIn
  <2>8. mem' \in Memories /\ RingIn(mem', PagesIn(blocks \cup {new}))
    BY <2>3, <2>5 DEF LinkedIn
  <2>9. pc' = "lost"
    BY <1>3, <2>1
  <2> QED
    BY <1>4, <2>1, <2>2, <2>6, <2>7, <2>8, <2>9 DEF new
<1> QED
  BY <1>6, <1>7 DEF Granted

(* The two ways a step of a running heap ends. *)
LEMMA Running ==
  ASSUME IInv, AllocInv', heap' = heap, ret' \in {NULL} \cup 0..PageCount,
         blocks' \subseteq Owned', Sound(mem', Owned', held'),
         \/ pc' = "idle" /\ old' = NoBlock
         \/ pc' = "copy" /\ Copying'
  PROVE  IInv'
<1>1. Sound(mem, Owned, held)'
  BY SoundPrimed
<1>2. mem' \in Memories /\ Owned' \subseteq Blocks /\ Contents(mem', Owned')
  BY DEF Sound
<1>3. Contents(mem, Owned)'
  BY <1>2, ContentsPrimed
<1>4. heap \in [page : 0..PageCount, block_head : 0..PageCount]
  BY DEF IInv
<1> QED
  BY <1>1, <1>2, <1>3, <1>4 DEF IInv

LEMMA Losing ==
  ASSUME IInv, AllocInv', heap' = heap, ret' \in {NULL} \cup 0..PageCount,
         blocks' \subseteq Blocks, mem' \in Memories, Contents(mem', Owned'),
         RingIn(mem', PagesIn(Owned')), pc' = "lost"
  PROVE  IInv'
<1>1. RingIn(mem, PagesIn(Owned))' /\ Contents(mem, Owned)'
  BY RingPrimed, ContentsPrimed
<1>2. heap \in [page : 0..PageCount, block_head : 0..PageCount]
  BY DEF IInv
<1> QED
  BY <1>1, <1>2 DEF IInv

(* heap_alloc. *)
LEMMA AllocInvStep ==
  ASSUME IInv, NEW n \in Sizes, heap_alloc(n)
  PROVE  IInv'
<1> DEFINE new == Block(reply', n, NULL, 0)
<1>1. /\ pc = "idle" /\ Granted(n, "idle") /\ ret' = reply'
      /\ blocks' = blocks \cup {new} /\ heap' = heap /\ old' = old
  BY DEF heap_alloc
<1>2. old = NoBlock /\ blocks \subseteq Blocks
  BY <1>1 DEF IInv
<1>3. Owned' = blocks \cup {new}
  BY <1>1, <1>2 DEF Owned
<1>4. /\ AllocInv' /\ new \in Blocks /\ reply' \in 0..PageCount
      /\ \/ /\ pc' = "idle" /\ Sound(mem', blocks \cup {new}, held')
         \/ /\ pc' = "lost"
            /\ mem' \in Memories /\ Contents(mem', blocks \cup {new})
            /\ RingIn(mem', PagesIn(blocks \cup {new}))
  BY <1>1, GrantedBlock
<1> HIDE DEF new
<1>5. ret' \in {NULL} \cup 0..PageCount /\ blocks' \subseteq Owned' /\ blocks' \subseteq Blocks
      /\ old' = NoBlock
  BY <1>1, <1>2, <1>3, <1>4
<1>6. CASE pc' = "idle" /\ Sound(mem', blocks \cup {new}, held')
  <2>1. Sound(mem', Owned', held')
    BY <1>3, <1>6
  <2> QED
    BY <1>1, <1>4, <1>5, <1>6, <2>1, Running
<1>7. CASE /\ pc' = "lost"
           /\ mem' \in Memories /\ Contents(mem', blocks \cup {new})
           /\ RingIn(mem', PagesIn(blocks \cup {new}))
  <2>1. Contents(mem', Owned') /\ RingIn(mem', PagesIn(Owned'))
    BY <1>3, <1>7
  <2> QED
    BY <1>1, <1>4, <1>5, <1>7, <2>1, Losing
<1> QED
  BY <1>4, <1>6, <1>7

(* A caller writes. *)
LEMMA WriteInvStep ==
  ASSUME IInv, NEW b \in blocks, NEW v \in Values, Write(b, v)
  PROVE  IInv'
<1> DEFINE c == Block(b.page, b.size, v, b.size)
           Data == (Unit(b.page) + 1)..(Unit(b.page) + b.size)
<1>1. /\ pc = "idle" /\ pc' = "idle" /\ UNCHANGED <<absVars, heap, old, ret>>
      /\ mem' = [u \in DOMAIN mem |-> IF u \in Data THEN Datum(v) ELSE mem[u]]
      /\ blocks' = (blocks \ {b}) \cup {c}
  BY DEF Write
<1>2. old = NoBlock /\ Owned = blocks /\ Sound(mem, blocks, held) /\ Disjoint(held)
  <2>1. old = NoBlock /\ Owned = blocks
    BY <1>1 DEF IInv, Owned
  <2> QED
    BY <1>1, <2>1 DEF IInv, AllocInv
<1>3. /\ b.page \in 0..PageCount /\ b.size \in Sizes /\ b.size \in Nat
      /\ Unit(b.page) \in Nat
  BY <1>2, Typed
<1>4. c.page = b.page /\ c.size = b.size /\ c.len = b.size /\ c.value = v /\ c \in Blocks
  BY <1>3 DEF Block, Blocks
<1>5. /\ mem' \in Memories
      /\ \A u \in Places : mem'[u] = IF u \in Data THEN Datum(v) ELSE mem[u]
  <2>1. mem \in Memories /\ DOMAIN mem = Places
    BY <1>2 DEF Sound, Memories
  <2>2. Datum(v) \in Plain
    BY DEF Datum, Plain
  <2> QED
    BY <1>1, <2>1, <2>2 DEF Memories
<1>6. \A k \in 1..c.len : mem'[Unit(b.page) + k] = Datum(c.value)
  <2>1. ASSUME NEW k \in 1..b.size
        PROVE  mem'[Unit(b.page) + k] = Datum(v)
    <3>1. k \in 0..b.size /\ Unit(b.page) + k \in Data
      BY <1>3
    <3>2. Unit(b.page) + k \in Places
      BY <1>2, <3>1, Apart
    <3> QED
      BY <1>5, <3>1, <3>2
  <2> QED
    BY <1>4, <2>1
<1>7. \A u \in Places : u \notin Data => mem'[u] = mem[u]
  BY <1>5
<1> HIDE DEF c
<1>8. Sound(mem', (blocks \ {b}) \cup {c}, held)
  <2>1. c.len <= c.size
    BY <1>3, <1>4
  <2> QED
    BY <1>2, <1>4, <1>5, <1>6, <1>7, <2>1, Rewritten
<1>9. held' = held /\ AllocInv' /\ old' = NoBlock /\ ret' = ret
  BY <1>1, <1>2, AllocStays DEF IInv, absVars
<1>10. Owned' = blocks'
  BY <1>9 DEF Owned
<1>11. Sound(mem', Owned', held') /\ blocks' \subseteq Owned'
  BY <1>1, <1>8, <1>9, <1>10
<1>12. ret' \in {NULL} \cup 0..PageCount
  BY <1>9 DEF IInv
<1> QED
  BY <1>1, <1>9, <1>11, <1>12, Running

(* What a pointer points past: one's own block, or data. *)
LEMMA Pointed ==
  ASSUME Sound(mem, blocks, held), NEW page \in Pointers
  PROVE  \/ \E b \in blocks : b.page = page /\ At(page) = {b} /\ hdr(page).magic
                              /\ hdr(page).size = b.size
         \/ ~ hdr(page).magic /\ At(page) = {}
<1>1. \A b \in blocks : hdr(b.page).magic /\ hdr(b.page).size = b.size
  BY DEF Sound, RingIn, PagesIn, hdr
<1>2. PICK b \in blocks : page \in {b.page} \cup {b.page + k : k \in 1..(b.len \div PageUnits)}
  BY DEF Pointers
<1>3. CASE page = b.page
  <2>1. At(page) = {b}
    BY <1>3 DEF At, Sound
  <2> QED
    BY <1>1, <1>3, <2>1
<1>4. CASE page # b.page
  <2>1. PICK k \in 1..(b.len \div PageUnits) : page = b.page + k
    BY <1>2, <1>4
  <2> DEFINE q == b.len \div PageUnits
  <2>2. /\ PageUnits \in Nat \ {0} /\ b.len \in Nat /\ b.page \in Nat
        /\ q \in Nat /\ q * PageUnits <= b.len /\ k \in Nat \ {0} /\ k <= q
    <3>1. PageUnits \in Nat \ {0} /\ b.len \in Nat /\ b.page \in Nat
      BY HeapAssumption, Typed
    <3>2. q \in Nat /\ q * PageUnits <= b.len
      BY <3>1, Quotient
    <3> HIDE DEF q
    <3>3. k \in 1..q
      BY DEF q
    <3> QED
      BY <3>1, <3>2, <3>3
  <2> HIDE DEF q
  <2>3. k * PageUnits \in 1..b.len
    <3>1. q - k \in Nat /\ q = k + (q - k)
      BY <2>2
    <3>2. (k + (q - k)) * PageUnits = k * PageUnits + (q - k) * PageUnits
      BY <2>2, <3>1
    <3>3. (q - k) * PageUnits \in Nat /\ k * PageUnits \in Nat
      BY <2>2, <3>1
    <3>4. k * PageUnits # 0
      BY <2>2
    <3> QED
      BY <2>2, <3>1, <3>2, <3>3, <3>4
  <2>4. Unit(page) = Unit(b.page) + k * PageUnits
    BY <2>1, <2>2 DEF Unit
  <2>5. mem[Unit(page)] = Datum(b.value)
    BY <2>3, <2>4 DEF Sound, Contents
  <2>6. ~ hdr(page).magic
    BY <2>5 DEF hdr, Datum
  <2> QED
    BY <1>1, <2>6 DEF At
<1> QED
  BY <1>3, <1>4

(* heap_free's part that heap_realloc shares. *)
LEMMA ReleasedBlock ==
  ASSUME AllocInv, NEW m, NEW O, Sound(m, O, held), NEW b \in O, Released(m, b.page)
  PROVE  AllocInv' /\ Sound(mem', O \ {b}, held')
<1> DEFINE r == <<b.page, PagesFor(b.size)>>
<1>1. m[Unit(b.page)].magic /\ m[Unit(b.page)].size = b.size
  BY DEF Sound, RingIn, PagesIn
<1>2. Free(r) /\ mem' = Freed(m, b.page, r)
  BY <1>1 DEF Released, PagesOf, Freed
<1>3. r \in held /\ Sound(Freed(m, b.page, r), O \ {b}, held \ {r})
  BY Gone DEF AllocInv
<1>4. AllocInv' /\ held' = held \ {r}
  BY <1>2, <1>3, AllocFrees
<1> QED
  BY <1>2, <1>3, <1>4

(* heap_free. *)
LEMMA FreeInvStep ==
  ASSUME IInv, NEW page \in Pointers, heap_free(page)
  PROVE  IInv'
<1>1. /\ pc = "idle" /\ pc' = "idle" /\ Released(mem, page) /\ blocks' = blocks \ At(page)
      /\ heap' = heap /\ old' = old /\ ret' = ret
  BY DEF heap_free
<1>2. old = NoBlock /\ Owned = blocks
  BY <1>1 DEF IInv, Owned
<1>3. Sound(mem, blocks, held) /\ AllocInv /\ ret' \in {NULL} \cup 0..PageCount
  BY <1>1, <1>2 DEF IInv
<1>4. Owned' = blocks' /\ old' = NoBlock
  BY <1>1, <1>2 DEF Owned
<1>5. AllocInv' /\ Sound(mem', blocks', held')
  <2>1. CASE \E b \in blocks : b.page = page /\ At(page) = {b} /\ hdr(page).magic
    <3>1. PICK b \in blocks : b.page = page /\ At(page) = {b}
      BY <2>1
    <3> QED
      BY <1>1, <1>3, <3>1, ReleasedBlock
  <2>2. CASE ~ hdr(page).magic /\ At(page) = {}
    <3>1. mem' = mem /\ UNCHANGED absVars /\ blocks' = blocks
      BY <1>1, <2>2 DEF Released, hdr
    <3> QED
      BY <1>3, <3>1, AllocStays DEF absVars
  <2> QED
    BY <1>3, <2>1, <2>2, Pointed
<1> QED
  BY <1>1, <1>3, <1>4, <1>5, Running

(* heap_realloc, as long as the block does not become smaller. *)
LEMMA ReallocInvStep ==
  ASSUME IInv, ~ Shrinks, NEW page \in Pointers, NEW n \in Sizes, heap_realloc(page, n)
  PROVE  IInv'
<1> DEFINE new == Block(reply', n, NULL, 0)
<1>1. pc = "idle" /\ heap' = heap
  BY DEF heap_realloc
<1>2. old = NoBlock /\ Owned = blocks
  BY <1>1 DEF IInv, Owned
<1>3. Sound(mem, blocks, held) /\ AllocInv
  BY <1>1, <1>2 DEF IInv
<1>4. CASE ~ hdr(page).magic
  <2>1. ret' = NULL /\ UNCHANGED <<absVars, mem, pc, blocks, old>>
    BY <1>4 DEF heap_realloc
  <2>2. AllocInv' /\ held' = held
    BY <1>3, <2>1, AllocStays DEF absVars
  <2>3. Owned' = blocks /\ blocks' = blocks /\ mem' = mem /\ pc' = "idle" /\ old' = NoBlock
    BY <1>1, <1>2, <2>1 DEF Owned
  <2>4. Sound(mem', Owned', held') /\ blocks' \subseteq Owned'
    BY <1>3, <2>2, <2>3
  <2> QED
    BY <1>1, <2>1, <2>2, <2>3, <2>4, Running
<1>5. CASE hdr(page).magic
  <2>1. /\ n >= hdr(page).size /\ Granted(n, "copy") /\ old' \in At(page)
        /\ blocks' = (blocks \ At(page)) \cup {new} /\ ret' = ret
    BY <1>5 DEF heap_realloc
  <2>2. PICK b \in blocks : b.page = page /\ At(page) = {b} /\ hdr(page).size = b.size
    BY <1>3, <1>5, Pointed
  <2>3. old' = b /\ blocks' = (blocks \ {b}) \cup {new} /\ b.size <= n
    <3>1. b.size \in Nat /\ n \in Nat
      BY <1>3, Typed, HeapAssumption
    <3> QED
      BY <2>1, <2>2, <3>1
  <2>4. old' # NoBlock
    BY <1>3, <2>3 DEF Sound, NoBlock, Block
  <2>5. Owned' = blocks \cup {new}
    BY <2>3, <2>4 DEF Owned
  <2>6. new.page = reply' /\ new.size = n
    BY DEF Block
  <2>7. /\ AllocInv' /\ new \in Blocks
        /\ \A a \in blocks : a.page # reply'
        /\ \/ /\ pc' = "copy" /\ Sound(mem', blocks \cup {new}, held')
           \/ /\ pc' = "lost"
              /\ mem' \in Memories /\ Contents(mem', blocks \cup {new})
              /\ RingIn(mem', PagesIn(blocks \cup {new}))
    BY <1>1, <2>1, GrantedBlock
  <2> HIDE DEF new
  <2>8. b # new
    BY <2>6, <2>7
  <2>9. Copying'
    BY <2>3, <2>4, <2>6, <2>8 DEF Copying
  <2>10. blocks' \subseteq Owned' /\ blocks' \subseteq Blocks /\ ret' \in {NULL} \cup 0..PageCount
    BY <2>1, <2>3, <2>5, <2>7 DEF IInv
  <2>11. CASE pc' = "copy" /\ Sound(mem', blocks \cup {new}, held')
    <3>1. Sound(mem', Owned', held')
      BY <2>5, <2>11
    <3> QED
      BY <1>1, <2>7, <2>9, <2>10, <2>11, <3>1, Running
  <2>12. CASE /\ pc' = "lost"
              /\ mem' \in Memories /\ Contents(mem', blocks \cup {new})
              /\ RingIn(mem', PagesIn(blocks \cup {new}))
    <3>1. Contents(mem', Owned') /\ RingIn(mem', PagesIn(Owned'))
      BY <2>5, <2>12
    <3> QED
      BY <1>1, <2>7, <2>10, <2>12, <3>1, Losing
  <2> QED
    BY <2>7, <2>11, <2>12
<1> QED
  BY <1>4, <1>5

(* The copy of a block into a larger one. *)
LEMMA CopiedBlock ==
  ASSUME NEW O, NEW H, Sound(mem, O, H), Disjoint(H), NEW b \in O, NEW new \in O,
         b # new, b.size <= new.size
  PROVE  LET c == Block(new.page, new.size, b.value, b.len)
         IN  Sound(Copied(b.page, new.page, b.size), (O \ {new}) \cup {c}, H)
<1> DEFINE c == Block(new.page, new.size, b.value, b.len)
           C == Copied(b.page, new.page, b.size)
           From == Unit(b.page)
           To == Unit(new.page)
<1>1. /\ b.size \in Nat /\ b.len \in Nat /\ b.len <= b.size /\ b.value \in Values \cup {NULL}
      /\ new.size \in Sizes /\ new.size \in Nat /\ new.page \in 0..PageCount
      /\ From \in Nat /\ To \in Nat
  BY Typed
<1>2. /\ c \in Blocks /\ c.page = new.page /\ c.size = new.size /\ c.len = b.len
      /\ c.value = b.value
  BY <1>1 DEF Block, Blocks
<1>3. mem \in Memories /\ DOMAIN mem = Places
  BY DEF Sound, Memories
<1>4. C = [u \in Places |-> IF u \in (To + 1)..(To + b.size) THEN mem[u - To + From] ELSE mem[u]]
  BY <1>3 DEF Copied
<1>5. \A k \in 1..b.size : /\ From + k \in Places /\ To + k \in Places
                           /\ To + k \in (To + 1)..(To + b.size)
                           /\ (To + k) - To + From = From + k
  <2>1. ASSUME NEW k \in 1..b.size
        PROVE  /\ From + k \in Places /\ To + k \in Places
               /\ To + k \in (To + 1)..(To + b.size)
               /\ (To + k) - To + From = From + k
    <3>1. k \in 0..b.size /\ k \in 0..new.size /\ k \in Nat
      BY <1>1
    <3>2. From + k \in Places /\ To + k \in Places
      BY <3>1, Apart
    <3> HIDE DEF From, To
    <3> QED
      BY <1>1, <3>1, <3>2
  <2> QED
    BY <2>1
<1> HIDE DEF c, C, From, To
<1>6. \A k \in 1..b.size : C[To + k] = mem[From + k]
  BY <1>4, <1>5
<1>7. C \in Memories
  <2>1. ASSUME NEW u \in Places PROVE C[u] \in Plain \cup Headers
    <3>1. CASE u \in (To + 1)..(To + b.size)
      <4>1. u - To \in 1..b.size /\ u = To + (u - To)
        BY <1>1, <3>1
      <4>2. C[u] = mem[From + (u - To)]
        BY <1>6, <4>1
      <4> QED
        BY <1>3, <1>5, <4>1, <4>2 DEF Memories
    <3>2. CASE u \notin (To + 1)..(To + b.size)
      BY <1>3, <1>4, <3>2 DEF Memories
    <3> QED
      BY <3>1, <3>2
  <2>2. DOMAIN C = Places /\ C = [u \in Places |-> C[u]]
    BY <1>4
  <2> QED
    BY <2>1, <2>2 DEF Memories
<1>8. \A u \in Places : u \notin (To + 1)..(To + new.size) => C[u] = mem[u]
  <2>1. ASSUME NEW u \in Places, u \notin (To + 1)..(To + new.size)
        PROVE  u \notin (To + 1)..(To + b.size)
    BY <1>1, <2>1
  <2> QED
    BY <1>4, <2>1
<1>9. \A k \in 1..c.len : C[To + k] = Datum(c.value)
  <2>1. ASSUME NEW k \in 1..b.len PROVE C[To + k] = Datum(b.value)
    <3>1. k \in 1..b.size
      BY <1>1
    <3>2. mem[From + k] = Datum(b.value)
      BY DEF Sound, Contents, From
    <3> QED
      BY <1>6, <3>1, <3>2
  <2> QED
    BY <1>2, <2>1
<1>10. c.len <= c.size
  BY <1>1, <1>2
<1>11. Sound(C, (O \ {new}) \cup {c}, H)
  BY <1>2, <1>7, <1>8, <1>9, <1>10, Rewritten DEF To
<1> QED
  BY <1>11 DEF c, C

LEMMA CopyInvStep ==
  ASSUME IInv, heap_realloc_copy
  PROVE  IInv'
<1> DEFINE C == Copied(old.page, reply, hdr(old.page).size)
<1>1. /\ pc = "copy" /\ pc' = "idle" /\ Released(C, old.page) /\ ret' = reply
      /\ old' = NoBlock /\ heap' = heap
  BY DEF heap_realloc_copy
<1>2. PICK new \in blocks : new.page = reply /\ old.size <= new.size
  BY <1>1 DEF IInv, Copying
<1>3. /\ old # NoBlock /\ old \notin blocks /\ Owned = blocks \cup {old}
      /\ Sound(mem, Owned, held) /\ AllocInv /\ Disjoint(held)
  BY <1>1 DEF IInv, Copying, Owned, AllocInv
<1> DEFINE c == Block(new.page, new.size, old.value, old.len)
<1>4. /\ old.len \in Nat /\ old.size \in Nat /\ new.size \in Nat /\ old.len <= old.size
      /\ hdr(old.page).size = old.size
  <2>1. old \in Owned /\ new \in Owned
    BY <1>3
  <2>2. hdr(old.page).size = old.size
    BY <1>3, <2>1 DEF Sound, hdr
  <2> QED
    BY <1>3, <2>1, <2>2, Typed
<1>5. At(reply) = {new}
  BY <1>2, <1>3 DEF At, Sound
<1>6. blocks' = (blocks \ {new}) \cup {c}
  <2>1. (IF old.len < new.size THEN old.len ELSE new.size) = old.len
    BY <1>2, <1>4
  <2>2. blocks' = (blocks \ {new}) \cup
           {Block(b.page, b.size, old.value, IF old.len < b.size THEN old.len ELSE b.size) :
              b \in {new}}
    BY <1>5 DEF heap_realloc_copy
  <2> QED
    BY <2>1, <2>2
<1>7. Sound(C, (Owned \ {new}) \cup {c}, held)
  <2>1. old \in Owned /\ new \in Owned /\ old # new
    BY <1>3
  <2> QED
    BY <1>2, <1>3, <1>4, <2>1, CopiedBlock
<1>8. old \in (Owned \ {new}) \cup {c} /\ old # c
  <2>1. old \in Owned /\ old # new /\ new \in Owned
    BY <1>3
  <2>2. old.page # new.page /\ c.page = new.page
    BY <1>3, <2>1 DEF Sound, Block
  <2> QED
    BY <2>1, <2>2
<1> HIDE DEF c, C
<1>9. ((Owned \ {new}) \cup {c}) \ {old} = blocks'
  BY <1>3, <1>6, <1>8
<1>10. AllocInv' /\ Sound(mem', blocks', held')
  BY <1>1, <1>3, <1>7, <1>8, <1>9, ReleasedBlock
<1>11. Owned' = blocks'
  BY <1>1 DEF Owned
<1>12. ret' \in {NULL} \cup 0..PageCount
  BY <1>1, <1>3 DEF AllocInv
<1> QED
  BY <1>1, <1>10, <1>11, <1>12, Running

-----------------------------------------------------------------------------
(* A step of the heap keeps the invariant. *)
LEMMA NextInv == ~ Shrinks /\ IInv /\ [Next]_<<absVars, heapVars>> => IInv'
<1> SUFFICES ASSUME ~ Shrinks, IInv, [Next]_<<absVars, heapVars>> PROVE IInv'
  OBVIOUS
<1>1. CASE heap_create
  BY <1>1, CreateInv
<1>2. CASE \E n \in Sizes : heap_alloc(n)
  BY <1>2, AllocInvStep
<1>3. CASE \E b \in blocks, v \in Values : Write(b, v)
  BY <1>3, WriteInvStep
<1>4. CASE \E p \in Pointers : heap_free(p)
  BY <1>4, FreeInvStep
<1>5. CASE \E p \in Pointers, n \in Sizes : heap_realloc(p, n)
  BY <1>5, ReallocInvStep
<1>6. CASE heap_realloc_copy
  BY <1>6, CopyInvStep
<1>7. CASE UNCHANGED <<absVars, heapVars>>
  <2>1. AllocInv'
    BY <1>7, AllocStays DEF IInv
  <2>2. UNCHANGED <<used, last, held, reply, mem, heap, pc, blocks, old, ret>>
    BY <1>7 DEF absVars, heapVars
  <2> QED
    BY <2>1, <2>2 DEF IInv, Contents, Sound, RingIn, PagesIn, ListHead, Owned, Copying
<1> QED
  BY <1>1, <1>2, <1>3, <1>4, <1>5, <1>6, <1>7 DEF Next

(* Whatever is allocated, written, moved and freed, in any order, as long  *)
(* as no block is made smaller: the headers of the blocks in use form one  *)
(* ring with the list head (heap.c:24-27, 39-40), the pages taken from the *)
(* page allocator are those of the blocks (heap.c:19, 41), and every block *)
(* holds what was last written to it (heap.c:53).                          *)
LEMMA Always == ~ Shrinks => (Spec => []IInv)
<1>1. CASE Shrinks
  BY <1>1
<1>2. CASE ~ Shrinks
  <2>1. IInv /\ [Next]_<<absVars, heapVars>> => IInv'
    BY <1>2, NextInv
  <2>2. Spec => []IInv
    BY InitInv, <2>1, PTL DEF Spec
  <2> QED
    BY <2>2
<1> QED
  BY <1>1, <1>2

(* Every header of a block in use is reached from the list head, in both   *)
(* directions, and nothing else is (heap.c:24-27, 39-40).                  *)
THEOREM OneRing == ~ Shrinks => (Spec => []RingOK)
<1>1. IInv => RingOK
  BY InvImplies
<1> QED
  BY <1>1, Always, PTL

(* No page is leaked or given back twice: heap_free returns as many pages  *)
(* as heap_alloc took (heap.c:19, 41).                                     *)
THEOREM NoPageLeaks == ~ Shrinks => (Spec => []NoLeak)
<1>1. IInv => NoLeak
  BY InvImplies
<1> QED
  BY <1>1, Always, PTL

(* A caller reads back what it wrote, and krealloc to a larger size keeps  *)
(* it (heap.c:21-27, 39-40, 53).                                           *)
THEOREM KeptContents == ~ Shrinks => (Spec => []ContentsKept)
<1>1. IInv => ContentsKept
  BY InvImplies
<1> QED
  BY <1>1, Always, PTL
=============================================================================
