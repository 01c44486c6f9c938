----------------------------- MODULE SetupProofs -----------------------------
(***************************************************************************)
(* Proofs about the set-up of the kernel, for all layouts, machines and    *)
(* sizes of tables: the page map (Vmm), the walk over the ACPI table (Acpi)*)
(* and the routing of interrupts (Ioapic), as parts of Setup; and about the*)
(* way into a handler and back (Entry).                                    *)
(*                                                                         *)
(* Induction over data is by sets of numbers: the lemmas Least and         *)
(* Induction come from the well-foundedness of finite sets.                *)
(***************************************************************************)
EXTENDS Setup, Entry, SequenceTheorems, FiniteSetTheorems, TLAPS

(* A set of natural numbers that is not empty has a least one ... *)
LEMMA Least ==
  ASSUME NEW S \in SUBSET Nat, S # {}
  PROVE  \E n \in S : \A m \in S : n <= m
<1> DEFINE U == {0..n : n \in S}
<1>1. U \subseteq FiniteSubsetsOf(Nat)
  <2>1. ASSUME NEW n \in S PROVE 0..n \in FiniteSubsetsOf(Nat)
    <3>1. n \in Int /\ 0 \in Int
      OBVIOUS
    <3>2. IsFiniteSet(0..n)
      BY <3>1, FS_Interval
    <3>3. 0..n \in SUBSET Nat
      OBVIOUS
    <3> QED BY <3>2, <3>3 DEF FiniteSubsetsOf
  <2> QED BY <2>1
<1>2. U # {}
  OBVIOUS
<1>3. IsWellFoundedOn(StrictSubsetOrdering(Nat), FiniteSubsetsOf(Nat))
  BY FS_StrictSubsetOrderingWellFounded
<1>4. PICK x \in U : \A y \in U : ~ (<<y, x>> \in StrictSubsetOrdering(Nat))
  <2> HIDE DEF U
  <2> QED BY <1>1, <1>2, <1>3, WFMin
<1>5. PICK n \in S : x = 0..n
  OBVIOUS
<1>6. ASSUME NEW m \in S, m < n PROVE FALSE
  <2>1. <<0..m, 0..n>> \in StrictSubsetOrdering(Nat)
    <3>1. 0..m \in SUBSET Nat /\ 0..n \in SUBSET Nat
      OBVIOUS
    <3>2. 0..m \subseteq 0..n 
      BY <1>6
    <3>3. n \in 0..n /\ n \notin 0..m
      BY <1>6
    <3> QED BY <3>1, <3>2, <3>3 DEF StrictSubsetOrdering
  <2> QED BY <2>1, <1>4, <1>5
<1> QED
  BY <1>6

(* ... from which induction follows. *)
LEMMA Induction ==
  ASSUME NEW T \in SUBSET Nat, 0 \in T, \A n \in T : n + 1 \in T
  PROVE  T = Nat
<1> SUFFICES ASSUME T # Nat PROVE FALSE
  OBVIOUS
<1> DEFINE U == Nat \ T
<1>1. U \in SUBSET Nat /\ U # {}
  OBVIOUS
<1>2. PICK n \in U : \A m \in U : n <= m
  <2> HIDE DEF U
  <2> QED BY <1>1, Least
<1>3. n # 0
  OBVIOUS
<1>4. n - 1 \in Nat
  BY <1>3
<1>5. n - 1 \in T
  BY <1>2, <1>4
<1>6. (n - 1) + 1 \in T
  BY <1>5
<1> QED
  BY <1>6

-----------------------------------------------------------------------------
(* The page map. *)

Flags == {"present", "writable", "nx"}

(* An entry of a table. *)
Ptes == [page : Int, flags : SUBSET Flags]
Pages == 0..PageCount
Present(e) == "present" \in e.flags

(* The walk from a root in the tables t, entry by entry. *)
E4(t, root, v) == t[root][Index(v, 4)]
E3(t, root, v) == t[E4(t, root, v).page][Index(v, 3)]
E2(t, root, v) == t[E3(t, root, v).page][Index(v, 2)]
E1(t, root, v) == t[E2(t, root, v).page][Index(v, 1)]
Leads(t, root, v) ==
  /\ Present(E4(t, root, v)) /\ Present(E3(t, root, v))
  /\ Present(E2(t, root, v)) /\ Present(E1(t, root, v))
Found(t, root, v) == IF Leads(t, root, v) THEN E1(t, root, v) ELSE Unmapped

(* The tables are a tree: of[p] is the level of the table in page p, or 0, *)
(* and at[p] one of the pages that it is the table of.                     *)
Tree(t, root, of, at) ==
  /\ t \in [Pages -> [Indices -> Ptes]]
  /\ of \in [Pages -> 0..4] /\ at \in [Pages -> VirtualPages]
  /\ root \in Pages /\ of[root] = 4
  /\ \A p \in Pages, i \in Indices :
       of[p] > 1 /\ Present(t[p][i]) =>
         LET q == t[p][i].page
         IN  /\ q \in Pages /\ of[q] = of[p] - 1
             /\ Index(at[q], of[p]) = i
             /\ \A k \in (of[p] + 1)..4 : Index(at[q], k) = Index(at[p], k)

(* The bitmap covers a number of pages. *)
LEMMA CountIsNat == PageCount \in Nat
<1> DEFINE IsTop(i) == i \in Usable /\ \A j \in Usable : EntryEnd(j) <= EntryEnd(i)
           Regions == [base : Nat, length : Nat \ {0}, usable : BOOLEAN]
<1>1. \A i \in Usable : EntryEnd(i) \in Nat
  <2>1. Memmap \in Seq(Regions)
    BY MemmapAssumption
  <2>2. \A i \in DOMAIN Memmap : Memmap[i] \in Regions
    <3> HIDE DEF Regions
    <3> QED BY <2>1
  <2>3. ASSUME NEW i \in Usable PROVE Memmap[i].base \in Nat /\ Memmap[i].length \in Nat
    <3>1. Memmap[i] \in Regions
      BY <2>2 DEF Usable
    <3> QED
      BY <3>1
  <2> QED
    BY <2>3 DEF EntryEnd
<1>2. \E i : IsTop(i)
  BY MemmapAssumption
<1>3. IsTop(CHOOSE i \in Usable : \A j \in Usable : EntryEnd(j) <= EntryEnd(i))
  BY <1>2
<1> QED
  BY <1>1, <1>3 DEF PageCount

(* Division with remainder ... *)
LEMMA Division ==
  ASSUME NEW a \in Nat \ {0}, NEW x \in Nat
  PROVE  /\ x \div a \in Nat /\ x % a \in 0..(a - 1)
         /\ x = (x \div a) * a + (x % a)
OBVIOUS

(* ... which determines the quotient, ... *)
LEMMA DivisionIs ==
  ASSUME NEW a \in Nat \ {0}, NEW x \in Nat, NEW q \in Nat, q * a <= x, x < (q + 1) * a
  PROVE  x \div a = q
OBVIOUS

(* ... which is monotonic, ... *)
LEMMA DivisionGrows ==
  ASSUME NEW a \in Nat \ {0}, NEW x \in Nat, NEW y \in Nat, x <= y
  PROVE  x \div a <= y \div a
OBVIOUS

(* ... one more for every divisor added, ... *)
LEMMA DivisionNext ==
  ASSUME NEW a \in Nat \ {0}, NEW x \in Nat
  PROVE  (x + a) \div a = (x \div a) + 1
OBVIOUS

(* ... and exact for a multiple. *)
LEMMA DivisionTimes ==
  ASSUME NEW a \in Nat \ {0}, NEW x \in Nat
  PROVE  (x * a) \div a = x
OBVIOUS

(* The elements of two sequences one after the other. *)
LEMMA Joined ==
  ASSUME NEW S, NEW s \in Seq(S), NEW t \in Seq(S)
  PROVE  s \o t \in Seq(S) /\ Range(s \o t) = Range(s) \cup Range(t)
<1>1. s \o t \in Seq(S)
  BY ConcatProperties
<1>2. Range(s \o t) = Range(s) \cup Range(t)
  BY RangeConcatenation
<1> QED BY <1>1, <1>2

(* The pages with a byte of a section are those from its start rounded     *)
(* down to its end rounded up.                                             *)
LEMMA HoldsPages ==
  ASSUME NEW start \in Nat, NEW end \in Nat, start < end, NEW v \in Int
  PROVE  Holds(v, start, end) <=> v \in ALIGN_DOWN(start)..(ALIGN_UP(end) - 1)
<1> DEFINE p == PageBytes
<1>0. p \in Nat \ {0}
  BY MemmapAssumption
<1> HIDE DEF p
<1>1. /\ start \div p \in Nat /\ (end - 1) \div p \in Nat
      /\ ((end - 1) + p) \div p = ((end - 1) \div p) + 1
  <2>1. end - 1 \in Nat
    OBVIOUS
  <2> QED BY <1>0, <2>1, Division, DivisionNext
<1>2. end + p - 1 = (end - 1) + p
  BY <1>0
<1>3. ALIGN_DOWN(start) = start \div p /\ ALIGN_UP(end) - 1 = (end - 1) \div p
  BY <1>1, <1>2 DEF ALIGN_DOWN, ALIGN_UP, p
<1>4. ASSUME Holds(v, start, end) PROVE v \in ALIGN_DOWN(start)..(ALIGN_UP(end) - 1)
  <2>1. PICK b \in start..(end - 1) : b \div p = v
    BY <1>4 DEF Holds, p
  <2>2. start \div p <= b \div p /\ b \div p <= (end - 1) \div p
    BY <1>0, <2>1, DivisionGrows
  <2> QED BY <1>1, <1>3, <2>1, <2>2
<1>5. ASSUME v \in ALIGN_DOWN(start)..(ALIGN_UP(end) - 1) PROVE Holds(v, start, end)
  <2>1. v \in Nat /\ start \div p <= v /\ v <= (end - 1) \div p
    BY <1>1, <1>3, <1>5
  <2>2. CASE v = start \div p
    BY <2>2 DEF Holds, p
  <2>3. CASE v > start \div p
    <3>1. start = (start \div p) * p + (start % p) /\ start % p \in 0..(p - 1)
      BY <1>0, Division
    <3>2. (end - 1) = ((end - 1) \div p) * p + ((end - 1) % p) /\ (end - 1) % p \in 0..(p - 1)
      BY <1>0, Division
    <3> DEFINE s == start \div p  e == (end - 1) \div p  sr == start % p  er == (end - 1) % p
    <3>3. /\ s \in Nat /\ e \in Nat /\ sr \in 0..(p - 1) /\ er \in 0..(p - 1)
          /\ start = s * p + sr /\ end - 1 = e * p + er /\ s < v /\ v <= e
      BY <1>1, <2>1, <2>3, <3>1, <3>2
    <3> HIDE DEF s, e, sr, er
    <3>4. v * p <= e * p
      BY <1>0, <2>1, <3>3
    <3>5. (s + 1) * p <= v * p
      BY <1>0, <2>1, <3>3
    <3>6. (s + 1) * p = s * p + p /\ s * p \in Nat /\ e * p \in Nat /\ v * p \in Nat
      BY <1>0, <2>1, <3>3
    <3>7. v * p \in start..(end - 1)
      BY <1>0, <3>3, <3>4, <3>5, <3>6
    <3>8. (v * p) \div p = v
      BY <1>0, <2>1, DivisionTimes
    <3> QED BY <3>7, <3>8 DEF Holds, p
  <2> QED BY <1>1, <2>1, <2>2, <2>3
<1> QED BY <1>4, <1>5

(* What an entry of a table of each level covers. *)
LEMMA Spans ==
  /\ Fanout \in Nat \ {0}
  /\ Span[1] = 1 /\ Span[2] = Fanout /\ Span[3] = Fanout * Fanout
  /\ Span[4] = Fanout * Fanout * Fanout
  /\ \A k \in 1..4 : Span[k] \in Nat \ {0}
<1>1. Fanout \in Nat \ {0}
  BY VmmAssumption
<1>2. /\ Span[1] = 1 /\ Span[2] = Fanout /\ Span[3] = Fanout * Fanout
      /\ Span[4] = Fanout * Fanout * Fanout
  BY DEF Span
<1>3. /\ Fanout * Fanout \in Nat \ {0}
      /\ Fanout * Fanout * Fanout \in Nat \ {0}
  <2>1. \A x, y \in Nat \ {0} : x * y \in Nat \ {0}
    OBVIOUS
  <2>2. Fanout * Fanout \in Nat \ {0}
    BY <1>1, <2>1
  <2> QED BY <1>1, <2>1, <2>2
<1>4. \A k \in 1..4 : Span[k] \in Nat \ {0}
  <2>1. \A k \in 1..4 : k = 1 \/ k = 2 \/ k = 3 \/ k = 4
    OBVIOUS
  <2> QED BY <1>1, <1>2, <1>3, <2>1
<1> QED BY <1>1, <1>2, <1>4

(* The index of a page in a table of each level. *)
LEMMA IndexType == \A v \in Nat, k \in 1..4 : Index(v, k) \in Indices
<1> SUFFICES ASSUME NEW v \in Nat, NEW k \in 1..4 PROVE Index(v, k) \in Indices
  OBVIOUS
<1>1. Span[k] \in Nat \ {0} /\ Fanout \in Nat \ {0}
  BY Spans
<1>2. v \div Span[k] \in Nat
  BY <1>1, Division
<1>3. (v \div Span[k]) % Fanout \in 0..(Fanout - 1)
  BY <1>1, <1>2, Division
<1> QED BY <1>3 DEF Index, Indices

(* A virtual page is determined by its four indices. *)
LEMMA IndicesDetermine ==
  ASSUME NEW v \in VirtualPages, NEW w \in VirtualPages,
         \A k \in 1..4 : Index(v, k) = Index(w, k)
  PROVE  v = w
<1> DEFINE f == Fanout
<1>0. f \in Nat \ {0}
  BY Spans
<1>1. ASSUME NEW x \in VirtualPages
      PROVE  /\ x = (x \div f) * f + Index(x, 1)
             /\ x \div f = (x \div Span[3]) * f + Index(x, 2)
             /\ x \div Span[3] = (x \div Span[4]) * f + Index(x, 3)
             /\ x \div Span[4] = Index(x, 4)
  <2>1. x \in Nat /\ x <= f * Span[4] - 1 /\ Span[3] \in Nat \ {0} /\ Span[4] \in Nat \ {0}
    BY Spans DEF VirtualPages
  <2>2. x \div f \in Nat /\ x \div Span[3] \in Nat /\ x \div Span[4] \in Nat
    BY <1>0, <2>1, Division
  <2>3. x \div 1 = x
    BY <2>1
  <2>4. x = (x \div f) * f + Index(x, 1)
    <3>1. x = (x \div f) * f + (x % f)
      BY <1>0, <2>1, Division
    <3>2. Index(x, 1) = x % f
      BY <2>3, Spans DEF Index
    <3> QED BY <3>1, <3>2
  <2>5. (x \div f) \div f = x \div Span[3]
    BY <1>0, <2>1, Spans
  <2>6. x \div f = (x \div Span[3]) * f + Index(x, 2)
    <3>1. x \div f = ((x \div f) \div f) * f + ((x \div f) % f)
      BY <1>0, <2>2, Division
    <3> QED BY <3>1, <2>5, Spans DEF Index
  <2>7. (x \div Span[3]) \div f = x \div Span[4]
    <3>1. (x \div Span[3]) \div f = x \div (Span[3] * f)
      BY <1>0, <2>1
    <3> QED BY <3>1, Spans
  <2>8. x \div Span[3] = (x \div Span[4]) * f + Index(x, 3)
    <3>1. x \div Span[3] = ((x \div Span[3]) \div f) * f + ((x \div Span[3]) % f)
      BY <1>0, <2>2, Division
    <3> QED BY <3>1, <2>7 DEF Index
  <2>9. x \div Span[4] = Index(x, 4)
    <3> DEFINE s == Span[4] q == x \div s
    <3>1. x = q * s + (x % s) /\ x % s \in Nat /\ q \in Nat /\ s \in Nat \ {0}
      <4>1. s \in Nat \ {0} /\ x \in Nat
        BY <2>1
      <4> HIDE DEF s
      <4>2. x % s \in 0..(s - 1) /\ x = (x \div s) * s + (x % s) /\ x \div s \in Nat
        BY <4>1, Division
      <4> QED BY <4>1, <4>2
    <3> HIDE DEF s, q
    <3>2. x <= f * s - 1
      BY <2>1 DEF s
    <3>3. q < f
      <4> SUFFICES ASSUME q >= f PROVE FALSE
        BY <1>0, <3>1
      <4>1. q * s >= f * s
        BY <1>0, <3>1
      <4> QED BY <1>0, <3>1, <3>2, <4>1
    <3>4. q % f = q
      BY <1>0, <3>1, <3>3
    <3> QED BY <3>4 DEF q, s, Index
  <2> QED BY <2>4, <2>6, <2>8, <2>9
<1>2. /\ Index(v, 1) = Index(w, 1) /\ Index(v, 2) = Index(w, 2)
      /\ Index(v, 3) = Index(w, 3) /\ Index(v, 4) = Index(w, 4)
  OBVIOUS
<1>3. v \div Span[4] = w \div Span[4]
  BY <1>1, <1>2
<1>4. v \div Span[3] = w \div Span[3]
  BY <1>1, <1>2, <1>3
<1>5. v \div f = w \div f
  BY <1>1, <1>2, <1>4
<1> QED
  BY <1>1, <1>2, <1>5

(* Every page that a walk comes to is the table of its level, and of the   *)
(* page that is looked for.                                                *)
LEMMA Descent ==
  ASSUME NEW t, NEW root, NEW of, NEW at, Tree(t, root, of, at), NEW v \in VirtualPages
  PROVE  /\ Present(E4(t, root, v)) =>
              LET p == E4(t, root, v).page
              IN  /\ p \in Pages /\ of[p] = 3
                  /\ \A k \in 4..4 : Index(at[p], k) = Index(v, k)
         /\ Present(E4(t, root, v)) /\ Present(E3(t, root, v)) =>
              LET p == E3(t, root, v).page
              IN  /\ p \in Pages /\ of[p] = 2
                  /\ \A k \in 3..4 : Index(at[p], k) = Index(v, k)
         /\ Present(E4(t, root, v)) /\ Present(E3(t, root, v)) /\ Present(E2(t, root, v)) =>
              LET p == E2(t, root, v).page
              IN  /\ p \in Pages /\ of[p] = 1
                  /\ \A k \in 2..4 : Index(at[p], k) = Index(v, k)
<1>0. \A k \in 1..4 : Index(v, k) \in Indices
  BY IndexType DEF VirtualPages
<1>1. ASSUME NEW p \in Pages, NEW l \in 2..4, of[p] = l, Present(t[p][Index(v, l)]),
             \A k \in (l + 1)..4 : Index(at[p], k) = Index(v, k)
      PROVE  LET q == t[p][Index(v, l)].page
             IN  /\ q \in Pages /\ of[q] = l - 1
                 /\ \A k \in l..4 : Index(at[q], k) = Index(v, k)
  <2> DEFINE q == t[p][Index(v, l)].page
  <2>1. Index(v, l) \in Indices /\ of[p] > 1
    BY <1>0, <1>1
  <2>2. /\ q \in Pages /\ of[q] = of[p] - 1
        /\ Index(at[q], of[p]) = Index(v, l)
        /\ \A k \in (of[p] + 1)..4 : Index(at[q], k) = Index(at[p], k)
    BY <1>1, <2>1 DEF Tree
  <2>3. ASSUME NEW k \in l..4 PROVE Index(at[q], k) = Index(v, k)
    <3>1. CASE k = l
      BY <1>1, <2>2, <3>1
    <3>2. CASE k # l
      <4>1. k \in (l + 1)..4
        BY <3>2
      <4> QED BY <1>1, <2>2, <4>1
    <3> QED BY <3>1, <3>2
  <2> QED BY <1>1, <2>2, <2>3
<1>2. ASSUME Present(E4(t, root, v))
      PROVE  LET p == E4(t, root, v).page
             IN  /\ p \in Pages /\ of[p] = 3
                 /\ \A k \in 4..4 : Index(at[p], k) = Index(v, k)
  <2>1. root \in Pages /\ of[root] = 4 /\ 4 \in 2..4 /\ (4 + 1)..4 = {} /\ 4 - 1 = 3
    BY DEF Tree
  <2> QED BY <1>1, <1>2, <2>1 DEF E4
<1>3. ASSUME Present(E4(t, root, v)), Present(E3(t, root, v))
      PROVE  LET p == E3(t, root, v).page
             IN  /\ p \in Pages /\ of[p] = 2
                 /\ \A k \in 3..4 : Index(at[p], k) = Index(v, k)
  <2> DEFINE r == E4(t, root, v).page
  <2>1. r \in Pages /\ of[r] = 3 /\ \A k \in (3 + 1)..4 : Index(at[r], k) = Index(v, k)
    BY <1>2, <1>3
  <2>2. 3 \in 2..4 /\ 3 - 1 = 2
    OBVIOUS
  <2>3. E3(t, root, v) = t[r][Index(v, 3)]
    BY DEF E3
  <2> HIDE DEF r
  <2> QED BY <1>1, <1>3, <2>1, <2>2, <2>3
<1>4. ASSUME Present(E4(t, root, v)), Present(E3(t, root, v)), Present(E2(t, root, v))
      PROVE  LET p == E2(t, root, v).page
             IN  /\ p \in Pages /\ of[p] = 1
                 /\ \A k \in 2..4 : Index(at[p], k) = Index(v, k)
  <2> DEFINE r == E3(t, root, v).page
  <2>1. r \in Pages /\ of[r] = 2 /\ \A k \in (2 + 1)..4 : Index(at[r], k) = Index(v, k)
    BY <1>3, <1>4
  <2>2. 2 \in 2..4 /\ 2 - 1 = 1
    OBVIOUS
  <2>3. E2(t, root, v) = t[r][Index(v, 2)]
    BY DEF E2
  <2> HIDE DEF r
  <2> QED BY <1>1, <1>4, <2>1, <2>2, <2>3
<1> QED BY <1>2, <1>3, <1>4

(* A new page, cleared, linked in at an entry, and an entry written. *)
Linked(t, p, i, r) ==
  [t EXCEPT ![r] = Zeroed, ![p][i] = Pte(r, {"present", "writable"})]
Written(t, p, i, to) == [t EXCEPT ![p][i] = to]

(* A new page, empty, is linked in at an entry that was not present: no    *)
(* walk ends otherwise than before.                                        *)
LEMMA LinkFinds ==
  ASSUME NEW t, NEW root, NEW of, NEW at, Tree(t, root, of, at),
         NEW p \in Pages, NEW i \in Indices, of[p] > 1, ~ Present(t[p][i]),
         NEW r \in Pages, of[r] = 0, NEW u,
         u = Linked(t, p, i, r),
         NEW v \in VirtualPages
  PROVE  Found(u, root, v) = Found(t, root, v)
<1>0. \A k \in 1..4 : Index(v, k) \in Indices
  BY IndexType DEF VirtualPages
<1>1. /\ p # r /\ t \in [Pages -> [Indices -> Ptes]]
      /\ u = [t EXCEPT ![r] = Zeroed, ![p][i] = Pte(r, {"present", "writable"})]
  BY DEF Tree, Linked
<1>2. \A q \in Pages, j \in Indices :
        of[q] > 0 /\ ~ (q = p /\ j = i) => u[q][j] = t[q][j]
  <2> SUFFICES ASSUME NEW q \in Pages, NEW j \in Indices, of[q] > 0, ~ (q = p /\ j = i)
               PROVE  u[q][j] = t[q][j]
    OBVIOUS
  <2>1. q # r
    OBVIOUS
  <2> QED BY <1>1, <2>1
<1>3. u[p][i] = Pte(r, {"present", "writable"})
  BY <1>1
<1>4. \A j \in Indices : ~ Present(u[r][j])
  <2>1. u[r] = Zeroed
    BY <1>1
  <2> QED BY <2>1 DEF Zeroed, Pte, Present
<1>5. root \in Pages /\ of[root] = 4
  BY DEF Tree
<1> DEFINE i4 == Index(v, 4)  i3 == Index(v, 3)  i2 == Index(v, 2)  i1 == Index(v, 1)
           p3 == E4(t, root, v).page  p2 == E3(t, root, v).page  p1 == E2(t, root, v).page
<1>6. i4 \in Indices /\ i3 \in Indices /\ i2 \in Indices /\ i1 \in Indices
  BY <1>0
<1>7. CASE root = p /\ i4 = i
  <2>1. ~ Present(E4(t, root, v))
    BY <1>7 DEF E4
  <2>2. E4(u, root, v).page = r
    BY <1>3, <1>7 DEF E4, Pte
  <2>3. ~ Present(E3(u, root, v))
    BY <1>4, <1>6, <2>2 DEF E3
  <2> QED BY <2>1, <2>3 DEF Found, Leads
<1>8. CASE ~ (root = p /\ i4 = i)
  <2>1. E4(u, root, v) = E4(t, root, v)
    <3>1. u[root][i4] = t[root][i4]
      <4>1. of[root] > 0
        BY <1>5
      <4> QED BY <1>2, <1>5, <1>6, <1>8, <4>1
    <3> QED BY <3>1 DEF E4
  <2>2. CASE ~ Present(E4(t, root, v))
    BY <2>1, <2>2 DEF Found, Leads
  <2>3. CASE Present(E4(t, root, v))
    <3>1. p3 \in Pages /\ of[p3] = 3
      BY <2>3, Descent
    <3>2. E3(u, root, v) = u[p3][i3] /\ E3(t, root, v) = t[p3][i3]
      BY <2>1 DEF E3
    <3>3. CASE p3 = p /\ i3 = i
      <4>1. ~ Present(E3(t, root, v)) /\ E3(u, root, v).page = r
        BY <1>3, <3>2, <3>3 DEF Pte
      <4>2. ~ Present(E2(u, root, v))
        BY <1>4, <1>6, <4>1 DEF E2
      <4> QED BY <4>1, <4>2 DEF Found, Leads
    <3>4. CASE ~ (p3 = p /\ i3 = i)
      <4>1. E3(u, root, v) = E3(t, root, v)
        BY <1>2, <1>6, <3>1, <3>2, <3>4
      <4>2. CASE ~ Present(E3(t, root, v))
        BY <4>1, <4>2 DEF Found, Leads
      <4>3. CASE Present(E3(t, root, v))
        <5>1. p2 \in Pages /\ of[p2] = 2
          BY <2>3, <4>3, Descent
        <5>2. E2(u, root, v) = u[p2][i2] /\ E2(t, root, v) = t[p2][i2]
          BY <4>1 DEF E2
        <5>3. CASE p2 = p /\ i2 = i
          <6>1. ~ Present(E2(t, root, v)) /\ E2(u, root, v).page = r
            BY <1>3, <5>2, <5>3 DEF Pte
          <6>2. ~ Present(E1(u, root, v))
            BY <1>4, <1>6, <6>1 DEF E1
          <6> QED BY <6>1, <6>2 DEF Found, Leads
        <5>4. CASE ~ (p2 = p /\ i2 = i)
          <6>1. E2(u, root, v) = E2(t, root, v)
            BY <1>2, <1>6, <5>1, <5>2, <5>4
          <6>2. CASE ~ Present(E2(t, root, v))
            BY <6>1, <6>2 DEF Found, Leads
          <6>3. CASE Present(E2(t, root, v))
            <7>1. p1 \in Pages /\ of[p1] = 1
              BY <2>3, <4>3, <6>3, Descent
            <7>2. E1(u, root, v) = u[p1][i1] /\ E1(t, root, v) = t[p1][i1]
              BY <6>1 DEF E1
            <7>3. E1(u, root, v) = E1(t, root, v)
              BY <1>2, <1>6, <7>1, <7>2
            <7> QED BY <2>1, <4>1, <6>1, <7>3 DEF Found, Leads
          <6> QED BY <6>2, <6>3
        <5> QED BY <5>3, <5>4
      <4> QED BY <4>2, <4>3
    <3> QED BY <3>3, <3>4
  <2> QED BY <2>2, <2>3
<1> QED BY <1>7, <1>8

(* ... and the tables are still a tree. *)
LEMMA LinkGrows ==
  ASSUME NEW t, NEW root, NEW of, NEW at, Tree(t, root, of, at),
         NEW v \in VirtualPages, NEW p \in Pages, NEW l \in 2..4, of[p] = l,
         \A k \in (l + 1)..4 : Index(at[p], k) = Index(v, k),
         NEW i \in Indices, i = Index(v, l), ~ Present(t[p][i]),
         NEW r \in Pages, of[r] = 0, NEW u,
         u = Linked(t, p, i, r)
  PROVE  Tree(u, root, [of EXCEPT ![r] = l - 1], [at EXCEPT ![r] = v])
<1> DEFINE nof == [of EXCEPT ![r] = l - 1]
           nat == [at EXCEPT ![r] = v]
           link == Pte(r, {"present", "writable"})
<1>1. /\ t \in [Pages -> [Indices -> Ptes]]
      /\ of \in [Pages -> 0..4] /\ at \in [Pages -> VirtualPages]
      /\ root \in Pages /\ of[root] = 4 /\ r # p /\ r # root
      /\ u = [t EXCEPT ![r] = Zeroed, ![p][i] = Pte(r, {"present", "writable"})]
  BY DEF Tree, Linked
<1>2. r \in Int
  BY CountIsNat DEF Pages
<1>3. Zeroed \in [Indices -> Ptes] /\ link \in Ptes
  BY <1>2 DEF Zeroed, Ptes, Pte, Flags
<1>4. u \in [Pages -> [Indices -> Ptes]]
  BY <1>1, <1>3
<1>5. /\ nof \in [Pages -> 0..4] /\ nat \in [Pages -> VirtualPages] /\ nof[root] = 4
      /\ nof[r] = l - 1 /\ nat[r] = v
      /\ \A q \in Pages : q # r => nof[q] = of[q] /\ nat[q] = at[q]
  <2>1. l - 1 \in 0..4
    OBVIOUS
  <2> QED BY <1>1, <2>1
<1> HIDE DEF nof, nat
<1>6. ASSUME NEW q \in Pages, NEW j \in Indices, nof[q] > 1, Present(u[q][j])
      PROVE  LET c == u[q][j].page
             IN  /\ c \in Pages /\ nof[c] = nof[q] - 1
                 /\ Index(nat[c], nof[q]) = j
                 /\ \A k \in (nof[q] + 1)..4 : Index(nat[c], k) = Index(nat[q], k)
  <2>1. q # r
    <3>1. u[r] = Zeroed
      BY <1>1
    <3> QED BY <1>6, <3>1 DEF Zeroed, Pte, Present
  <2>2. CASE q = p /\ j = i
    <3>1. u[q][j].page = r
      BY <1>1, <2>2 DEF Pte
    <3>2. nof[q] = l /\ nat[q] = at[p]
      BY <1>5, <2>1, <2>2
    <3> QED BY <1>5, <2>2, <3>1, <3>2
  <2>3. CASE ~ (q = p /\ j = i)
    <3>1. u[q][j] = t[q][j]
      BY <1>1, <2>1, <2>3
    <3>2. nof[q] = of[q] /\ nat[q] = at[q] /\ of[q] > 1 /\ of[q] \in Int
      BY <1>1, <1>5, <1>6, <2>1
    <3> DEFINE c == t[q][j].page
    <3>3. /\ c \in Pages /\ of[c] = of[q] - 1
          /\ Index(at[c], of[q]) = j
          /\ \A k \in (of[q] + 1)..4 : Index(at[c], k) = Index(at[q], k)
      BY <1>6, <3>1, <3>2 DEF Tree
    <3>4. c # r
      BY <3>2, <3>3
    <3>5. nof[c] = of[c] /\ nat[c] = at[c]
      BY <1>5, <3>3, <3>4
    <3> QED BY <3>1, <3>2, <3>3, <3>5
  <2> QED BY <2>2, <2>3
<1> QED
  BY <1>1, <1>4, <1>5, <1>6 DEF Tree, nof, nat

(* The last entry of a walk is overwritten: the walk finds what was        *)
(* written, and no other walk is affected.                                 *)
LEMMA WriteFinds ==
  ASSUME NEW t, NEW root, NEW of, NEW at, Tree(t, root, of, at),
         NEW v \in VirtualPages, NEW p \in Pages, p = E2(t, root, v).page,
         Present(E4(t, root, v)), Present(E3(t, root, v)), Present(E2(t, root, v)),
         NEW to \in Ptes, Present(to), NEW u,
         u = Written(t, p, Index(v, 1), to)
  PROVE  /\ Tree(u, root, of, at)
         /\ \A w \in VirtualPages :
              Found(u, root, w) = IF w = v THEN to ELSE Found(t, root, w)
<1>1. /\ t \in [Pages -> [Indices -> Ptes]]
      /\ of \in [Pages -> 0..4] /\ at \in [Pages -> VirtualPages]
      /\ root \in Pages /\ of[root] = 4
      /\ u = [t EXCEPT ![p][Index(v, 1)] = to]
  BY DEF Tree, Written
<1>2. \A w \in VirtualPages, k \in 1..4 : Index(w, k) \in Indices
  BY IndexType DEF VirtualPages
<1>3. of[p] = 1 /\ \A k \in 2..4 : Index(at[p], k) = Index(v, k)
  BY Descent
<1>4. u \in [Pages -> [Indices -> Ptes]]
  <2>1. Index(v, 1) \in Indices
    BY <1>2
  <2>2. [t[p] EXCEPT ![Index(v, 1)] = to] \in [Indices -> Ptes]
    BY <1>1, <2>1
  <2>3. u = [t EXCEPT ![p] = [t[p] EXCEPT ![Index(v, 1)] = to]]
    BY <1>1
  <2> QED BY <1>1, <2>2, <2>3
<1>5. \A q \in Pages, j \in Indices :
        ~ (q = p /\ j = Index(v, 1)) => u[q][j] = t[q][j]
  BY <1>1, <1>2
<1>6. u[p][Index(v, 1)] = to
  BY <1>1, <1>2
<1>7. Tree(u, root, of, at)
  <2>1. \A q \in Pages, j \in Indices : of[q] > 1 => u[q][j] = t[q][j]
    BY <1>3, <1>5
  <2> QED BY <1>1, <1>4, <2>1 DEF Tree
<1>8. ASSUME NEW w \in VirtualPages
      PROVE  Found(u, root, w) = IF w = v THEN to ELSE Found(t, root, w)
  <2>0. 1 \in 1..4 /\ 2 \in 1..4 /\ 3 \in 1..4 /\ 4 \in 1..4
    OBVIOUS
  <2>1. E4(u, root, w) = E4(t, root, w)
    <3>1. root # p
      BY <1>1, <1>3
    <3> QED BY <1>1, <1>2, <1>5, <2>0, <3>1 DEF E4
  <2>2. CASE ~ Present(E4(t, root, w))
    BY <2>1, <2>2 DEF Found, Leads
  <2>3. CASE Present(E4(t, root, w))
    <3> DEFINE p3 == E4(t, root, w).page
    <3>1. p3 \in Pages /\ p3 # p
      BY <1>3, <2>3, Descent
    <3>2. E3(u, root, w) = E3(t, root, w)
      BY <1>2, <1>5, <2>0, <2>1, <3>1 DEF E3
    <3>3. CASE ~ Present(E3(t, root, w))
      BY <2>1, <3>2, <3>3 DEF Found, Leads
    <3>4. CASE Present(E3(t, root, w))
      <4> DEFINE p2 == E3(t, root, w).page
      <4>1. p2 \in Pages /\ p2 # p
        BY <1>3, <2>3, <3>4, Descent
      <4>2. E2(u, root, w) = E2(t, root, w)
        <5>1. u[p2][Index(w, 2)] = t[p2][Index(w, 2)]
          BY <1>2, <1>5, <2>0, <4>1
        <5> QED BY <3>2, <5>1 DEF E2
      <4>3. CASE ~ Present(E2(t, root, w))
        BY <2>1, <3>2, <4>2, <4>3 DEF Found, Leads
      <4>4. CASE Present(E2(t, root, w))
        <5> DEFINE p1 == E2(t, root, w).page
        <5>1. p1 \in Pages /\ \A k \in 2..4 : Index(at[p1], k) = Index(w, k)
          BY <2>3, <3>4, <4>4, Descent
        <5>2. E1(u, root, w) = u[p1][Index(w, 1)] /\ E1(t, root, w) = t[p1][Index(w, 1)]
          BY <4>2 DEF E1
        <5>3. CASE w = v
          BY <1>6, <2>1, <2>3, <3>2, <3>4, <4>2, <4>4, <5>2, <5>3 DEF Found, Leads
        <5>4. CASE w # v
          <6>1. ~ (p1 = p /\ Index(w, 1) = Index(v, 1))
            <7> SUFFICES ASSUME p1 = p, Index(w, 1) = Index(v, 1) PROVE FALSE
              OBVIOUS
            <7>1. \A k \in 1..4 : Index(v, k) = Index(w, k)
              <8> SUFFICES ASSUME NEW k \in 1..4 PROVE Index(v, k) = Index(w, k)
                OBVIOUS
              <8>1. k = 1 \/ k \in 2..4
                OBVIOUS
              <8> QED BY <1>3, <5>1, <8>1
            <7> QED BY <5>4, <7>1, IndicesDetermine
          <6>2. E1(u, root, w) = E1(t, root, w)
            BY <1>2, <1>5, <2>0, <5>1, <5>2, <6>1
          <6> QED BY <2>1, <3>2, <4>2, <5>4, <6>2 DEF Found, Leads
        <5> QED BY <5>3, <5>4
      <4> QED BY <4>3, <4>4
    <3> QED BY <3>3, <3>4
  <2> QED BY <2>2, <2>3
<1> QED BY <1>7, <1>8

(* The call in progress, as AddressSpace sees it. *)
Request == IF InCall THEN Calls[call] ELSE Call(0, 0, {})

(* The walk for v has come to the page p, the table of level l. *)
OnPathTo(t, root, v, l, p) ==
  /\ l = 4 => p = root
  /\ l = 3 => Present(E4(t, root, v)) /\ p = E4(t, root, v).page
  /\ l = 2 => /\ Present(E4(t, root, v)) /\ Present(E3(t, root, v))
              /\ p = E3(t, root, v).page
  /\ l = 1 => /\ Present(E4(t, root, v)) /\ Present(E3(t, root, v))
              /\ Present(E2(t, root, v)) /\ p = E2(t, root, v).page

OnPath == OnPathTo(tables, vmm_kernel_pm, Calls[call].virt, level, table)

(* Its pages have been granted, and so are not granted again. *)
TreeInv ==
  \E of, at :
    /\ Tree(tables, vmm_kernel_pm, of, at)
    /\ \A p \in Pages : of[p] > 0 => p \in used

(* The page has been mapped by a call that is over. *)
Called(v) == \E i \in DOMAIN Calls : i < call /\ Calls[i].virt = v
CalledInv ==
  \A v \in VirtualPages : Walk(v) = IF Called(v) THEN Wanted(v) ELSE Unmapped

(* Until a page is refused, after which page 0 is written to as if it were *)
(* a table, the map is a tree that the current call has come down.         *)
VmmInv ==
  /\ layout \in Layouts /\ call \in Nat /\ level \in 1..4 /\ refused \in BOOLEAN
  /\ call = 0 => level = 4
  /\ ~ refused => tables \in [Pages -> [Indices -> Ptes]]
  /\ ~ refused /\ call > 0 => TreeInv /\ (InCall => OnPath) /\ CalledInv

(* The walk of the processor in terms of the one below a given root. *)
LEMMA WalkIsFound ==
  ASSUME NEW v
  PROVE  Walk(v) = IF call > 0 THEN Found(tables, vmm_kernel_pm, v) ELSE Unmapped
BY DEF Walk, EntryOf, Found, Leads, E4, E3, E2, E1, Present

(* The layout decides what is mapped. *)
LEMMA SameCalls == ASSUME UNCHANGED layout PROVE Calls' = Calls /\ \A v : Wanted(v)' = Wanted(v)
BY DEF Calls, Wanted, Holds, Section, LowMemory, TextStart, TextEnd, RodataStart, RodataEnd, DataStart, DataEnd

(* A page that pmm_alloc grants was free. *)
LEMMA PageTaken ==
  ASSUME refused \in BOOLEAN, TakePage, ~ refused'
  PROVE  ~ refused /\ reply' \in 1..PageCount /\ reply' \notin used /\ used' = used \cup {reply'}
<1>1. ~ refused /\ reply' # 0
  BY DEF TakePage
<1>2. Alloc(1)
  BY <1>1 DEF TakePage, Refuse
<1>3. PICK s \in 1..PageCount : FreeRun(s, 1) /\ Grant(s, 1)
  BY <1>2 DEF Alloc, NextFit
<1>4. Run(s, 1) = {s}
  BY CountIsNat DEF Run
<1> QED
  BY <1>1, <1>3, <1>4 DEF FreeRun, Grant

CallType == [virt : Int, to : Ptes]

(* The calls for a section are for its pages ... *)
LEMMA SectionCalls ==
  ASSUME layout \in Layouts, NEW start \in Nat, NEW end \in Nat, start < end,
         NEW flags \in SUBSET Flags
  PROVE  /\ Section(start, end, flags) \in Seq(CallType)
         /\ Range(Section(start, end, flags)) =
              {Call(v, v - layout.virt_base + layout.phys_base, flags) :
                 v \in {v \in Int : Holds(v, start, end)}}
<1> DEFINE a == ALIGN_DOWN(start)  n == ALIGN_UP(end) - ALIGN_DOWN(start)
           C(v) == Call(v, v - layout.virt_base + layout.phys_base, flags)
           s == Section(start, end, flags)
<1>1. layout.virt_base \in Nat /\ layout.phys_base \in Nat /\ PageBytes \in Nat \ {0}
  BY VmmAssumption, MemmapAssumption DEF LayoutType
<1>2. a \in Nat /\ n \in Nat /\ ALIGN_UP(end) \in Nat
  <2>1. start \div PageBytes \in Nat
    BY <1>1, Division
  <2>2. /\ end - 1 \in Nat /\ (end - 1) \div PageBytes \in Nat
        /\ ((end - 1) + PageBytes) \div PageBytes = ((end - 1) \div PageBytes) + 1
        /\ end + PageBytes - 1 = (end - 1) + PageBytes
    <3>1. end - 1 \in Nat
      OBVIOUS
    <3>2. end + PageBytes - 1 = (end - 1) + PageBytes
      BY <1>1
    <3>3. /\ (end - 1) \div PageBytes \in Nat
          /\ ((end - 1) + PageBytes) \div PageBytes = ((end - 1) \div PageBytes) + 1
      BY <1>1, <3>1, Division, DivisionNext
    <3> QED BY <3>1, <3>2, <3>3
  <2>3. start \div PageBytes <= (end - 1) \div PageBytes
    BY <1>1, <2>2, DivisionGrows
  <2> QED BY <2>1, <2>2, <2>3 DEF ALIGN_DOWN, ALIGN_UP
<1>3. s = [i \in 1..n |-> C(a + i - 1)]
  BY DEF Section
<1>4. \A v \in Int : C(v) \in CallType
  BY <1>1 DEF Call, CallType, Pte, Ptes
<1>5. \A v \in Int : Holds(v, start, end) <=> v \in a..(a + n - 1)
  <2>1. a + n - 1 = ALIGN_UP(end) - 1
    BY <1>2
  <2> QED BY <2>1, HoldsPages
<1> HIDE DEF a, n, C, s
<1>6. s \in Seq(CallType)
  <2>1. \A i \in 1..n : C(a + i - 1) \in CallType
    BY <1>2, <1>4
  <2> QED BY <1>2, <1>3, <2>1, IsASeq
<1>7. Range(s) = {s[i] : i \in 1..n}
  BY <1>3 DEF Range
<1>8. Range(s) = {C(v) : v \in {v \in Int : Holds(v, start, end)}}
  <2>1. ASSUME NEW i \in 1..n PROVE s[i] \in {C(v) : v \in {v \in Int : Holds(v, start, end)}}
    <3>1. s[i] = C(a + i - 1)
      BY <1>3
    <3>2. a + i - 1 \in Int /\ Holds(a + i - 1, start, end)
      BY <1>2, <1>5
    <3> QED BY <3>1, <3>2
  <2>2. ASSUME NEW v \in Int, Holds(v, start, end) PROVE C(v) \in {s[i] : i \in 1..n}
    <3>1. v - a + 1 \in 1..n /\ a + (v - a + 1) - 1 = v
      BY <1>2, <1>5, <2>2
    <3>2. s[v - a + 1] = C(v)
      BY <1>3, <3>1
    <3> QED BY <3>1, <3>2
  <2> QED BY <1>7, <2>1, <2>2
<1> QED BY <1>6, <1>8 DEF s, C

(* ... and those for the low memory for its pages, each of them twice. *)
LEMMA LowMemoryCalls ==
  ASSUME layout \in Layouts
  PROVE  /\ LowMemory \in Seq(CallType)
         /\ Range(LowMemory) =
              {Call(p, p, {"present", "writable"}) : p \in 0..(layout.low - 1)} \cup
              {Call(HhdmBase + p, p, {"present", "writable"}) : p \in 0..(layout.low - 1)}
<1> DEFINE n == layout.low
           C(i) == LET p == (i - 1) \div 2
                   IN  Call(IF i % 2 = 1 THEN p ELSE HhdmBase + p, p, {"present", "writable"})
<1>1. n \in Nat /\ HhdmBase \in Nat
  BY VmmAssumption DEF LayoutType
<1>2. LowMemory = [i \in 1..(2 * n) |-> C(i)]
  BY DEF LowMemory
<1>3. \A i \in 1..(2 * n) : (i - 1) \div 2 \in 0..(n - 1)
  BY <1>1
<1>4. \A i \in 1..(2 * n) : C(i) \in CallType
  BY <1>1, <1>3 DEF Call, CallType, Pte, Ptes, Flags
<1>5. LowMemory \in Seq(CallType)
  <2> HIDE DEF C
  <2>1. 2 * n \in Nat
    BY <1>1
  <2> QED BY <1>2, <1>4, <2>1, IsASeq
<1>6. Range(LowMemory) = {C(i) : i \in 1..(2 * n)}
  <2> HIDE DEF C
  <2>1. DOMAIN LowMemory = 1..(2 * n) /\ \A i \in 1..(2 * n) : LowMemory[i] = C(i)
    BY <1>2
  <2> QED BY <2>1 DEF Range
<1> DEFINE A(p) == Call(p, p, {"present", "writable"})
           B(p) == Call(HhdmBase + p, p, {"present", "writable"})
<1>7. \A p \in 0..(n - 1) :
        /\ 2 * p + 1 \in 1..(2 * n) /\ C(2 * p + 1) = A(p)
        /\ 2 * p + 2 \in 1..(2 * n) /\ C(2 * p + 2) = B(p)
  <2> SUFFICES ASSUME NEW p \in 0..(n - 1)
               PROVE  /\ 2 * p + 1 \in 1..(2 * n) /\ C(2 * p + 1) = A(p)
                      /\ 2 * p + 2 \in 1..(2 * n) /\ C(2 * p + 2) = B(p)
    OBVIOUS
  <2>1. /\ 2 * p + 1 \in 1..(2 * n) /\ 2 * p + 2 \in 1..(2 * n)
        /\ (2 * p + 1) % 2 = 1 /\ (2 * p + 2) % 2 = 0
        /\ ((2 * p + 1) - 1) \div 2 = p /\ ((2 * p + 2) - 1) \div 2 = p
    BY <1>1
  <2>2. C(2 * p + 1) = A(p)
    BY <2>1
  <2>3. C(2 * p + 2) = B(p)
    BY <2>1
  <2> QED BY <2>1, <2>2, <2>3
<1>8. \A i \in 1..(2 * n) : \E p \in 0..(n - 1) : C(i) = A(p) \/ C(i) = B(p)
  <2> SUFFICES ASSUME NEW i \in 1..(2 * n)
               PROVE  \E p \in 0..(n - 1) : C(i) = A(p) \/ C(i) = B(p)
    OBVIOUS
  <2>1. (i - 1) \div 2 \in 0..(n - 1)
    BY <1>3
  <2>2. C(i) = A((i - 1) \div 2) \/ C(i) = B((i - 1) \div 2)
    OBVIOUS
  <2> QED BY <2>1, <2>2
<1>9. {C(i) : i \in 1..(2 * n)} = {A(p) : p \in 0..(n - 1)} \cup {B(p) : p \in 0..(n - 1)}
  <2> HIDE DEF C, A, B
  <2> QED BY <1>7, <1>8
<1> QED BY <1>5, <1>6, <1>9

(* The places of the sections, and of what else is mapped. *)
LEMMA LayoutFacts ==
  ASSUME layout \in Layouts
  PROVE  /\ TextStart \in Nat /\ TextEnd \in Nat /\ RodataStart \in Nat
         /\ RodataEnd \in Nat /\ DataStart \in Nat /\ DataEnd \in Nat
         /\ TextStart < TextEnd /\ RodataStart < RodataEnd /\ DataStart < DataEnd
         /\ \A v \in Int : Holds(v, TextStart, TextEnd) =>
              /\ v \in VirtualPages /\ v >= HhdmBase + layout.low
              /\ ~ Holds(v, RodataStart, RodataEnd) /\ ~ Holds(v, DataStart, DataEnd)
         /\ \A v \in Int : Holds(v, RodataStart, RodataEnd) =>
              v \in VirtualPages /\ v >= HhdmBase + layout.low /\ ~ Holds(v, DataStart, DataEnd)
         /\ \A v \in Int : Holds(v, DataStart, DataEnd) =>
              v \in VirtualPages /\ v >= HhdmBase + layout.low
         /\ layout.low \in Nat /\ HhdmBase \in Nat /\ layout.low <= HhdmBase
         /\ \A p \in 0..(layout.low - 1) : p \in VirtualPages /\ HhdmBase + p \in VirtualPages
<1> DEFINE p == PageBytes  f == Fanout * Span[4]  b == layout.virt_base * p
<1>1. /\ p \in Nat \ {0} /\ f \in Nat \ {0} /\ layout.virt_base \in Nat
      /\ layout.text \in Nat \ {0} /\ layout.rodata \in Nat \ {0} /\ layout.data \in Nat \ {0}
      /\ layout.low \in Nat /\ HhdmBase \in Nat
  <2>1. Fanout \in Nat \ {0} /\ Span[4] \in Nat \ {0}
    BY Spans
  <2> QED BY <2>1, VmmAssumption, MemmapAssumption DEF LayoutType
<1>2. /\ layout.low <= HhdmBase /\ HhdmBase + layout.low <= layout.virt_base
      /\ b + (layout.text + layout.rodata + layout.data + 2 * p) <= f * p
  BY LayoutAssumption
<1> HIDE DEF p, f
<1>3. b \in Nat /\ f * p \in Nat
  BY <1>1
<1> HIDE DEF b
<1>4. /\ TextStart = b /\ TextEnd = b + layout.text /\ RodataStart = TextEnd + p
      /\ RodataEnd = RodataStart + layout.rodata /\ DataStart = RodataEnd + p
      /\ DataEnd = DataStart + layout.data
  BY DEF TextStart, TextEnd, RodataStart, RodataEnd, DataStart, DataEnd, b, p
<1>5. /\ TextStart \in Nat /\ TextEnd \in Nat /\ RodataStart \in Nat
      /\ RodataEnd \in Nat /\ DataStart \in Nat /\ DataEnd \in Nat
      /\ TextStart < TextEnd /\ RodataStart < RodataEnd /\ DataStart < DataEnd
      /\ TextEnd + p = RodataStart /\ RodataEnd + p = DataStart /\ DataEnd <= f * p
  BY <1>1, <1>2, <1>3, <1>4
<1>6. b \div p = layout.virt_base
  BY <1>1, DivisionTimes DEF b
<1>7. ASSUME NEW x \in Nat, x < f * p PROVE x \div p < f
  <2> DEFINE q == x \div p
  <2>1. q \in Nat /\ x = q * p + (x % p) /\ x % p \in 0..(p - 1)
    BY <1>1, Division
  <2> HIDE DEF q
  <2>2. SUFFICES ASSUME q >= f PROVE FALSE
    BY <1>1, <2>1 DEF q
  <2>3. q * p >= f * p
    BY <1>1, <2>1, <2>2
  <2>4. q * p <= x
    <3>1. q * p \in Nat
      BY <1>1, <2>1
    <3> QED BY <1>1, <2>1, <3>1
  <2>5. q * p \in Nat
    BY <1>1, <2>1
  <2> QED BY <1>3, <1>7, <2>3, <2>4, <2>5
<1>8. ASSUME NEW v \in Int, NEW start \in Nat, NEW end \in Nat, start < end,
             TextStart <= start, end <= DataEnd, Holds(v, start, end)
      PROVE  v \in VirtualPages /\ v >= HhdmBase + layout.low
  <2>1. PICK x \in start..(end - 1) : x \div p = v
    BY <1>8 DEF Holds, p
  <2>2. x \in Nat /\ b <= x /\ x < f * p
    BY <1>1, <1>3, <1>4, <1>5, <1>8
  <2>3. b \div p <= x \div p
    BY <1>1, <1>3, <2>2, DivisionGrows
  <2>4. x \div p < f /\ x \div p \in Nat
    BY <1>1, <1>7, <2>2, Division
  <2>5. v \in 0..(f - 1) /\ v >= layout.virt_base
    BY <1>1, <1>6, <2>1, <2>3, <2>4
  <2>6. v \in VirtualPages
    BY <2>5 DEF VirtualPages, f
  <2> QED BY <1>1, <1>2, <2>5, <2>6
<1>9. ASSUME NEW v \in Int, NEW end \in Nat, NEW start \in Nat, NEW s \in Nat, NEW e \in Nat,
             end + p <= s, Holds(v, start, end), Holds(v, s, e)
      PROVE  FALSE
  <2>1. PICK x \in start..(end - 1) : x \div p = v
    BY <1>9 DEF Holds, p
  <2>2. PICK y \in s..(e - 1) : y \div p = v
    BY <1>9 DEF Holds, p
  <2>3. x \in Nat /\ y \in Nat /\ x + p <= y /\ x + p \in Nat
    BY <1>1, <1>9
  <2>4. (x + p) \div p <= y \div p
    BY <1>1, <2>3, DivisionGrows
  <2>5. (x + p) \div p = (x \div p) + 1
    BY <1>1, <2>3, DivisionNext
  <2> QED BY <2>1, <2>2, <2>4, <2>5
<1>10. \A v \in Int : Holds(v, TextStart, TextEnd) =>
         /\ v \in VirtualPages /\ v >= HhdmBase + layout.low
         /\ ~ Holds(v, RodataStart, RodataEnd) /\ ~ Holds(v, DataStart, DataEnd)
  <2>1. TextStart <= TextStart /\ TextEnd <= DataEnd /\ TextEnd + p <= RodataStart /\ TextEnd + p <= DataStart
    BY <1>1, <1>5
  <2> QED BY <1>5, <1>8, <1>9, <2>1
<1>11. \A v \in Int : Holds(v, RodataStart, RodataEnd) =>
         v \in VirtualPages /\ v >= HhdmBase + layout.low /\ ~ Holds(v, DataStart, DataEnd)
  <2>1. TextStart <= RodataStart /\ RodataEnd <= DataEnd /\ RodataEnd + p <= DataStart
    BY <1>1, <1>5
  <2> QED BY <1>5, <1>8, <1>9, <2>1
<1>12. \A v \in Int : Holds(v, DataStart, DataEnd) =>
         v \in VirtualPages /\ v >= HhdmBase + layout.low
  <2>1. TextStart <= DataStart /\ DataEnd <= DataEnd
    BY <1>1, <1>5
  <2> QED BY <1>5, <1>8, <2>1
<1>13. \A q \in 0..(layout.low - 1) : q \in VirtualPages /\ HhdmBase + q \in VirtualPages
  <2>1. layout.virt_base * p < f * p
    BY <1>1, <1>2, <1>3 DEF b
  <2>2. layout.virt_base * p \in Nat
    BY <1>1
  <2>3. layout.virt_base < f
    <3>1. (layout.virt_base * p) \div p < f
      BY <1>7, <2>1, <2>2
    <3> QED BY <1>1, <3>1, DivisionTimes
  <2>4. \A q \in 0..(layout.low - 1) : q \in 0..(f - 1) /\ HhdmBase + q \in 0..(f - 1)
    BY <1>1, <1>2, <2>3
  <2> QED BY <2>4 DEF VirtualPages, f
<1> QED BY <1>1, <1>2, <1>5, <1>10, <1>11, <1>12, <1>13

(* All calls. *)
LEMMA CallsAre ==
  ASSUME layout \in Layouts
  PROVE  /\ Calls \in Seq(CallType)
         /\ Range(Calls) =
              Range(Section(TextStart, TextEnd, {"present"}))
                \cup Range(Section(RodataStart, RodataEnd, {"present", "nx"}))
                \cup Range(Section(DataStart, DataEnd, {"present", "writable", "nx"}))
                \cup Range(LowMemory)
<1> DEFINE t == Section(TextStart, TextEnd, {"present"})
           r == Section(RodataStart, RodataEnd, {"present", "nx"})
           d == Section(DataStart, DataEnd, {"present", "writable", "nx"})
<1>1. /\ {"present"} \in SUBSET Flags /\ {"present", "nx"} \in SUBSET Flags
      /\ {"present", "writable", "nx"} \in SUBSET Flags
  BY DEF Flags
<1>2. t \in Seq(CallType) /\ r \in Seq(CallType) /\ d \in Seq(CallType)
  BY <1>1, LayoutFacts, SectionCalls
<1>3. LowMemory \in Seq(CallType)
  BY LowMemoryCalls
<1>4. Calls = ((t \o r) \o d) \o LowMemory
  BY DEF Calls
<1> HIDE DEF t, r, d
<1>5. t \o r \in Seq(CallType) /\ Range(t \o r) = Range(t) \cup Range(r)
  BY <1>2, Joined
<1> DEFINE tr == t \o r
<1> HIDE DEF tr
<1>6. tr \o d \in Seq(CallType) /\ Range(tr \o d) = Range(tr) \cup Range(d)
  <2>1. tr \in Seq(CallType)
    BY <1>5 DEF tr
  <2> QED BY <1>2, <2>1, Joined
<1> DEFINE trd == tr \o d
<1> HIDE DEF trd
<1>7. /\ trd \o LowMemory \in Seq(CallType)
      /\ Range(trd \o LowMemory) = Range(trd) \cup Range(LowMemory)
  <2>1. trd \in Seq(CallType)
    BY <1>6 DEF trd
  <2> QED BY <1>3, <2>1, Joined
<1>8. Range(Calls) = Range(t) \cup Range(r) \cup Range(d) \cup Range(LowMemory)
  <2>1. Calls = trd \o LowMemory
    BY <1>4 DEF tr, trd
  <2> QED BY <1>5, <1>6, <1>7, <2>1 DEF tr, trd
<1> QED BY <1>4, <1>7, <1>8 DEF t, r, d, tr, trd

(* What each page is wanted to lead to, one case at a time. *)
LEMMA WantedIs ==
  ASSUME layout \in Layouts, NEW v \in Int
  PROVE  LET to(flags) == Pte(v - layout.virt_base + layout.phys_base, flags)
         IN  /\ Holds(v, TextStart, TextEnd) => Wanted(v) = to({"present"})
             /\ Holds(v, RodataStart, RodataEnd) => Wanted(v) = to({"present", "nx"})
             /\ Holds(v, DataStart, DataEnd) => Wanted(v) = to({"present", "writable", "nx"})
             /\ v \in 0..(layout.low - 1) => Wanted(v) = Pte(v, {"present", "writable"})
             /\ v - HhdmBase \in 0..(layout.low - 1) =>
                  Wanted(v) = Pte(v - HhdmBase, {"present", "writable"})
             /\ v >= 0 /\ ~ Holds(v, TextStart, TextEnd) /\ ~ Holds(v, RodataStart, RodataEnd)
                  /\ ~ Holds(v, DataStart, DataEnd) /\ v \notin 0..(layout.low - 1)
                  /\ v - HhdmBase \notin 0..(layout.low - 1)
                => Wanted(v) = Unmapped
<1> DEFINE t == Holds(v, TextStart, TextEnd)  r == Holds(v, RodataStart, RodataEnd)
           d == Holds(v, DataStart, DataEnd)  l == v < layout.low
           h == v - HhdmBase \in 0..(layout.low - 1)
           to(flags) == Pte(v - layout.virt_base + layout.phys_base, flags)
<1>1. /\ layout.low \in Nat /\ HhdmBase \in Nat /\ layout.low <= HhdmBase
      /\ t => ~ r /\ ~ d /\ v >= HhdmBase + layout.low
      /\ r => ~ d /\ v >= HhdmBase + layout.low
      /\ d => v >= HhdmBase + layout.low
  BY LayoutFacts
<1>2. Wanted(v) = CASE t -> to({"present"})
                    [] r -> to({"present", "nx"})
                    [] d -> to({"present", "writable", "nx"})
                    [] l -> Pte(v, {"present", "writable"})
                    [] h -> Pte(v - HhdmBase, {"present", "writable"})
                    [] OTHER -> Unmapped
  BY DEF Wanted
<1>3. t => ~ r /\ ~ d /\ ~ l /\ ~ h
  BY <1>1
<1>4. r => ~ t /\ ~ d /\ ~ l /\ ~ h
  BY <1>1
<1>5. d => ~ t /\ ~ r /\ ~ l /\ ~ h
  BY <1>1
<1>6. l => ~ h
  BY <1>1
<1>7. (v \in 0..(layout.low - 1) => l) /\ (v >= 0 /\ v \notin 0..(layout.low - 1) => ~ l)
  BY <1>1
<1> DEFINE w == Wanted(v)
<1>8. w = CASE t -> to({"present"})
            [] r -> to({"present", "nx"})
            [] d -> to({"present", "writable", "nx"})
            [] l -> Pte(v, {"present", "writable"})
            [] h -> Pte(v - HhdmBase, {"present", "writable"})
            [] OTHER -> Unmapped
  BY <1>2
<1> HIDE DEF t, r, d, l, h, w, to
<1>9. (t => w = to({"present"})) /\ (r => w = to({"present", "nx"}))
  BY <1>3, <1>4, <1>8
<1>10. (d => w = to({"present", "writable", "nx"})) /\ (l => w = Pte(v, {"present", "writable"}))
  BY <1>3, <1>4, <1>5, <1>6, <1>8
<1>11. h => w = Pte(v - HhdmBase, {"present", "writable"})
  BY <1>3, <1>4, <1>5, <1>6, <1>8
<1>12. ~ t /\ ~ r /\ ~ d /\ ~ l /\ ~ h => w = Unmapped
  BY <1>8
<1> QED BY <1>7, <1>9, <1>10, <1>11, <1>12 DEF t, r, d, h, w, to

(* The calls map what is wanted, ... *)
LEMMA CallsAreWanted ==
  ASSUME layout \in Layouts, NEW i \in DOMAIN Calls
  PROVE  /\ Calls[i].virt \in VirtualPages /\ Calls[i].to \in Ptes /\ Present(Calls[i].to)
         /\ Calls[i].to = Wanted(Calls[i].virt)
<1> DEFINE c == Calls[i]
           good == /\ c.virt \in VirtualPages /\ Present(c.to) /\ c.to = Wanted(c.virt)
           moved(v, flags) == Call(v, v - layout.virt_base + layout.phys_base, flags)
<1>1. c \in Range(Calls)
  BY DEF Range
<1>2. c.to \in Ptes
  <2>1. c \in CallType
    BY CallsAre
  <2> QED BY <2>1 DEF CallType
<1>3. /\ {"present"} \in SUBSET Flags /\ {"present", "nx"} \in SUBSET Flags
      /\ {"present", "writable", "nx"} \in SUBSET Flags
  BY DEF Flags
<1>4. ASSUME NEW start \in Nat, NEW end \in Nat, start < end, NEW flags \in SUBSET Flags,
             "present" \in flags,
             \A v \in Int : Holds(v, start, end) =>
               /\ v \in VirtualPages
               /\ Wanted(v) = Pte(v - layout.virt_base + layout.phys_base, flags),
             c \in Range(Section(start, end, flags))
      PROVE  good
  <2>1. PICK v \in Int : Holds(v, start, end) /\ c = moved(v, flags)
    BY <1>4, SectionCalls
  <2>2. /\ c.virt = v /\ c.to = Pte(v - layout.virt_base + layout.phys_base, flags)
        /\ c.to.flags = flags
    BY <2>1 DEF Call, Pte
  <2> QED BY <1>4, <2>1, <2>2 DEF Present
<1>5. ASSUME c \in Range(Section(TextStart, TextEnd, {"present"}))
      PROVE  good
  <2>1. \A v \in Int : Holds(v, TextStart, TextEnd) =>
          v \in VirtualPages /\ Wanted(v) = Pte(v - layout.virt_base + layout.phys_base, {"present"})
    BY LayoutFacts, WantedIs
  <2>2. /\ TextStart \in Nat /\ TextEnd \in Nat /\ TextStart < TextEnd
        /\ "present" \in {"present"}
    BY LayoutFacts
  <2> HIDE DEF good
  <2> QED BY <1>3, <1>4, <1>5, <2>1, <2>2
<1>6. ASSUME c \in Range(Section(RodataStart, RodataEnd, {"present", "nx"}))
      PROVE  good
  <2>1. \A v \in Int : Holds(v, RodataStart, RodataEnd) =>
          v \in VirtualPages /\ Wanted(v) = Pte(v - layout.virt_base + layout.phys_base, {"present", "nx"})
    BY LayoutFacts, WantedIs
  <2>2. /\ RodataStart \in Nat /\ RodataEnd \in Nat /\ RodataStart < RodataEnd
        /\ "present" \in {"present", "nx"}
    BY LayoutFacts
  <2> HIDE DEF good
  <2> QED BY <1>3, <1>4, <1>6, <2>1, <2>2
<1>7. ASSUME c \in Range(Section(DataStart, DataEnd, {"present", "writable", "nx"}))
      PROVE  good
  <2>1. \A v \in Int : Holds(v, DataStart, DataEnd) =>
          /\ v \in VirtualPages
          /\ Wanted(v) = Pte(v - layout.virt_base + layout.phys_base, {"present", "writable", "nx"})
    BY LayoutFacts, WantedIs
  <2>2. /\ DataStart \in Nat /\ DataEnd \in Nat /\ DataStart < DataEnd
        /\ "present" \in {"present", "writable", "nx"}
    BY LayoutFacts
  <2> HIDE DEF good
  <2> QED BY <1>3, <1>4, <1>7, <2>1, <2>2
<1>8. ASSUME c \in Range(LowMemory)
      PROVE  good
  <2>1. PICK p \in 0..(layout.low - 1) : \/ c = Call(p, p, {"present", "writable"})
                                         \/ c = Call(HhdmBase + p, p, {"present", "writable"})
    BY <1>8, LowMemoryCalls
  <2>2. /\ p \in VirtualPages /\ HhdmBase + p \in VirtualPages
        /\ p \in Int /\ HhdmBase + p \in Int /\ (HhdmBase + p) - HhdmBase = p
    BY LayoutFacts
  <2>3. ASSUME c = Call(p, p, {"present", "writable"}) PROVE good
    <3>1. c.virt = p /\ c.to = Pte(p, {"present", "writable"}) /\ "present" \in c.to.flags
      BY <2>3 DEF Call, Pte
    <3>2. Wanted(p) = Pte(p, {"present", "writable"})
      BY <2>2, WantedIs
    <3>3. c.virt \in VirtualPages /\ Present(c.to) /\ c.to = Wanted(c.virt)
      <4> HIDE DEF c
      <4> QED BY <2>2, <3>1, <3>2 DEF Present
    <3> QED BY <3>3
  <2>4. ASSUME c = Call(HhdmBase + p, p, {"present", "writable"}) PROVE good
    <3>1. c.virt = HhdmBase + p /\ c.to = Pte(p, {"present", "writable"}) /\ "present" \in c.to.flags
      BY <2>4 DEF Call, Pte
    <3>2. Wanted(HhdmBase + p) = Pte(p, {"present", "writable"})
      BY <2>2, WantedIs
    <3>3. c.virt \in VirtualPages /\ Present(c.to) /\ c.to = Wanted(c.virt)
      <4> HIDE DEF c
      <4> QED BY <2>2, <3>1, <3>2 DEF Present
    <3> QED BY <3>3
  <2> QED BY <2>1, <2>3, <2>4
<1>9. \/ c \in Range(Section(TextStart, TextEnd, {"present"}))
      \/ c \in Range(Section(RodataStart, RodataEnd, {"present", "nx"}))
      \/ c \in Range(Section(DataStart, DataEnd, {"present", "writable", "nx"}))
      \/ c \in Range(LowMemory)
  BY <1>1, CallsAre
<1> HIDE DEF good
<1>10. good
  BY <1>5, <1>6, <1>7, <1>8, <1>9
<1> QED BY <1>2, <1>10 DEF good

(* ... and all of it. *)
LEMMA WantedIsCalled ==
  ASSUME layout \in Layouts, NEW v \in VirtualPages
  PROVE  Wanted(v) = Unmapped \/ \E i \in DOMAIN Calls : Calls[i].virt = v
<1> DEFINE called == \E i \in DOMAIN Calls : Calls[i].virt = v
<1>1. ASSUME NEW c \in Range(Calls), c.virt = v PROVE called
  BY <1>1 DEF Range
<1>2. v \in Int /\ v >= 0
  BY DEF VirtualPages
<1>3. /\ {"present"} \in SUBSET Flags /\ {"present", "nx"} \in SUBSET Flags
      /\ {"present", "writable", "nx"} \in SUBSET Flags
  BY DEF Flags
<1>4. ASSUME NEW start \in Nat, NEW end \in Nat, start < end, NEW flags \in SUBSET Flags,
             Holds(v, start, end), Range(Section(start, end, flags)) \subseteq Range(Calls)
      PROVE  called
  <2> DEFINE c == Call(v, v - layout.virt_base + layout.phys_base, flags)
  <2>1. c \in Range(Section(start, end, flags))
    BY <1>2, <1>4, SectionCalls
  <2>2. c.virt = v
    BY DEF Call
  <2> HIDE DEF c
  <2> QED BY <1>1, <1>4, <2>1, <2>2
<1>5. ASSUME Holds(v, TextStart, TextEnd) PROVE called
  BY <1>3, <1>4, <1>5, LayoutFacts, CallsAre
<1>6. ASSUME Holds(v, RodataStart, RodataEnd) PROVE called
  BY <1>3, <1>4, <1>6, LayoutFacts, CallsAre
<1>7. ASSUME Holds(v, DataStart, DataEnd) PROVE called
  BY <1>3, <1>4, <1>7, LayoutFacts, CallsAre
<1>8. ASSUME v \in 0..(layout.low - 1) PROVE called
  <2> DEFINE c == Call(v, v, {"present", "writable"})
  <2>1. c \in Range(Calls)
    BY <1>8, LowMemoryCalls, CallsAre
  <2>2. c.virt = v
    BY DEF Call
  <2> HIDE DEF c
  <2> QED BY <1>1, <2>1, <2>2
<1>9. ASSUME v - HhdmBase \in 0..(layout.low - 1) PROVE called
  <2> DEFINE q == v - HhdmBase  c == Call(HhdmBase + q, q, {"present", "writable"})
  <2>1. c \in Range(Calls)
    <3> HIDE DEF q
    <3> QED BY <1>9, LowMemoryCalls, CallsAre DEF q
  <2>2. c.virt = HhdmBase + q /\ HhdmBase + q = v
    BY <1>2, LayoutFacts DEF Call
  <2> HIDE DEF c
  <2> QED BY <1>1, <2>1, <2>2
<1> HIDE DEF called
<1>10. v >= 0 /\ ~ Holds(v, TextStart, TextEnd) /\ ~ Holds(v, RodataStart, RodataEnd)
         /\ ~ Holds(v, DataStart, DataEnd) /\ v \notin 0..(layout.low - 1)
         /\ v - HhdmBase \notin 0..(layout.low - 1)
       => Wanted(v) = Unmapped
  BY <1>2, WantedIs
<1>11. Wanted(v) = Unmapped \/ called
  BY <1>2, <1>5, <1>6, <1>7, <1>8, <1>9, <1>10
<1> QED BY <1>11 DEF called

(* A page on the path to v is a table whose page agrees with v above it. *)
LEMMA PathPage ==
  ASSUME NEW t, NEW root, NEW of, NEW at, Tree(t, root, of, at), NEW v \in VirtualPages,
         NEW l \in 1..4, NEW p, OnPathTo(t, root, v, l, p)
  PROVE  /\ p \in Pages /\ of[p] = l
         /\ \A k \in (l + 1)..4 : Index(at[p], k) = Index(v, k)
<1>1. CASE l = 4
  BY <1>1 DEF OnPathTo, Tree
<1>2. CASE l = 3
  BY <1>2, Descent DEF OnPathTo
<1>3. CASE l = 2
  BY <1>3, Descent DEF OnPathTo
<1>4. CASE l = 1
  BY <1>4, Descent DEF OnPathTo
<1> QED BY <1>1, <1>2, <1>3, <1>4

(* A step down a present entry. *)
LEMMA PathStep ==
  ASSUME NEW t, NEW root, NEW v \in VirtualPages,
         NEW l \in 2..4, NEW p, OnPathTo(t, root, v, l, p),
         Present(t[p][Index(v, l)])
  PROVE  OnPathTo(t, root, v, l - 1, t[p][Index(v, l)].page)
<1>1. CASE l = 4
  <2>1. E4(t, root, v) = t[p][Index(v, l)]
    BY <1>1 DEF OnPathTo, E4
  <2> QED BY <1>1, <2>1 DEF OnPathTo
<1>2. CASE l = 3
  <2>1. Present(E4(t, root, v)) /\ E3(t, root, v) = t[p][Index(v, l)]
    BY <1>2 DEF OnPathTo, E3
  <2> QED BY <1>2, <2>1 DEF OnPathTo
<1>3. CASE l = 2
  <2>1. /\ Present(E4(t, root, v)) /\ Present(E3(t, root, v))
        /\ E2(t, root, v) = t[p][Index(v, l)]
    BY <1>3 DEF OnPathTo, E2
  <2> QED BY <1>3, <2>1 DEF OnPathTo
<1> QED BY <1>1, <1>2, <1>3

(* A step down an entry that was not present: the path to it is the same. *)
LEMMA PathLink ==
  ASSUME NEW t, NEW root, NEW of, NEW at, Tree(t, root, of, at), NEW v \in VirtualPages,
         NEW l \in 2..4, NEW p \in Pages, OnPathTo(t, root, v, l, p),
         NEW r \in Pages, of[r] = 0, NEW u,
         u = Linked(t, p, Index(v, l), r)
  PROVE  OnPathTo(u, root, v, l - 1, r)
<1> DEFINE link == Pte(r, {"present", "writable"})
<1>1. /\ of[p] = l /\ root \in Pages /\ of[root] = 4 /\ t \in [Pages -> [Indices -> Ptes]]
      /\ u = [t EXCEPT ![r] = Zeroed, ![p][Index(v, l)] = Pte(r, {"present", "writable"})]
  <2>1. l \in 1..4
    OBVIOUS
  <2>2. of[p] = l
    BY <2>1, PathPage
  <2> QED BY <2>2 DEF Tree, Linked
<1>2. \A k \in 1..4 : Index(v, k) \in Indices
  BY IndexType DEF VirtualPages
<1>3. \A q \in Pages : of[q] > l => u[q] = t[q]
  <2> SUFFICES ASSUME NEW q \in Pages, of[q] > l PROVE u[q] = t[q]
    OBVIOUS
  <2>1. q # p /\ q # r
    BY <1>1
  <2> QED BY <1>1, <2>1
<1>4. u[p][Index(v, l)] = link
  <2>1. p # r
    BY <1>1
  <2> QED BY <1>1, <1>2, <2>1
<1>5. Present(link) /\ link.page = r
  BY DEF Present, Pte
<1> HIDE DEF link
<1>6. CASE l = 4
  <2>1. E4(u, root, v) = link
    BY <1>4, <1>6 DEF OnPathTo, E4
  <2> QED BY <1>5, <1>6, <2>1 DEF OnPathTo
<1>7. CASE l = 3
  <2>1. E4(u, root, v) = E4(t, root, v)
    BY <1>1, <1>3, <1>7 DEF E4
  <2>2. E3(u, root, v) = link
    BY <1>4, <1>7, <2>1 DEF OnPathTo, E3
  <2>3. Present(E4(t, root, v))
    BY <1>7 DEF OnPathTo
  <2> QED BY <1>5, <1>7, <2>1, <2>2, <2>3 DEF OnPathTo
<1>8. CASE l = 2
  <2>1. E4(u, root, v) = E4(t, root, v)
    BY <1>1, <1>3, <1>8 DEF E4
  <2>2. Present(E4(t, root, v)) /\ Present(E3(t, root, v)) /\ p = E3(t, root, v).page
    BY <1>8 DEF OnPathTo
  <2>3. E3(u, root, v) = E3(t, root, v)
    <3> DEFINE q == E4(t, root, v).page
    <3>1. q \in Pages /\ of[q] = 3
      BY <2>2, Descent
    <3>2. u[q] = t[q]
      <4>1. q \in Pages /\ of[q] > l
        BY <1>8, <3>1
      <4> HIDE DEF q
      <4> QED BY <1>3, <4>1
    <3> QED BY <2>1, <3>2 DEF E3
  <2>4. E2(u, root, v) = link
    BY <1>4, <1>8, <2>2, <2>3 DEF E2
  <2> QED BY <1>5, <1>8, <2>1, <2>2, <2>3, <2>4 DEF OnPathTo
<1> QED BY <1>6, <1>7, <1>8

(* The page that a call of vmm_map is about, when one is in progress. *)
LEMMA CallInProgress ==
  ASSUME layout \in Layouts, InCall
  PROVE  /\ Calls[call].virt \in VirtualPages /\ Calls[call].to \in Ptes
         /\ Present(Calls[call].to) /\ Calls[call].to = Wanted(Calls[call].virt)
BY CallsAreWanted DEF InCall

(* The first step of vmm_init makes a tree of one table, which leads       *)
(* nowhere.                                                                *)
LEMMA AllocateRootStep ==
  ASSUME VmmInv, AllocateRoot, ~ refused'
  PROVE  /\ VmmInv' /\ ~ refused
         /\ \A v \in VirtualPages : Walk(v) = Unmapped /\ Walk(v)' = Unmapped
<1>1. ~ refused /\ reply' \in 1..PageCount /\ reply' \notin used /\ used' = used \cup {reply'}
  BY PageTaken DEF AllocateRoot, VmmInv
<1>2. reply' \in Pages
  BY <1>1, CountIsNat DEF Pages
<1>3. /\ call = 0 /\ call' = 1 /\ level = 4 /\ level' = 4 /\ layout' = layout
      /\ vmm_kernel_pm' = reply' /\ table' = reply'
      /\ tables' = [tables EXCEPT ![reply'] = Zeroed]
      /\ tables \in [Pages -> [Indices -> Ptes]]
      /\ layout \in Layouts /\ refused' \in BOOLEAN
  <2>1. layout \in Layouts /\ (call = 0 => level = 4) /\ tables \in [Pages -> [Indices -> Ptes]]
    BY <1>1 DEF VmmInv
  <2>2. refused' = (refused \/ reply' = 0)
    BY DEF AllocateRoot, TakePage
  <2> QED BY <2>1, <2>2 DEF AllocateRoot
<1>4. tables'[reply'] = Zeroed
  BY <1>2, <1>3
<1>5. Zeroed \in [Indices -> Ptes] /\ \A i \in Indices : ~ Present(Zeroed[i])
  BY DEF Zeroed, Ptes, Pte, Flags, Present
<1>6. tables' \in [Pages -> [Indices -> Ptes]]
  BY <1>2, <1>3, <1>5
<1>7. TreeInv'
  <2> DEFINE of == [p \in Pages |-> IF p = reply' THEN 4 ELSE 0]
             at == [p \in Pages |-> 0]
  <2>1. 0 \in VirtualPages
    <3>1. Fanout \in Nat \ {0} /\ Span[4] \in Nat \ {0}
      BY Spans
    <3>2. \A x, y \in Nat \ {0} : 0 \in 0..(x * y - 1)
      OBVIOUS
    <3> QED BY <3>1, <3>2 DEF VirtualPages
  <2>2. of \in [Pages -> 0..4] /\ at \in [Pages -> VirtualPages] /\ of[reply'] = 4
    BY <1>2, <2>1
  <2>3. \A p \in Pages, i \in Indices : of[p] > 1 => ~ Present(tables'[p][i])
    BY <1>4, <1>5
  <2>4. Tree(tables', reply', of, at)
    <3> HIDE DEF of, at
    <3> QED BY <1>2, <1>6, <2>2, <2>3 DEF Tree
  <2>5. \A p \in Pages : of[p] > 0 => p \in used'
    BY <1>1
  <2> HIDE DEF of, at
  <2> QED BY <1>3, <2>4, <2>5 DEF TreeInv
<1>8. \A v \in VirtualPages : Walk(v) = Unmapped
  BY <1>3 DEF Walk
<1>9. \A v \in VirtualPages : Walk(v)' = Unmapped
  <2> SUFFICES ASSUME NEW v \in VirtualPages PROVE Walk(v)' = Unmapped
    OBVIOUS
  <2>1. Index(v, 4) \in Indices
    BY IndexType DEF VirtualPages
  <2>2. ~ ("present" \in tables'[reply'][Index(v, 4)].flags)
    BY <1>4, <1>5, <2>1 DEF Present
  <2> QED BY <1>3, <2>2 DEF Walk, EntryOf
<1>10. OnPath'
  BY <1>3 DEF OnPath, OnPathTo
<1>11. \A v \in VirtualPages : ~ Called(v)'
  <2>1. Calls' = Calls
    BY <1>3, SameCalls
  <2>2. \A i \in DOMAIN Calls : ~ (i < 1)
    <3>1. Calls \in Seq(CallType)
      BY <1>3, CallsAre
    <3>2. DOMAIN Calls = 1..Len(Calls) /\ Len(Calls) \in Nat
      BY <3>1, LenProperties
    <3> QED BY <3>2
  <2> QED BY <1>3, <2>1, <2>2 DEF Called
<1>12. CalledInv'
  BY <1>9, <1>11 DEF CalledInv
<1>13. VmmInv'
  BY <1>3, <1>6, <1>7, <1>10, <1>12 DEF VmmInv
<1> QED BY <1>1, <1>8, <1>9, <1>13

(* A step down the tables, with or without a new one, changes no walk. *)
LEMMA NextLevelStep ==
  ASSUME VmmInv, vmm_get_next_lvl, ~ refused'
  PROVE  /\ VmmInv' /\ ~ refused
         /\ \A v \in VirtualPages : Walk(v)' = Walk(v)
<1> DEFINE v == Calls[call].virt  i == Index(v, level)  root == vmm_kernel_pm
<1>1. /\ InCall /\ level \in 2..4 /\ level' = level - 1 /\ layout' = layout
      /\ vmm_kernel_pm' = vmm_kernel_pm /\ call' = call /\ layout \in Layouts /\ call \in Nat
      /\ NextTable(i)
  BY DEF vmm_get_next_lvl, VmmInv
<1>2. v \in VirtualPages
  BY <1>1, CallInProgress
<1>3. call > 0
  <2>1. Calls \in Seq(CallType)
    BY <1>1, CallsAre
  <2>2. DOMAIN Calls = 1..Len(Calls) /\ Len(Calls) \in Nat
    BY <2>1, LenProperties
  <2> QED BY <1>1, <2>2 DEF InCall
<1>4. Calls' = Calls /\ \A w : Wanted(w)' = Wanted(w)
  BY <1>1, SameCalls
<1>5. ~ refused /\ refused' \in BOOLEAN
  <2>1. refused \in BOOLEAN
    BY DEF VmmInv
  <2>2. CASE Present(tables[table][i])
    <3>1. refused' = refused
      BY <1>1, <2>2 DEF NextTable, Present
    <3> QED BY <2>1, <3>1
  <2>3. CASE ~ Present(tables[table][i])
    <3>1. TakePage
      BY <1>1, <2>3 DEF NextTable, Present
    <3>2. refused' = (refused \/ reply' = 0)
      BY <3>1 DEF TakePage
    <3>3. ~ refused
      BY <3>2
    <3> QED BY <3>2, <3>3
  <2> QED BY <2>2, <2>3
<1>6. TreeInv /\ OnPath /\ CalledInv /\ tables \in [Pages -> [Indices -> Ptes]]
  BY <1>1, <1>3, <1>5 DEF VmmInv
<1>7. PICK of, at : Tree(tables, root, of, at) /\ \A p \in Pages : of[p] > 0 => p \in used
  BY <1>6 DEF TreeInv
<1>8. OnPathTo(tables, root, v, level, table)
  BY <1>6 DEF OnPath
<1> HIDE DEF v, i, root
<1>9. /\ table \in Pages /\ of[table] = level
      /\ \A k \in (level + 1)..4 : Index(at[table], k) = Index(v, k)
  BY <1>1, <1>2, <1>7, <1>8, PathPage
<1>10. i \in Indices
  BY <1>1, <1>2, IndexType DEF i, VirtualPages
<1> DEFINE good == /\ TreeInv' /\ tables' \in [Pages -> [Indices -> Ptes]]
                   /\ OnPathTo(tables', root, v, level - 1, table')
                   /\ \A w \in VirtualPages : Found(tables', root, w) = Found(tables, root, w)
<1>11. ASSUME Present(tables[table][i]) PROVE good
  <2>1. table' = tables[table][i].page /\ tables' = tables /\ used' = used
    BY <1>1, <1>11 DEF NextTable, Present, absVars
  <2>2. OnPathTo(tables, root, v, level - 1, tables[table][i].page)
    BY <1>1, <1>2, <1>8, <1>11, PathStep DEF i
  <2>3. TreeInv'
    BY <1>1, <1>6, <2>1 DEF TreeInv
  <2> QED BY <1>6, <2>1, <2>2, <2>3
<1>12. ASSUME ~ Present(tables[table][i]) PROVE good
  <2> DEFINE r == reply'
             nof == [of EXCEPT ![r] = level - 1]
             nat == [at EXCEPT ![r] = v]
  <2>1. /\ TakePage /\ table' = r
        /\ tables' = Linked(tables, table, i, r)
    BY <1>1, <1>12 DEF NextTable, Present, Linked
  <2>2. r \in 1..PageCount /\ r \notin used /\ used' = used \cup {r}
    BY <2>1, PageTaken DEF VmmInv
  <2>3. r \in Pages
    BY <2>2, CountIsNat DEF Pages
  <2>4. of[r] = 0
    <3>1. of[r] \in 0..4
      BY <1>7, <2>3 DEF Tree
    <3> QED BY <1>7, <2>2, <2>3, <3>1
  <2> HIDE DEF r
  <2>5. Tree(tables', root, nof, nat)
    BY <1>1, <1>2, <1>7, <1>9, <1>10, <1>12, <2>1, <2>3, <2>4, LinkGrows DEF i
  <2>6. TreeInv'
    <3>1. \A p \in Pages : nof[p] > 0 => p \in used'
      <4>1. of \in [Pages -> 0..4]
        BY <1>7 DEF Tree
      <4> QED BY <1>7, <2>2, <4>1 DEF r
    <3> HIDE DEF nof, nat
    <3> QED BY <1>1, <2>5, <3>1 DEF TreeInv, root
  <2>7. \A w \in VirtualPages : Found(tables', root, w) = Found(tables, root, w)
    <3>1. of[table] > 1
      BY <1>1, <1>9
    <3> SUFFICES ASSUME NEW w \in VirtualPages
                 PROVE  Found(tables', root, w) = Found(tables, root, w)
      OBVIOUS
    <3>2. /\ Tree(tables, root, of, at) /\ table \in Pages /\ i \in Indices
          /\ ~ Present(tables[table][i])
          /\ tables' = Linked(tables, table, i, r)
      BY <1>7, <1>9, <1>10, <1>12, <2>1 DEF r
    <3> QED BY <2>3, <2>4, <3>1, <3>2, LinkFinds
  <2>8. OnPathTo(tables', root, v, level - 1, r)
    BY <1>1, <1>2, <1>7, <1>8, <1>9, <2>1, <2>3, <2>4, PathLink DEF i
  <2>9. tables' \in [Pages -> [Indices -> Ptes]]
    BY <2>5 DEF Tree
  <2> QED BY <2>1, <2>6, <2>7, <2>8, <2>9
<1>13. good
  BY <1>11, <1>12
<1>14. \A w \in VirtualPages : Walk(w)' = Walk(w)
  <2> SUFFICES ASSUME NEW w \in VirtualPages PROVE Walk(w)' = Walk(w)
    OBVIOUS
  <2>1. Walk(w)' = Found(tables', root, w)
    BY <1>1, <1>3 DEF Walk, EntryOf, Found, Leads, E4, E3, E2, E1, Present, root
  <2>2. Walk(w) = Found(tables, root, w)
    BY <1>3, WalkIsFound DEF root
  <2> QED BY <1>13, <2>1, <2>2
<1>15. OnPath'
  BY <1>1, <1>4, <1>13 DEF OnPath, v, root
<1>16. CalledInv'
  <2>1. \A w \in VirtualPages : Called(w)' = Called(w)
    BY <1>1, <1>4 DEF Called
  <2> QED BY <1>4, <1>6, <1>14, <2>1 DEF CalledInv
<1>17. VmmInv'
  <2>1. level - 1 \in 1..4
    BY <1>1
  <2> QED BY <1>1, <1>3, <1>5, <1>13, <1>15, <1>16, <2>1 DEF VmmInv
<1> QED BY <1>5, <1>14, <1>17

(* The last step of vmm_map changes the walk for its page and no other. *)
LEMMA WriteEntryStep ==
  ASSUME VmmInv, WriteEntry, ~ refused'
  PROVE  /\ VmmInv' /\ ~ refused
         /\ \A v \in VirtualPages :
              Walk(v)' = IF v = Calls[call].virt THEN Calls[call].to ELSE Walk(v)
<1> DEFINE v == Calls[call].virt  to == Calls[call].to  root == vmm_kernel_pm
<1>1. /\ InCall /\ level = 1 /\ level' = 4 /\ layout' = layout /\ table' = vmm_kernel_pm
      /\ vmm_kernel_pm' = vmm_kernel_pm /\ call' = call + 1 /\ layout \in Layouts /\ call \in Nat
      /\ tables' = Written(tables, table, Index(v, 1), to)
      /\ ~ refused /\ refused' = refused /\ refused \in BOOLEAN /\ used' = used
  BY DEF WriteEntry, VmmInv, absVars, Written
<1>2. v \in VirtualPages /\ to \in Ptes /\ Present(to) /\ to = Wanted(v)
  BY <1>1, CallInProgress
<1>3. call > 0
  <2>1. Calls \in Seq(CallType)
    BY <1>1, CallsAre
  <2>2. DOMAIN Calls = 1..Len(Calls) /\ Len(Calls) \in Nat
    BY <2>1, LenProperties
  <2> QED BY <1>1, <2>2 DEF InCall
<1>4. Calls' = Calls /\ \A w : Wanted(w)' = Wanted(w)
  BY <1>1, SameCalls
<1>5. TreeInv /\ OnPath /\ CalledInv
  BY <1>1, <1>3 DEF VmmInv
<1>6. PICK of, at : Tree(tables, root, of, at) /\ \A p \in Pages : of[p] > 0 => p \in used
  BY <1>5 DEF TreeInv
<1>7. OnPathTo(tables, root, v, level, table)
  BY <1>5 DEF OnPath
<1> HIDE DEF v, to, root
<1>8. table \in Pages
  BY <1>1, <1>2, <1>6, <1>7, PathPage
<1>9. /\ table = E2(tables, root, v).page /\ Present(E4(tables, root, v))
      /\ Present(E3(tables, root, v)) /\ Present(E2(tables, root, v))
  BY <1>1, <1>7 DEF OnPathTo
<1>10. /\ Tree(tables', root, of, at)
       /\ \A w \in VirtualPages :
            Found(tables', root, w) = IF w = v THEN to ELSE Found(tables, root, w)
  <2>1. Tree(tables, root, of, at) /\ tables' = Written(tables, table, Index(v, 1), to)
    BY <1>1, <1>6
  <2> QED BY <1>2, <1>8, <1>9, <2>1, WriteFinds
<1>11. TreeInv' /\ tables' \in [Pages -> [Indices -> Ptes]]
  <2>1. tables' \in [Pages -> [Indices -> Ptes]]
    BY <1>10 DEF Tree
  <2>2. Tree(tables', vmm_kernel_pm', of, at) /\ \A p \in Pages : of[p] > 0 => p \in used'
    BY <1>1, <1>6, <1>10 DEF root
  <2> QED BY <2>1, <2>2 DEF TreeInv
<1>12. \A w \in VirtualPages : Walk(w)' = IF w = v THEN to ELSE Walk(w)
  <2> SUFFICES ASSUME NEW w \in VirtualPages PROVE Walk(w)' = IF w = v THEN to ELSE Walk(w)
    OBVIOUS
  <2>1. Walk(w)' = Found(tables', root, w)
    <3>1. call' > 0 /\ vmm_kernel_pm' = root
      BY <1>1 DEF root
    <3> QED BY <3>1 DEF Walk, EntryOf, Found, Leads, E4, E3, E2, E1, Present
  <2>2. Walk(w) = Found(tables, root, w)
    BY <1>3, WalkIsFound DEF root
  <2> QED BY <1>10, <2>1, <2>2
<1>13. OnPath'
  BY <1>1 DEF OnPath, OnPathTo
<1>14. CalledInv'
  <2> SUFFICES ASSUME NEW w \in VirtualPages
               PROVE  Walk(w)' = IF Called(w)' THEN Wanted(w)' ELSE Unmapped
    BY DEF CalledInv
  <2>1. Called(w)' <=> w = v \/ Called(w)
    <3>1. DOMAIN Calls \subseteq Int
      <4>1. Calls \in Seq(CallType)
        BY <1>1, CallsAre
      <4>2. DOMAIN Calls = 1..Len(Calls)
        BY <4>1, LenProperties
      <4> QED BY <4>2
    <3>2. \A i \in DOMAIN Calls : i < call + 1 <=> i < call \/ i = call
      BY <1>1, <3>1
    <3> QED BY <1>1, <1>4, <3>2 DEF Called, InCall, v
  <2>2. Walk(w) = IF Called(w) THEN Wanted(w) ELSE Unmapped
    BY <1>5 DEF CalledInv
  <2> QED BY <1>2, <1>4, <1>12, <2>1, <2>2
<1>15. VmmInv'
  BY <1>1, <1>3, <1>11, <1>13, <1>14 DEF VmmInv
<1> QED BY <1>1, <1>12, <1>15 DEF v, to

(* The invariant of the map before it is built ... *)
LEMMA VmmInvInit == SetupInit => VmmInv
<1> SUFFICES ASSUME SetupInit PROVE VmmInv
  OBVIOUS
<1>1. /\ layout \in Layouts /\ tables = [p \in Pages |-> Garbage]
      /\ call = 0 /\ level = 4 /\ refused = FALSE
  BY DEF SetupInit, VmmInit, Pages
<1>2. Garbage \in [Indices -> Ptes]
  BY DEF Garbage, Ptes, Pte, Flags
<1>3. tables \in [Pages -> [Indices -> Ptes]]
  BY <1>1, <1>2
<1>4. call \in Nat /\ ~ (call > 0) /\ level \in 1..4
  <2>1. call = 0 /\ level = 4
    BY <1>1
  <2> QED BY <2>1
<1>5. refused \in BOOLEAN
  BY <1>1, Zenon
<1> QED
  BY <1>1, <1>3, <1>4, <1>5 DEF VmmInv

(* No other part of the set-up touches the map. *)
LEMMA VmmFrame ==
  ASSUME UNCHANGED <<absVars, vmmVars>>
  PROVE  /\ VmmInv => VmmInv'
         /\ refused' = refused /\ call' = call /\ Calls' = Calls
         /\ \A v : Walk(v)' = Walk(v)
<1>1. /\ layout' = layout /\ tables' = tables /\ vmm_kernel_pm' = vmm_kernel_pm /\ call' = call
      /\ level' = level /\ table' = table /\ refused' = refused /\ used' = used
  BY DEF vmmVars, absVars
<1>2. Calls' = Calls /\ \A v : Wanted(v)' = Wanted(v)
  BY <1>1, SameCalls
<1>3. \A v : Walk(v)' = Walk(v)
  BY <1>1 DEF Walk, EntryOf
<1>4. TreeInv => TreeInv'
  BY <1>1 DEF TreeInv
<1>5. (InCall <=> InCall') /\ (OnPath <=> OnPath')
  BY <1>1, <1>2 DEF InCall, OnPath
<1>6. CalledInv => CalledInv'
  <2>1. \A v : Called(v)' = Called(v)
    BY <1>1, <1>2 DEF Called
  <2> QED BY <1>2, <1>3, <2>1 DEF CalledInv
<1>7. VmmInv => VmmInv'
  BY <1>1, <1>4, <1>5, <1>6 DEF VmmInv
<1> QED
  BY <1>1, <1>2, <1>3, <1>7

(* ... after a page was refused, of which nothing is claimed ... *)
LEMMA RefusedStays == ASSUME VmmInv, vmm_init, refused' PROVE VmmInv'
<1>1. refused' \in BOOLEAN /\ layout' = layout
  <2>1. refused \in BOOLEAN
    BY DEF VmmInv
  <2>2. TakePage => refused' \in BOOLEAN
    BY DEF TakePage
  <2>3. CASE AllocateRoot
    BY <2>2, <2>3 DEF AllocateRoot
  <2>4. CASE vmm_get_next_lvl
    BY <2>1, <2>2, <2>4 DEF vmm_get_next_lvl, NextTable
  <2>5. CASE WriteEntry
    BY <2>1, <2>5 DEF WriteEntry
  <2> QED BY <2>3, <2>4, <2>5 DEF vmm_init, vmm_map
<1>2. call' \in Nat /\ level' \in 1..4 /\ (call' = 0 => level' = 4)
  <2>1. call \in Nat /\ level \in 1..4 /\ (call = 0 => level = 4)
    BY DEF VmmInv
  <2>2. CASE AllocateRoot
    BY <2>1, <2>2 DEF AllocateRoot
  <2>3. CASE vmm_get_next_lvl
    <3>1. call # 0
      <4>1. Calls \in Seq(CallType)
        BY CallsAre DEF VmmInv
      <4>2. DOMAIN Calls = 1..Len(Calls) /\ Len(Calls) \in Nat
        BY <4>1, LenProperties
      <4> QED BY <2>3, <4>2 DEF vmm_get_next_lvl, InCall
    <3> QED BY <2>1, <2>3, <3>1 DEF vmm_get_next_lvl
  <2>4. CASE WriteEntry
    BY <2>1, <2>4 DEF WriteEntry
  <2> QED BY <2>2, <2>3, <2>4 DEF vmm_init, vmm_map
<1> QED
  BY <1>1, <1>2 DEF VmmInv

(* ... and in every step of the set-up. *)
LEMMA VmmInvStep == VmmInv /\ [SetupNext]_setupVars => VmmInv'
<1> SUFFICES ASSUME VmmInv, [SetupNext]_setupVars PROVE VmmInv'
  OBVIOUS
<1>1. CASE vmm_init
  <2>1. CASE refused'
    BY <1>1, <2>1, RefusedStays
  <2>2. CASE ~ refused'
    BY <1>1, <2>2, AllocateRootStep, NextLevelStep, WriteEntryStep DEF vmm_init, vmm_map
  <2> QED BY <2>1, <2>2
<1>2. CASE UNCHANGED <<absVars, vmmVars>>
  BY <1>2, VmmFrame
<1> QED
  BY <1>1, <1>2 DEF SetupNext, setupVars

(* The tables are a tree of pages that were granted, and the map has the   *)
(* pages of the calls that are over and no other (vmm.c:26-96).            *)
THEOREM VmmInvariant == SetupSpec => []VmmInv
<1> QED
  BY VmmInvInit, VmmInvStep, PTL DEF SetupSpec

(* Each call of vmm_map changes the map at its page only, whichever tables *)
(* it shares and whichever it allocates: for any sizes of tables, kernels  *)
(* and memories (vmm.c:56-78).                                             *)
THEOREM VmmImplementsAddressSpace == SetupSpec => ImplementsAddressSpace
<1> DEFINE space == [v \in VirtualPages |-> Walk(v)]
<1>1. SetupInit => Space!SpaceInit
  <2> SUFFICES ASSUME SetupInit PROVE Space!SpaceInit
    OBVIOUS
  <2>1. call = 0 /\ refused = FALSE
    BY DEF SetupInit, VmmInit
  <2>2. \A v : Walk(v) = Unmapped
    BY <2>1 DEF Walk
  <2> QED BY <2>1, <2>2 DEF Space!SpaceInit
<1>2. VmmInv /\ [SetupNext]_setupVars => [Space!SpaceNext]_(Space!spaceVars)
  <2> SUFFICES ASSUME VmmInv, [SetupNext]_setupVars
               PROVE  [Space!SpaceNext]_(Space!spaceVars)
    OBVIOUS
  <2>1. CASE refused'
    BY <2>1 DEF Space!SpaceNext, Space!Break
  <2> DEFINE to(v) == IF v = Request.virt THEN Request.to ELSE Walk(v)
  <2>2. ASSUME ~ refused, ~ refused', \A v \in VirtualPages : Walk(v)' = to(v)
        PROVE  Space!MapPage
    <3>1. space' = [v \in VirtualPages |-> to(v)]
      BY <2>2
    <3>2. [v \in VirtualPages |-> to(v)] = [space EXCEPT ![Request.virt] = Request.to]
      <4> HIDE DEF space
      <4>1. DOMAIN space = VirtualPages /\ \A v \in VirtualPages : space[v] = Walk(v)
        BY DEF space
      <4> QED BY <4>1
    <3> QED BY <2>2, <3>1, <3>2 DEF Space!MapPage, Request
  <2>3. ASSUME refused' = refused, call' = call, Calls' = Calls,
               \A v \in VirtualPages : Walk(v)' = Walk(v)
        PROVE  UNCHANGED Space!spaceVars
    <3>1. space' = space
      BY <2>3
    <3>2. InCall' = InCall
      BY <2>3 DEF InCall
    <3>3. Request' = Request
      BY <2>3, <3>2 DEF Request, Call, Pte
    <3> QED BY <2>3, <3>1, <3>3 DEF Space!spaceVars, Request
  <2>4. CASE AllocateRoot /\ ~ refused'
    <3>1. ~ refused /\ \A v \in VirtualPages : Walk(v) = Unmapped /\ Walk(v)' = Unmapped
      BY <2>4, AllocateRootStep
    <3>2. ~ InCall
      <4>1. Calls \in Seq(CallType)
        BY CallsAre DEF VmmInv
      <4>2. DOMAIN Calls = 1..Len(Calls) /\ Len(Calls) \in Nat
        BY <4>1, LenProperties
      <4> QED BY <2>4, <4>2 DEF AllocateRoot, InCall
    <3>3. Request.to = Unmapped
      BY <3>2 DEF Request, Call, Unmapped
    <3>4. \A v \in VirtualPages : Walk(v)' = to(v)
      BY <3>1, <3>3
    <3>5. Space!MapPage
      BY <2>2, <2>4, <3>1, <3>4
    <3> QED BY <3>5 DEF Space!SpaceNext
  <2>5. CASE vmm_get_next_lvl /\ ~ refused'
    <3>1. ~ refused /\ \A v \in VirtualPages : Walk(v)' = Walk(v)
      BY <2>5, NextLevelStep
    <3>2. call' = call /\ Calls' = Calls /\ refused' = refused
      <4>1. call' = call /\ layout' = layout
        BY <2>5 DEF vmm_get_next_lvl
      <4>2. refused' \in BOOLEAN /\ refused \in BOOLEAN
        BY <2>5, NextLevelStep DEF VmmInv
      <4> QED BY <2>5, <3>1, <4>1, <4>2, SameCalls
    <3>3. UNCHANGED Space!spaceVars
      BY <2>3, <3>1, <3>2
    <3> QED BY <3>3
  <2>6. CASE WriteEntry /\ ~ refused'
    <3>1. ~ refused /\ \A v \in VirtualPages :
            Walk(v)' = IF v = Calls[call].virt THEN Calls[call].to ELSE Walk(v)
      BY <2>6, WriteEntryStep
    <3>2. Request = Calls[call]
      BY <2>6 DEF WriteEntry, Request
    <3>3. Space!MapPage
      BY <2>2, <2>6, <3>1, <3>2
    <3> QED BY <3>3 DEF Space!SpaceNext
  <2>7. CASE UNCHANGED <<absVars, vmmVars>>
    <3>1. UNCHANGED Space!spaceVars
      BY <2>3, <2>7, VmmFrame
    <3> QED BY <3>1
  <2> QED
    BY <2>1, <2>4, <2>5, <2>6, <2>7 DEF SetupNext, setupVars, vmm_init, vmm_map
<1> QED
  BY <1>1, <1>2, VmmInvariant, PTL DEF SetupSpec, ImplementsAddressSpace, Space!SpaceSpec

(* When vmm_init returns, the map is the one the kernel needs: for every   *)
(* layout that the linker script allows (vmm.c:34-50).                     *)
THEOREM KernelIsMapped == SetupSpec => []KernelMapped
<1>1. VmmInv => KernelMapped
  <2> SUFFICES ASSUME VmmInv, VmmDone, ~ refused, NEW v \in VirtualPages
               PROVE  Walk(v) = Wanted(v)
    BY DEF KernelMapped
  <2>1. layout \in Layouts /\ call \in Nat
    BY DEF VmmInv
  <2>2. Calls \in Seq(CallType)
    BY <2>1, CallsAre
  <2>3. DOMAIN Calls = 1..Len(Calls) /\ Len(Calls) \in Nat
    BY <2>2, LenProperties
  <2>4. call > Len(Calls)
    BY DEF VmmDone
  <2>5. CalledInv
    BY <2>1, <2>3, <2>4 DEF VmmInv
  <2>6. Walk(v) = IF Called(v) THEN Wanted(v) ELSE Unmapped
    BY <2>5 DEF CalledInv
  <2>7. Called(v) <=> \E i \in DOMAIN Calls : Calls[i].virt = v
    BY <2>1, <2>3, <2>4 DEF Called
  <2> QED BY <2>1, <2>6, <2>7, WantedIsCalled
<1> QED
  BY <1>1, VmmInvariant, PTL

-----------------------------------------------------------------------------
(* The walk over the MADT. *)

(* Kept is what its recursive definition says: the functions on 0..m that  *)
(* do exist for every m, by induction.                                     *)
LEMMA KeptIs ==
  ASSUME NEW S, NEW s \in Seq(S), NEW type
  PROVE  /\ Kept(type, s)[0] = <<>>
         /\ \A n \in 1..Len(s) :
              Kept(type, s)[n] = IF s[n].type = type THEN Append(Kept(type, s)[n - 1], s[n])
                                 ELSE Kept(type, s)[n - 1]
<1> DEFINE step(n, list) == IF s[n].type = type THEN Append(list, s[n]) ELSE list
           IsKept(f, m) == f = [n \in 0..m |-> IF n = 0 THEN <<>> ELSE step(n, f[n - 1])]
           T == {m \in Nat : \E f : IsKept(f, m)}
<1>1. 0 \in T
  <2>1. IsKept([n \in 0..0 |-> <<>>], 0)
    OBVIOUS
  <2> QED BY <2>1
<1>2. ASSUME NEW m \in T PROVE m + 1 \in T
  <2>1. PICK f : IsKept(f, m)
    OBVIOUS
  <2> DEFINE g == [n \in 0..(m + 1) |-> IF n = m + 1 THEN step(m + 1, f[m]) ELSE f[n]]
  <2>2. m \in Nat
    OBVIOUS
  <2> HIDE DEF step
  <2>3. f = [n \in 0..m |-> IF n = 0 THEN <<>> ELSE step(n, f[n - 1])]
    BY <2>1
  <2>4. ASSUME NEW n \in 0..(m + 1)
        PROVE  g[n] = IF n = 0 THEN <<>> ELSE step(n, g[n - 1])
    <3>1. CASE n = 0
      BY <2>2, <2>3, <3>1
    <3>2. CASE n = m + 1
      BY <2>2, <3>2
    <3>3. CASE n \in 1..m
      BY <2>2, <2>3, <3>3
    <3> QED BY <2>2, <3>1, <3>2, <3>3
  <2> HIDE DEF T
  <2>5. g = [n \in 0..(m + 1) |-> IF n = 0 THEN <<>> ELSE step(n, g[n - 1])]
    <3> DEFINE h == [n \in 0..(m + 1) |-> IF n = 0 THEN <<>> ELSE step(n, g[n - 1])]
    <3>1. DOMAIN g = 0..(m + 1) /\ g = [n \in DOMAIN g |-> g[n]]
      OBVIOUS
    <3>2. \A n \in 0..(m + 1) : g[n] = h[n]
      BY <2>4
    <3>3. DOMAIN h = 0..(m + 1) /\ h = [n \in DOMAIN h |-> h[n]]
      OBVIOUS
    <3> HIDE DEF g, h
    <3>4. g = h
      BY <3>1, <3>2, <3>3
    <3> QED BY <3>4 DEF h
  <2>6. IsKept(g, m + 1)
    BY <2>5
  <2> HIDE DEF g, IsKept
  <2>7. m + 1 \in Nat /\ \E h : IsKept(h, m + 1)
    BY <2>2, <2>6
  <2> QED BY <2>7 DEF T
<1>3. T = Nat
  <2> HIDE DEF T
  <2>1. T \in SUBSET Nat
    BY DEF T
  <2> QED BY <1>1, <1>2, <2>1, Induction
<1>4. Len(s) \in Nat
  BY LenProperties
<1>5. \E f : IsKept(f, Len(s))
  BY <1>3, <1>4
<1>6. IsKept(Kept(type, s), Len(s))
  <2>1. Kept(type, s) = CHOOSE f : IsKept(f, Len(s))
    BY DEF Kept
  <2> HIDE DEF IsKept
  <2> QED BY <1>5, <2>1
<1> DEFINE k == Kept(type, s)
<1>7. k = [n \in 0..Len(s) |-> IF n = 0 THEN <<>> ELSE step(n, k[n - 1])]
  BY <1>6
<1> HIDE DEF T, IsKept, k, step
<1>8. k[0] = <<>> /\ \A n \in 1..Len(s) : k[n] = step(n, k[n - 1])
  BY <1>4, <1>7
<1> QED
  BY <1>8 DEF k, step

(* What is kept is a sequence of what it is taken from. *)
LEMMA KeptIsSeq ==
  ASSUME NEW S, NEW s \in Seq(S), NEW type, NEW n \in 0..Len(s)
  PROVE  Kept(type, s)[n] \in Seq(S)
<1> DEFINE T == {m \in Nat : m <= Len(s) => Kept(type, s)[m] \in Seq(S)}
<1>1. 0 \in T
  <2>1. Kept(type, s)[0] = <<>> /\ <<>> \in Seq(S)
    BY KeptIs, EmptySeq
  <2> QED BY <2>1
<1>2. ASSUME NEW m \in T PROVE m + 1 \in T
  <2>1. SUFFICES ASSUME m + 1 <= Len(s) PROVE Kept(type, s)[m + 1] \in Seq(S)
    OBVIOUS
  <2>2. m \in Nat /\ m + 1 \in 1..Len(s) /\ (m + 1) - 1 = m /\ m <= Len(s)
    BY <2>1, LenProperties
  <2>3. Kept(type, s)[m] \in Seq(S) /\ s[m + 1] \in S
    BY <2>2, ElementOfSeq
  <2>4. Kept(type, s)[m + 1] = IF s[m + 1].type = type THEN Append(Kept(type, s)[m], s[m + 1])
                               ELSE Kept(type, s)[m]
    BY <2>2, KeptIs
  <2>5. Append(Kept(type, s)[m], s[m + 1]) \in Seq(S)
    BY <2>3, AppendProperties
  <2> QED BY <2>3, <2>4, <2>5
<1>3. T = Nat
  <2>1. T \in SUBSET Nat
    OBVIOUS
  <2> HIDE DEF T
  <2> QED BY <1>1, <1>2, <2>1, Induction
<1>4. n \in T
  BY <1>3, LenProperties
<1> QED
  BY <1>4

MADT == machine.madt

(* The table is a sequence of entries with lengths. *)
LEMMA MadtIs ==
  ASSUME machine \in Machines
  PROVE  /\ MADT \in Seq(Range(MADT)) /\ Len(MADT) \in Nat /\ DOMAIN MADT = 1..Len(MADT)
         /\ \A n \in 1..Len(MADT) : MADT[n] \in Range(MADT) /\ MADT[n].length \in Nat
<1>1. MADT \in Seq(Range(MADT)) /\ \A e \in Range(MADT) : e.length \in Nat
  BY MachinesAssumption DEF MADT
<1>2. Len(MADT) \in Nat /\ DOMAIN MADT = 1..Len(MADT)
  BY <1>1, LenProperties
<1>3. \A n \in 1..Len(MADT) : MADT[n] \in Range(MADT)
  BY <1>2 DEF Range
<1> QED BY <1>1, <1>2, <1>3

(* Bytes is what its recursive definition says. *)
LEMMA BytesIs ==
  ASSUME machine \in Machines
  PROVE  /\ Bytes[0] = 0
         /\ \A n \in 1..Len(MADT) : Bytes[n] = Bytes[n - 1] + MADT[n].length
<1> DEFINE step(n, sum) == sum + MADT[n].length
           IsBytes(f, m) == f = [n \in 0..m |-> IF n = 0 THEN 0 ELSE step(n, f[n - 1])]
           T == {m \in Nat : \E f : IsBytes(f, m)}
<1>1. 0 \in T
  <2>1. IsBytes([n \in 0..0 |-> 0], 0)
    OBVIOUS
  <2> QED BY <2>1
<1>2. ASSUME NEW m \in T PROVE m + 1 \in T
  <2>1. PICK f : IsBytes(f, m)
    OBVIOUS
  <2> DEFINE g == [n \in 0..(m + 1) |-> IF n = m + 1 THEN step(m + 1, f[m]) ELSE f[n]]
  <2>2. m \in Nat
    OBVIOUS
  <2> HIDE DEF step
  <2>3. f = [n \in 0..m |-> IF n = 0 THEN 0 ELSE step(n, f[n - 1])]
    BY <2>1
  <2>4. ASSUME NEW n \in 0..(m + 1)
        PROVE  g[n] = IF n = 0 THEN 0 ELSE step(n, g[n - 1])
    <3>1. CASE n = 0
      BY <2>2, <2>3, <3>1
    <3>2. CASE n = m + 1
      BY <2>2, <3>2
    <3>3. CASE n \in 1..m
      BY <2>2, <2>3, <3>3
    <3> QED BY <2>2, <3>1, <3>2, <3>3
  <2> HIDE DEF T
  <2>5. g = [n \in 0..(m + 1) |-> IF n = 0 THEN 0 ELSE step(n, g[n - 1])]
    <3> DEFINE h == [n \in 0..(m + 1) |-> IF n = 0 THEN 0 ELSE step(n, g[n - 1])]
    <3>1. DOMAIN g = 0..(m + 1) /\ g = [n \in DOMAIN g |-> g[n]]
      OBVIOUS
    <3>2. \A n \in 0..(m + 1) : g[n] = h[n]
      BY <2>4
    <3>3. DOMAIN h = 0..(m + 1) /\ h = [n \in DOMAIN h |-> h[n]]
      OBVIOUS
    <3> HIDE DEF g, h
    <3>4. g = h
      BY <3>1, <3>2, <3>3
    <3> QED BY <3>4 DEF h
  <2>6. IsBytes(g, m + 1)
    BY <2>5
  <2> HIDE DEF g, IsBytes
  <2>7. m + 1 \in Nat /\ \E h : IsBytes(h, m + 1)
    BY <2>2, <2>6
  <2> QED BY <2>7 DEF T
<1>3. T = Nat
  <2> HIDE DEF T
  <2>1. T \in SUBSET Nat
    BY DEF T
  <2> QED BY <1>1, <1>2, <2>1, Induction
<1>4. Len(MADT) \in Nat
  BY MadtIs
<1>5. IsBytes(Bytes, Len(MADT))
  <2>1. Bytes = CHOOSE f : IsBytes(f, Len(MADT))
    BY DEF Bytes, MADT
  <2>2. \E f : IsBytes(f, Len(MADT))
    BY <1>3, <1>4
  <2> HIDE DEF IsBytes
  <2> QED BY <2>1, <2>2
<1> DEFINE k == Bytes
<1>6. k = [n \in 0..Len(MADT) |-> IF n = 0 THEN 0 ELSE step(n, k[n - 1])]
  BY <1>5
<1> HIDE DEF T, IsBytes, k, step
<1>7. k[0] = 0 /\ \A n \in 1..Len(MADT) : k[n] = step(n, k[n - 1])
  BY <1>4, <1>6
<1> QED
  BY <1>7 DEF k, step

(* A table's entries begin within it. *)
LEMMA BytesGrow ==
  ASSUME machine \in Machines, NEW n \in 0..Len(MADT)
  PROVE  Bytes[n] \in Nat /\ Bytes[n] <= Bytes[Len(MADT)]
<1> DEFINE T == {m \in Nat : m <= Len(MADT) =>
                   Bytes[m] \in Nat /\ \A i \in 0..m : Bytes[i] \in Nat /\ Bytes[i] <= Bytes[m]}
<1>0. Len(MADT) \in Nat
  BY MadtIs
<1>1. 0 \in T
  BY BytesIs
<1>2. ASSUME NEW m \in T PROVE m + 1 \in T
  <2>1. m \in Nat
    OBVIOUS
  <2>2. SUFFICES ASSUME m + 1 <= Len(MADT)
                 PROVE  /\ Bytes[m + 1] \in Nat
                        /\ \A i \in 0..(m + 1) : Bytes[i] \in Nat /\ Bytes[i] <= Bytes[m + 1]
    OBVIOUS
  <2>3. m + 1 \in 1..Len(MADT) /\ (m + 1) - 1 = m /\ m <= Len(MADT)
    BY <1>0, <2>1, <2>2
  <2>4. Bytes[m + 1] = Bytes[m] + MADT[m + 1].length /\ MADT[m + 1].length \in Nat
    BY <2>3, BytesIs, MadtIs
  <2>5. Bytes[m] \in Nat /\ \A i \in 0..m : Bytes[i] \in Nat /\ Bytes[i] <= Bytes[m]
    BY <2>3
  <2> HIDE DEF T
  <2>6. \A i \in 0..(m + 1) : i \in 0..m \/ i = m + 1
    BY <2>1
  <2>7. Bytes[m + 1] \in Nat /\ Bytes[m] <= Bytes[m + 1]
    BY <2>4, <2>5
  <2>8. \A i \in 0..m : Bytes[i] <= Bytes[m + 1]
    BY <2>5, <2>7
  <2> QED BY <2>5, <2>6, <2>7, <2>8
<1>3. T = Nat
  <2>1. T \in SUBSET Nat
    OBVIOUS
  <2> HIDE DEF T
  <2> QED BY <1>1, <1>2, <2>1, Induction
<1>4. Len(MADT) \in T
  BY <1>0, <1>3
<1> QED
  BY <1>0, <1>4

(* A list has all entries of the table, and then some from beyond it. *)
Extends(type, list) ==
  \E rest \in Seq(Range(machine.beyond)) :
    /\ list = OfType(type, MADT) \o rest
    /\ \A k \in DOMAIN rest : rest[k].type = type

(* What a list holds in the course of the walk. *)
Listing(type, list) ==
  /\ pc \in {"acpi", "madt"} => list = <<>>
  /\ pc = "walk" /\ place <= Len(MADT) /\ MADT[place].length # 0 =>
       list = Kept(type, MADT)[place - 1]
  /\ pc = "walk" /\ place > Len(MADT) => Extends(type, list)
  /\ Walked => Extends(type, list)

WalkInv ==
  /\ machine \in Machines
  /\ place \in Nat \ {0}
  /\ pc \in {"acpi", "madt"} => place = 1 /\ offset = 0
  /\ pc = "walk" /\ place <= Len(MADT) => offset = Bytes[place - 1]
  /\ Listing(1, madt_ioapic_list)
  /\ Listing(2, madt_iso_list)

(* What follows the table is a sequence. *)
LEMMA BeyondIs ==
  ASSUME machine \in Machines
  PROVE  /\ machine.beyond \in Seq(Range(machine.beyond)) /\ Len(machine.beyond) \in Nat
         /\ DOMAIN machine.beyond = 1..Len(machine.beyond)
<1>1. machine.beyond \in Seq(Range(machine.beyond))
  BY MachinesAssumption
<1> QED BY <1>1, LenProperties

(* What the walk reads, within the table and past it. *)
LEMMA EntryIs ==
  ASSUME machine \in Machines, place \in Nat \ {0}
  PROVE  /\ place <= Len(MADT) => Entry = MADT[place]
         /\ place > Len(MADT) => Entry \in Range(machine.beyond) \cup {OtherTable}
<1> DEFINE m == MADT  b == machine.beyond  S == Range(MADT) \cup Range(machine.beyond)
<1>1. m \in Seq(Range(MADT)) /\ b \in Seq(Range(machine.beyond))
  BY MadtIs, BeyondIs
<1>2. m \in Seq(S) /\ b \in Seq(S)
  <2>1. Range(MADT) \subseteq S /\ Range(machine.beyond) \subseteq S
    OBVIOUS
  <2> HIDE DEF S, m, b
  <2> QED BY <1>1, <2>1, SeqMonotonic
<1>3. Memory = m \o b
  BY DEF Memory, MADT
<1>4. Len(m) \in Nat /\ Len(b) \in Nat /\ DOMAIN b = 1..Len(b)
  BY MadtIs, BeyondIs
<1>5. \A k \in 1..Len(b) : b[k] \in Range(b)
  BY <1>4 DEF Range
<1> DEFINE t == Range(b)
<1> HIDE DEF S, m, b
<1>6. /\ Len(Memory) = Len(m) + Len(b) /\ Memory \in Seq(S)
      /\ \A i \in 1..(Len(m) + Len(b)) :
           Memory[i] = IF i <= Len(m) THEN m[i] ELSE b[i - Len(m)]
  BY <1>2, <1>3, ConcatProperties
<1>7. DOMAIN Memory = 1..(Len(m) + Len(b))
  BY <1>6, LenProperties
<1>8. place <= Len(m) => Entry = m[place]
  BY <1>4, <1>6, <1>7 DEF Entry
<1>9. place > Len(m) => Entry \in t \cup {OtherTable}
  <2>1. SUFFICES ASSUME place > Len(m) PROVE Entry \in t \cup {OtherTable}
    OBVIOUS
  <2>2. CASE place \in DOMAIN Memory
    <3>1. place - Len(m) \in 1..Len(b) /\ Memory[place] = b[place - Len(m)]
      BY <1>4, <1>6, <1>7, <2>1, <2>2
    <3> QED BY <1>5, <2>2, <3>1 DEF Entry
  <2>3. CASE place \notin DOMAIN Memory
    BY <2>3 DEF Entry
  <2> QED BY <2>2, <2>3
<1> QED BY <1>8, <1>9 DEF m, b

(* Another table is taken for no entry that is listed. *)
LEMMA OtherTableIs == OtherTable.type # 1 /\ OtherTable.type # 2
BY DEF OtherTable

(* The entries of a type are what is kept of the whole table. *)
LEMMA OfTypeIs ==
  ASSUME machine \in Machines, NEW type
  PROVE  /\ OfType(type, MADT) = Kept(type, MADT)[Len(MADT)]
         /\ OfType(type, MADT) \in Seq(Range(MADT))
<1>1. MADT \in Seq(Range(MADT)) /\ Len(MADT) \in 0..Len(MADT)
  BY MadtIs
<1> QED
  BY <1>1, KeptIsSeq DEF OfType

(* An entry from beyond the table may come to a list that has all of the   *)
(* table.                                                                  *)
LEMMA ExtendsAppend ==
  ASSUME machine \in Machines, NEW type, NEW list, Extends(type, list),
         NEW e \in Range(machine.beyond), e.type = type
  PROVE  Extends(type, Append(list, e))
<1> DEFINE o == OfType(type, MADT)  S == Range(MADT) \cup Range(machine.beyond)
           B == Range(machine.beyond)
<1>1. PICK rest \in Seq(B) : list = o \o rest /\ \A k \in DOMAIN rest : rest[k].type = type
  BY DEF Extends
<1>2. o \in Seq(S) /\ rest \in Seq(S) /\ e \in S
  <2>1. Range(MADT) \subseteq S /\ B \subseteq S /\ o \in Seq(Range(MADT))
    BY OfTypeIs
  <2> HIDE DEF S, o, B
  <2> QED BY <1>1, <2>1, SeqMonotonic DEF B
<1> HIDE DEF S, o
<1>3. Append(list, e) = o \o Append(rest, e)
  <2>1. Append(o \o rest, e) = o \o Append(rest, e)
    <3> DEFINE l == Append(o \o rest, e)  r == o \o Append(rest, e)
    <3>1. /\ o \o rest \in Seq(S) /\ Len(o \o rest) = Len(o) + Len(rest)
          /\ Append(rest, e) \in Seq(S) /\ Len(Append(rest, e)) = Len(rest) + 1
      BY <1>2, ConcatProperties, AppendProperties
    <3>2. l = (o \o rest) \o <<e>> /\ Append(rest, e) = rest \o <<e>> /\ <<e>> \in Seq(S)
      BY <1>2, <3>1, AppendIsConcat
    <3> QED BY <1>2, <3>2, ConcatAssociative
  <2> QED BY <1>1, <2>1
<1>4. Append(rest, e) \in Seq(B) /\ \A k \in DOMAIN Append(rest, e) : Append(rest, e)[k].type = type
  <2> HIDE DEF B
  <2>0. e \in B
    BY DEF B
  <2>1. /\ Append(rest, e) \in Seq(B) /\ Len(Append(rest, e)) = Len(rest) + 1
        /\ \A i \in 1..Len(rest) : Append(rest, e)[i] = rest[i]
        /\ Append(rest, e)[Len(rest) + 1] = e
    BY <2>0, <1>1, AppendProperties
  <2>2. DOMAIN Append(rest, e) = 1..(Len(rest) + 1) /\ DOMAIN rest = 1..Len(rest) /\ Len(rest) \in Nat
    BY <1>1, <2>1, LenProperties
  <2>3. \A k \in 1..(Len(rest) + 1) : k \in 1..Len(rest) \/ k = Len(rest) + 1
    BY <2>2
  <2> QED BY <1>1, <2>1, <2>2, <2>3
<1> QED
  BY <1>3, <1>4 DEF Extends, o, B

(* What a step of the walk does to a list. *)
LEMMA ListedIs ==
  ASSUME machine \in Machines, place \in Nat \ {0}, pc = "walk",
         NEW type \in {1, 2}, NEW list, Listing(type, list)
  PROVE  /\ place <= Len(MADT) /\ MADT[place].length # 0 =>
              Listed(type, list) = Kept(type, MADT)[place]
         /\ place > Len(MADT) => Extends(type, Listed(type, list))
<1>1. ASSUME place <= Len(MADT), MADT[place].length # 0
      PROVE  Listed(type, list) = Kept(type, MADT)[place]
  <2>1. Entry = MADT[place] /\ place \in 1..Len(MADT)
    BY <1>1, EntryIs, MadtIs
  <2>2. list = Kept(type, MADT)[place - 1]
    BY <1>1 DEF Listing
  <2>3. Kept(type, MADT)[place] =
          IF MADT[place].type = type THEN Append(Kept(type, MADT)[place - 1], MADT[place])
          ELSE Kept(type, MADT)[place - 1]
    BY <2>1, KeptIs, MadtIs
  <2> QED BY <2>1, <2>2, <2>3 DEF Listed
<1>2. ASSUME place > Len(MADT) PROVE Extends(type, Listed(type, list))
  <2>1. Extends(type, list)
    BY <1>2 DEF Listing
  <2>2. CASE Entry.type = type
    <3>1. Entry \in Range(machine.beyond)
      BY <1>2, <2>2, EntryIs, OtherTableIs
    <3>2. Extends(type, Append(list, Entry))
      BY <2>1, <2>2, <3>1, ExtendsAppend
    <3> QED BY <2>2, <3>2 DEF Listed
  <2>3. CASE Entry.type # type
    BY <2>1, <2>3 DEF Listed
  <2> QED BY <2>2, <2>3
<1> QED BY <1>1, <1>2

(* The entries of the table itself, with nothing from beyond it. *)
LEMMA ExtendsItself ==
  ASSUME machine \in Machines, NEW type
  PROVE  Extends(type, OfType(type, MADT))
<1>1. OfType(type, MADT) = OfType(type, MADT) \o <<>>
  BY OfTypeIs, ConcatEmptySeq
<1>2. <<>> \in Seq(Range(machine.beyond)) /\ DOMAIN <<>> = {}
  BY EmptySeq
<1> QED
  BY <1>1, <1>2 DEF Extends

(* The walk does not end within the table. *)
LEMMA WalkReachesEnd ==
  ASSUME machine \in Machines, place \in Nat \ {0}, place <= Len(MADT),
         offset = Bytes[place - 1]
  PROVE  WalkGoesOn
<1>1. place - 1 \in 0..Len(MADT) /\ Len(MADT) \in 0..Len(MADT)
  BY MadtIs
<1>2. Bytes[place - 1] \in Nat /\ Bytes[place - 1] <= Bytes[Len(MADT)]
  BY <1>1, BytesGrow
<1>3. Bytes[Len(MADT)] \in Nat
  BY <1>1, BytesGrow
<1> QED
  BY <1>2, <1>3 DEF WalkGoesOn, MadtLength, MadtHeader, PointerSize, MADT

(* The invariant of the walk before it begins ... *)
LEMMA WalkInvInit == SetupInit => WalkInv
BY DEF SetupInit, AcpiInit, WalkInv, Listing, Walked

(* ... and in every step of the set-up. *)
LEMMA WalkInvStep == WalkInv /\ [SetupNext]_setupVars => WalkInv'
<1> SUFFICES ASSUME WalkInv, [SetupNext]_setupVars PROVE WalkInv'
  OBVIOUS
<1> USE DEF WalkInv
<1>0. ASSUME machine' = machine
      PROVE  MADT' = MADT /\ Bytes' = Bytes /\ \A type, list : Extends(type, list)' = Extends(type, list)
  BY <1>0 DEF MADT, Bytes, Extends
<1>1. CASE acpi_init
  <2>1. /\ pc = "acpi" /\ pc' \in {"madt", "halted"} /\ machine' = machine /\ place' = place
        /\ offset' = offset /\ madt_ioapic_list' = madt_ioapic_list /\ madt_iso_list' = madt_iso_list
    BY <1>1 DEF acpi_init, Stop
  <2> QED BY <1>0, <2>1 DEF Listing, Walked
<1>2. CASE FindMadt
  <2>1. /\ pc = "madt" /\ pc' \in {"walk", "halted"} /\ machine' = machine /\ place' = place
        /\ offset' = offset /\ madt_ioapic_list' = madt_ioapic_list /\ madt_iso_list' = madt_iso_list
    BY <1>2 DEF FindMadt, Stop
  <2>2. place = 1 /\ offset = 0 /\ madt_ioapic_list = <<>> /\ madt_iso_list = <<>>
    BY <2>1 DEF Listing
  <2>3. Bytes[0] = 0
    BY BytesIs
  <2>4. Kept(1, MADT)[0] = <<>> /\ Kept(2, MADT)[0] = <<>>
    BY MadtIs, KeptIs
  <2>5. 1 > Len(MADT) => Extends(1, <<>>) /\ Extends(2, <<>>)
    <3>1. 1 > Len(MADT) => Len(MADT) = 0
      BY MadtIs
    <3> QED BY <2>4, <3>1, ExtendsItself, OfTypeIs
  <2>6. Listing(1, madt_ioapic_list)' /\ Listing(2, madt_iso_list)'
    BY <1>0, <2>1, <2>2, <2>4, <2>5 DEF Listing, Walked
  <2> QED BY <1>0, <2>1, <2>2, <2>3, <2>6
<1>3. CASE WalkEntry
  <2>1. pc = "walk" /\ machine' = machine
    BY <1>3 DEF WalkEntry
  <2>2. CASE Full
    <3>1. pc' = "halted" /\ place' = place /\ madt_ioapic_list' = madt_ioapic_list
            /\ madt_iso_list' = madt_iso_list
      BY <1>3, <2>2 DEF WalkEntry, Stop
    <3> QED BY <2>1, <3>1 DEF Listing, Walked
  <2>3. CASE ~ Full
    <3>1. /\ madt_ioapic_list' = Listed(1, madt_ioapic_list)
          /\ madt_iso_list' = Listed(2, madt_iso_list)
          /\ offset' = offset + Entry.length
          /\ place' = IF Entry.length = 0 THEN place ELSE place + 1
          /\ pc' = "walk"
      BY <1>3, <2>1, <2>3 DEF WalkEntry
    <3>2. \A type \in {1, 2} : \A list :
            Listing(type, list) =>
              /\ place <= Len(MADT) /\ MADT[place].length # 0 =>
                   Listed(type, list) = Kept(type, MADT)[place]
              /\ place > Len(MADT) => Extends(type, Listed(type, list))
      BY <2>1, ListedIs
    <3>3. Len(MADT) \in Nat /\ (place <= Len(MADT) => Entry = MADT[place])
      BY MadtIs, EntryIs
    <3>4. /\ 1 \in {1, 2} /\ 2 \in {1, 2}
      OBVIOUS
    <3>5. ASSUME NEW type \in {1, 2}, NEW list, Listing(type, list), NEW nlist,
                 nlist = Listed(type, list)
          PROVE  /\ place' <= Len(MADT) /\ MADT[place'].length # 0 =>
                      nlist = Kept(type, MADT)[place' - 1]
                 /\ place' > Len(MADT) => Extends(type, nlist)
      <4>1. CASE Entry.length = 0
        BY <3>1, <3>2, <3>3, <3>5, <4>1
      <4>2. CASE Entry.length # 0 /\ place > Len(MADT)
        BY <3>1, <3>2, <3>3, <3>5, <4>2
      <4>3. CASE Entry.length # 0 /\ place <= Len(MADT)
        <5>1. nlist = Kept(type, MADT)[place] /\ place' = place + 1 /\ (place + 1) - 1 = place
          BY <3>1, <3>2, <3>3, <3>5, <4>3
        <5>2. CASE place = Len(MADT)
          BY <3>3, <5>1, <5>2, ExtendsItself, OfTypeIs
        <5>3. CASE place # Len(MADT)
          BY <3>3, <4>3, <5>1, <5>3
        <5> QED BY <5>2, <5>3
      <4> QED BY <3>3, <4>1, <4>2, <4>3
    <3>6. Listing(1, madt_ioapic_list)'
      BY <1>0, <2>1, <3>1, <3>4, <3>5 DEF Listing, Walked
    <3>7. Listing(2, madt_iso_list)'
      BY <1>0, <2>1, <3>1, <3>4, <3>5 DEF Listing, Walked
    <3>8. place' \in Nat \ {0}
      BY <3>1
    <3>9. place' <= Len(MADT) => offset' = Bytes[place' - 1]
      <4>1. SUFFICES ASSUME place' <= Len(MADT) PROVE offset' = Bytes[place' - 1]
        OBVIOUS
      <4>2. place <= Len(MADT) /\ offset = Bytes[place - 1] /\ Entry = MADT[place]
        BY <2>1, <3>1, <3>3, <4>1
      <4>3. Bytes[place] = Bytes[place - 1] + MADT[place].length
        BY <3>3, <4>2, BytesIs
      <4>4. CASE Entry.length = 0
        <5>1. Bytes[place - 1] \in Nat
          BY <3>3, <4>2, BytesGrow
        <5> QED BY <3>1, <4>2, <4>4, <5>1
      <4>5. CASE Entry.length # 0
        BY <3>1, <4>2, <4>3, <4>5
      <4> QED BY <4>4, <4>5
    <3> QED BY <1>0, <2>1, <3>1, <3>6, <3>7, <3>8, <3>9
  <2> QED BY <2>2, <2>3
<1>4. CASE EndWalk
  <2>1. /\ pc = "walk" /\ pc' = "ioapic" /\ machine' = machine /\ place' = place /\ ~ WalkGoesOn
        /\ madt_ioapic_list' = madt_ioapic_list /\ madt_iso_list' = madt_iso_list
    BY <1>4 DEF EndWalk, Goto
  <2>2. place > Len(MADT)
    <3>1. ~ (place <= Len(MADT))
      BY <2>1, WalkReachesEnd
    <3> QED BY <3>1, MadtIs
  <2>3. Extends(1, madt_ioapic_list) /\ Extends(2, madt_iso_list)
    BY <2>1, <2>2 DEF Listing
  <2> QED BY <1>0, <2>1, <2>3 DEF Listing, Walked
<1>5. CASE VmmDone /\ IoapicNext
  <2>1. /\ machine' = machine /\ place' = place /\ offset' = offset
        /\ madt_ioapic_list' = madt_ioapic_list /\ madt_iso_list' = madt_iso_list
    BY <1>5 DEF IoapicNext
  <2>2. pc \in {"ioapic", "pit", "kb", "handler"} /\ pc' \notin {"acpi", "madt", "walk"}
    <3>1. CASE ioapic_init
      BY <3>1 DEF ioapic_init, Stop
    <3>2. ASSUME NEW irq, NEW from \in {"pit", "kb"}, NEW to \in {"kb", "done"},
                 irq_register(irq, from, to)
          PROVE  pc \in {"pit", "kb", "handler"} /\ pc' \notin {"acpi", "madt", "walk"}
      BY <3>2 DEF irq_register, WriteWord, Goto, Stop
    <3> QED BY <1>5, <3>1, <3>2 DEF IoapicNext, pit_init, kb_init
  <2> QED BY <1>0, <2>1, <2>2 DEF Listing, Walked
<1>6. CASE UNCHANGED acpiVars
  BY <1>0, <1>6 DEF acpiVars, Listing, Walked
<1> QED
  BY <1>1, <1>2, <1>3, <1>4, <1>5, <1>6 DEF SetupNext, setupVars, madt_init

(* A list that has all entries of the table begins with them, in their     *)
(* order.                                                                  *)
LEMMA ExtendsIsPrefix ==
  ASSUME machine \in Machines, NEW type, NEW list, Extends(type, list)
  PROVE  IsPrefix(OfType(type, MADT), list)
<1> DEFINE o == OfType(type, MADT)  S == Range(MADT) \cup Range(machine.beyond)
<1>1. PICK rest \in Seq(Range(machine.beyond)) : list = o \o rest
  BY DEF Extends
<1>2. o \in Seq(S) /\ rest \in Seq(S)
  <2>1. Range(MADT) \subseteq S /\ Range(machine.beyond) \subseteq S /\ o \in Seq(Range(MADT))
    BY OfTypeIs
  <2> HIDE DEF S, o
  <2> QED BY <1>1, <2>1, SeqMonotonic
<1> HIDE DEF S, o
<1>3. /\ Len(o) \in Nat /\ Len(rest) \in Nat /\ list \in Seq(S) /\ Len(list) = Len(o) + Len(rest)
      /\ \A i \in 1..(Len(o) + Len(rest)) :
           list[i] = IF i <= Len(o) THEN o[i] ELSE rest[i - Len(o)]
  BY <1>1, <1>2, ConcatProperties, LenProperties
<1>4. Len(o) <= Len(list) /\ \A i \in 1..Len(o) : o[i] = list[i]
  BY <1>3
<1>5. SubSeq(o, 1, Len(o)) = SubSeq(list, 1, Len(o))
  <2>1. SubSeq(o, 1, Len(o)) = [i \in 1..Len(o) |-> o[i]]
    BY <1>2, <1>3
  <2>2. SubSeq(list, 1, Len(o)) = [i \in 1..Len(o) |-> list[i]]
    BY <1>3, <1>4
  <2> QED BY <1>4, <2>1, <2>2
<1> QED
  BY <1>4, <1>5 DEF IsPrefix, o

(* When the walk over the MADT is over, each list begins with the entries  *)
(* of its type, in their order: for every table, and whatever follows it   *)
(* in memory (madt.c:16-33).                                               *)
THEOREM TableIsListed == SetupSpec => []ListsAsTable
<1>1. WalkInv => ListsAsTable
  <2> SUFFICES ASSUME WalkInv, Walked
               PROVE  /\ IsPrefix(OfType(1, MADT), madt_ioapic_list)
                      /\ IsPrefix(OfType(2, MADT), madt_iso_list)
    BY DEF ListsAsTable, MADT
  <2>1. machine \in Machines /\ Extends(1, madt_ioapic_list) /\ Extends(2, madt_iso_list)
    BY DEF WalkInv, Listing
  <2> QED BY <2>1, ExtendsIsPrefix
<1> QED
  BY <1>1, WalkInvInit, WalkInvStep, PTL DEF SetupSpec

-----------------------------------------------------------------------------
(* The routing of interrupts. *)

(* The least place. *)
LEMMA MinIs ==
  ASSUME NEW I \in SUBSET Nat, I # {}
  PROVE  Min(I) \in I /\ \A i \in I : Min(I) <= i
<1>1. \E n \in I : \A m \in I : n <= m
  BY Least
<1> QED
  BY <1>1 DEF Min

(* What is kept comes from increasing places, and nothing is left out. *)
InOrder(s, type, kept, n, g) ==
  /\ g \in [1..Len(kept) -> 1..n]
  /\ \A j \in 1..Len(kept) : s[g[j]].type = type /\ kept[j] = s[g[j]]
  /\ \A i, j \in 1..Len(kept) : i < j => g[i] < g[j]
  /\ \A i \in 1..n : s[i].type = type => \E j \in 1..Len(kept) : g[j] = i

(* What is kept comes from increasing places of the sequence. *)
LEMMA KeptInOrder ==
  ASSUME NEW S, NEW s \in Seq(S), NEW type, NEW n \in 0..Len(s)
  PROVE  \E g : InOrder(s, type, Kept(type, s)[n], n, g)
<1> DEFINE K(m) == Kept(type, s)[m]
           T == {m \in Nat : m <= Len(s) => \E g : InOrder(s, type, K(m), m, g)}
<1>1. 0 \in T
  <2>1. K(0) = <<>> /\ Len(<<>>) = 0 /\ 1..0 = {}
    BY KeptIs
  <2>2. InOrder(s, type, K(0), 0, [j \in 1..0 |-> 0])
    <3> HIDE DEF K
    <3> QED BY <2>1 DEF InOrder
  <2> HIDE DEF K
  <2> QED BY <2>2
<1>2. ASSUME NEW m \in T PROVE m + 1 \in T
  <2>1. SUFFICES ASSUME m + 1 <= Len(s) PROVE \E g : InOrder(s, type, K(m + 1), m + 1, g)
    OBVIOUS
  <2>2. m \in Nat /\ m + 1 \in 1..Len(s) /\ (m + 1) - 1 = m /\ m \in 0..Len(s)
    BY <2>1, LenProperties
  <2>3. PICK g : InOrder(s, type, K(m), m, g)
    BY <2>2
  <2>4. K(m + 1) = IF s[m + 1].type = type THEN Append(K(m), s[m + 1]) ELSE K(m)
    BY <2>2, KeptIs
  <2>5. K(m) \in Seq(S) /\ s[m + 1] \in S
    BY <2>2, KeptIsSeq, ElementOfSeq
  <2>6. Len(K(m)) \in Nat
    BY <2>5, LenProperties
  <2> HIDE DEF K, T
  <2> DEFINE l == Len(K(m))
  <2>7. CASE s[m + 1].type # type
    <3>1. K(m + 1) = K(m)
      BY <2>4, <2>7
    <3>2. InOrder(s, type, K(m), m + 1, g)
      <4>1. \A i \in 1..(m + 1) : i \in 1..m \/ i = m + 1
        BY <2>2
      <4>2. 1..m \subseteq 1..(m + 1)
        BY <2>2
      <4> QED BY <2>3, <2>7, <4>1, <4>2 DEF InOrder
    <3> QED BY <3>1, <3>2
  <2>8. CASE s[m + 1].type = type
    <3> DEFINE k == Append(K(m), s[m + 1])
               h == [j \in 1..(l + 1) |-> IF j = l + 1 THEN m + 1 ELSE g[j]]
    <3>1. K(m + 1) = k
      BY <2>4, <2>8
    <3>2. Len(k) = l + 1 /\ (\A j \in 1..l : k[j] = K(m)[j]) /\ k[l + 1] = s[m + 1]
      BY <2>5, AppendProperties
    <3>3. /\ g \in [1..l -> 1..m] /\ \A j \in 1..l : s[g[j]].type = type /\ K(m)[j] = s[g[j]]
          /\ \A i, j \in 1..l : i < j => g[i] < g[j]
          /\ \A i \in 1..m : s[i].type = type => \E j \in 1..l : g[j] = i
      BY <2>3 DEF InOrder
    <3> HIDE DEF k, l
    <3>4. l \in Nat
      BY <2>6 DEF l
    <3>5. \A j \in 1..(l + 1) : (j \in 1..l /\ h[j] = g[j]) \/ (j = l + 1 /\ h[j] = m + 1)
      BY <3>4
    <3>6. h[l + 1] = m + 1 /\ \A j \in 1..l : h[j] = g[j] /\ j \in 1..(l + 1)
      BY <3>4
    <3>7. h \in [1..(l + 1) -> 1..(m + 1)]
      BY <2>2, <3>3, <3>4
    <3> HIDE DEF h
    <3>8. \A j \in 1..(l + 1) : s[h[j]].type = type /\ k[j] = s[h[j]]
      BY <2>8, <3>2, <3>3, <3>5
    <3>9. \A i, j \in 1..(l + 1) : i < j => h[i] < h[j]
      <4> SUFFICES ASSUME NEW i \in 1..(l + 1), NEW j \in 1..(l + 1), i < j PROVE h[i] < h[j]
        OBVIOUS
      <4>1. i \in 1..l /\ h[i] = g[i] /\ g[i] \in 1..m
        BY <3>3, <3>4, <3>5
      <4> QED BY <2>2, <3>3, <3>5, <4>1
    <3>10. \A i \in 1..(m + 1) : s[i].type = type => \E j \in 1..(l + 1) : h[j] = i
      <4> SUFFICES ASSUME NEW i \in 1..(m + 1), s[i].type = type
                   PROVE  \E j \in 1..(l + 1) : h[j] = i
        OBVIOUS
      <4>1. CASE i = m + 1
        <5>1. l + 1 \in 1..(l + 1)
          BY <3>4
        <5> QED BY <3>6, <4>1, <5>1
      <4>2. CASE i \in 1..m
        BY <3>3, <3>6, <4>2
      <4> QED BY <2>2, <4>1, <4>2
    <3>11. InOrder(s, type, k, m + 1, h)
      BY <3>2, <3>7, <3>8, <3>9, <3>10 DEF InOrder
    <3> QED BY <3>1, <3>11
  <2> QED BY <2>7, <2>8
<1>3. T = Nat
  <2>1. T \in SUBSET Nat
    OBVIOUS
  <2> HIDE DEF T
  <2> QED BY <1>1, <1>2, <2>1, Induction
<1>4. n \in T
  BY <1>3, LenProperties
<1> QED
  BY <1>4

(* A list, place by place: n entries of the table in their order, and then *)
(* some from beyond it.                                                    *)
Placed(type, list, n, g) ==
  /\ Len(list) \in Nat /\ n <= Len(list)
  /\ g \in [1..n -> DOMAIN MADT]
  /\ \A j \in 1..n : MADT[g[j]].type = type /\ list[j] = MADT[g[j]]
  /\ \A i, j \in 1..n : i < j => g[i] < g[j]
  /\ \A i \in DOMAIN MADT : MADT[i].type = type => \E j \in 1..n : g[j] = i
  /\ \A j \in (n + 1)..Len(list) : list[j] \in Range(machine.beyond) /\ list[j].type = type

(* So does the part of a list that is the table's, and the rest is not. *)
LEMMA ExtendsPlaces ==
  ASSUME machine \in Machines, NEW type, NEW list, Extends(type, list)
  PROVE  \E n \in Nat : \E g : Placed(type, list, n, g)
<1> DEFINE o == OfType(type, MADT)  S == Range(MADT) \cup Range(machine.beyond)
           B == Range(machine.beyond)
<1>1. PICK rest \in Seq(B) : list = o \o rest /\ \A k \in DOMAIN rest : rest[k].type = type
  BY DEF Extends
<1>2. o \in Seq(S) /\ rest \in Seq(S)
  <2>1. Range(MADT) \subseteq S /\ B \subseteq S /\ o \in Seq(Range(MADT))
    BY OfTypeIs
  <2> HIDE DEF S, o, B
  <2> QED BY <1>1, <2>1, SeqMonotonic
<1>3. PICK g : InOrder(MADT, type, o, Len(MADT), g)
  <2>1. MADT \in Seq(Range(MADT)) /\ Len(MADT) \in 0..Len(MADT)
    BY MadtIs
  <2>2. o = Kept(type, MADT)[Len(MADT)]
    BY OfTypeIs
  <2> QED BY <2>1, <2>2, KeptInOrder
<1>4. \A k \in 1..Len(rest) : rest[k] \in B /\ rest[k].type = type
  <2> HIDE DEF B
  <2> QED BY <1>1, ElementOfSeq, LenProperties
<1> HIDE DEF S, o, B
<1>5. /\ Len(o) \in Nat /\ Len(rest) \in Nat /\ Len(list) = Len(o) + Len(rest)
      /\ \A i \in 1..(Len(o) + Len(rest)) :
           list[i] = IF i <= Len(o) THEN o[i] ELSE rest[i - Len(o)]
  BY <1>1, <1>2, ConcatProperties, LenProperties
<1> DEFINE n == Len(o)
<1>6. n \in Nat /\ Len(list) \in Nat /\ n <= Len(list) /\ DOMAIN MADT = 1..Len(MADT)
  BY <1>5, MadtIs
<1>7. \A j \in 1..n : list[j] = o[j]
  BY <1>5
<1>8. \A j \in (n + 1)..Len(list) : list[j] \in B /\ list[j].type = type
  <2> SUFFICES ASSUME NEW j \in (n + 1)..Len(list) PROVE list[j] \in B /\ list[j].type = type
    OBVIOUS
  <2>1. j - n \in 1..Len(rest) /\ list[j] = rest[j - n]
    BY <1>5
  <2> QED BY <1>4, <2>1
<1>9. /\ g \in [1..n -> DOMAIN MADT]
      /\ \A j \in 1..n : MADT[g[j]].type = type /\ list[j] = MADT[g[j]]
      /\ \A i, j \in 1..n : i < j => g[i] < g[j]
      /\ \A i \in DOMAIN MADT : MADT[i].type = type => \E j \in 1..n : g[j] = i
  BY <1>3, <1>6, <1>7 DEF InOrder
<1>10. Placed(type, list, n, g)
  BY <1>6, <1>8, <1>9 DEF B, Placed
<1> QED
  BY <1>6, <1>10

(* What the table declares of an interrupt is the first override for it. *)
LEMMA DeclaredIs ==
  ASSUME machine \in Machines, NEW irq \in Irqs
  PROVE  /\ Declared(irq).gsi \in Nat
         /\ Declared(irq).flags \in Nat
         /\ Declared(irq).flags % 4 # 2 /\ (Declared(irq).flags \div 4) % 4 # 2
         /\ TableOverrides(irq) # {} =>
              \E m \in TableOverrides(irq) :
                Declared(irq) = MADT[m] /\ \A j \in TableOverrides(irq) : m <= j
<1>1. irq \in Nat
  BY DEF Irqs, Timer, Keyboard
<1>2. CASE TableOverrides(irq) = {}
  <2>1. Declared(irq).gsi = irq /\ Declared(irq).flags = 0
    BY <1>2 DEF Declared, IsoEntry
  <2> QED BY <1>1, <1>2, <2>1
<1>3. CASE TableOverrides(irq) # {}
  <2> DEFINE O == TableOverrides(irq)  m == CHOOSE k \in O : \A j \in O : k <= j
  <2>1. O \in SUBSET Nat
    BY MadtIs DEF TableOverrides, MADT
  <2>2. \E k \in O : \A j \in O : k <= j
    <3> HIDE DEF O
    <3> QED BY <1>3, <2>1, Least DEF O
  <2>3. m \in O /\ \A j \in O : m <= j
    <3> HIDE DEF O
    <3> QED BY <2>2
  <2>4. Declared(irq) = MADT[m]
    BY <1>3 DEF Declared, MADT
  <2>5. MADT[m] \in Range(MADT) /\ MADT[m].type = 2
    BY <2>3, MadtIs DEF TableOverrides, MADT
  <2> HIDE DEF m, O
  <2>6. /\ MADT[m].gsi \in Nat /\ MADT[m].flags \in Nat
        /\ MADT[m].flags % 4 # 2 /\ (MADT[m].flags \div 4) % 4 # 2
    BY <2>5, MachinesAssumption DEF MADT
  <2> QED BY <2>3, <2>4, <2>6 DEF O
<1> QED BY <1>2, <1>3

(* The override that the kernel finds is the one that the table declares. *)
LEMMA OverrideIs ==
  ASSUME machine \in Machines, Extends(2, madt_iso_list), NEW irq \in Irqs, ~ Foreign(irq)
  PROVE  Override(irq) = Declared(irq)
<1> DEFINE I == {i \in 1..Len(madt_iso_list) : madt_iso_list[i].irq_source = irq}
           k == SelectInSeq(madt_iso_list, LAMBDA e : e.irq_source = irq)
<1>1. PICK n \in Nat : \E g : Placed(2, madt_iso_list, n, g)
  BY ExtendsPlaces
<1>2. PICK g : Placed(2, madt_iso_list, n, g)
  BY <1>1
<1>3. k = IF I # {} THEN Min(I) ELSE 0
  BY DEF SelectInSeq
<1>4. Override(irq) = IF k = 0 THEN IsoEntry(irq, irq, 0) ELSE madt_iso_list[k]
  BY DEF Override
<1> HIDE DEF k
<1>5. CASE TableOverrides(irq) = {}
  <2>1. I = {}
    <3> SUFFICES ASSUME NEW i \in I PROVE FALSE
      OBVIOUS
    <3>1. i \in 1..Len(madt_iso_list) /\ madt_iso_list[i].irq_source = irq
      OBVIOUS
    <3>2. CASE i \in 1..n
      <4>1. /\ g[i] \in DOMAIN MADT /\ MADT[g[i]].type = 2 /\ MADT[g[i]].irq_source = irq
        BY <1>2, <3>1, <3>2 DEF Placed
      <4> QED BY <1>5, <4>1 DEF TableOverrides, MADT
    <3>3. CASE i \in (n + 1)..Len(madt_iso_list)
      BY <1>2, <1>5, <3>1, <3>3 DEF Placed, Foreign
    <3> QED BY <1>2, <3>1, <3>2, <3>3 DEF Placed
  <2>2. k = 0
    BY <1>3, <2>1
  <2> QED BY <1>4, <1>5, <2>2 DEF Declared
<1>6. CASE TableOverrides(irq) # {}
  <2>1. PICK m \in TableOverrides(irq) :
          Declared(irq) = MADT[m] /\ \A j \in TableOverrides(irq) : m <= j
    BY <1>6, DeclaredIs
  <2>2. m \in DOMAIN MADT /\ MADT[m].type = 2 /\ MADT[m].irq_source = irq
    BY DEF TableOverrides, MADT
  <2>3. PICK j \in 1..n : g[j] = m
    BY <1>2, <2>2 DEF Placed
  <2>4. madt_iso_list[j] = MADT[m] /\ j \in I
    <3>1. madt_iso_list[j] = MADT[m]
      BY <1>2, <2>3 DEF Placed
    <3>2. j \in 1..Len(madt_iso_list)
      BY <1>1, <1>2, <2>3 DEF Placed
    <3> QED BY <2>2, <3>1, <3>2
  <2>5. Min(I) \in I /\ Min(I) <= j
    <3>1. I \in SUBSET Nat
      OBVIOUS
    <3> HIDE DEF I
    <3> QED BY <2>4, <3>1, MinIs
  <2>6. k = Min(I)
    BY <1>3, <2>4
  <2>7. k \in 1..n /\ madt_iso_list[k].irq_source = irq
    BY <1>1, <2>3, <2>5, <2>6
  <2>8. g[k] \in TableOverrides(irq)
    <3>1. g[k] \in DOMAIN MADT /\ MADT[g[k]].type = 2 /\ MADT[g[k]] = madt_iso_list[k]
      BY <1>2, <2>7 DEF Placed
    <3> QED BY <2>7, <3>1 DEF TableOverrides, MADT
  <2>9. ~ (k < j)
    <3> SUFFICES ASSUME k < j PROVE FALSE
      OBVIOUS
    <3>1. g[k] < m
      BY <1>2, <2>3, <2>7 DEF Placed
    <3>2. m <= g[k]
      BY <2>1, <2>8
    <3>3. m \in Int /\ g[k] \in Int
      BY <2>2, <2>8, MadtIs DEF TableOverrides, MADT
    <3> QED BY <3>1, <3>2, <3>3
  <2>10. k = j
    BY <2>3, <2>5, <2>6, <2>7, <2>9
  <2> QED BY <1>4, <2>1, <2>4, <2>7, <2>10
<1> QED BY <1>5, <1>6

(* Of the I/O APICs in the list, the one that is found is one at whose pin *)
(* the interrupt arrives.                                                  *)
LEMMA FoundIsPin ==
  ASSUME machine \in Machines, Extends(1, madt_ioapic_list), NEW irq \in Irqs, ~ Foreign(irq),
         ioapic_get_gsi(Declared(irq).gsi) # 0
  PROVE  LET e == madt_ioapic_list[ioapic_get_gsi(Declared(irq).gsi)]
             k == Declared(irq).gsi - e.gsi_base
         IN  /\ <<e.address, k>> \in Pins(irq)
             /\ e.address \in DOMAIN machine.devices
             /\ k \in 0..machine.devices[e.address].top
<1> DEFINE list == madt_ioapic_list  gsi == Declared(irq).gsi
           top(e) == machine.devices[e.address].top
           I == {i \in 1..Len(list) : list[i].gsi_base <= gsi /\ list[i].gsi_base + top(list[i]) > gsi}
           c == ioapic_get_gsi(gsi)
           e == list[c]
<1>1. PICK n \in Nat : \E g : Placed(1, list, n, g)
  BY ExtendsPlaces
<1>2. PICK g : Placed(1, list, n, g)
  BY <1>1
<1>3. c = IF I # {} THEN Min(I) ELSE 0
  BY DEF ioapic_get_gsi, SelectInSeq, ioapic_gsi_count
<1>4. gsi \in Nat
  BY DeclaredIs
<1>5. \A a \in Range(MADT) : a.type = 1 =>
        a.address \in DOMAIN machine.devices /\ a.gsi_base \in Nat /\ top(a) \in Nat
  BY MachinesAssumption DEF MADT
<1> HIDE DEF c
<1>6. c = Min(I) /\ I # {}
  BY <1>3 DEF c
<1>7. c \in I /\ \A i \in I : c <= i
  <2>1. I \in SUBSET Nat
    OBVIOUS
  <2> HIDE DEF I
  <2> QED BY <1>6, <2>1, MinIs
<1>8. c \in 1..Len(list) /\ list[c].gsi_base <= gsi /\ list[c].gsi_base + top(list[c]) > gsi
  BY <1>7
<1>9. c <= n
  <2> SUFFICES ASSUME c > n PROVE FALSE
    BY <1>1, <1>8
  <2>1. c \in (n + 1)..Len(list)
    BY <1>1, <1>2, <1>8 DEF Placed
  <2>2. list[c] \in Range(machine.beyond) /\ list[c].type = 1
    BY <1>2, <2>1 DEF Placed
  <2>3. PICK pin \in Pins(irq) : ~ AtLast(pin)
    BY <2>2 DEF Foreign
  <2>4. PICK a \in Range(MADT) :
          a.type = 1 /\ gsi \in a.gsi_base..(a.gsi_base + top(a)) /\ pin = <<a.address, gsi - a.gsi_base>>
    BY DEF Pins, MADT
  <2>5. a.gsi_base <= gsi /\ a.gsi_base + top(a) > gsi
    <3> DEFINE t == top(a)
    <3>1. gsi - a.gsi_base # t
      BY <2>3, <2>4 DEF AtLast
    <3>2. t \in Nat /\ a.gsi_base \in Nat /\ gsi \in a.gsi_base..(a.gsi_base + t)
      BY <1>5, <2>4
    <3> HIDE DEF t, gsi
    <3>3. a.gsi_base <= gsi /\ a.gsi_base + t > gsi
      BY <3>1, <3>2
    <3> QED BY <3>3 DEF t
  <2>6. PICK i \in DOMAIN MADT : MADT[i] = a
    BY DEF Range
  <2>7. PICK j \in 1..n : g[j] = i
    BY <1>2, <2>4, <2>6 DEF Placed
  <2>8. list[j] = a /\ j \in 1..Len(list)
    BY <1>1, <1>2, <2>6, <2>7 DEF Placed
  <2>9. j \in I
    BY <2>5, <2>8
  <2> QED BY <1>1, <1>7, <1>8, <2>7, <2>9
<1>10. e \in Range(MADT) /\ e.type = 1
  <2>1. c \in 1..n
    BY <1>1, <1>8, <1>9
  <2>2. g[c] \in DOMAIN MADT /\ MADT[g[c]].type = 1 /\ e = MADT[g[c]]
    BY <1>2, <2>1 DEF Placed
  <2> QED BY <2>2 DEF Range
<1>11. e.address \in DOMAIN machine.devices /\ e.gsi_base \in Nat /\ top(e) \in Nat
  BY <1>5, <1>10
<1>12. e.gsi_base <= gsi /\ e.gsi_base + top(e) > gsi
  BY <1>8
<1> DEFINE t == top(e)  b == e.gsi_base
<1>13. gsi \in b..(b + t) /\ gsi - b \in 0..t
  <2>1. b \in Nat /\ t \in Nat /\ b <= gsi /\ b + t > gsi
    BY <1>11, <1>12
  <2> HIDE DEF b, t, gsi
  <2> QED BY <1>4, <2>1
<1>14. <<e.address, gsi - e.gsi_base>> \in Pins(irq)
  <2> HIDE DEF e
  <2> QED BY <1>10, <1>13 DEF Pins, MADT
<1> QED BY <1>11, <1>13, <1>14 DEF c

(* What the entry of an interrupt holds when both words are written. *)
Rightly(irq) ==
  Redirection(FALSE, irq + 32, ActiveLow(Declared(irq).flags),
              LevelTriggered(Declared(irq).flags), BootCpu)
Routed(irq) == \E pin \in Pins(irq) : redtbl[pin[1]][pin[2]] = Rightly(irq)

(* The interrupt that is being registered. *)
Current == IF registered = {} THEN Timer ELSE Keyboard

(* Only its low word is written. *)
HalfRouted(irq) ==
  LET e == madt_ioapic_list[ioapic_get_gsi(Declared(irq).gsi)]
  IN  redtbl[e.address][Declared(irq).gsi - e.gsi_base] =
        [Rightly(irq) EXCEPT !.cpu = redtbl[e.address][Declared(irq).gsi - e.gsi_base].cpu]

OthersMasked ==
  \A d \in DOMAIN redtbl : \A k \in DOMAIN redtbl[d] :
    redtbl[d][k].masked \/ \E irq \in Irqs : <<d, k>> \in Pins(irq)

Shaped(t) ==
  /\ DOMAIN t = DOMAIN machine.devices
  /\ \A d \in DOMAIN machine.devices : DOMAIN t[d] = 0..machine.devices[d].top

RouteInv ==
  /\ Shaped(redtbl)
  /\ registered \in {{}, {Timer}, Irqs} /\ half \in BOOLEAN
  /\ pc \in {"acpi", "madt", "walk", "ioapic"} => registered = {} /\ ~ half
  /\ pc = "pit" => registered = {}
  /\ pc = "kb" => registered = {Timer}
  /\ pc = "handler" => registered \in {{}, {Timer}} /\ ~ half
  /\ pc = "done" => ~ half
  /\ ~ Misled =>
       /\ pc \in {"pit", "kb"} /\ half => HalfRouted(Current)
       /\ pc = "handler" => Routed(Current)
       /\ ~ Shared => \A irq \in registered : Routed(irq)
       /\ OthersMasked

(* Of the two bits of the polarity, and of the trigger mode, the code looks*)
(* at the upper one: of the values that are not reserved, it says enough.  *)
LEMMA BitsSay ==
  ASSUME NEW flags \in Nat, flags % 4 # 2, (flags \div 4) % 4 # 2
  PROVE  /\ Bit(2, flags) = ActiveLow(flags)
         /\ Bit(8, flags) = LevelTriggered(flags)
<1>1. (flags \div 2) % 2 = 1 <=> flags % 4 = 3
  OBVIOUS
<1>2. (flags \div 8) % 2 = 1 <=> (flags \div 4) % 4 = 3
  <2>1. flags \div 8 = (flags \div 4) \div 2 /\ flags \div 4 \in Nat
    OBVIOUS
  <2> DEFINE q == flags \div 4
  <2>2. (q \div 2) % 2 = 1 <=> q % 4 = 3
    <3>1. q \in Nat /\ q % 4 # 2
      BY <2>1
    <3> HIDE DEF q
    <3> QED BY <3>1
  <2> QED BY <2>1, <2>2
<1> QED
  BY <1>1, <1>2 DEF Bit, ActiveLow, LevelTriggered

(* The cpu of a redirection is a field of its own. *)
LEMMA CpuSet ==
  ASSUME NEW m, NEW v, NEW a, NEW l, NEW c, NEW d
  PROVE  [Redirection(m, v, a, l, c) EXCEPT !.cpu = d] = Redirection(m, v, a, l, d)
BY DEF Redirection

(* The low word of an entry says what the table declares of the interrupt. *)
LEMMA LowWordIs ==
  ASSUME machine \in Machines, NEW irq \in Irqs, NEW entry
  PROVE  LowWord(entry, irq + 32, Declared(irq).flags) = [Rightly(irq) EXCEPT !.cpu = entry.cpu]
<1> DEFINE f == Declared(irq).flags
<1>1. Bit(2, f) = ActiveLow(f) /\ Bit(8, f) = LevelTriggered(f)
  BY DeclaredIs, BitsSay
<1>2. LowWord(entry, irq + 32, f) =
        Redirection(FALSE, irq + 32, ActiveLow(f), LevelTriggered(f), entry.cpu)
  <2> HIDE DEF f
  <2> QED BY <1>1, Zenon DEF LowWord
<1> DEFINE a == ActiveLow(f)  l == LevelTriggered(f)  m == FALSE
<1> HIDE DEF a, l, m
<1>3. Rightly(irq) = Redirection(m, irq + 32, a, l, BootCpu)
  BY DEF Rightly, a, l, m, f
<1>4. LowWord(entry, irq + 32, f) = Redirection(m, irq + 32, a, l, entry.cpu)
  BY <1>2 DEF a, l, m
<1> HIDE DEF f
<1> QED
  BY <1>3, <1>4, CpuSet DEF f

(* Nothing but the machine decides where interrupts should go. *)
LEMMA SamePins ==
  ASSUME machine' = machine
  PROVE  /\ \A irq : /\ Pins(irq)' = Pins(irq) /\ Foreign(irq)' = Foreign(irq)
                     /\ Rightly(irq)' = Rightly(irq) /\ Declared(irq)' = Declared(irq)
         /\ Misled' = Misled /\ Shared' = Shared
         /\ \A t : Shaped(t)' = Shaped(t)
<1>1. \A irq : TableOverrides(irq)' = TableOverrides(irq)
  BY DEF TableOverrides
<1>2. \A irq : Declared(irq)' = Declared(irq)
  BY DEF Declared, TableOverrides
<1>3. \A irq : Pins(irq)' = Pins(irq)
  BY <1>2 DEF Pins
<1>4. \A irq : Foreign(irq)' = Foreign(irq)
  BY <1>1, <1>3 DEF Foreign, AtLast
<1>5. \A irq : Rightly(irq)' = Rightly(irq)
  BY <1>2 DEF Rightly
<1>6. Misled' = Misled /\ Shared' = Shared
  BY <1>3, <1>4 DEF Misled, Shared
<1> QED
  BY <1>2, <1>3, <1>4, <1>5, <1>6 DEF Shaped

(* The invariant of the redirection tables before the first is written,    *)
(* ...                                                                     *)
LEMMA RouteInvInit == SetupInit => RouteInv
<1> SUFFICES ASSUME SetupInit PROVE RouteInv
  OBVIOUS
<1>1. /\ pc = "acpi" /\ registered = {} /\ half = FALSE
      /\ redtbl = [d \in DOMAIN machine.devices |->
                 [k \in 0..machine.devices[d].top |-> Redirection(TRUE, 0, FALSE, FALSE, AnyCpu)]]
  BY DEF SetupInit, AcpiInit, IoapicInit
<1>2. Shaped(redtbl)
  BY <1>1 DEF Shaped
<1>3. OthersMasked
  BY <1>1 DEF OthersMasked, Redirection
<1>4. half \in BOOLEAN /\ ~ half
  BY <1>1, Zenon
<1> QED
  BY <1>1, <1>2, <1>3, <1>4 DEF RouteInv

(* ... in the steps that write none, ... *)
LEMMA RouteFrame ==
  ASSUME RouteInv, machine' = machine, UNCHANGED ioapicVars,
         \/ pc' = pc /\ madt_ioapic_list' = madt_ioapic_list
         \/ pc \in {"acpi", "madt", "walk", "ioapic"} /\ pc' \in {"madt", "walk", "ioapic", "halted"}
  PROVE  RouteInv'
<1>1. redtbl' = redtbl /\ registered' = registered /\ half' = half
  BY DEF ioapicVars
<1>2. OthersMasked' = OthersMasked /\ Shaped(redtbl)' = Shaped(redtbl)
  BY <1>1, SamePins DEF OthersMasked, Shaped
<1>3. \A irq : Routed(irq)' = Routed(irq)
  BY <1>1, SamePins DEF Routed
<1>4. CASE pc' = pc /\ madt_ioapic_list' = madt_ioapic_list
  <2>1. Current' = Current /\ \A irq : HalfRouted(irq)' = HalfRouted(irq)
    <3>1. ioapic_get_gsi(0)' = ioapic_get_gsi(0) /\ \A gsi : ioapic_get_gsi(gsi)' = ioapic_get_gsi(gsi)
      BY <1>4 DEF ioapic_get_gsi, SelectInSeq, ioapic_gsi_count
    <3> QED BY <1>1, <1>4, <3>1, SamePins DEF HalfRouted, Current
  <2> QED BY <1>1, <1>2, <1>3, <1>4, <2>1, SamePins DEF RouteInv
<1>5. CASE pc \in {"acpi", "madt", "walk", "ioapic"} /\ pc' \in {"madt", "walk", "ioapic", "halted"}
  BY <1>1, <1>2, <1>3, <1>5, SamePins DEF RouteInv
<1> QED
  BY <1>4, <1>5

(* The redirection tables t with entry k of device a written. *)
Entered(t, a, k, x) == [t EXCEPT ![a][k] = x]

(* One entry of the redirection tables is written. *)
LEMMA EntryWritten ==
  ASSUME Shaped(redtbl), NEW a, NEW k, NEW x, redtbl' = Entered(redtbl, a, k, x),
         machine' = machine
  PROVE  /\ Shaped(redtbl)'
         /\ \A d \in DOMAIN machine.devices : \A j \in 0..machine.devices[d].top :
              redtbl'[d][j] = IF d = a /\ j = k THEN x ELSE redtbl[d][j]
<1>1. DOMAIN redtbl = DOMAIN machine.devices /\ DOMAIN redtbl' = DOMAIN redtbl
  BY DEF Shaped, Entered
<1>2. ASSUME NEW d \in DOMAIN machine.devices
      PROVE  /\ DOMAIN redtbl'[d] = 0..machine.devices[d].top
             /\ \A j \in 0..machine.devices[d].top :
                  redtbl'[d][j] = IF d = a /\ j = k THEN x ELSE redtbl[d][j]
  <2>1. DOMAIN redtbl[d] = 0..machine.devices[d].top
    BY DEF Shaped
  <2>2. CASE d = a
    <3>1. redtbl'[d] = [redtbl[d] EXCEPT ![k] = x]
      BY <1>1, <2>2 DEF Entered
    <3> QED BY <2>1, <2>2, <3>1
  <2>3. CASE d # a
    <3>1. redtbl'[d] = redtbl[d]
      BY <1>1, <2>3 DEF Entered
    <3> QED BY <2>1, <2>3, <3>1
  <2> QED BY <2>2, <2>3
<1> QED
  BY <1>1, <1>2 DEF Shaped, Entered

(* An interrupt arrives at an entry of a device. *)
LEMMA PinIs ==
  ASSUME machine \in Machines, NEW irq, NEW pin \in Pins(irq)
  PROVE  /\ pin = <<pin[1], pin[2]>> /\ pin[1] \in DOMAIN machine.devices
         /\ Declared(irq).gsi \in Int => pin[2] \in 0..machine.devices[pin[1]].top
<1>1. PICK e \in Range(MADT) :
        /\ e.type = 1 /\ pin = <<e.address, Declared(irq).gsi - e.gsi_base>>
        /\ Declared(irq).gsi \in e.gsi_base..(e.gsi_base + machine.devices[e.address].top)
  BY DEF Pins, MADT
<1>2. /\ e.address \in DOMAIN machine.devices /\ e.gsi_base \in Nat
      /\ machine.devices[e.address].top \in Nat
  BY <1>1, MachinesAssumption DEF MADT
<1> DEFINE t == machine.devices[e.address].top  b == e.gsi_base  g == Declared(irq).gsi
<1>3. g \in Int => g - b \in 0..t
  <2>1. t \in Nat /\ b \in Nat /\ g \in b..(b + t)
    BY <1>1, <1>2
  <2> HIDE DEF t, b, g
  <2> QED BY <2>1
<1> QED
  BY <1>1, <1>2, <1>3

(* ... in a step that writes one of the two words, ... *)
LEMMA WriteStep ==
  ASSUME WalkInv, RouteInv, NEW irq \in Irqs, irq = Current, pc \in {"pit", "kb"},
         WriteWord(irq), machine' = machine, madt_ioapic_list' = madt_ioapic_list,
         registered' = registered
  PROVE  RouteInv'
<1>0. /\ machine \in Machines /\ Extends(1, madt_ioapic_list) /\ Extends(2, madt_iso_list)
      /\ Shaped(redtbl) /\ half \in BOOLEAN /\ registered \in {{}, {Timer}}
      /\ (pc = "pit" => registered = {}) /\ (pc = "kb" => registered = {Timer})
  BY DEF WalkInv, Listing, Walked, RouteInv
<1> DEFINE i == ioapic_get_gsi(Override(irq).gsi)
           e == madt_ioapic_list[i]
           k == Override(irq).gsi - e.gsi_base
           old == redtbl[e.address][k]
           x == IF half THEN [old EXCEPT !.cpu = BootCpu]
                ELSE LowWord(old, irq + 32, Override(irq).flags)
<1>1. CASE i = 0
  <2>1. pc' = "halted" /\ redtbl' = redtbl /\ half' = half
    BY <1>1 DEF WriteWord, Stop
  <2>2. (\A r : Routed(r)' = Routed(r)) /\ OthersMasked' = OthersMasked
    BY <2>1, SamePins DEF Routed, OthersMasked
  <2>3. Shaped(redtbl)'
    BY <2>1, <1>0, SamePins DEF Shaped
  <2> QED BY <1>0, <2>1, <2>2, <2>3, SamePins DEF RouteInv
<1>2. CASE i # 0
  <2>1. /\ redtbl' = Entered(redtbl, e.address, k, x) /\ half' = ~ half
        /\ pc' = IF half THEN "handler" ELSE pc
    BY <1>2 DEF WriteWord, Entered
  <2> DEFINE a == e.address
  <2> HIDE DEF x, k, a
  <2>2. /\ Shaped(redtbl)'
        /\ \A d \in DOMAIN machine.devices : \A j \in 0..machine.devices[d].top :
             redtbl'[d][j] = IF d = a /\ j = k THEN x ELSE redtbl[d][j]
    <3>1. redtbl' = Entered(redtbl, a, k, x)
      BY <2>1 DEF a
    <3> HIDE DEF i, e, old
    <3>2. Shaped(redtbl) /\ machine' = machine
      BY <1>0
    <3> QED BY ONLY <3>1, <3>2, EntryWritten
  <2>3. CASE Misled
    BY <1>0, <2>1, <2>2, <2>3, SamePins DEF RouteInv
  <2>4. CASE ~ Misled
    <3>1. ~ Foreign(irq)
      BY <2>4 DEF Misled
    <3>2. Override(irq) = Declared(irq)
      BY <1>0, <3>1, OverrideIs
    <3>3. /\ <<a, k>> \in Pins(irq) /\ a \in DOMAIN machine.devices
          /\ k \in 0..machine.devices[a].top
      BY <1>0, <1>2, <3>1, <3>2, FoundIsPin DEF a, k
    <3>4. redtbl'[a][k] = x
      BY <2>2, <3>3
    <3>5. ASSUME NEW r \in registered, Routed(r), ~ Shared PROVE Routed(r)'
      <4>1. PICK pin \in Pins(r) : redtbl[pin[1]][pin[2]] = Rightly(r)
        BY <3>5 DEF Routed
      <4>2. r = Timer /\ irq = Keyboard
        BY <1>0 DEF Current
      <4>3. pin # <<a, k>>
        BY <3>3, <3>5, <4>2 DEF Shared
      <4>4. /\ pin = <<pin[1], pin[2]>> /\ pin[1] \in DOMAIN machine.devices
            /\ pin[2] \in 0..machine.devices[pin[1]].top
        <5>1. r \in Irqs
          BY <4>2 DEF Irqs
        <5>2. Declared(r).gsi \in Int
          BY <1>0, <5>1, DeclaredIs
        <5> QED BY <1>0, <5>2, PinIs
      <4>5. redtbl'[pin[1]][pin[2]] = Rightly(r)
        <5>1. ~ (pin[1] = a /\ pin[2] = k)
          BY <4>3, <4>4
        <5> QED BY <2>2, <4>1, <4>4, <5>1
      <4> QED BY <4>5, SamePins DEF Routed
    <3>6. OthersMasked'
      <4> SUFFICES ASSUME NEW d \in DOMAIN redtbl', NEW j \in DOMAIN redtbl'[d]
                   PROVE  redtbl'[d][j].masked \/ \E r \in Irqs : <<d, j>> \in Pins(r)'
        BY DEF OthersMasked
      <4>1. d \in DOMAIN machine.devices /\ j \in 0..machine.devices[d].top
        BY <2>2 DEF Shaped
      <4>2. CASE d = a /\ j = k
        BY <3>3, <4>2, SamePins
      <4>3. CASE ~ (d = a /\ j = k)
        <5>1. redtbl'[d][j] = redtbl[d][j]
          BY <2>2, <4>1, <4>3
        <5>2. redtbl[d][j].masked \/ \E r \in Irqs : <<d, j>> \in Pins(r)
          BY <1>0, <2>4, <4>1 DEF RouteInv, OthersMasked, Shaped
        <5> QED BY <5>1, <5>2, SamePins
      <4> QED BY <4>2, <4>3
    <3>7. CASE half
      <4>1. old = [Rightly(irq) EXCEPT !.cpu = old.cpu]
        BY <2>4, <3>2, <3>7 DEF RouteInv, HalfRouted, k
      <4>2. x = Rightly(irq)
        <5>1. x = [old EXCEPT !.cpu = BootCpu]
          BY <3>7 DEF x
        <5> DEFINE m == FALSE  l == ActiveLow(Declared(irq).flags)
                   t == LevelTriggered(Declared(irq).flags)
        <5> HIDE DEF m, l, t, old
        <5>2. Rightly(irq) = Redirection(m, irq + 32, l, t, BootCpu)
          BY DEF Rightly, m, l, t
        <5>3. old = Redirection(m, irq + 32, l, t, old.cpu)
          BY <4>1, <5>2, CpuSet
        <5>4. [Redirection(m, irq + 32, l, t, old.cpu) EXCEPT !.cpu = BootCpu] =
                Redirection(m, irq + 32, l, t, BootCpu)
          BY CpuSet
        <5> QED BY <5>1, <5>2, <5>3, <5>4
      <4>3. Routed(irq)'
        <5>1. redtbl'[a][k] = Rightly(irq)
          BY <3>4, <4>2
        <5>2. <<a, k>>[1] = a /\ <<a, k>>[2] = k
          OBVIOUS
        <5> QED BY <3>3, <5>1, <5>2, SamePins DEF Routed
      <4>4. pc' = "handler" /\ half' = FALSE /\ Current' = irq
        BY <2>1, <3>7 DEF Current
      <4>5. ~ Shared' => \A r \in registered' : Routed(r)'
        BY <2>4, <3>5, SamePins DEF RouteInv
      <4> QED BY <1>0, <2>2, <3>6, <4>3, <4>4, <4>5, SamePins DEF RouteInv
    <3>8. CASE ~ half
      <4>1. x = [Rightly(irq) EXCEPT !.cpu = old.cpu]
        BY <1>0, <3>2, <3>8, LowWordIs DEF x
      <4>2. x = [Rightly(irq) EXCEPT !.cpu = x.cpu]
        <5> DEFINE m == FALSE  l == ActiveLow(Declared(irq).flags)
                   t == LevelTriggered(Declared(irq).flags)
        <5> HIDE DEF m, l, t, old
        <5>1. Rightly(irq) = Redirection(m, irq + 32, l, t, BootCpu)
          BY DEF Rightly, m, l, t
        <5>2. x = Redirection(m, irq + 32, l, t, old.cpu)
          BY <4>1, <5>1, CpuSet
        <5>3. Redirection(m, irq + 32, l, t, old.cpu).cpu = old.cpu
          BY DEF Redirection
        <5> QED BY <4>1, <5>2, <5>3
      <4>3. HalfRouted(irq)'
        <5>1. madt_ioapic_list[ioapic_get_gsi(Declared(irq).gsi)].address = a
              /\ Declared(irq).gsi - madt_ioapic_list[ioapic_get_gsi(Declared(irq).gsi)].gsi_base = k
          BY <3>2 DEF a, k
        <5>2. redtbl'[a][k] = [Rightly(irq) EXCEPT !.cpu = redtbl'[a][k].cpu]
          BY <3>4, <4>2
        <5>3. \A g : ioapic_get_gsi(g)' = ioapic_get_gsi(g)
          BY DEF ioapic_get_gsi, SelectInSeq, ioapic_gsi_count
        <5> QED BY <5>1, <5>2, <5>3, SamePins DEF HalfRouted
      <4>4. pc' = pc /\ half' = TRUE /\ Current' = irq
        BY <1>0, <2>1, <3>8 DEF Current
      <4>5. ~ Shared' => \A r \in registered' : Routed(r)'
        BY <2>4, <3>5, SamePins DEF RouteInv
      <4> QED BY <1>0, <2>2, <3>6, <4>3, <4>4, <4>5, SamePins DEF RouteInv
    <3> QED BY <1>0, <3>7, <3>8
  <2> QED BY <2>3, <2>4
<1> QED BY <1>1, <1>2

(* The handler is stored. *)
LEMMA RegisterStep ==
  ASSUME RouteInv, pc = "handler", NEW irq, irq = Current, pc' = IF irq = Timer THEN "kb" ELSE "done",
         registered' = registered \cup {irq}, redtbl' = redtbl, half' = half,
         machine' = machine
  PROVE  RouteInv'
<1>1. registered \in {{}, {Timer}} /\ ~ half /\ half \in BOOLEAN /\ Shaped(redtbl)
  BY DEF RouteInv
<1>2. \/ registered = {} /\ irq = Timer /\ registered' = {Timer} /\ pc' = "kb"
      \/ registered = {Timer} /\ irq = Keyboard /\ registered' = Irqs /\ pc' = "done"
  BY <1>1 DEF Current, Irqs, Timer, Keyboard
<1>3. (\A r : Routed(r)' = Routed(r)) /\ OthersMasked' = OthersMasked /\ Shaped(redtbl)'
  BY <1>1, SamePins DEF Routed, OthersMasked, Shaped
<1>4. ~ Misled' => /\ ~ Shared' => \A r \in registered' : Routed(r)'
                   /\ OthersMasked'
  BY <1>3, SamePins DEF RouteInv
<1> QED
  BY <1>1, <1>2, <1>3, <1>4 DEF RouteInv

(* ... in the one that masks all entries, ... *)
LEMMA IoapicInitStep ==
  ASSUME WalkInv, RouteInv, ioapic_init, machine' = machine
  PROVE  RouteInv'
<1>1. /\ pc = "ioapic" /\ pc' \in {"pit", "halted"} /\ registered' = registered /\ half' = half
      /\ registered = {} /\ ~ half /\ half \in BOOLEAN /\ Shaped(redtbl)
  BY DEF ioapic_init, Stop, RouteInv
<1> DEFINE e == madt_ioapic_list[1]
           row == [i \in 0..ioapic_gsi_count(e) |-> Redirection(TRUE, i + 32, FALSE, FALSE, BootCpu)]
<1>2. redtbl' = redtbl \/ redtbl' = [redtbl EXCEPT ![e.address] = row]
  BY DEF ioapic_init
<1>3. ASSUME NEW d \in DOMAIN machine.devices
      PROVE  redtbl'[d] = redtbl[d] \/ (d = e.address /\ redtbl'[d] = row)
  <2>1. d \in DOMAIN redtbl
    BY <1>1 DEF Shaped
  <2> HIDE DEF e, row
  <2> QED BY <1>2, <2>1
<1>4. DOMAIN redtbl' = DOMAIN machine.devices
  BY <1>1, <1>2 DEF Shaped
<1>5. DOMAIN row = 0..machine.devices[e.address].top /\ \A j \in DOMAIN row : row[j].masked
  BY DEF ioapic_gsi_count, Redirection
<1> HIDE DEF row, e
<1>6. Shaped(redtbl)'
  BY <1>1, <1>3, <1>4, <1>5 DEF Shaped
<1>7. ~ Misled => OthersMasked'
  <2> SUFFICES ASSUME ~ Misled, NEW d \in DOMAIN redtbl', NEW j \in DOMAIN redtbl'[d]
               PROVE  redtbl'[d][j].masked \/ \E r \in Irqs : <<d, j>> \in Pins(r)'
    BY DEF OthersMasked
  <2>1. d \in DOMAIN machine.devices
    BY <1>4
  <2>2. CASE redtbl'[d] = row
    BY <1>5, <2>2
  <2>3. CASE redtbl'[d] = redtbl[d]
    BY <1>1, <2>1, <2>3, SamePins DEF RouteInv, OthersMasked, Shaped
  <2> QED BY <1>3, <2>1, <2>2, <2>3
<1> QED
  BY <1>1, <1>6, <1>7, SamePins DEF RouteInv

(* ... and in every step of the set-up. *)
LEMMA RouteInvStep == WalkInv /\ RouteInv /\ [SetupNext]_setupVars => RouteInv'
<1> SUFFICES ASSUME WalkInv, RouteInv, [SetupNext]_setupVars PROVE RouteInv'
  OBVIOUS
<1>1. CASE acpi_init /\ UNCHANGED ioapicVars
  BY <1>1, RouteFrame DEF acpi_init, Stop
<1>2. CASE madt_init /\ UNCHANGED ioapicVars
  <2>1. CASE FindMadt
    BY <1>2, <2>1, RouteFrame DEF FindMadt, Stop
  <2>2. CASE WalkEntry
    <3>1. /\ pc = "walk" /\ pc' \in {"walk", "halted"} /\ machine' = machine
      BY <2>2 DEF WalkEntry, Stop
    <3> QED BY <1>2, <3>1, RouteFrame
  <2>3. CASE EndWalk
    BY <1>2, <2>3, RouteFrame DEF EndWalk, Goto
  <2> QED BY <1>2, <2>1, <2>2, <2>3 DEF madt_init
<1>3. CASE IoapicNext
  <2>1. machine' = machine /\ madt_ioapic_list' = madt_ioapic_list
    BY <1>3 DEF IoapicNext
  <2>2. CASE ioapic_init
    BY <2>1, <2>2, IoapicInitStep
  <2>3. CASE pit_init
    <3>1. Current = Timer /\ Timer \in Irqs
      BY <2>3 DEF pit_init, Current, Irqs
    <3>2. CASE pc = "pit" /\ WriteWord(Timer) /\ registered' = registered
      BY <2>1, <3>1, <3>2, WriteStep
    <3>3. CASE /\ Goto("handler", "kb") /\ registered' = registered \cup {Timer}
               /\ UNCHANGED <<redtbl, half>>
      BY <2>1, <3>1, <3>3, RegisterStep DEF Goto
    <3> QED BY <2>3, <3>2, <3>3 DEF pit_init, irq_register
  <2>4. CASE kb_init
    <3>1. Current = Keyboard /\ Keyboard \in Irqs /\ Keyboard # Timer
      BY <2>4 DEF kb_init, Current, Irqs, Keyboard, Timer
    <3>2. CASE pc = "kb" /\ WriteWord(Keyboard) /\ registered' = registered
      BY <2>1, <3>1, <3>2, WriteStep
    <3>3. CASE /\ Goto("handler", "done") /\ registered' = registered \cup {Keyboard}
               /\ UNCHANGED <<redtbl, half>>
      BY <2>1, <3>1, <3>3, RegisterStep DEF Goto
    <3> QED BY <2>4, <3>2, <3>3 DEF kb_init, irq_register
  <2> QED BY <1>3, <2>2, <2>3, <2>4 DEF IoapicNext
<1>4. CASE UNCHANGED <<acpiVars, ioapicVars>>
  BY <1>4, RouteFrame DEF acpiVars
<1> QED
  BY <1>1, <1>2, <1>3, <1>4 DEF SetupNext, setupVars

(* On every machine whose walk is not misled by a stray entry beyond the   *)
(* table, each registered interrupt that does not share its pin with the   *)
(* other has its entry, with the vector, polarity and trigger mode that    *)
(* the table declares, and no other entry is ever unmasked                 *)
(* (ioapic.c:32-91).                                                       *)
THEOREM InterruptsAreRouted == SetupSpec => []RoutedAsTables
<1>1. WalkInv /\ RouteInv => RoutedAsTables
  BY DEF RouteInv, RoutedAsTables, Routed, Rightly, OthersMasked
<1> QED
  BY <1>1, WalkInvInit, WalkInvStep, RouteInvInit, RouteInvStep, PTL DEF SetupSpec

-----------------------------------------------------------------------------
(* The way into a handler and back. *)

Interrupted(v) ==
  (IF v \in cpu_error_code THEN <<"error">> ELSE <<>>) \o iret_frame \o Own
Numbered(v) ==
  (IF v \in isr_err_stub THEN <<v>> ELSE <<v, "0">>) \o Interrupted(v)
Saved(v) == Reverse([i \in DOMAIN pushed |-> Untouched[pushed[i]]]) \o Numbered(v)

(* The stages at which the registers are on the stack. *)
AtHandler == {"irq_handler", "isr_handler", "popa"}

EntryInv ==
  /\ stage # "fault"
  /\ stage # "popa" => reg = Untouched
  /\ stage = "program" => stack = Own
  /\ stage = "stub" => stack = Interrupted(vector)
  /\ stage \in {"pusha", "iretq"} => stack = Numbered(vector)
  /\ stage \in AtHandler => stack = Saved(vector)
  /\ stage \in {"irq_handler", "popa", "iretq"} => vector \in irq_stub

(* What can be on the stack. *)
Words == Registers \cup Range(iret_frame) \cup {"error", "0", "own"} \cup (0..255)

(* With its number on top, the frame is a sequence of words. *)
LEMMA NumberedIsSeq ==
  ASSUME NEW v \in 0..255
  PROVE  Numbered(v) \in Seq(Words) /\ Len(Numbered(v)) > 0 /\ Numbered(v)[1] = v
<1>1. Range(iret_frame) = {"rip", "cs", "rflags", "rsp", "ss"}
  <2>1. DOMAIN iret_frame = 1..5
    BY DEF iret_frame
  <2> QED BY <2>1 DEF Range, iret_frame
<1>2. /\ iret_frame \in Seq(Words) /\ Own \in Seq(Words)
      /\ <<>> \in Seq(Words) /\ <<"error">> \in Seq(Words)
      /\ <<v>> \in Seq(Words) /\ <<v, "0">> \in Seq(Words)
  BY <1>1 DEF Words, iret_frame, Own
<1> DEFINE code == IF v \in cpu_error_code THEN <<"error">> ELSE <<>>
           number == IF v \in isr_err_stub THEN <<v>> ELSE <<v, "0">>
<1>3. code \in Seq(Words) /\ number \in Seq(Words) /\ Len(number) > 0 /\ number[1] = v
  BY <1>2
<1> HIDE DEF code, number
<1>4. code \o iret_frame \in Seq(Words)
  BY <1>2, <1>3, ConcatProperties
<1>5. Interrupted(v) \in Seq(Words)
  <2>1. (code \o iret_frame) \o Own \in Seq(Words)
    BY <1>2, <1>4, ConcatProperties
  <2> QED BY <2>1 DEF Interrupted, code
<1>6. /\ number \o Interrupted(v) \in Seq(Words)
      /\ Len(number \o Interrupted(v)) = Len(number) + Len(Interrupted(v))
      /\ (number \o Interrupted(v))[1] = v
  BY <1>3, <1>5, ConcatProperties, LenProperties
<1>7. Len(Interrupted(v)) \in Nat
  BY <1>5, LenProperties
<1> QED
  BY <1>3, <1>6, <1>7 DEF Numbered, number

(* For a vector without error code, two words are above what the processor *)
(* pushed.                                                                 *)
LEMMA ByInterrupt ==
  ASSUME NEW v \in irq_stub
  PROVE  /\ SubSeq(Numbered(v), 3, 7) = iret_frame
         /\ SubSeq(Numbered(v), 8, Len(Numbered(v))) = Own
<1> DEFINE n == <<v, "0">>
<1>1. v \notin cpu_error_code /\ v \notin isr_err_stub /\ v \in 0..255
  BY DEF irq_stub, cpu_error_code, isr_err_stub
<1>2. /\ iret_frame \in Seq(Words) /\ Own \in Seq(Words) /\ n \in Seq(Words)
      /\ Len(iret_frame) = 5 /\ Len(Own) = 1 /\ Len(n) = 2
  <2>1. \A i \in 1..5 : iret_frame[i] \in Words
    BY DEF Words, iret_frame, Range
  <2> QED BY <1>1, <2>1 DEF Words, iret_frame, Own
<1>3. Numbered(v) = n \o (iret_frame \o Own)
  <2>1. <<>> \o iret_frame = iret_frame
    BY <1>2, ConcatEmptySeq
  <2> QED BY <1>1, <2>1 DEF Numbered, Interrupted
<1> HIDE DEF n
<1>4. iret_frame \o Own \in Seq(Words) /\ Len(iret_frame \o Own) = 6
  <2>1. iret_frame \o Own \in Seq(Words) /\ Len(iret_frame \o Own) = Len(iret_frame) + Len(Own)
    BY <1>2, ConcatProperties, Zenon
  <2> QED BY <2>1, <1>2
<1>5. Len(Numbered(v)) = 8
  <2>1. Len(n \o (iret_frame \o Own)) = Len(n) + Len(iret_frame \o Own)
    BY <1>2, <1>4, ConcatProperties, Zenon
  <2> QED BY <2>1, <1>2, <1>3, <1>4
<1>6. SubSeq(Numbered(v), 3, 7) = iret_frame
  <2>1. SubSeq(n \o (iret_frame \o Own), 3, 7) = SubSeq(iret_frame \o Own, 3 - Len(n), 7 - Len(n))
    <3>1. 3 \in Len(n) + 1 .. Len(n) + Len(iret_frame \o Own)
      BY <1>2, <1>4
    <3>2. 7 \in Len(n) + 1 .. Len(n) + Len(iret_frame \o Own)
      BY <1>2, <1>4
    <3> QED BY <1>2, <1>4, <3>1, <3>2, SubSeqOfConcat2, Zenon
  <2>2. SubSeq(iret_frame \o Own, 1, 5) = SubSeq(iret_frame, 1, 5)
    <3>1. 1 \in 1..Len(iret_frame) /\ 5 \in 1..Len(iret_frame)
      BY <1>2
    <3> QED BY <1>2, <3>1, SubSeqOfConcat1, Zenon
  <2>3. SubSeq(iret_frame, 1, 5) = iret_frame
    <3>1. SubSeq(iret_frame, 1, Len(iret_frame)) = iret_frame
      BY <1>2, SubSeqFull, Zenon
    <3> QED BY <1>2, <3>1
  <2>4. 3 - Len(n) = 1 /\ 7 - Len(n) = 5
    BY <1>2
  <2> QED BY <1>3, <2>1, <2>2, <2>3, <2>4, Zenon
<1>7. SubSeq(Numbered(v), 8, 8) = Own
  <2>1. SubSeq(n \o (iret_frame \o Own), 8, 8) = SubSeq(iret_frame \o Own, 8 - Len(n), 8 - Len(n))
    <3>1. 8 \in Len(n) + 1 .. Len(n) + Len(iret_frame \o Own)
      BY <1>2, <1>4
    <3> QED BY <1>2, <1>4, <3>1, SubSeqOfConcat2, Zenon
  <2>2. SubSeq(iret_frame \o Own, 6, 6) = SubSeq(Own, 6 - Len(iret_frame), 6 - Len(iret_frame))
    <3>1. 6 \in Len(iret_frame) + 1 .. Len(iret_frame) + Len(Own)
      BY <1>2
    <3> QED BY <1>2, <3>1, SubSeqOfConcat2, Zenon
  <2>3. SubSeq(Own, 1, 1) = Own
    <3>1. SubSeq(Own, 1, Len(Own)) = Own
      BY <1>2, SubSeqFull, Zenon
    <3> QED BY <1>2, <3>1
  <2>4. 8 - Len(n) = 6 /\ 6 - Len(iret_frame) = 1
    BY <1>2
  <2> QED BY <1>3, <2>1, <2>2, <2>3, <2>4, Zenon
<1> QED BY <1>5, <1>6, <1>7

(* The pushes, the pops and the fields of regs name the registers in one   *)
(* order.                                                                  *)
LEMMA RegistersPushed ==
  /\ DOMAIN pushed = 1..15 /\ DOMAIN popped = 1..15 /\ DOMAIN regs = 1..21
  /\ Len(popped) = 15
  /\ \A i \in 1..15 : pushed[16 - i] = popped[i] /\ popped[i] = regs[i] /\ pushed[i] \in Registers
  /\ regs[16] = "int_no" /\ \A i \in 1..21 : regs[i] = "int_no" => i = 16
  /\ \A r \in Registers : r # "int_no" /\ (\E i \in 1..15 : popped[i] = r)
  /\ \A i \in 1..21 : regs[i] \in Registers => i \in 1..15
<1>1. DOMAIN pushed = 1..15 /\ DOMAIN popped = 1..15 /\ DOMAIN regs = 1..21 /\ Len(popped) = 15
  BY DEF pushed, popped, regs
<1>2. Registers = {"rax", "rcx", "rdx", "rbx", "rbp", "rsi", "rdi", "r8", "r9", "r10",
                   "r11", "r12", "r13", "r14", "r15"}
  BY <1>1 DEF Registers, Range, pushed
<1>3. \A i \in 1..15 : pushed[16 - i] = popped[i] /\ popped[i] = regs[i]
  BY DEF pushed, popped, regs
<1>4. \A i \in 1..15 : pushed[i] \in Registers
  BY <1>1 DEF Registers, Range
<1>5. regs[16] = "int_no" /\ \A i \in 1..21 : regs[i] = "int_no" => i = 16
  BY DEF regs
<1>6. \A r \in Registers : r # "int_no"
  BY <1>2
<1>7. \A r \in Registers : \E i \in 1..15 : popped[i] = r
  <2>1. \A r \in Registers : \E i \in 1..15 : pushed[i] = r
    BY <1>1 DEF Registers, Range
  <2> SUFFICES ASSUME NEW i \in 1..15 PROVE \E j \in 1..15 : popped[j] = pushed[i]
    BY <2>1
  <2>2. 16 - i \in 1..15 /\ 16 - (16 - i) = i
    OBVIOUS
  <2> QED BY <2>2, <1>3
<1>8. \A i \in 1..21 : regs[i] \in Registers => i \in 1..15
  BY <1>2 DEF regs
<1> QED BY <1>1, <1>3, <1>4, <1>5, <1>6, <1>7, <1>8

(* With the registers on top: what is where. *)
LEMMA SavedFrame ==
  ASSUME NEW v \in 0..255
  PROVE  /\ Saved(v)[16] = v
         /\ \A i \in 1..15 : Saved(v)[i] = popped[i]
         /\ SubSeq(Saved(v), 16, Len(Saved(v))) = Numbered(v)
<1> DEFINE p == [i \in DOMAIN pushed |-> Untouched[pushed[i]]]
           s == Reverse(p)
<1>1. p = [i \in 1..15 |-> pushed[i]] /\ \A i \in 1..15 : pushed[i] \in Words
  BY RegistersPushed DEF Untouched, Words
<1>2. p \in Seq(Words) /\ Len(p) = 15
  <2>1. [i \in 1..15 |-> pushed[i]] \in Seq(Words) /\ Len([i \in 1..15 |-> pushed[i]]) = 15
    BY <1>1, IsASeq, LenProperties
  <2> QED BY <1>1, <2>1
<1> HIDE DEF p
<1>3. s = [i \in 1..15 |-> p[(15 - i) + 1]]
  BY <1>2 DEF Reverse
<1>4. \A i \in 1..15 : s[i] = popped[i]
  BY <1>1, <1>3, RegistersPushed
<1>5. s \in Seq(Words) /\ Len(s) = 15
  <2>1. \A i \in 1..15 : p[(15 - i) + 1] \in Words
    BY <1>1
  <2>2. [i \in 1..15 |-> p[(15 - i) + 1]] \in Seq(Words)
    BY <2>1, IsASeq
  <2> QED BY <1>3, <2>2
<1> HIDE DEF s
<1>6. Saved(v) = s \o Numbered(v)
  BY DEF Saved, s, p
<1>12. Numbered(v) \in Seq(Words) /\ Len(Numbered(v)) > 0 /\ Numbered(v)[1] = v
  BY NumberedIsSeq
<1>7. /\ Len(s \o Numbered(v)) = 15 + Len(Numbered(v))
      /\ \A i \in 1..(15 + Len(Numbered(v))) :
           (s \o Numbered(v))[i] = IF i <= 15 THEN s[i] ELSE Numbered(v)[i - 15]
  <2>1. /\ Len(s \o Numbered(v)) = Len(s) + Len(Numbered(v))
        /\ \A i \in 1..(Len(s) + Len(Numbered(v))) :
             (s \o Numbered(v))[i] = IF i <= Len(s) THEN s[i] ELSE Numbered(v)[i - Len(s)]
    BY <1>5, <1>12, ConcatProperties, Zenon
  <2> QED BY <2>1, <1>5
<1>8. Len(Numbered(v)) \in Nat \ {0}
  BY <1>12, LenProperties
<1>9. SubSeq(s \o Numbered(v), 16, 15 + Len(Numbered(v))) = Numbered(v)
  <2>1. SubSeq(s \o Numbered(v), 16, 15 + Len(Numbered(v)))
          = SubSeq(Numbered(v), 16 - Len(s), (15 + Len(Numbered(v))) - Len(s))
    <3>1. /\ 16 \in Len(s) + 1 .. Len(s) + Len(Numbered(v))
          /\ 15 + Len(Numbered(v)) \in Len(s) + 1 .. Len(s) + Len(Numbered(v))
      BY <1>5, <1>8
    <3> QED BY <1>5, <1>12, <3>1, SubSeqOfConcat2, Zenon
  <2>2. SubSeq(Numbered(v), 1, Len(Numbered(v))) = Numbered(v)
    BY <1>12, SubSeqFull, Zenon
  <2>3. 16 - Len(s) = 1 /\ (15 + Len(Numbered(v))) - Len(s) = Len(Numbered(v))
    BY <1>5, <1>8
  <2> QED BY <2>1, <2>2, <2>3, Zenon
<1>10. \A i \in 1..15 : Saved(v)[i] = popped[i]
  <2>1. \A i \in 1..15 : (s \o Numbered(v))[i] = s[i]
    BY <1>7, <1>8
  <2> QED BY <1>4, <1>6, <2>1, Zenon
<1>11. Saved(v)[16] = v
  <2>1. (s \o Numbered(v))[16] = Numbered(v)[16 - 15]
    BY <1>7, <1>8
  <2>2. 16 - 15 = 1
    OBVIOUS
  <2> QED BY <1>6, <1>12, <2>1, <2>2, Zenon
<1>13. SubSeq(Saved(v), 16, Len(Saved(v))) = Numbered(v)
  <2>1. Len(Saved(v)) = 15 + Len(Numbered(v))
    BY <1>6, <1>7, Zenon
  <2> QED BY <1>6, <1>9, <2>1, Zenon
<1> QED
  BY <1>10, <1>11, <1>13

(* A field is one of the words of the frame, in the place of its name. *)
LEMMA FieldOf ==
  ASSUME NEW f, NEW i \in 1..21, regs[i] = f
  PROVE  \E j \in 1..21 : regs[j] = f /\ Field(f) = stack[j]
<1>1. \E j \in DOMAIN regs : regs[j] = f
  BY RegistersPushed
<1> DEFINE k == CHOOSE j \in DOMAIN regs : regs[j] = f
<1>2. k \in DOMAIN regs /\ regs[k] = f
  BY <1>1
<1>3. Field(f) = stack[k]
  BY DEF Field
<1> HIDE DEF k
<1> QED
  BY <1>2, <1>3, RegistersPushed

(* Each part of the stub leaves the stack as the next one needs it. *)
LEMMA EntryStep == EntryInv /\ vector \in 0..255 /\ [EntryNext]_entryVars => EntryInv' /\ (vector \in 0..255)'
<1> SUFFICES ASSUME EntryInv, vector \in 0..255, [EntryNext]_entryVars
             PROVE  EntryInv' /\ (vector \in 0..255)'
  OBVIOUS
<1>1. ASSUME NEW v \in Vectors, Interrupt(v) PROVE EntryInv' /\ (vector \in 0..255)'
  <2>1. stack' = Interrupted(v) /\ vector' = v
    BY <1>1 DEF EntryInv, Interrupt, Interrupted
  <2> QED BY <1>1, <2>1, EntryAssumption DEF EntryInv, Interrupt, AtHandler
<1>2. CASE Stub
  <2>1. stack' = Numbered(vector)
    BY <1>2 DEF EntryInv, Stub, Numbered
  <2> QED BY <1>2, <2>1 DEF EntryInv, Stub, AtHandler
<1>3. CASE irq_pusha
  <2>1. stack' = Saved(vector)
    BY <1>3 DEF EntryInv, irq_pusha, Saved
  <2> QED BY <1>3, <2>1 DEF EntryInv, irq_pusha, AtHandler
<1>4. CASE CallIrqHandler
  BY <1>4 DEF EntryInv, CallIrqHandler, AtHandler
<1>5. CASE isr_handler
  BY <1>5 DEF EntryInv, isr_handler, AtHandler
<1>6. CASE irq_popa
  <2>1. stack = Saved(vector) /\ vector \in irq_stub
    BY <1>6 DEF EntryInv, irq_popa, AtHandler
  <2>4. vector \in 0..255
    BY <2>1 DEF irq_stub
  <2>5. /\ SubSeq(stack, 16, Len(stack)) = Numbered(vector)
        /\ \A i \in 1..15 : stack[i] = popped[i]
    BY <2>1, <2>4, SavedFrame, Zenon
  <2>2. stack' = Numbered(vector)
    <3>1. stack' = SubSeq(stack, Len(popped) + 1, Len(stack))
      BY <1>6 DEF irq_popa
    <3>2. Len(popped) + 1 = 16
      BY RegistersPushed
    <3> QED BY <2>5, <3>1, <3>2, Zenon
  <2>3. reg' = Untouched
    <3>1. ASSUME NEW r \in Registers
          PROVE  stack[CHOOSE i \in DOMAIN popped : popped[i] = r] = r
      <4> DEFINE k == CHOOSE i \in DOMAIN popped : popped[i] = r
      <4>1. \E i \in DOMAIN popped : popped[i] = r
        BY RegistersPushed
      <4>2. k \in DOMAIN popped /\ popped[k] = r
        BY <4>1
      <4> HIDE DEF k
      <4>3. stack[k] = popped[k]
        BY <2>5, <4>2, RegistersPushed
      <4> QED BY <4>2, <4>3 DEF k
    <3> QED BY <1>6, <3>1 DEF irq_popa, Untouched
  <2> QED BY <1>6, <2>1, <2>2, <2>3 DEF EntryInv, irq_popa, AtHandler
<1>7. CASE iretq
  <2>1. stack = Numbered(vector) /\ vector \in irq_stub
    BY <1>7 DEF EntryInv, iretq
  <2>2. stage' = "program" /\ stack' = Own
    BY <1>7, <2>1, ByInterrupt DEF iretq
  <2> QED BY <1>7, <2>2 DEF EntryInv, iretq, AtHandler
<1>8. CASE UNCHANGED entryVars
  BY <1>8 DEF EntryInv, entryVars, AtHandler
<1> QED
  BY <1>1, <1>2, <1>3, <1>4, <1>5, <1>6, <1>7, <1>8 DEF EntryNext

(* Whatever vectors come, a program that is interrupted finds every        *)
(* register and its stack as they were (idt.asm:5-83).                     *)
THEOREM EntryIsTransparent == EntrySpec => []Transparent
<1>1. EntryInit => EntryInv /\ vector \in 0..255
  BY DEF EntryInit, EntryInv, AtHandler
<1>2. EntryInv => Transparent
  BY DEF EntryInv, Transparent
<1> QED BY <1>1, <1>2, EntryStep, PTL DEF EntrySpec

(* Whatever vectors come, the frame that a handler is given holds the      *)
(* vector and the registers, each in the field of its name (idt.h:20-42).  *)
THEOREM HandlersFindTheirFrame == EntrySpec => []FrameMatches
<1>1. EntryInit => EntryInv /\ vector \in 0..255
  BY DEF EntryInit, EntryInv, AtHandler
<1>2. EntryInv /\ vector \in 0..255 => FrameMatches
  <2> SUFFICES ASSUME EntryInv, vector \in 0..255, stage \in {"irq_handler", "isr_handler"}
               PROVE  /\ Field("int_no") = vector
                      /\ \A r \in Registers : Field(r) = r
    BY DEF FrameMatches
  <2>1. stack = Saved(vector)
    BY DEF EntryInv, AtHandler
  <2>2. Field("int_no") = vector
    <3>1. PICK j \in 1..21 : regs[j] = "int_no" /\ Field("int_no") = stack[j]
      <4>1. 16 \in 1..21
        OBVIOUS
      <4> QED BY <4>1, FieldOf, RegistersPushed
    <3>2. j = 16
      BY <3>1, RegistersPushed
    <3> QED BY <2>1, <3>1, <3>2, SavedFrame
  <2>3. ASSUME NEW r \in Registers PROVE Field(r) = r
    <3>1. PICK i \in 1..15 : regs[i] = r
      BY RegistersPushed
    <3>2. PICK j \in 1..21 : regs[j] = r /\ Field(r) = stack[j]
      BY <3>1, FieldOf
    <3>3. j \in 1..15
      BY <3>2, RegistersPushed
    <3>4. stack[j] = popped[j]
      BY <2>1, <3>3, SavedFrame
    <3> QED BY <3>2, <3>3, <3>4, RegistersPushed
  <2> QED BY <2>2, <2>3
<1> QED BY <1>1, <1>2, EntryStep, PTL DEF EntrySpec
=============================================================================
