----------------------------- MODULE FormatProofs -----------------------------
(***************************************************************************)
(* Proofs about Format, for every format string, every buffer and every    *)
(* width of the types.                                                     *)
(*                                                                         *)
(* Induction over data is by sets of numbers: the lemmas Least and         *)
(* Induction come from the well-foundedness of finite sets.                *)
(***************************************************************************)
EXTENDS Format, SequenceTheorems, FiniteSetTheorems, TLAPS

(* A set of natural numbers that is not empty has a least one ... *)
LEMMA Least ==
  ASSUME NEW S \in SUBSET Nat, S # {}
  PROVE  \E n \in S : \A m \in S : n <= m
<1> DEFINE U == {0..n : n \in S}
<1>1. U \subseteq FiniteSubsetsOf(Nat)
  <2>1. ASSUME NEW n \in S PROVE 0..n \in FiniteSubsetsOf(Nat)
    <3>1. n \in Int /\ 0 \in Int
      OBVIOUS
    <3>2. IsFiniteSet(0..n)
      BY <3>1, FS_Interval
    <3>3. 0..n \in SUBSET Nat
      OBVIOUS
    <3> QED BY <3>2, <3>3 DEF FiniteSubsetsOf
  <2> QED BY <2>1
<1>2. U # {}
  OBVIOUS
<1>3. IsWellFoundedOn(StrictSubsetOrdering(Nat), FiniteSubsetsOf(Nat))
  BY FS_StrictSubsetOrderingWellFounded
<1>4. PICK x \in U : \A y \in U : ~ (<<y, x>> \in StrictSubsetOrdering(Nat))
  <2> HIDE DEF U
  <2> QED BY <1>1, <1>2, <1>3, WFMin
<1>5. PICK n \in S : x = 0..n
  OBVIOUS
<1>6. ASSUME NEW m \in S, m < n PROVE FALSE
  <2>1. <<0..m, 0..n>> \in StrictSubsetOrdering(Nat)
    <3>1. 0..m \in SUBSET Nat /\ 0..n \in SUBSET Nat
      OBVIOUS
    <3>2. 0..m \subseteq 0..n 
      BY <1>6
    <3>3. n \in 0..n /\ n \notin 0..m
      BY <1>6
    <3> QED BY <3>1, <3>2, <3>3 DEF StrictSubsetOrdering
  <2> QED BY <2>1, <1>4, <1>5
<1> QED
  BY <1>6

(* ... from which induction follows. *)
LEMMA Induction ==
  ASSUME NEW T \in SUBSET Nat, 0 \in T, \A n \in T : n + 1 \in T
  PROVE  T = Nat
<1> SUFFICES ASSUME T # Nat PROVE FALSE
  OBVIOUS
<1> DEFINE U == Nat \ T
<1>1. U \in SUBSET Nat /\ U # {}
  OBVIOUS
<1>2. PICK n \in U : \A m \in U : n <= m
  <2> HIDE DEF U
  <2> QED BY <1>1, Least
<1>3. n # 0
  OBVIOUS
<1>4. n - 1 \in Nat
  BY <1>3
<1>5. n - 1 \in T
  BY <1>2, <1>4
<1>6. (n - 1) + 1 \in T
  BY <1>5
<1> QED
  BY <1>6

LEMMA StrongInduction ==
  ASSUME NEW T \in SUBSET Nat, \A n \in Nat : (\A m \in 0..(n - 1) : m \in T) => n \in T
  PROVE  T = Nat
<1> SUFFICES ASSUME T # Nat PROVE FALSE
  OBVIOUS
<1> DEFINE U == Nat \ T
<1>1. U \in SUBSET Nat /\ U # {}
  OBVIOUS
<1>2. PICK n \in U : \A m \in U : n <= m
  <2> HIDE DEF U
  <2> QED BY <1>1, Least
<1>3. \A m \in 0..(n - 1) : m \in T
  BY <1>2
<1> QED
  BY <1>3

-----------------------------------------------------------------------------
(* Recursive functions: one step of the recursion on v is G of v and of the*)
(* result for D[v], which is smaller.                                      *)

Recursive(f, S, b, y, D, G) ==
  f = [v \in S |-> IF v = b THEN y ELSE G[<<v, f[D[v]]>>]]

(* A part of such a function, defined up to n. *)
Partial(g, n, S, b, y, D, G) ==
  \A v \in S : v <= n => g[v] = IF v = b THEN y ELSE G[<<v, g[D[v]]>>]

LEMMA RecursionExists ==
  ASSUME NEW S \in SUBSET Nat, NEW b, NEW y, NEW D, NEW G,
         \A v \in S : v # b => D[v] \in S /\ D[v] < v
  PROVE  \E f : Recursive(f, S, b, y, D, G)
<1> DEFINE P(g, n) == Partial(g, n, S, b, y, D, G)
           T == {n \in Nat : \E g : P(g, n)}
<1>1. 0 \in T
  <2> DEFINE g == [v \in S |-> y]
  <2>1. \A v \in S : v <= 0 => v = b
    <3> SUFFICES ASSUME NEW v \in S, v <= 0, v # b PROVE FALSE
      OBVIOUS
    <3>1. D[v] \in Nat /\ D[v] < v /\ v \in Nat
      OBVIOUS
    <3> QED BY <3>1
  <2>2. P(g, 0)
    BY <2>1 DEF Partial
  <2> QED BY <2>2
<1>2. ASSUME NEW n \in T PROVE n + 1 \in T
  <2>1. PICK g : P(g, n)
    OBVIOUS
  <2> DEFINE h == [v \in S |-> IF v = b THEN y ELSE G[<<v, g[D[v]]>>]]
  <2>2. \A v \in S : v <= n => h[v] = g[v]
    BY <2>1 DEF Partial
  <2>3. ASSUME NEW v \in S, v <= n + 1, v # b PROVE h[D[v]] = g[D[v]]
    <3>1. D[v] \in S /\ D[v] \in Nat /\ v \in Nat /\ n \in Nat /\ D[v] < v
      BY <2>3
    <3>2. D[v] <= n
      BY <2>3, <3>1
    <3> HIDE DEF h
    <3> QED BY <2>2, <3>1, <3>2
  <2>4. P(h, n + 1)
    <3>1. \A v \in S : h[v] = IF v = b THEN y ELSE G[<<v, g[D[v]]>>]
      OBVIOUS
    <3> HIDE DEF h
    <3> QED BY <2>3, <3>1 DEF Partial
  <2> QED BY <2>4
<1>3. T = Nat
  <2>1. T \in SUBSET Nat
    OBVIOUS
  <2> HIDE DEF T
  <2> QED BY <1>1, <1>2, <2>1, Induction
<1> DEFINE A[n \in Nat] == CHOOSE g : P(g, n)
<1>4. ASSUME NEW n \in Nat PROVE P(A[n], n)
  BY <1>3
<1>5. ASSUME NEW n \in Nat, NEW m \in Nat, NEW g, NEW h, P(g, n), P(h, m)
      PROVE  \A v \in S : v <= n /\ v <= m => g[v] = h[v]
  <2> DEFINE U == {v \in Nat : v \in S /\ v <= n /\ v <= m => g[v] = h[v]}
  <2>1. ASSUME NEW v \in Nat, \A w \in 0..(v - 1) : w \in U PROVE v \in U
    <3> SUFFICES ASSUME v \in S, v <= n, v <= m PROVE g[v] = h[v]
      OBVIOUS
    <3>1. g[v] = (IF v = b THEN y ELSE G[<<v, g[D[v]]>>])
      BY <1>5 DEF Partial
    <3>2. h[v] = (IF v = b THEN y ELSE G[<<v, h[D[v]]>>])
      BY <1>5 DEF Partial
    <3>3. v # b => g[D[v]] = h[D[v]]
      <4> SUFFICES ASSUME v # b PROVE g[D[v]] = h[D[v]]
        OBVIOUS
      <4>1. D[v] \in S /\ D[v] \in Nat /\ D[v] < v
        OBVIOUS
      <4>2. D[v] \in 0..(v - 1) /\ D[v] <= n /\ D[v] <= m
        BY <4>1
      <4> QED BY <2>1, <4>1, <4>2
    <3> QED BY <3>1, <3>2, <3>3
  <2>2. U \in SUBSET Nat
    OBVIOUS
  <2>3. U = Nat
    <3> HIDE DEF U
    <3> QED BY <2>1, <2>2, StrongInduction
  <2> QED BY <2>3
<1> DEFINE f == [v \in S |-> A[v][v]]
<1>6. ASSUME NEW v \in S PROVE f[v] = IF v = b THEN y ELSE G[<<v, f[D[v]]>>]
  <2>1. v \in Nat /\ P(A[v], v)
    BY <1>4
  <2>2. f[v] = IF v = b THEN y ELSE G[<<v, A[v][D[v]]>>]
    <3>1. f[v] = A[v][v]
      OBVIOUS
    <3> HIDE DEF A, f
    <3> QED BY <2>1, <3>1 DEF Partial
  <2>3. v # b => f[D[v]] = A[v][D[v]]
    <3> SUFFICES ASSUME v # b PROVE f[D[v]] = A[v][D[v]]
      OBVIOUS
    <3> DEFINE w == D[v]
    <3>1. w \in S /\ w \in Nat /\ w < v
      OBVIOUS
    <3>2. P(A[w], w)
      BY <1>4, <3>1
    <3>3. f[w] = A[w][w]
      BY <3>1
    <3> HIDE DEF A, f, w
    <3>4. A[w][w] = A[v][w]
      BY <1>5, <2>1, <3>1, <3>2
    <3> QED BY <3>3, <3>4 DEF w
  <2> HIDE DEF A, f
  <2> QED BY <2>2, <2>3
<1>7. f = [v \in S |-> f[v]]
  OBVIOUS
<1> HIDE DEF f
<1> QED
  BY <1>6, <1>7 DEF Recursive

Descends(D, S, b) == \A v \in S : v # b => D[v] \in S /\ D[v] < v
Inherits(T, D, S, b) == \A v \in S : v # b /\ D[v] \in T => v \in T

(* Induction along D. *)
LEMMA Descent ==
  ASSUME NEW S \in SUBSET Nat, NEW b, NEW D, NEW T,
         Descends(D, S, b), b \in T, Inherits(T, D, S, b)
  PROVE  S \subseteq T
<1> USE DEF Descends, Inherits
<1> DEFINE U == {v \in Nat : v \in S => v \in T}
<1>1. ASSUME NEW v \in Nat, \A w \in 0..(v - 1) : w \in U PROVE v \in U
  <2> SUFFICES ASSUME v \in S, v # b PROVE v \in T
    OBVIOUS
  <2>1. D[v] \in S /\ D[v] \in Nat /\ D[v] < v
    OBVIOUS
  <2>2. D[v] \in 0..(v - 1)
    BY <2>1
  <2> QED BY <1>1, <2>1, <2>2
<1>2. U \in SUBSET Nat
  OBVIOUS
<1>3. U = Nat
  <2> HIDE DEF U
  <2> QED BY <1>1, <1>2, StrongInduction
<1> QED BY <1>3

(* The values of a recursive function. *)

Closed(G, S, b, Y) == \A v \in S, z \in Y : v # b => G[<<v, z>>] \in Y

LEMMA RecursionIn ==
  ASSUME NEW S \in SUBSET Nat, NEW b, NEW y, NEW D, NEW G, NEW f, NEW Y,
         Descends(D, S, b), Recursive(f, S, b, y, D, G), y \in Y,
         Closed(G, S, b, Y)
  PROVE  \A v \in S : f[v] \in Y
<1> DEFINE T == {v \in S : f[v] \in Y} \cup {b}
<1>1. \A v \in S : f[v] = IF v = b THEN y ELSE G[<<v, f[D[v]]>>]
  BY DEF Recursive
<1>2. ASSUME NEW v \in S, v # b, D[v] \in T PROVE v \in T
  <2>1. f[D[v]] \in Y
    BY <1>1, <1>2 DEF Descends
  <2> QED BY <1>1, <1>2, <2>1 DEF Closed
<1>3. S \subseteq T
  <2>1. b \in T
    OBVIOUS
  <2>2. Inherits(T, D, S, b)
    BY <1>2 DEF Inherits
  <2> HIDE DEF T
  <2> QED BY <2>1, <2>2, Descent
<1> QED BY <1>1, <1>3

-----------------------------------------------------------------------------
(* Texts: sequences of characters.  The characters that the modules name are*)
(* strings, but no prover knows that.                                      *)

Characters ==
  STRING \cup {NUL, "%", "-", "+", " ", "#", ".", "*", "(", ")", "h", "l", "t", "j", "z",
              "d", "i", "u", "x", "X", "o", "b", "c", "s", "p", "n", "a", "e", "f",
              "A", "B", "C", "D", "E", "F",
              "0", "1", "2", "3", "4", "5", "6", "7", "8", "9"}

Text == Seq(Characters)

LEMMA SameText ==
  ASSUME NEW s \in Text, NEW t \in Text, Len(s) = Len(t),
         \A i \in 1..Len(s) : s[i] = t[i]
  PROVE  s = t
  BY SeqEqual DEF Text

LEMMA Joining ==
  ASSUME NEW s \in Text, NEW t \in Text
  PROVE  /\ s \o t \in Text
         /\ Len(s \o t) = Len(s) + Len(t)
         /\ \A i \in 1..Len(s) : (s \o t)[i] = s[i]
         /\ \A i \in 1..Len(t) : (s \o t)[Len(s) + i] = t[i]
  BY DEF Text

LEMMA JoiningAssociates ==
  ASSUME NEW s \in Text, NEW t \in Text, NEW u \in Text
  PROVE  s \o (t \o u) = (s \o t) \o u
  BY SMTT(30), ConcatAssociative DEF Text

LEMMA JoiningNothing ==
  ASSUME NEW s \in Text
  PROVE  s \o <<>> = s /\ <<>> \o s = s /\ <<>> \in Text /\ Len(<<>>) = 0
  BY DEF Text

LEMMA OneElement ==
  ASSUME NEW S, NEW c \in S
  PROVE  <<c>> \in Seq(S) /\ \A s \in Seq(S) : Append(s, c) \in Seq(S)
  OBVIOUS

LEMMA OneMore ==
  ASSUME NEW s \in Text, NEW c \in Characters
  PROVE  Append(s, c) \in Text
  BY OneElement DEF Text

LEMMA OneCharacter ==
  ASSUME NEW c \in Characters
  PROVE  <<c>> \in Text /\ Len(<<c>>) = 1 /\ <<c>>[1] = c
<1>1. <<c>> \in Seq(Characters)
  BY OneElement
<1>2. Len(<<c>>) = 1
  OBVIOUS
<1>3. <<c>>[1] = c
  OBVIOUS
<1> QED BY <1>1, <1>2, <1>3 DEF Text

LEMMA TwoCharacters ==
  ASSUME NEW c \in Characters, NEW d \in Characters
  PROVE  <<c>> \o <<d>> = <<c, d>> /\ <<c, d>> \in Text /\ Len(<<c, d>>) = 2
<1> DEFINE s == <<c>>
           u == <<d>>
           t == <<c, d>>
<1>1. s \in Text /\ Len(s) = 1 /\ s[1] = c /\ u \in Text /\ Len(u) = 1 /\ u[1] = d
  BY OneCharacter
<1>2. t \in Text /\ Len(t) = 2 /\ t[1] = c /\ t[2] = d
  BY DEF Text
<1> HIDE DEF s, u, t
<1>3. /\ s \o u \in Text /\ Len(s \o u) = Len(s) + Len(u)
      /\ \A i \in 1..Len(s) : (s \o u)[i] = s[i]
      /\ \A i \in 1..Len(u) : (s \o u)[Len(s) + i] = u[i]
  BY <1>1, Joining
<1>4. Len(s \o u) = 2 /\ (s \o u)[1] = c /\ (s \o u)[2] = d
  <2>1. 1 \in 1..Len(s) /\ 1 \in 1..Len(u) /\ Len(s) + 1 = 2 /\ Len(s) + Len(u) = 2
    BY <1>1
  <2> QED BY <1>1, <1>3, <2>1
<1>5. \A i \in 1..Len(s \o u) : (s \o u)[i] = t[i]
  BY <1>2, <1>4
<1>6. s \o u = t
  BY ZenonT(40), <1>2, <1>3, <1>4, <1>5, SameText
<1> QED BY <1>2, <1>6 DEF s, u, t

LEMMA Lengths0 ==
  ASSUME NEW s \in Text
  PROVE  Len(s) \in Nat /\ DOMAIN s = 1..Len(s) /\ \A i \in 1..Len(s) : s[i] \in Characters
  BY DEF Text

LEMMA Reversing ==
  ASSUME NEW s \in Text
  PROVE  /\ Reverse(s) \in Text /\ Len(Reverse(s)) = Len(s)
         /\ \A i \in 1..Len(s) : Reverse(s)[i] = s[Len(s) - i + 1]
<1> DEFINE n == Len(s)
<1>1. n \in Nat /\ \A i \in 1..n : s[n - i + 1] \in Characters
  <2>1. \A i \in 1..n : n - i + 1 \in 1..n /\ n \in Nat
    BY Lengths0
  <2> QED BY <2>1, Lengths0
<1>2. Reverse(s) = [i \in 1..n |-> s[n - i + 1]]
  BY DEF Reverse
<1> HIDE DEF n
<1> QED BY <1>1, <1>2 DEF Text, n

LEMMA ReverseJoined ==
  ASSUME NEW s \in Text, NEW t \in Text
  PROVE  Reverse(s \o t) = Reverse(t) \o Reverse(s)
<1> DEFINE m == Len(s)
           n == Len(t)
           a == Reverse(s \o t)
           b == Reverse(t) \o Reverse(s)
<1>1. m \in Nat /\ n \in Nat
  BY Lengths0
<1>2. s \o t \in Text /\ Len(s \o t) = m + n
  BY Joining
<1>3. a \in Text /\ Len(a) = m + n
  BY <1>2, Reversing
<1>4. /\ Reverse(s) \in Text /\ Len(Reverse(s)) = m
      /\ Reverse(t) \in Text /\ Len(Reverse(t)) = n
  BY Reversing
<1>5. b \in Text /\ Len(b) = n + m
  BY ZenonT(40), <1>4, Joining
<1>6. ASSUME NEW i \in 1..(m + n) PROVE a[i] = b[i]
  <2>1. a[i] = (s \o t)[m + n - i + 1]
    <3> DEFINE u == s \o t
    <3>1. u \in Text /\ Len(u) = m + n
      BY <1>2
    <3> HIDE DEF m, n, u
    <3>2. Reverse(u)[i] = u[Len(u) - i + 1]
      BY <3>1, Reversing
    <3>3. Reverse(u)[i] = u[m + n - i + 1]
      BY <1>1, <3>1, <3>2
    <3> QED BY <3>3 DEF u
  <2>2. CASE i <= n
    <3>1. m + n - i + 1 = m + (n - i + 1) /\ n - i + 1 \in 1..n /\ i \in 1..n
      BY <1>1, <2>2
    <3>2. (s \o t)[m + (n - i + 1)] = t[n - i + 1]
      BY <3>1, Joining
    <3>3. b[i] = Reverse(t)[i] /\ Reverse(t)[i] = t[n - i + 1]
      BY <1>4, <3>1, Joining, Reversing
    <3> QED BY <2>1, <3>1, <3>2, <3>3
  <2>3. CASE i > n
    <3> DEFINE j == i - n
    <3>1. j \in 1..m /\ i = n + j /\ m + n - i + 1 = m - j + 1 /\ m - j + 1 \in 1..m
      BY <1>1, <2>3
    <3> HIDE DEF j
    <3>2. (s \o t)[m - j + 1] = s[m - j + 1]
      BY <3>1, Joining
    <3>3. b[n + j] = Reverse(s)[j] /\ Reverse(s)[j] = s[m - j + 1]
      BY SMTT(30), <1>4, <3>1, Joining, Reversing
    <3> QED BY <2>1, <3>1, <3>2, <3>3
  <2> HIDE DEF m, n, a, b
  <2> QED BY <1>1, <2>2, <2>3
<1> HIDE DEF a, b
<1>7. a = b
  BY <1>1, <1>3, <1>5, <1>6, SameText
<1> QED BY <1>7 DEF a, b

LEMMA ReverseOne ==
  ASSUME NEW c \in Characters
  PROVE  Reverse(<<c>>) = <<c>>
<1>1. <<c>> \in Text /\ Len(<<c>>) = 1
  BY OneCharacter
<1>2. Reverse(<<c>>) \in Text /\ Len(Reverse(<<c>>)) = 1 /\ Reverse(<<c>>)[1] = <<c>>[1]
  <2> DEFINE s == <<c>>
  <2>1. s \in Text /\ Len(s) = 1 /\ 1 \in 1..1 /\ 1 - 1 + 1 = 1
    BY <1>1
  <2> HIDE DEF s
  <2>2. Reverse(s) \in Text /\ Len(Reverse(s)) = 1 /\ Reverse(s)[1] = s[1]
    BY <2>1, Reversing
  <2> QED BY <2>2 DEF s
<1>3. \A i \in 1..1 : i = 1
  OBVIOUS
<1> QED BY <1>1, <1>2, <1>3, SameText

LEMMA ReverseAppend ==
  ASSUME NEW s \in Text, NEW c \in Characters
  PROVE  Reverse(Append(s, c)) = <<c>> \o Reverse(s)
<1>1. Append(s, c) = s \o <<c>>
  BY AppendIsConcat DEF Text
<1> QED BY <1>1, OneCharacter, ReverseOne, ReverseJoined

LEMMA ReverseTwice ==
  ASSUME NEW s \in Text
  PROVE  Reverse(Reverse(s)) = s
<1> DEFINE r == Reverse(Reverse(s))
<1>1. r \in Text /\ Len(r) = Len(s)
  BY Reversing
<1>2. ASSUME NEW i \in 1..Len(s) PROVE r[i] = s[i]
  <2>1. Len(s) - i + 1 \in 1..Len(s) /\ Len(s) - (Len(s) - i + 1) + 1 = i
    BY Lengths0
  <2>2. r[i] = Reverse(s)[Len(s) - i + 1]
    BY Reversing
  <2>3. Reverse(s)[Len(s) - i + 1] = s[Len(s) - (Len(s) - i + 1) + 1]
    BY <2>1, Reversing
  <2> QED BY <2>1, <2>2, <2>3
<1> HIDE DEF r
<1>3. r = s
  BY <1>1, <1>2, SameText
<1> QED BY <1>3 DEF r

-----------------------------------------------------------------------------

(* The digits of a number. *)

InBaseOf(f, base, digits) ==
  f = [v \in Nat |-> IF v = 0 THEN <<>> ELSE Append(f[v \div base], digits[(v % base) + 1])]
LoopOf(f, base, digits) ==
  f = [v \in Nat |-> IF v = 0 THEN <<>> ELSE <<digits[(v % base) + 1]>> \o f[v \div base]]

LEMMA DivMod ==
  ASSUME NEW c \in Nat \ {0}, NEW p \in Nat
  PROVE  /\ p \div c \in Nat /\ p % c \in 0..(c - 1)
         /\ p = (p \div c) * c + (p % c)
  OBVIOUS

LEMMA Quotient ==
  ASSUME NEW base \in Nat, base > 1, NEW v \in Nat
  PROVE  /\ v \div base \in Nat /\ v % base \in 0..(base - 1)
         /\ v # 0 => v \div base < v
<1>1. v = (v \div base) * base + (v % base) /\ v \div base \in Nat /\ v % base \in 0..(base - 1)
  <2>1. base \in Nat \ {0}
    OBVIOUS
  <2> QED BY <2>1, DivMod, Zenon
<1>2. ASSUME v # 0 PROVE v \div base < v
  <2> DEFINE q == v \div base
  <2>1. q \in Nat /\ v >= q * base
    BY <1>1
  <2> HIDE DEF q
  <2>2. q * base >= q * 2
    BY <2>1
  <2> QED BY <1>2, <2>1, <2>2 DEF q
<1> QED BY <1>1, <1>2

Radix(base, digits) == base \in Nat /\ base > 1 /\ \A k \in 1..base : digits[k] \in Characters

LEMMA DigitIn ==
  ASSUME NEW base, NEW digits, Radix(base, digits), NEW v \in Nat
  PROVE  digits[(v % base) + 1] \in Characters
<1>1. (v % base) + 1 \in 1..base
  BY Quotient DEF Radix
<1> QED BY <1>1 DEF Radix

LEMMA InBaseExists ==
  ASSUME NEW base, NEW digits, Radix(base, digits)
  PROVE  \E f : InBaseOf(f, base, digits)
<1> DEFINE D == [v \in Nat |-> v \div base]
           G == [p \in Nat \X Text |-> Append(p[2], digits[(p[1] % base) + 1])]
<1>1. \A v \in Nat : v # 0 => D[v] \in Nat /\ D[v] < v
  BY Quotient DEF Radix
<1>2. ASSUME NEW v \in Nat, NEW z \in Text
      PROVE  G[<<v, z>>] \in Text /\ G[<<v, z>>] = Append(z, digits[(v % base) + 1])
  <2>1. digits[(v % base) + 1] \in Characters
    BY DigitIn
  <2>2. G[<<v, z>>] = Append(z, digits[(v % base) + 1])
    OBVIOUS
  <2> HIDE DEF D, G
  <2> QED BY <2>1, <2>2 DEF Text
<1>3. PICK f : Recursive(f, Nat, 0, <<>>, D, G)
  <2> HIDE DEF D, G
  <2> QED BY <1>1, RecursionExists
<1>4. \A v \in Nat : f[v] \in Text
  <2>1. <<>> \in Text
    BY DEF Text
  <2>2. Closed(G, Nat, 0, Text)
    BY <1>2 DEF Closed
  <2>3. Descends(D, Nat, 0)
    BY <1>1 DEF Descends
  <2> HIDE DEF D, G
  <2> QED BY <1>3, <2>1, <2>2, <2>3, RecursionIn
<1>5. ASSUME NEW v \in Nat, v # 0 PROVE G[<<v, f[D[v]]>>] = Append(f[v \div base], digits[(v % base) + 1])
  <2>1. D[v] = v \div base /\ D[v] \in Nat
    BY <1>1, <1>5
  <2> HIDE DEF D, G
  <2> QED BY <1>2, <1>4, <2>1
<1>6. InBaseOf(f, base, digits)
  <2> HIDE DEF D, G
  <2> QED BY <1>3, <1>5 DEF Recursive, InBaseOf
<1> QED BY <1>6

LEMMA InBaseSteps ==
  ASSUME NEW base, NEW digits, Radix(base, digits)
  PROVE  /\ InBase(0, base, digits) = <<>>
         /\ \A v \in Nat : InBase(v, base, digits) \in Text
         /\ \A v \in Nat : v # 0 => InBase(v, base, digits)
              = Append(InBase(v \div base, base, digits), digits[(v % base) + 1])
<1> DEFINE f == CHOOSE h : InBaseOf(h, base, digits)
           T == {v \in Nat : f[v] \in Text}
           D == [v \in Nat |-> v \div base]
<1>1. InBaseOf(f, base, digits)
  BY InBaseExists
<1>2. \A v : InBase(v, base, digits) = f[v]
  BY DEF InBase, InBaseOf
<1>3. /\ f[0] = <<>>
      /\ \A v \in Nat : v # 0 => f[v] = Append(f[v \div base], digits[(v % base) + 1])
  <2> HIDE DEF f
  <2> QED BY <1>1 DEF InBaseOf
<1>4. \A v \in Nat : v # 0 => D[v] \in Nat /\ D[v] < v /\ D[v] = v \div base
  BY Quotient DEF Radix
<1>5. ASSUME NEW v \in Nat, v # 0, D[v] \in T PROVE v \in T
  <2>1. f[v \div base] \in Text
    BY <1>4, <1>5
  <2>2. digits[(v % base) + 1] \in Characters
    BY DigitIn
  <2>3. f[v] \in Text
    <3> DEFINE c == digits[(v % base) + 1]
    <3>1. f[v] = Append(f[v \div base], c) /\ c \in Characters
      BY <1>3, <1>5, <2>2
    <3> HIDE DEF f, c
    <3> QED BY <2>1, <3>1, OneMore
  <2> QED BY <2>3
<1>6. Nat \subseteq T
  <2>1. f[0] \in Text
    <3> HIDE DEF f
    <3> QED BY <1>3 DEF Text
  <2>2. 0 \in T
    BY <2>1
  <2>3. Inherits(T, D, Nat, 0) /\ Descends(D, Nat, 0)
    BY <1>4, <1>5 DEF Inherits, Descends
  <2> HIDE DEF T, D
  <2> QED BY <2>2, <2>3, Descent
<1>7. \A v \in Nat : v \div base \in Nat
  BY Quotient DEF Radix
<1> HIDE DEF f
<1> QED BY <1>2, <1>3, <1>6, <1>7

LEMMA LoopExists ==
  ASSUME NEW base, NEW digits, Radix(base, digits)
  PROVE  \E f : LoopOf(f, base, digits)
<1> DEFINE D == [v \in Nat |-> v \div base]
           G == [p \in Nat \X Text |-> <<digits[(p[1] % base) + 1]>> \o p[2]]
<1>1. \A v \in Nat : v # 0 => D[v] \in Nat /\ D[v] < v
  BY Quotient DEF Radix
<1>2. ASSUME NEW v \in Nat, NEW z \in Text
      PROVE  G[<<v, z>>] \in Text /\ G[<<v, z>>] = <<digits[(v % base) + 1]>> \o z
  <2>1. digits[(v % base) + 1] \in Characters
    BY DigitIn
  <2>2. G[<<v, z>>] = <<digits[(v % base) + 1]>> \o z
    OBVIOUS
  <2> HIDE DEF D, G
  <2> QED BY <2>1, <2>2 DEF Text
<1>3. PICK f : Recursive(f, Nat, 0, <<>>, D, G)
  <2> HIDE DEF D, G
  <2> QED BY <1>1, RecursionExists
<1>4. \A v \in Nat : f[v] \in Text
  <2>1. <<>> \in Text
    BY DEF Text
  <2>2. Closed(G, Nat, 0, Text)
    BY <1>2 DEF Closed
  <2>3. Descends(D, Nat, 0)
    BY <1>1 DEF Descends
  <2> HIDE DEF D, G
  <2> QED BY <1>3, <2>1, <2>2, <2>3, RecursionIn
<1>5. ASSUME NEW v \in Nat, v # 0
      PROVE  G[<<v, f[D[v]]>>] = <<digits[(v % base) + 1]>> \o f[v \div base]
  <2>1. D[v] = v \div base /\ D[v] \in Nat
    BY <1>1, <1>5
  <2> HIDE DEF D, G
  <2> QED BY <1>2, <1>4, <2>1
<1>6. LoopOf(f, base, digits)
  <2> HIDE DEF D, G
  <2> QED BY <1>3, <1>5 DEF Recursive, LoopOf
<1> QED BY <1>6

(* The loop of print_integer finds the digits of a number, the last one    *)
(* first.                                                                  *)
LEMMA LoopIsInBase ==
  ASSUME NEW base, NEW digits, Radix(base, digits),
         NEW f, LoopOf(f, base, digits), NEW n \in Nat
  PROVE  f[n] = Reverse(InBase(n, base, digits))
<1> DEFINE N(v) == InBase(v, base, digits)
           T == {v \in Nat : f[v] = Reverse(N(v))}
           D == [v \in Nat |-> v \div base]
<1>1. /\ f[0] = <<>>
      /\ \A v \in Nat : v # 0 => f[v] = <<digits[(v % base) + 1]>> \o f[v \div base]
  BY DEF LoopOf
<1>2. \A v \in Nat : v # 0 => D[v] \in Nat /\ D[v] < v /\ D[v] = v \div base
  BY Quotient DEF Radix
<1>3. ASSUME NEW v \in Nat, v # 0, D[v] \in T PROVE v \in T
  <2> DEFINE s == N(v \div base)
             c == digits[(v % base) + 1]
  <2>1. N(v) = Append(s, c) /\ s \in Text
    BY <1>2, <1>3, InBaseSteps
  <2>2. c \in Characters
    BY DigitIn
  <2>3. f[v \div base] = Reverse(s)
    BY <1>2, <1>3
  <2>4. Reverse(Append(s, c)) = <<c>> \o Reverse(s)
    <3> HIDE DEF s, c
    <3> QED BY <2>1, <2>2, ReverseAppend
  <2> HIDE DEF s, N
  <2>5. f[v] = <<c>> \o Reverse(s)
    BY <1>1, <1>3, <2>3
  <2> QED BY <2>1, <2>4, <2>5 DEF N
<1>4. 0 \in T
  BY <1>1, InBaseSteps DEF Reverse
<1>5. Nat \subseteq T
  <2>1. Inherits(T, D, Nat, 0) /\ Descends(D, Nat, 0)
    BY <1>2, <1>3 DEF Inherits, Descends
  <2> HIDE DEF T, D
  <2> QED BY <1>4, <2>1, Descent
<1> QED BY <1>5

LEMMA InBaseLeads ==
  ASSUME NEW base, NEW digits, Radix(base, digits),
         \A k \in 1..(base - 1) : digits[k + 1] # "0",
         NEW n \in Nat, n # 0
  PROVE  /\ Len(InBase(n, base, digits)) >= 1
         /\ InBase(n, base, digits)[1] # "0"
<1> DEFINE N(v) == InBase(v, base, digits)
           Leads(s) == Len(s) >= 1 /\ s[1] # "0"
           T == {v \in Nat : v # 0 => Leads(N(v))}
           D == [v \in Nat |-> v \div base]
<1>1. \A v \in Nat : v # 0 => D[v] \in Nat /\ D[v] < v /\ D[v] = v \div base
  BY Quotient DEF Radix
<1>2. ASSUME NEW v \in Nat, v # 0, D[v] \in T PROVE v \in T
  <2> DEFINE q == v \div base
             r == v % base
             s == N(q)
             c == digits[r + 1]
  <2>1. N(v) = Append(s, c) /\ s \in Text /\ c \in Characters
    BY <1>1, <1>2, InBaseSteps, DigitIn
  <2>2. q # 0 => Leads(s)
    BY <1>1, <1>2
  <2>3. q = 0 => s = <<>> /\ c # "0"
    <3>1. q = 0 => s = <<>>
      BY InBaseSteps
    <3>2. v = q * base + r /\ r \in 0..(base - 1) /\ base \in Nat /\ q \in Nat
      <4>1. base \in Nat \ {0}
        BY DEF Radix
      <4> QED BY <4>1, DivMod
    <3> HIDE DEF q, r
    <3>3. q = 0 => r \in 1..(base - 1)
      BY <1>2, <3>2
    <3> QED BY <3>1, <3>3
  <2> HIDE DEF s, c, q
  <2>4. Leads(Append(s, c))
    <3>1. CASE q = 0
      BY <2>1, <2>3, <3>1 DEF Text
    <3>2. CASE q # 0
      BY <2>1, <2>2, <3>2 DEF Text
    <3> QED BY <3>1, <3>2
  <2> HIDE DEF N, Leads
  <2> QED BY <2>1, <2>4
<1>3. 0 \in T
  OBVIOUS
<1>4. Nat \subseteq T
  <2>1. Inherits(T, D, Nat, 0) /\ Descends(D, Nat, 0)
    BY <1>1, <1>2 DEF Inherits, Descends
  <2> HIDE DEF T, D
  <2> QED BY <1>3, <2>1, Descent
<1> QED BY <1>4

LEMMA Least2 ==
  ASSUME NEW a \in Int, NEW b \in Int
  PROVE  /\ Min({a, b}) = IF a <= b THEN a ELSE b
         /\ Max({a, b}) = IF a <= b THEN b ELSE a
<1>1. \A x \in {a, b} : (\A y \in {a, b} : x <= y) <=> x = (IF a <= b THEN a ELSE b)
  OBVIOUS
<1>2. \A x \in {a, b} : (\A y \in {a, b} : x >= y) <=> x = (IF a <= b THEN b ELSE a)
  OBVIOUS
<1> QED BY <1>1, <1>2 DEF Min, Max

LEMMA Cut ==
  ASSUME NEW s \in Text, NEW n \in Nat
  PROVE  /\ Min({n, Len(s)}) = (IF n <= Len(s) THEN n ELSE Len(s))
         /\ SubSeq(s, 1, Min({n, Len(s)})) \in Text
         /\ Len(SubSeq(s, 1, Min({n, Len(s)}))) = Min({n, Len(s)})
         /\ Len(s) <= n => SubSeq(s, 1, Min({n, Len(s)})) = s
<1> DEFINE m == Min({n, Len(s)})
<1>1. Len(s) \in Nat /\ n \in Int /\ Len(s) \in Int
  BY Lengths0
<1>2. m = (IF n <= Len(s) THEN n ELSE Len(s))
  BY <1>1, Least2
<1> HIDE DEF m
<1>3. m \in 0..Len(s)
  BY <1>1, <1>2
<1>4. SubSeq(s, 1, m) \in Text /\ Len(SubSeq(s, 1, m)) = m
  BY <1>1, <1>3 DEF Text
<1>5. Len(s) <= n => SubSeq(s, 1, m) = s
  BY <1>1, <1>2 DEF Text
<1> QED BY <1>2, <1>4, <1>5 DEF m

LEMMA ConvertedIs ==
  ASSUME FormatAssumption,
         NEW base, NEW digits, Radix(base, digits), NEW n \in Nat
  PROVE  /\ Converted(n, base, digits) \in Text
         /\ Len(Converted(n, base, digits)) <= BufferSize
         /\ Len(InBase(n, base, digits)) <= BufferSize =>
              Converted(n, base, digits) = Reverse(InBase(n, base, digits))
<1> DEFINE f == CHOOSE h : LoopOf(h, base, digits)
           r == Reverse(InBase(n, base, digits))
<1>1. LoopOf(f, base, digits)
  BY LoopExists
<1>2. f[n] = r
  <2> HIDE DEF f
  <2> QED BY <1>1, LoopIsInBase
<1>3. Converted(n, base, digits) = SubSeq(f[n], 1, Min({Len(f[n]), BufferSize}))
  BY DEF Converted, LoopOf
<1>4. InBase(n, base, digits) \in Text /\ r \in Text /\ Len(r) = Len(InBase(n, base, digits))
  BY InBaseSteps, Reversing
<1> HIDE DEF f, r
<1>5. Min({Len(r), BufferSize}) = Min({BufferSize, Len(r)})
  <2>1. {Len(r), BufferSize} = {BufferSize, Len(r)}
    OBVIOUS
  <2> QED BY <2>1
<1>6. BufferSize \in Nat /\ Len(r) \in Nat
  BY <1>4, Lengths0 DEF FormatAssumption
<1>7. /\ SubSeq(r, 1, Min({BufferSize, Len(r)})) \in Text
      /\ Len(SubSeq(r, 1, Min({BufferSize, Len(r)}))) <= BufferSize
      /\ Len(r) <= BufferSize => SubSeq(r, 1, Min({BufferSize, Len(r)})) = r
  BY <1>4, <1>6, Cut
<1> QED BY <1>2, <1>3, <1>4, <1>5, <1>7 DEF r

(* A width or a precision in the format string. *)

NumberOf(f, s) == f = [k \in 0..Len(s) |-> IF k = 0 THEN 0 ELSE f[k - 1] * 10 + Digit(s[k])]
AllDigits(s) == s \in Text /\ \A i \in 1..Len(s) : s[i] \in Range(Digits10)

LEMMA DigitIs ==
  ASSUME NEW k \in 0..9
  PROVE  Digits10[k + 1] \in Range(Digits10) /\ Digit(Digits10[k + 1]) = k
<1>1. \A n \in 0..9 : Digits10[n + 1] = Digits10[k + 1] => n = k
  BY DEF Digits10
<1>2. k + 1 \in DOMAIN Digits10
  BY DEF Digits10
<1> QED BY <1>1, <1>2 DEF Digit, Range

LEMMA DigitsAreCharacters ==
  /\ \A i \in 1..10 : Digits10[i] \in Characters
  /\ \A i \in 1..16 : Digits16[i] \in Characters /\ Upper16[i] \in Characters
<1>1. /\ Digits10[1] = "0"
      /\ Digits10[2] = "1"
      /\ Digits10[3] = "2"
      /\ Digits10[4] = "3"
      /\ Digits10[5] = "4"
      /\ Digits10[6] = "5"
      /\ Digits10[7] = "6"
      /\ Digits10[8] = "7"
      /\ Digits10[9] = "8"
      /\ Digits10[10] = "9"
  BY DEF Digits10
<1>2. \A i \in 1..10 : Digits16[i] = Digits10[i] /\ Upper16[i] = Digits10[i]
  BY DEF Digits16, Upper16, Digits10
<1>3. /\ Digits16[11] = "a" /\ Upper16[11] = "A"
      /\ Digits16[12] = "b" /\ Upper16[12] = "B"
      /\ Digits16[13] = "c" /\ Upper16[13] = "C"
      /\ Digits16[14] = "d" /\ Upper16[14] = "D"
      /\ Digits16[15] = "e" /\ Upper16[15] = "E"
      /\ Digits16[16] = "f" /\ Upper16[16] = "F"
  BY DEF Digits16, Upper16, Digits10
<1>4. /\ "0" \in Characters /\ "1" \in Characters /\ "2" \in Characters
      /\ "3" \in Characters /\ "4" \in Characters /\ "5" \in Characters
      /\ "6" \in Characters /\ "7" \in Characters /\ "8" \in Characters
      /\ "9" \in Characters /\ "a" \in Characters /\ "b" \in Characters
      /\ "c" \in Characters /\ "d" \in Characters /\ "e" \in Characters
      /\ "f" \in Characters /\ "A" \in Characters /\ "B" \in Characters
      /\ "C" \in Characters /\ "D" \in Characters /\ "E" \in Characters
      /\ "F" \in Characters
  BY DEF Characters
<1>5. \A i \in 1..10 : i = 1 \/ i = 2 \/ i = 3 \/ i = 4 \/ i = 5 \/ i = 6 \/ i = 7 \/ i = 8 \/ i = 9 \/ i = 10
  OBVIOUS
<1>6. \A i \in 1..16 : i \in 1..10 \/ i = 11 \/ i = 12 \/ i = 13 \/ i = 14 \/ i = 15 \/ i = 16
  OBVIOUS
<1>7. \A i \in 1..10 : Digits10[i] \in Characters
  BY <1>1, <1>4, <1>5
<1> QED BY <1>2, <1>3, <1>4, <1>6, <1>7

LEMMA DigitBelow10 ==
  ASSUME NEW c \in Range(Digits10)
  PROVE  Digit(c) \in 0..9 /\ c \in Characters
<1>1. PICK i \in DOMAIN Digits10 : c = Digits10[i]
  BY DEF Range
<1>2. i \in 1..10 /\ i - 1 \in 0..9 /\ i = (i - 1) + 1
  BY DEF Digits10
<1>3. c \in Characters
  BY <1>1, <1>2, DigitsAreCharacters
<1> QED BY <1>1, <1>2, <1>3, DigitIs

LEMMA Digits10Radix ==
  Radix(10, Digits10) /\ \A k \in 1..9 : Digits10[k + 1] # "0"
<1>1. Digits10 = [i \in 1..10 |-> Digits10[i]]
  BY DEF Digits10
<1>2. \A k \in 1..9 : Digits10[k + 1] # "0"
  BY DEF Digits10
<1> QED BY <1>1, <1>2, DigitsAreCharacters DEF Radix

LEMMA NumberExists ==
  ASSUME NEW s, AllDigits(s)
  PROVE  \E f : NumberOf(f, s)
<1> DEFINE S == 0..Len(s)
           D == [k \in S |-> k - 1]
           G == [p \in S \X Nat |-> p[2] * 10 + Digit(s[p[1]])]
<1>1. Len(s) \in Nat /\ S \in SUBSET Nat /\ 0 \in S
  BY Lengths0 DEF AllDigits
<1>2. Descends(D, S, 0)
  BY <1>1 DEF Descends
<1>3. ASSUME NEW k \in S, NEW z \in Nat, k # 0
      PROVE  G[<<k, z>>] \in Nat /\ G[<<k, z>>] = z * 10 + Digit(s[k])
  <2>1. s[k] \in Range(Digits10)
    BY <1>1, <1>3 DEF AllDigits
  <2>2. Digit(s[k]) \in Nat
    BY <2>1, DigitBelow10
  <2>3. G[<<k, z>>] = z * 10 + Digit(s[k])
    OBVIOUS
  <2> HIDE DEF G
  <2> QED BY <2>2, <2>3
<1>4. Closed(G, S, 0, Nat)
  <2> HIDE DEF G, S
  <2> QED BY <1>3 DEF Closed
<1>5. PICK f : Recursive(f, S, 0, 0, D, G)
  <2> HIDE DEF D, G, S
  <2> QED BY <1>1, <1>2, RecursionExists DEF Descends
<1>6. \A k \in S : f[k] \in Nat
  <2> HIDE DEF D, G, S
  <2> QED BY <1>1, <1>2, <1>4, <1>5, RecursionIn
<1>7. ASSUME NEW k \in S, k # 0 PROVE G[<<k, f[D[k]]>>] = f[k - 1] * 10 + Digit(s[k])
  <2>1. D[k] = k - 1 /\ k - 1 \in S
    BY <1>1, <1>7
  <2> HIDE DEF D, G, S
  <2> QED BY <1>3, <1>6, <1>7, <2>1
<1>8. NumberOf(f, s)
  <2>1. f = [k \in S |-> IF k = 0 THEN 0 ELSE G[<<k, f[D[k]]>>]]
    <3> HIDE DEF D, G, S
    <3> QED BY <1>5 DEF Recursive
  <2> HIDE DEF D, G
  <2> QED BY <1>7, <2>1 DEF NumberOf
<1> QED BY <1>8

LEMMA NumberIs ==
  ASSUME NEW s, AllDigits(s), NEW f, NumberOf(f, s)
  PROVE  \A k \in 0..Len(s) : f[k] \in Nat
<1> DEFINE S == 0..Len(s)
           D == [k \in S |-> k - 1]
           T == {k \in S : f[k] \in Nat}
<1>1. Len(s) \in Nat /\ S \in SUBSET Nat /\ 0 \in S
  BY Lengths0 DEF AllDigits
<1>2. Descends(D, S, 0)
  BY <1>1 DEF Descends
<1>3. f[0] = 0 /\ \A k \in S : k # 0 => f[k] = f[k - 1] * 10 + Digit(s[k])
  BY <1>1 DEF NumberOf
<1>4. ASSUME NEW k \in S, k # 0, D[k] \in T PROVE k \in T
  <2>1. s[k] \in Range(Digits10)
    BY <1>1, <1>4 DEF AllDigits
  <2>2. Digit(s[k]) \in Nat
    BY <2>1, DigitBelow10
  <2>3. f[k - 1] \in Nat
    BY <1>4
  <2> QED BY <1>3, <1>4, <2>2, <2>3
<1>5. S \subseteq T
  <2>1. Inherits(T, D, S, 0)
    BY <1>4 DEF Inherits
  <2>2. 0 \in T
    BY <1>1, <1>3
  <2> HIDE DEF T, D, S
  <2> QED BY <1>1, <1>2, <2>1, <2>2, Descent
<1> QED BY <1>5

LEMMA NumberSteps ==
  ASSUME NEW s, AllDigits(s)
  PROVE  /\ Number(s) \in Nat
         /\ s = <<>> => Number(s) = 0
         /\ \A c \in Range(Digits10) :
              /\ AllDigits(Append(s, c))
              /\ Number(Append(s, c)) = Number(s) * 10 + Digit(c)
<1> DEFINE f == CHOOSE h : NumberOf(h, s)
<1>1. NumberOf(f, s)
  BY NumberExists
<1>2. Number(s) = f[Len(s)]
  BY DEF Number, NumberOf
<1> HIDE DEF f
<1>3. Len(s) \in Nat /\ s \in Text
  BY Lengths0 DEF AllDigits
<1>4. Number(s) \in Nat
  BY <1>1, <1>2, <1>3, NumberIs
<1>5. s = <<>> => Number(s) = 0
  BY <1>1, <1>2, <1>3 DEF NumberOf
<1>6. ASSUME NEW c \in Range(Digits10)
      PROVE  /\ AllDigits(Append(s, c))
             /\ Number(Append(s, c)) = Number(s) * 10 + Digit(c)
  <2> DEFINE t == Append(s, c)
             n == Len(s)
             g == CHOOSE h : NumberOf(h, t)
  <2>1. c \in Characters
    BY DigitBelow10
  <2>2. /\ t \in Text /\ Len(t) = n + 1 /\ t[n + 1] = c
        /\ \A i \in 1..n : t[i] = s[i]
    BY <1>3, <2>1, AppendProperties DEF Text
  <2>3. AllDigits(t)
    <3> HIDE DEF t
    <3>1. \A i \in 1..Len(t) : i = n + 1 \/ i \in 1..n
      BY <1>3, <2>2
    <3> QED BY <2>2, <3>1 DEF AllDigits
  <2>4. NumberOf(g, t) /\ Number(t) = g[n + 1]
    <3>1. NumberOf(g, t)
      <4> HIDE DEF t
      <4> QED BY <2>3, NumberExists
    <3>2. Number(t) = g[Len(t)]
      BY DEF Number, NumberOf
    <3> QED BY <2>2, <3>1, <3>2
  <2> HIDE DEF g, t
  <2>5. g[0] = 0 /\ \A k \in 1..(n + 1) : g[k] = g[k - 1] * 10 + Digit(t[k])
    BY <1>3, <2>2, <2>4 DEF NumberOf
  <2>6. f[0] = 0 /\ \A k \in 1..n : f[k] = f[k - 1] * 10 + Digit(s[k])
    BY <1>1, <1>3 DEF NumberOf
  <2> DEFINE S == 0..n
             D == [k \in S |-> k - 1]
             T == {k \in S : f[k] = g[k]}
  <2>7. S \subseteq T
    <3>1. Descends(D, S, 0) /\ S \in SUBSET Nat /\ 0 \in S
      BY <1>3 DEF Descends
    <3>2. ASSUME NEW k \in S, k # 0, D[k] \in T PROVE k \in T
      <4>1. k \in 1..n /\ k \in 1..(n + 1)
        BY <1>3, <3>2
      <4>2. f[k - 1] = g[k - 1]
        BY <3>2
      <4>3. g[k] = g[k - 1] * 10 + Digit(t[k]) /\ t[k] = s[k]
        BY <2>2, <2>5, <4>1
      <4>4. f[k] = f[k - 1] * 10 + Digit(s[k])
        BY <2>6, <4>1
      <4> QED BY <4>2, <4>3, <4>4
    <3>3. Inherits(T, D, S, 0)
      BY <3>2 DEF Inherits
    <3>4. 0 \in T
      BY <2>5, <2>6, <3>1
    <3> HIDE DEF T, D, S
    <3> QED BY <3>1, <3>3, <3>4, Descent
  <2>8. f[n] = g[n]
    <3>1. n \in S
      BY <1>3
    <3> QED BY <2>7, <3>1
  <2>9. g[n + 1] = g[n] * 10 + Digit(c)
    <3>1. n + 1 \in 1..(n + 1) /\ (n + 1) - 1 = n
      BY <1>3
    <3> QED BY <2>2, <2>5, <3>1
  <2> QED BY <1>2, <2>3, <2>4, <2>8, <2>9 DEF t
<1> QED BY <1>4, <1>5, <1>6

LEMMA NoDigits == AllDigits(<<>>)
<1>1. <<>> \in Text /\ Len(<<>>) = 0
  BY DEF Text
<1> QED BY <1>1 DEF AllDigits

LEMMA InBase10 ==
  ASSUME NEW n \in Nat
  PROVE  /\ AllDigits(InBase(n, 10, Digits10))
         /\ Number(InBase(n, 10, Digits10)) = n
<1> DEFINE N(v) == InBase(v, 10, Digits10)
           Reads(v) == AllDigits(N(v)) /\ Number(N(v)) = v
           T == {v \in Nat : Reads(v)}
           D == [v \in Nat |-> v \div 10]
<1>1. \A v \in Nat : v # 0 => D[v] \in Nat /\ D[v] < v /\ D[v] = v \div 10
  BY Quotient
<1>2. AllDigits(<<>>)
  BY NoDigits
<1>3. ASSUME NEW v \in Nat, v # 0, D[v] \in T PROVE v \in T
  <2> DEFINE q == v \div 10
             r == v % 10
             c == Digits10[r + 1]
  <2>1. N(v) = Append(N(q), c)
    BY <1>3, InBaseSteps, Digits10Radix
  <2>2. AllDigits(N(q)) /\ Number(N(q)) = q
    BY <1>1, <1>3
  <2>3. r \in 0..9 /\ v = q * 10 + r
    BY 10 \in Nat \ {0}, DivMod
  <2>4. c \in Range(Digits10) /\ Digit(c) = r
    BY <2>3, DigitIs
  <2> HIDE DEF q, r, c, N
  <2>5. AllDigits(Append(N(q), c)) /\ Number(Append(N(q), c)) = Number(N(q)) * 10 + Digit(c)
    BY <2>2, <2>4, NumberSteps
  <2>6. Reads(v)
    BY <2>1, <2>2, <2>3, <2>4, <2>5
  <2> HIDE DEF Reads
  <2> QED BY <2>6
<1>4. 0 \in T
  <2>1. N(0) = <<>>
    BY InBaseSteps, Digits10Radix
  <2>2. Reads(0)
    BY <1>2, <2>1, NumberSteps
  <2> HIDE DEF Reads
  <2> QED BY <2>2
<1>5. Nat \subseteq T
  <2>1. Inherits(T, D, Nat, 0) /\ Descends(D, Nat, 0)
    BY <1>1, <1>3 DEF Inherits, Descends
  <2> HIDE DEF T, D
  <2> QED BY <1>4, <2>1, Descent
<1> QED BY <1>5

LEMMA NumeralIs ==
  /\ Numeral(None) = <<>>
  /\ \A n \in Nat :
       /\ AllDigits(Numeral(n)) /\ Number(Numeral(n)) = n
       /\ Len(Numeral(n)) >= 1
       /\ n > 0 => Numeral(n)[1] # "0"
<1>1. Numeral(None) = <<>>
  BY DEF Numeral, None
<1>2. ASSUME NEW n \in Nat
      PROVE  /\ AllDigits(Numeral(n)) /\ Number(Numeral(n)) = n
             /\ Len(Numeral(n)) >= 1
             /\ n > 0 => Numeral(n)[1] # "0"
  <2>1. CASE n = 0
    <3>1. Numeral(n) = <<"0">> /\ <<"0">> = Append(<<>>, "0")
      BY <2>1 DEF Numeral, None
    <3>2. Digits10[0 + 1] = "0" /\ 0 \in 0..9
      BY DEF Digits10
    <3>3. "0" \in Range(Digits10) /\ Digit("0") = 0
      BY <3>2, DigitIs
    <3>4. AllDigits(<<>>)
      BY NoDigits
    <3>5. Number(<<>>) = 0
      BY <3>4, NumberSteps
    <3>6. AllDigits(Append(<<>>, "0")) /\ Number(Append(<<>>, "0")) = Number(<<>>) * 10 + Digit("0")
      BY <3>3, <3>4, NumberSteps
    <3>7. Len(<<"0">>) = 1
      OBVIOUS
    <3> QED BY <2>1, <3>1, <3>3, <3>5, <3>6, <3>7
  <2>2. CASE n # 0
    <3>1. Numeral(n) = InBase(n, 10, Digits10)
      BY <2>2 DEF Numeral, None
    <3>2. \A k \in 1..(10 - 1) : Digits10[k + 1] # "0"
      BY Digits10Radix
    <3> QED BY <2>2, <3>1, <3>2, InBase10, InBaseLeads, Digits10Radix
  <2> QED BY <2>1, <2>2
<1> QED BY <1>1, <1>2

(* Powers of two. *)

PowerOf(f) == f = [k \in Nat |-> IF k = 0 THEN 1 ELSE 2 * f[k - 1]]

LEMMA PowerExists == \E f : PowerOf(f)
<1> DEFINE D == [k \in Nat |-> k - 1]
           G == [p \in Nat \X Nat |-> 2 * p[2]]
<1>1. Descends(D, Nat, 0)
  BY DEF Descends
<1>2. ASSUME NEW k \in Nat, NEW z \in Nat PROVE G[<<k, z>>] = 2 * z
  OBVIOUS
<1>3. Closed(G, Nat, 0, Nat)
  <2> HIDE DEF G
  <2> QED BY <1>2 DEF Closed
<1>4. PICK f : Recursive(f, Nat, 0, 1, D, G)
  <2> HIDE DEF D, G
  <2> QED BY <1>1, RecursionExists DEF Descends
<1>5. \A k \in Nat : f[k] \in Nat
  <2> HIDE DEF D, G
  <2>1. 1 \in Nat
    OBVIOUS
  <2> QED BY <1>1, <1>3, <1>4, <2>1, RecursionIn
<1>6. ASSUME NEW k \in Nat, k # 0 PROVE G[<<k, f[D[k]]>>] = 2 * f[k - 1]
  <2>1. D[k] = k - 1 /\ k - 1 \in Nat
    BY <1>6
  <2> HIDE DEF D, G
  <2> QED BY <1>2, <1>5, <2>1
<1>7. PowerOf(f)
  <2>1. f = [k \in Nat |-> IF k = 0 THEN 1 ELSE G[<<k, f[D[k]]>>]]
    <3> HIDE DEF D, G
    <3> QED BY <1>4 DEF Recursive
  <2> HIDE DEF D, G
  <2> QED BY <1>6, <2>1 DEF PowerOf
<1> QED BY <1>7

LEMMA PowerIs ==
  ASSUME NEW n \in Nat
  PROVE  Power(n) \in Nat \ {0} /\ (n # 0 => Power(n) = 2 * Power(n - 1))
<1> DEFINE f == CHOOSE h : PowerOf(h)
           D == [k \in Nat |-> k - 1]
           T == {k \in Nat : f[k] \in Nat \ {0}}
<1>1. PowerOf(f)
  BY PowerExists
<1>2. \A k \in Nat : Power(k) = f[k]
  BY DEF Power, PowerOf
<1> HIDE DEF f
<1>3. f[0] = 1 /\ \A k \in Nat : k # 0 => f[k] = 2 * f[k - 1]
  BY <1>1 DEF PowerOf
<1>4. Nat \subseteq T
  <2>1. Descends(D, Nat, 0)
    BY DEF Descends
  <2>2. ASSUME NEW k \in Nat, k # 0, D[k] \in T PROVE k \in T
    <3>1. f[k - 1] \in Nat \ {0}
      BY <2>2
    <3> QED BY <1>3, <2>2, <3>1
  <2>3. Inherits(T, D, Nat, 0) /\ 0 \in T
    BY <1>3, <2>2 DEF Inherits
  <2> HIDE DEF T, D
  <2> QED BY <2>1, <2>3, Descent
<1>5. n # 0 => n - 1 \in Nat /\ f[n] = 2 * f[n - 1]
  BY <1>3
<1> QED BY <1>2, <1>4, <1>5

(* The limits of an int, and the number of values of a printf_size_t.      *)
LEMMA SizesAre ==
  ASSUME FormatAssumption
  PROVE  /\ Sizes \in Nat \ {0} /\ INT_MIN \in Int /\ INT_MAX \in Nat
         /\ INT_MAX > 0 /\ INT_MAX < Sizes
<1> DEFINE n == Bits["int"]
<1>1. n \in Nat /\ n > 1 /\ n # 0 /\ n - 1 \in Nat /\ n - 1 # 0 /\ n - 1 - 1 \in Nat
  BY DEF FormatAssumption
<1> HIDE DEF n
<1>2. /\ Power(n) \in Nat \ {0} /\ Power(n - 1) \in Nat \ {0} /\ Power(n - 1 - 1) \in Nat \ {0}
      /\ Power(n) = 2 * Power(n - 1) /\ Power(n - 1) = 2 * Power(n - 1 - 1)
  BY <1>1, PowerIs
<1> QED BY <1>2 DEF Sizes, INT_MIN, INT_MAX, n

LEMMA AtouIs ==
  ASSUME FormatAssumption
  PROVE  /\ \A s : AllDigits(s) => atou_(s) \in Nat
         /\ atou_(<<>>) = 0
         /\ \A n \in Nat : atou_(Numeral(n)) = n % Sizes
<1>1. Sizes \in Nat \ {0}
  BY SizesAre
<1>2. ASSUME NEW s, AllDigits(s) PROVE atou_(s) \in Nat
  <2>1. Number(s) \in Nat
    BY <1>2, NumberSteps
  <2> QED BY <1>1, <2>1 DEF atou_
<1>3. atou_(<<>>) = 0
  <2>1. Number(<<>>) = 0
    BY NoDigits, NumberSteps
  <2> QED BY <1>1, <2>1 DEF atou_
<1>4. \A n \in Nat : atou_(Numeral(n)) = n % Sizes
  BY NumeralIs DEF atou_
<1> QED BY <1>2, <1>3, <1>4

-----------------------------------------------------------------------------
(* Sequences of sequences, and what is left of one after n of them. *)

Pieces(seqs, E) ==
  /\ Len(seqs) \in Nat /\ DOMAIN seqs = 1..Len(seqs)
  /\ \A i \in 1..Len(seqs) : seqs[i] \in Seq(E)

FlatOf(f, seqs) ==
  f = [i \in 1..Len(seqs) |-> IF i = 1 THEN seqs[i] ELSE f[i - 1] \o seqs[i]]
RestOf(r, seqs, tail) ==
  r = [k \in 0..Len(seqs) |-> IF k = 0 THEN tail ELSE seqs[Len(seqs) - k + 1] \o r[k - 1]]

Joined(seqs, n) == IF n = 0 THEN <<>> ELSE (CHOOSE h : FlatOf(h, seqs))[n]
Rest(seqs, tail, n) == (CHOOSE h : RestOf(h, seqs, tail))[Len(seqs) - n]

LEMMA FlatExists ==
  ASSUME NEW E, NEW seqs, Pieces(seqs, E), Len(seqs) > 0
  PROVE  \E f : FlatOf(f, seqs)
<1> DEFINE N == Len(seqs)
           S == 1..N
           Q == Seq(E)
           D == [k \in S |-> k - 1]
           G == [p \in S \X Q |-> p[2] \o seqs[p[1]]]
<1>1. N \in Nat /\ S \in SUBSET Nat /\ 1 \in S
  BY DEF Pieces
<1>2. Descends(D, S, 1)
  BY <1>1 DEF Descends
<1>3. \A k \in S : seqs[k] \in Q
  BY DEF Pieces
<1>4. ASSUME NEW k \in S, NEW z \in Q
      PROVE  G[<<k, z>>] \in Q /\ G[<<k, z>>] = z \o seqs[k]
  <2>1. z \o seqs[k] \in Q
    BY <1>3
  <2>2. G[<<k, z>>] = z \o seqs[k]
    <3> HIDE DEF Q
    <3> QED OBVIOUS
  <2> HIDE DEF G, Q
  <2> QED BY <2>1, <2>2
<1> HIDE DEF Q
<1>5. Closed(G, S, 1, Q)
  <2> HIDE DEF G, S
  <2> QED BY <1>4 DEF Closed
<1>6. PICK f : Recursive(f, S, 1, seqs[1], D, G)
  <2> HIDE DEF D, G, S
  <2> QED BY <1>1, <1>2, RecursionExists DEF Descends
<1>7. \A k \in S : f[k] \in Q
  <2> HIDE DEF D, G, S
  <2>1. seqs[1] \in Q
    BY <1>1, <1>3
  <2> QED BY <1>1, <1>2, <1>5, <1>6, <2>1, RecursionIn
<1>8. ASSUME NEW k \in S, k # 1 PROVE G[<<k, f[D[k]]>>] = f[k - 1] \o seqs[k]
  <2>1. D[k] = k - 1 /\ k - 1 \in S
    BY <1>1, <1>8
  <2> HIDE DEF D, G, S
  <2> QED BY <1>4, <1>7, <1>8, <2>1
<1>9. FlatOf(f, seqs)
  <2>1. f = [k \in S |-> IF k = 1 THEN seqs[1] ELSE G[<<k, f[D[k]]>>]]
    <3> HIDE DEF D, G, S
    <3> QED BY <1>6 DEF Recursive
  <2> HIDE DEF D, G
  <2> QED BY <1>8, <2>1 DEF FlatOf
<1> QED BY <1>9

LEMMA JoinedSteps ==
  ASSUME NEW E, NEW seqs, Pieces(seqs, E)
  PROVE  /\ Joined(seqs, 0) = <<>>
         /\ \A n \in 0..Len(seqs) : Joined(seqs, n) \in Seq(E)
         /\ \A n \in 1..Len(seqs) : Joined(seqs, n) = Joined(seqs, n - 1) \o seqs[n]
         /\ FlattenSeq(seqs) = Joined(seqs, Len(seqs))
<1> DEFINE N == Len(seqs)
           Q == Seq(E)
           f == CHOOSE h : FlatOf(h, seqs)
           J(n) == Joined(seqs, n)
           D == [k \in 0..N |-> k - 1]
           T == {k \in 0..N : J(k) \in Q}
<1>1. N \in Nat
  BY DEF Pieces
<1>2. J(0) = <<>>
  BY DEF Joined
<1>3. ASSUME N > 0 PROVE FlatOf(f, seqs)
  BY <1>3, FlatExists
<1>4. \A n \in 1..N : J(n) = f[n]
  BY DEF Joined
<1> HIDE DEF f
<1>5. ASSUME NEW n \in 1..N PROVE J(n) = J(n - 1) \o seqs[n]
  <2>1. f[n] = IF n = 1 THEN seqs[n] ELSE f[n - 1] \o seqs[n]
    <3>1. N > 0
      BY <1>1
    <3>2. FlatOf(f, seqs)
      BY <1>3, <3>1
    <3>3. \A i \in 1..N : f[i] = IF i = 1 THEN seqs[i] ELSE f[i - 1] \o seqs[i]
      BY <3>2, Zenon DEF FlatOf
    <3> QED BY <3>3
  <2>2. CASE n = 1
    <3>1. seqs[n] \in Seq(E)
      BY DEF Pieces
    <3>2. <<>> \o seqs[n] = seqs[n]
      BY <3>1
    <3>3. n - 1 = 0
      BY <2>2
    <3>4. J(n) = seqs[n]
      BY <1>4, <2>1, <2>2
    <3> HIDE DEF J
    <3>5. J(n - 1) = <<>>
      BY <1>2, <3>3
    <3> QED BY <3>2, <3>4, <3>5
  <2>3. CASE n # 1
    <3>1. n - 1 \in 1..N
      BY <1>1, <2>3
    <3> HIDE DEF J
    <3> QED BY <1>4, <2>1, <2>3, <3>1
  <2> QED BY <2>2, <2>3
<1>6. 0..N \subseteq T
  <2>1. Descends(D, 0..N, 0) /\ 0..N \in SUBSET Nat /\ 0 \in 0..N
    BY <1>1 DEF Descends
  <2>2. 0 \in T
    <3>1. <<>> \in Q
      OBVIOUS
    <3> HIDE DEF J, Q
    <3> QED BY <1>2, <2>1, <3>1
  <2>3. ASSUME NEW k \in 0..N, k # 0, D[k] \in T PROVE k \in T
    <3>1. J(k - 1) \in Q /\ k \in 1..N
      BY <1>1, <2>3
    <3>2. seqs[k] \in Q
      BY <3>1 DEF Pieces
    <3>3. J(k - 1) \o seqs[k] \in Q
      <4> HIDE DEF J
      <4> QED BY <3>1, <3>2
    <3> HIDE DEF J, Q
    <3> QED BY <1>5, <2>3, <3>1, <3>3
  <2>4. Inherits(T, D, 0..N, 0)
    BY <2>3 DEF Inherits
  <2> HIDE DEF T, D
  <2> QED BY <2>1, <2>2, <2>4, Descent
<1>7. FlattenSeq(seqs) = J(N)
  <2>1. CASE N = 0
    <3>1. DOMAIN seqs = {}
      BY <2>1 DEF Pieces
    <3>2. seqs = <<>>
      <4>1. seqs \in Seq(Seq(E))
        BY <2>1 DEF Pieces
      <4> QED BY <2>1, <4>1
    <3>3. FlattenSeq(seqs) = seqs
      BY <2>1 DEF FlattenSeq
    <3> QED BY <1>2, <2>1, <3>2, <3>3
  <2>2. CASE N # 0
    <3>1. FlattenSeq(seqs) = f[N]
      BY <2>2 DEF FlattenSeq, f, FlatOf
    <3>2. N \in 1..N
      BY <1>1, <2>2
    <3> HIDE DEF J
    <3> QED BY <1>4, <3>1, <3>2
  <2> QED BY <2>1, <2>2
<1> QED BY <1>2, <1>5, <1>6, <1>7

LEMMA RestExists ==
  ASSUME NEW E, NEW seqs, Pieces(seqs, E), NEW tail \in Seq(E)
  PROVE  \E r : RestOf(r, seqs, tail)
<1> DEFINE N == Len(seqs)
           S == 0..N
           Q == Seq(E)
           D == [k \in S |-> k - 1]
           G == [p \in S \X Q |-> seqs[N - p[1] + 1] \o p[2]]
<1>1. N \in Nat /\ S \in SUBSET Nat /\ 0 \in S
  BY DEF Pieces
<1>2. Descends(D, S, 0)
  BY <1>1 DEF Descends
<1>3. \A k \in 1..N : seqs[k] \in Q
  BY DEF Pieces
<1>4. ASSUME NEW k \in S, NEW z \in Q, k # 0
      PROVE  G[<<k, z>>] \in Q /\ G[<<k, z>>] = seqs[N - k + 1] \o z
  <2>1. N - k + 1 \in 1..N
    BY <1>1, <1>4
  <2>2. seqs[N - k + 1] \o z \in Q
    <3> DEFINE u == seqs[N - k + 1]
    <3>1. u \in Q
      BY <1>3, <2>1
    <3> HIDE DEF u
    <3>2. u \o z \in Q
      BY <3>1
    <3> QED BY <3>2 DEF u
  <2>3. G[<<k, z>>] = seqs[N - k + 1] \o z
    <3> HIDE DEF Q
    <3> QED OBVIOUS
  <2> HIDE DEF G, Q
  <2> QED BY <2>2, <2>3
<1>5. tail \in Q
  OBVIOUS
<1> HIDE DEF Q
<1>6. Closed(G, S, 0, Q)
  <2> HIDE DEF G, S
  <2> QED BY <1>4 DEF Closed
<1>7. PICK r : Recursive(r, S, 0, tail, D, G)
  <2> HIDE DEF D, G, S
  <2> QED BY <1>1, <1>2, RecursionExists DEF Descends
<1>8. \A k \in S : r[k] \in Q
  <2> HIDE DEF D, G, S
  <2> QED BY <1>1, <1>2, <1>5, <1>6, <1>7, RecursionIn
<1>9. ASSUME NEW k \in S, k # 0 PROVE G[<<k, r[D[k]]>>] = seqs[N - k + 1] \o r[k - 1]
  <2>1. D[k] = k - 1 /\ k - 1 \in S
    BY <1>1, <1>9
  <2> HIDE DEF D, G, S, N
  <2> QED BY <1>4, <1>8, <1>9, <2>1
<1>10. RestOf(r, seqs, tail)
  <2>1. r = [k \in S |-> IF k = 0 THEN tail ELSE G[<<k, r[D[k]]>>]]
    <3> HIDE DEF D, G, S
    <3> QED BY <1>7 DEF Recursive
  <2> HIDE DEF D, G
  <2> QED BY <1>9, <2>1 DEF RestOf
<1> QED BY <1>10

LEMMA RestSteps ==
  ASSUME NEW E, NEW seqs, Pieces(seqs, E), NEW tail \in Seq(E)
  PROVE  /\ Rest(seqs, tail, Len(seqs)) = tail
         /\ \A n \in 0..Len(seqs) : Rest(seqs, tail, n) \in Seq(E)
         /\ \A n \in 1..Len(seqs) : Rest(seqs, tail, n - 1) = seqs[n] \o Rest(seqs, tail, n)
<1> DEFINE N == Len(seqs)
           S == 0..N
           Q == Seq(E)
           r == CHOOSE h : RestOf(h, seqs, tail)
           D == [k \in S |-> k - 1]
           T == {k \in S : r[k] \in Q}
<1>1. N \in Nat /\ S \in SUBSET Nat /\ 0 \in S
  BY DEF Pieces
<1>2. RestOf(r, seqs, tail)
  BY RestExists
<1>3. \A n : Rest(seqs, tail, n) = r[N - n]
  BY DEF Rest
<1> HIDE DEF r
<1>4. \A k \in S : r[k] = IF k = 0 THEN tail ELSE seqs[N - k + 1] \o r[k - 1]
  BY <1>2, Zenon DEF RestOf
<1>5. r[0] = tail
  BY <1>1, <1>4
<1>6. S \subseteq T
  <2>1. Descends(D, S, 0)
    BY <1>1 DEF Descends
  <2>2. 0 \in T
    <3>1. tail \in Q
      OBVIOUS
    <3> HIDE DEF Q
    <3> QED BY <1>1, <1>5, <3>1
  <2>3. ASSUME NEW k \in S, k # 0, D[k] \in T PROVE k \in T
    <3> DEFINE u == seqs[N - k + 1]
               z == r[k - 1]
    <3>1. z \in Q
      BY <2>3
    <3>2. u \in Q
      <4>1. N - k + 1 \in 1..N
        BY <1>1, <2>3
      <4> QED BY <4>1 DEF Pieces
    <3>3. r[k] = u \o z
      BY <1>4, <2>3
    <3> HIDE DEF u, z
    <3>4. u \o z \in Q
      BY <3>1, <3>2
    <3> HIDE DEF Q, S
    <3> QED BY <3>3, <3>4
  <2>4. Inherits(T, D, S, 0)
    BY <2>3 DEF Inherits
  <2> HIDE DEF T, D, S
  <2> QED BY <1>1, <2>1, <2>2, <2>4, Descent
<1>7. \A n \in S : Rest(seqs, tail, n) \in Q
  <2>1. \A n \in S : N - n \in S
    BY <1>1
  <2> HIDE DEF Q, S
  <2> QED BY <1>3, <1>6, <2>1
<1>8. Rest(seqs, tail, N) = tail
  <2>1. N - N = 0
    BY <1>1
  <2> QED BY <1>3, <1>5, <2>1
<1>9. ASSUME NEW n \in 1..N PROVE Rest(seqs, tail, n - 1) = seqs[n] \o Rest(seqs, tail, n)
  <2> DEFINE k == N - (n - 1)
  <2>1. k \in S /\ k # 0 /\ k - 1 = N - n /\ N - k + 1 = n
    BY <1>1
  <2>2. r[k] = seqs[N - k + 1] \o r[k - 1]
    <3> HIDE DEF k
    <3> QED BY <1>4, <2>1
  <2>3. r[k] = seqs[n] \o r[N - n]
    <3> HIDE DEF k
    <3> QED BY <2>1, <2>2
  <2> HIDE DEF N
  <2> QED BY <1>3, <2>3
<1> QED BY <1>7, <1>8, <1>9

Unfolds(seqs, tail, E) ==
  /\ Rest(seqs, tail, Len(seqs)) = tail
  /\ \A n \in 0..Len(seqs) : Rest(seqs, tail, n) \in Seq(E)
  /\ \A n \in 1..Len(seqs) : Rest(seqs, tail, n - 1) = seqs[n] \o Rest(seqs, tail, n)

LEMMA RestUnfolds ==
  ASSUME NEW E, NEW seqs, Pieces(seqs, E), NEW tail \in Seq(E)
  PROVE  Unfolds(seqs, tail, E)
  BY SMTT(30), RestSteps DEF Unfolds

LEMMA WholeIsRest ==
  ASSUME NEW E, NEW seqs, Pieces(seqs, E), NEW tail \in Seq(E)
  PROVE  FlattenSeq(seqs) \o tail = Rest(seqs, tail, 0)
<1> DEFINE N == Len(seqs)
           S == 0..N
           D == [k \in S |-> k - 1]
           A(n) == Joined(seqs, n) \o Rest(seqs, tail, n)
           T == {n \in S : A(n) = Rest(seqs, tail, 0)}
<1>1. N \in Nat /\ S \in SUBSET Nat /\ 0 \in S
  BY DEF Pieces
<1>2. 0 \in T
  <2>1. Rest(seqs, tail, 0) \in Seq(E) /\ Joined(seqs, 0) = <<>>
    BY <1>1, JoinedSteps, RestSteps
  <2>2. <<>> \o Rest(seqs, tail, 0) = Rest(seqs, tail, 0)
    BY <2>1
  <2> QED BY <1>1, <2>1, <2>2
<1>3. ASSUME NEW n \in S, n # 0, D[n] \in T PROVE n \in T
  <2> DEFINE j == Joined(seqs, n - 1)
             p == seqs[n]
             t == Rest(seqs, tail, n)
  <2>1. n \in 1..N /\ n - 1 \in S
    BY <1>1, <1>3
  <2>2. j \in Seq(E) /\ t \in Seq(E)
    BY <2>1, JoinedSteps, RestSteps
  <2>3. p \in Seq(E)
    BY <2>1 DEF Pieces
  <2>4. A(n) = (j \o p) \o t
    BY <2>1, JoinedSteps
  <2>5. A(n - 1) = j \o (p \o t)
    <3>1. Rest(seqs, tail, n - 1) = p \o t
      BY SMTT(30), <2>1, RestSteps
    <3> HIDE DEF p, t
    <3> QED BY <3>1
  <2> HIDE DEF j, p, t
  <2>6. (j \o p) \o t = j \o (p \o t)
    BY <2>2, <2>3, ConcatAssociative
  <2>7. A(n - 1) = Rest(seqs, tail, 0)
    BY <1>3
  <2> HIDE DEF A
  <2> QED BY <2>4, <2>5, <2>6, <2>7
<1>4. S \subseteq T
  <2>1. Descends(D, S, 0)
    BY <1>1 DEF Descends
  <2> HIDE DEF T, D, S
  <2>2. Inherits(T, D, S, 0)
    BY <1>3 DEF Inherits
  <2> QED BY <1>1, <1>2, <2>1, <2>2, Descent
<1>5. A(N) = Rest(seqs, tail, 0)
  <2>1. N \in S
    BY <1>1
  <2> HIDE DEF A
  <2> QED BY <1>4, <2>1
<1>6. FlattenSeq(seqs) = Joined(seqs, N)
  BY JoinedSteps
<1>7. Rest(seqs, tail, N) = tail
  BY RestSteps
<1> QED BY <1>5, <1>6, <1>7

-----------------------------------------------------------------------------
(* The parts of a directive. *)

At(s, i) == IF i <= Len(s) THEN s[i] ELSE NUL
First(s) == At(s, 1)

LEMMA FirstOf ==
  ASSUME NEW s \in Text, NEW t \in Text
  PROVE  First(s \o t) = IF s = <<>> THEN First(t) ELSE s[1]
<1>1. Len(s) \in Nat /\ Len(t) \in Nat
  BY Lengths0
<1>2. CASE s = <<>>
  <2>1. s \o t = t
    BY <1>2, JoiningNothing
  <2> QED BY <1>2, <2>1
<1>3. CASE s # <<>>
  <2>1. Len(s) >= 1
    <3>1. Len(s) # 0
      BY <1>3 DEF Text
    <3> QED BY <1>1, <3>1
  <2>2. Len(s \o t) >= 1 /\ (s \o t)[1] = s[1]
    <3>1. 1 \in 1..Len(s)
      BY <1>1, <2>1
    <3> QED BY <1>1, <2>1, <3>1, Joining
  <2> QED BY <1>3, <2>2 DEF First, At
<1> QED BY <1>2, <1>3

(* A piece of the format string. *)
Piece(a, b, r) ==
  a \in Text /\ b \in Text /\ r \in Text /\ format = a \o (b \o r)

LEMMA PieceIs ==
  ASSUME NEW a, NEW b, NEW r, Piece(a, b, r)
  PROVE  /\ Len(a) \in Nat /\ Len(b) \in Nat /\ Len(r) \in Nat
         /\ Len(format) = Len(a) + Len(b) + Len(r)
         /\ \A i \in 1..Len(b) : Char(Len(a) + i) = b[i]
         /\ Char(Len(a) + Len(b) + 1) = First(r)
         /\ format = (a \o b) \o r /\ a \o b \in Text /\ Len(a \o b) = Len(a) + Len(b)
         /\ format \in Text
<1>1. a \in Text /\ b \in Text /\ r \in Text /\ format = a \o (b \o r)
  BY DEF Piece
<1>2. Len(a) \in Nat /\ Len(b) \in Nat /\ Len(r) \in Nat
  BY <1>1, Lengths0
<1> DEFINE u == b \o r
           la == Len(a)
           lb == Len(b)
<1>3. u \in Text /\ Len(u) = lb + Len(r)
  BY <1>1, Joining
<1>4. format \in Text /\ Len(format) = la + lb + Len(r)
  <2>1. format = a \o u
    BY <1>1
  <2> HIDE DEF u
  <2>2. a \o u \in Text /\ Len(a \o u) = Len(a) + Len(u)
    BY <1>1, <1>3, Joining
  <2> QED BY <1>2, <1>3, <2>1, <2>2
<1>5. \A i \in 1..(lb + Len(r)) : format[la + i] = u[i]
  <2>1. format = a \o u
    BY <1>1
  <2> HIDE DEF u
  <2>2. \A i \in 1..Len(u) : (a \o u)[Len(a) + i] = u[i]
    BY <1>1, <1>3, Joining
  <2> QED BY <1>3, <2>1, <2>2
<1>6. \A i \in 1..lb : u[i] = b[i]
  BY <1>1, Joining
<1>7. ASSUME NEW i \in 1..lb PROVE Char(la + i) = b[i]
  <2>1. la + i <= Len(format) /\ i \in 1..(lb + Len(r))
    BY <1>2, <1>4
  <2> HIDE DEF u, la, lb
  <2> QED BY <1>5, <1>6, <2>1 DEF Char
<1>8. Char(la + lb + 1) = First(r)
  <2>1. CASE Len(r) = 0
    <3>1. ~ (la + lb + 1 <= Len(format)) /\ ~ (1 <= Len(r))
      BY <1>2, <1>4, <2>1
    <3> HIDE DEF u, la, lb
    <3> QED BY <3>1 DEF Char, First, At
  <2>2. CASE Len(r) # 0
    <3>1. /\ la + lb + 1 <= Len(format) /\ 1 <= Len(r) /\ lb + 1 \in 1..(lb + Len(r))
          /\ la + lb + 1 = la + (lb + 1) /\ 1 \in 1..Len(r)
      BY <1>2, <1>4, <2>2
    <3>2. u[lb + 1] = r[1]
      BY <1>1, <3>1, Joining
    <3> HIDE DEF u, la, lb
    <3>3. format[la + lb + 1] = r[1]
      BY <1>5, <3>1, <3>2
    <3> QED BY <3>1, <3>3 DEF Char, First, At
  <2> QED BY <2>1, <2>2
<1>9. format = (a \o b) \o r /\ a \o b \in Text /\ Len(a \o b) = la + lb
  BY <1>1, Joining, JoiningAssociates
<1> QED BY <1>2, <1>4, <1>7, <1>8, <1>9

LEMMA PieceTaken ==
  ASSUME NEW a, NEW b, NEW r, Piece(a, b, r)
  PROVE  SubSeq(format, Len(a) + 1, Len(a) + Len(b)) = b
<1> DEFINE la == Len(a)
           lb == Len(b)
           t == SubSeq(format, la + 1, la + lb)
<1>1. la \in Nat /\ lb \in Nat /\ Len(r) \in Nat /\ Len(format) = la + lb + Len(r)
  BY PieceIs
<1>2. format \in Text /\ b \in Text
  BY PieceIs DEF Piece
<1>3. ASSUME NEW i \in 1..lb PROVE format[la + i] = b[i]
  <2>1. la + i <= Len(format)
    BY <1>1
  <2>2. Char(la + i) = b[i]
    BY PieceIs
  <2> QED BY <2>1, <2>2 DEF Char
<1> HIDE DEF la, lb
<1>4. \A i \in (la + 1)..(la + lb) : format[i] \in Characters
  <2>1. \A i \in (la + 1)..(la + lb) : i \in 1..Len(format)
    BY <1>1
  <2> QED BY <1>2, <2>1, Lengths0
<1>5. /\ t \in Text
      /\ Len(t) = IF la + 1 <= la + lb THEN (la + lb) - (la + 1) + 1 ELSE 0
      /\ \A i \in 1..((la + lb) - (la + 1) + 1) : t[i] = format[(la + 1) + i - 1]
  <2>1. la + 1 \in Int /\ la + lb \in Int
    BY <1>1
  <2> QED BY <1>4, <2>1, SubSeqProperties DEF Text
<1> HIDE DEF t
<1>6. Len(t) = lb
  BY <1>1, <1>5
<1>7. ASSUME NEW i \in 1..lb PROVE t[i] = b[i]
  <2>1. i \in 1..((la + lb) - (la + 1) + 1) /\ (la + 1) + i - 1 = la + i
    BY <1>1
  <2>2. t[i] = format[la + i]
    BY <1>5, <2>1
  <2> QED BY <1>3, <2>2
<1>8. t = b
  BY <1>2, <1>5, <1>6, <1>7, SameText DEF lb
<1> QED BY <1>8 DEF t, la, lb

LEMMA Scanned ==
  ASSUME NEW a, NEW b, NEW r, Piece(a, b, r), NEW S,
         \A i \in 1..Len(b) : b[i] \in S, First(r) \notin S
  PROVE  Past(Len(a) + 1, S) = Len(a) + Len(b) + 1
<1> DEFINE la == Len(a)
           j == la + Len(b) + 1
           From == (la + 1)..(Len(format) + 1)
           Ends(k) == Char(k) \notin S /\ \A m \in (la + 1)..(k - 1) : Char(m) \in S
<1>1. la \in Nat /\ Len(b) \in Nat /\ Len(r) \in Nat /\ Len(format) = la + Len(b) + Len(r)
  BY PieceIs
<1>2. j \in From
  BY <1>1
<1>3. \A m \in (la + 1)..(j - 1) : Char(m) \in S
  <2> SUFFICES ASSUME NEW m \in (la + 1)..(j - 1) PROVE Char(m) \in S
    OBVIOUS
  <2>1. m - la \in 1..Len(b) /\ m = la + (m - la)
    BY <1>1
  <2>2. Char(la + (m - la)) = b[m - la]
    BY <2>1, PieceIs
  <2> QED BY <2>1, <2>2
<1>4. Char(j) \notin S
  BY PieceIs
<1>5. ASSUME NEW k \in From, Ends(k) PROVE k = j
  <2>1. CASE k < j
    <3>1. k \in (la + 1)..(j - 1)
      BY <1>1, <2>1
    <3> QED BY <1>3, <1>5, <3>1
  <2>2. CASE k > j
    <3>1. j \in (la + 1)..(k - 1)
      BY <1>1, <2>2
    <3> QED BY <1>4, <1>5, <3>1
  <2> QED BY <1>1, <2>1, <2>2
<1>6. Ends(j)
  BY <1>3, <1>4
<1>7. Past(la + 1, S) = CHOOSE k \in From : Ends(k)
  BY DEF Past
<1> HIDE DEF From, Ends, j
<1>8. Past(la + 1, S) = j
  BY <1>2, <1>5, <1>6, <1>7
<1> QED BY <1>8 DEF j

DigitChars == {"0", "1", "2", "3", "4", "5", "6", "7", "8", "9"}
LengthChars == {"h", "l", "t", "j", "z"}
EndChars == Converts \cup {"%", NUL}

LEMMA DigitsAre == Range(Digits10) = DigitChars
<1>1. DOMAIN Digits10 = 1..10
  BY DEF Digits10
<1>2. \A i \in 1..10 : Digits10[i] \in DigitChars
  BY DEF Digits10, DigitChars
<1>3. \A c \in DigitChars : \E i \in 1..10 : Digits10[i] = c
  <2>1. /\ Digits10[1] = "0" /\ Digits10[2] = "1" /\ Digits10[3] = "2" /\ Digits10[4] = "3"
        /\ Digits10[5] = "4" /\ Digits10[6] = "5" /\ Digits10[7] = "6" /\ Digits10[8] = "7"
        /\ Digits10[9] = "8" /\ Digits10[10] = "9"
    BY DEF Digits10
  <2> QED BY <2>1 DEF DigitChars
<1> QED BY <1>1, <1>2, <1>3 DEF Range

(* The kinds of characters. *)
LEMMA Kinds ==
  /\ EndChars \cap LengthChars = {}
  /\ "." \notin EndChars /\ "." \notin LengthChars
  /\ "*" \notin DigitChars /\ "*" \notin EndChars /\ "*" \notin LengthChars /\ "*" \notin FlagChars
  /\ "." \notin DigitChars /\ "." \notin FlagChars
  /\ EndChars \cap DigitChars = {} /\ LengthChars \cap DigitChars = {}
  /\ EndChars \cap FlagChars = {} /\ LengthChars \cap FlagChars = {}
  /\ DigitChars \cap FlagChars = {"0"}
  BY DEF EndChars, LengthChars, DigitChars, FlagChars, Converts, Integral, NUL

Field(b) == b = <<"*">> \/ AllDigits(b)

LEMMA FieldScanned ==
  ASSUME NEW a, NEW b, NEW r, Piece(a, b, r), Field(b),
         First(r) \notin DigitChars, First(r) # "*"
  PROVE  /\ PastNumber(Len(a) + 1) = Len(a) + Len(b) + 1
         /\ Char(Len(a) + 1) = "*" <=> b = <<"*">>
<1> DEFINE i == Len(a) + 1
<1>1. Len(a) \in Nat /\ Len(b) \in Nat /\ \A k \in 1..Len(b) : Char(Len(a) + k) = b[k]
  BY PieceIs
<1>2. CASE b = <<"*">>
  <2>1. Len(b) = 1 /\ b[1] = "*"
    BY <1>2
  <2>2. Char(i) = "*"
    BY <1>1, <2>1
  <2>3. PastNumber(i) = i + 1
    BY <2>2 DEF PastNumber
  <2> QED BY <1>1, <1>2, <2>1, <2>2, <2>3
<1>3. CASE b # <<"*">>
  <2>1. AllDigits(b) /\ \A k \in 1..Len(b) : b[k] \in DigitChars
    BY <1>3, DigitsAre DEF Field, AllDigits
  <2>2. Char(i) # "*"
    <3>1. CASE Len(b) = 0
      <4>1. Char(Len(a) + Len(b) + 1) = First(r) /\ Len(a) + Len(b) + 1 = i
        BY <1>1, <3>1, PieceIs
      <4> QED BY <4>1
    <3>2. CASE Len(b) # 0
      <4>1. 1 \in 1..Len(b)
        BY <1>1, <3>2
      <4>2. Char(i) = b[1]
        BY <1>1, <4>1
      <4> QED BY <2>1, <4>1, <4>2, Kinds
    <3> QED BY <3>1, <3>2
  <2>3. PastNumber(i) = Past(i, DigitChars)
    BY <2>2, DigitsAre DEF PastNumber
  <2>4. Past(i, DigitChars) = Len(a) + Len(b) + 1
    BY <2>1, Scanned
  <2> QED BY <1>3, <2>2, <2>3, <2>4
<1> QED BY <1>2, <1>3

LEMMA LengthScanned ==
  ASSUME NEW a, NEW b, NEW r, Piece(a, b, r), b \in Lengths, First(r) \notin LengthChars
  PROVE  PastLength(Len(a) + 1) = Len(a) + Len(b) + 1
<1> DEFINE i == Len(a) + 1
<1>1. Len(a) \in Nat /\ \A k \in 1..Len(b) : Char(Len(a) + k) = b[k]
  BY PieceIs
<1>2. Char(Len(a) + Len(b) + 1) = First(r)
  BY PieceIs
<1>3. CASE b = <<>>
  <2>1. Len(b) = 0
    BY <1>3
  <2>2. Char(i) \notin LengthChars
    <3>1. Char(i) = First(r)
      BY <1>1, <1>2, <2>1
    <3> QED BY <3>1
  <2>3. PastLength(i) = i
    <3> HIDE DEF i
    <3> QED BY <2>2 DEF PastLength, LengthChars
  <2> QED BY <1>1, <2>1, <2>3
<1>4. ASSUME NEW c \in {"h", "l"}, b = <<c, c>> PROVE PastLength(i) = Len(a) + Len(b) + 1
  <2>1. Len(b) = 2 /\ b[1] = c /\ b[2] = c
    BY <1>4
  <2>2. Char(i) = c /\ Char(i + 1) = c
    <3>1. 1 \in 1..Len(b) /\ 2 \in 1..Len(b) /\ i + 1 = Len(a) + 2
      BY <1>1, <2>1
    <3> QED BY <1>1, <2>1, <3>1
  <2>3. PastLength(i) = i + 2
    <3> HIDE DEF i
    <3> QED BY <2>2 DEF PastLength
  <2> QED BY <1>1, <2>1, <2>3
<1>5. ASSUME NEW c \in LengthChars, b = <<c>> PROVE PastLength(i) = Len(a) + Len(b) + 1
  <2>1. Len(b) = 1 /\ b[1] = c
    BY <1>5
  <2>2. Char(i) = c /\ Char(i + 1) # c
    <3>1. 1 \in 1..Len(b) /\ i + 1 = Len(a) + Len(b) + 1
      BY <1>1, <2>1
    <3> QED BY <1>1, <1>2, <2>1, <3>1
  <2>3. PastLength(i) = i + 1
    <3> HIDE DEF i
    <3>1. CASE c \in {"l", "h"}
      BY <2>2, <3>1 DEF PastLength
    <3>2. CASE c \in {"t", "j", "z"}
      BY <2>2, <3>2 DEF PastLength
    <3> QED BY <3>1, <3>2 DEF LengthChars
  <2> QED BY <1>1, <2>1, <2>3
<1>6. \/ b = <<>> \/ (\E c \in {"h", "l"} : b = <<c, c>>) \/ (\E c \in LengthChars : b = <<c>>)
  BY DEF Lengths, LengthChars
<1> QED BY <1>3, <1>4, <1>5, <1>6

(* The rest of the format string is a directive of these parts. *)
Parts(fl, wd, pr, pd, ln, r) ==
  /\ fl \in Text /\ wd \in Text /\ pr \in Text /\ pd \in Text /\ ln \in Text /\ r \in Text
  /\ format = <<"%">> \o (fl \o (wd \o (pr \o (ln \o r))))
  /\ \A i \in 1..Len(fl) : fl[i] \in FlagChars
  /\ Field(wd) /\ (wd # <<>> => wd[1] # "0")
  /\ Field(pd) /\ pr = IF pr = <<>> THEN pd ELSE <<".">> \o pd
  /\ ln \in Lengths
  /\ First(r) \in EndChars

LEMMA NotEmpty ==
  ASSUME NEW s \in Text, s # <<>>
  PROVE  Len(s) >= 1 /\ 1 \in 1..Len(s)
<1>1. Len(s) \in Nat /\ Len(s) # 0
  BY DEF Text
<1> QED BY <1>1

LEMMA FirstOfLength ==
  ASSUME NEW ln \in Lengths, NEW r \in Text, ln \in Text, First(r) \in EndChars
  PROVE  First(ln \o r) \in EndChars \cup LengthChars
<1>1. ln # <<>> => ln[1] \in LengthChars
  BY DEF Lengths, LengthChars
<1> QED BY <1>1, FirstOf

(* Where the parts of a directive end. *)
Ends(fl, wd, pr, ln, f, w, p, c) ==
  f = Len(fl) + 2 /\ w = f + Len(wd) /\ p = w + Len(pr) /\ c = p + Len(ln)

(* What the scanner finds there. *)
Places(fl, wd, pr, pd, ln, r, f, w, p, c) ==
  /\ f \in Nat /\ w \in Nat /\ p \in Nat /\ c \in Nat
  /\ f >= 2 /\ w >= f /\ p >= w /\ c >= p
  /\ Past(2, FlagChars) = f /\ SubSeq(format, 2, f - 1) = fl
  /\ PastNumber(f) = w /\ SubSeq(format, f, w - 1) = wd
  /\ (Char(f) = "*" <=> wd = <<"*">>)
  /\ (Char(w) = "." <=> pr # <<>>)
  /\ (p > w <=> pr # <<>>)
  /\ pr # <<>> => /\ PastNumber(w + 1) = p /\ (Char(w + 1) = "*" <=> pd = <<"*">>)
                  /\ SubSeq(format, w + 1, p - 1) = pd
  /\ PastLength(p) = c /\ SubSeq(format, p, c - 1) = ln
  /\ (p = c <=> ln = <<>>)
  /\ Char(c) = First(r) /\ Char(1) = "%"
  /\ c <= Len(format) + 1
  /\ Len(format) = (c - 1) + Len(r)

LEMMA Positions ==
  ASSUME NEW fl, NEW wd, NEW pr, NEW pd, NEW ln, NEW r, Parts(fl, wd, pr, pd, ln, r),
         NEW f, NEW w, NEW p, NEW c, Ends(fl, wd, pr, ln, f, w, p, c)
  PROVE  Places(fl, wd, pr, pd, ln, r, f, w, p, c)
<1>0. f = Len(fl) + 2 /\ w = f + Len(wd) /\ p = w + Len(pr) /\ c = p + Len(ln)
  BY DEF Ends
<1> DEFINE r3 == ln \o r
           r2 == pr \o r3
           r1 == wd \o r2
           a1 == <<"%">>
           a2 == a1 \o fl
           a3 == a2 \o wd
           a4 == a3 \o pr
           dot == <<".">>
<1>1. /\ fl \in Text /\ wd \in Text /\ pr \in Text /\ pd \in Text /\ ln \in Text /\ r \in Text
      /\ format = a1 \o (fl \o r1)
      /\ \A i \in 1..Len(fl) : fl[i] \in FlagChars
      /\ Field(wd) /\ (wd # <<>> => wd[1] # "0")
      /\ Field(pd) /\ pr = IF pr = <<>> THEN pd ELSE dot \o pd
      /\ ln \in Lengths
      /\ First(r) \in EndChars
  BY DEF Parts
<1>2. a1 \in Text /\ Len(a1) = 1 /\ dot \in Text /\ Len(dot) = 1 /\ dot[1] = "." /\ a1[1] = "%"
  <2>1. "%" \in Characters /\ "." \in Characters
    BY DEF Characters
  <2> QED BY <2>1, OneCharacter
<1>3. r3 \in Text /\ First(r3) \in EndChars \cup LengthChars
  BY <1>1, FirstOfLength, Joining
<1> HIDE DEF a1, dot
<1>4. r2 \in Text /\ (pr # <<>> => First(r2) = ".") /\ (pr = <<>> => First(r2) = First(r3))
  <2>1. pr # <<>> => pr[1] = "."
    <3> SUFFICES ASSUME pr # <<>> PROVE pr[1] = "."
      OBVIOUS
    <3>1. 1 \in 1..Len(dot) /\ pr = dot \o pd
      BY <1>1, <1>2
    <3>2. (dot \o pd)[1] = dot[1]
      BY <1>1, <1>2, <3>1, Joining
    <3> QED BY <1>2, <3>1, <3>2
  <2> HIDE DEF r3
  <2> QED BY <1>1, <1>3, <2>1, FirstOf, Joining
<1>5. First(r2) \notin DigitChars /\ First(r2) # "*" /\ First(r2) \notin FlagChars
  BY <1>3, <1>4, Kinds
<1>6. r1 \in Text /\ First(r1) \notin FlagChars
  <2>1. wd # <<>> => wd[1] \notin FlagChars
    <3> SUFFICES ASSUME wd # <<>> PROVE wd[1] \notin FlagChars
      OBVIOUS
    <3>1. CASE wd = <<"*">>
      <4>1. wd[1] = "*"
        BY <3>1
      <4> QED BY <4>1, Kinds
    <3>2. CASE AllDigits(wd)
      <4>1. 1 \in 1..Len(wd)
        BY <1>1, NotEmpty
      <4>2. wd[1] \in DigitChars
        BY <3>2, <4>1, DigitsAre DEF AllDigits
      <4> QED BY <1>1, <4>2, Kinds
    <3> QED BY <1>1, <3>1, <3>2 DEF Field
  <2>2. First(r1) = IF wd = <<>> THEN First(r2) ELSE wd[1]
    <3> HIDE DEF r2
    <3> QED BY <1>1, <1>4, FirstOf
  <2>3. r1 \in Text
    <3> HIDE DEF r2
    <3> QED BY <1>1, <1>4, Joining
  <2> HIDE DEF r1, r2
  <2> QED BY <1>5, <2>1, <2>2, <2>3
<1> HIDE DEF r1
<1>7. Piece(a1, fl, r1)
  BY <1>1, <1>2, <1>6 DEF Piece
<1>8. /\ Past(2, FlagChars) = f /\ SubSeq(format, 2, f - 1) = fl /\ f \in Nat /\ f >= 2
      /\ Len(a2) = f - 1 /\ a2 \in Text /\ format = a2 \o r1
  <2>1. Past(Len(a1) + 1, FlagChars) = Len(a1) + Len(fl) + 1
    BY <1>1, <1>6, <1>7, Scanned
  <2>2. SubSeq(format, Len(a1) + 1, Len(a1) + Len(fl)) = fl
    BY <1>7, PieceTaken
  <2>3. Len(fl) \in Nat /\ format = (a1 \o fl) \o r1 /\ a1 \o fl \in Text
        /\ Len(a1 \o fl) = Len(a1) + Len(fl)
    BY <1>7, PieceIs
  <2>4. Len(a1) + 1 = 2 /\ Len(a1) + Len(fl) + 1 = f /\ Len(a1) + Len(fl) = f - 1
    BY <1>0, <1>2, <2>3
  <2> QED BY <2>1, <2>2, <2>3, <2>4
<1> HIDE DEF a2
<1>9. Piece(a2, wd, r2)
  BY <1>1, <1>4, <1>8 DEF Piece, r1
<1>10. /\ PastNumber(f) = w /\ SubSeq(format, f, w - 1) = wd /\ w \in Nat /\ w >= f
       /\ (Char(f) = "*" <=> wd = <<"*">>)
       /\ Char(w) = First(r2)
       /\ Len(a3) = w - 1 /\ a3 \in Text /\ format = a3 \o r2
  <2>1. PastNumber(Len(a2) + 1) = Len(a2) + Len(wd) + 1 /\ (Char(Len(a2) + 1) = "*" <=> wd = <<"*">>)
    <3> HIDE DEF r2
    <3> QED BY <1>1, <1>5, <1>9, FieldScanned
  <2>2. SubSeq(format, Len(a2) + 1, Len(a2) + Len(wd)) = wd
    BY <1>9, PieceTaken
  <2>3. Len(wd) \in Nat /\ format = (a2 \o wd) \o r2 /\ a2 \o wd \in Text
        /\ Len(a2 \o wd) = Len(a2) + Len(wd) /\ Char(Len(a2) + Len(wd) + 1) = First(r2)
    <3> HIDE DEF r2
    <3> QED BY <1>9, PieceIs
  <2>4. Len(a2) + 1 = f /\ Len(a2) + Len(wd) + 1 = w /\ Len(a2) + Len(wd) = w - 1
    BY <1>0, <1>8, <2>3
  <2>5. PastNumber(f) = w /\ SubSeq(format, f, w - 1) = wd /\ (Char(f) = "*" <=> wd = <<"*">>)
        /\ Char(w) = First(r2)
    BY <2>1, <2>2, <2>3, <2>4, Zenon
  <2>6. w \in Nat /\ w >= f /\ Len(a3) = w - 1
    BY <1>0, <1>8, <2>3, <2>4
  <2> HIDE DEF r2
  <2> QED BY <2>3, <2>5, <2>6
<1> HIDE DEF a3
<1>11. Char(w) = "." <=> pr # <<>>
  <2> HIDE DEF r2, r3
  <2> QED BY <1>3, <1>4, <1>10, Kinds
<1>12. Piece(a3, pr, r3)
  BY <1>1, <1>3, <1>10 DEF Piece, r2
<1>13. /\ SubSeq(format, w, p - 1) = pr /\ p \in Nat /\ p >= w /\ (p > w <=> pr # <<>>)
       /\ Len(a4) = p - 1 /\ a4 \in Text /\ format = a4 \o r3
  <2>1. SubSeq(format, Len(a3) + 1, Len(a3) + Len(pr)) = pr
    BY <1>12, PieceTaken
  <2>2. Len(pr) \in Nat /\ format = (a3 \o pr) \o r3 /\ a3 \o pr \in Text
        /\ Len(a3 \o pr) = Len(a3) + Len(pr)
    <3> HIDE DEF r3
    <3> QED BY <1>12, PieceIs
  <2>3. Len(a3) + 1 = w /\ Len(a3) + Len(pr) = p - 1
    BY <1>0, <1>10, <2>2
  <2>4. pr # <<>> <=> Len(pr) # 0
    BY <1>1 DEF Text
  <2> HIDE DEF r3
  <2> QED BY SMTT(30), <1>0, <1>10, <2>1, <2>2, <2>3, <2>4
<1>14. ASSUME pr # <<>>
       PROVE  /\ PastNumber(w + 1) = p /\ (Char(w + 1) = "*" <=> pd = <<"*">>)
              /\ SubSeq(format, w + 1, p - 1) = pd
  <2> DEFINE b == a3 \o dot
             u == pd \o r3
  <2>0. pr = dot \o pd
    BY <1>1, <1>14
  <2>1. pr \o r3 = dot \o u
    <3>1. (dot \o pd) \o r3 = dot \o (pd \o r3)
      <4> HIDE DEF r3
      <4>1. dot \in Text /\ pd \in Text /\ r3 \in Text
        BY <1>1, <1>2, <1>3
      <4> QED BY <4>1, JoiningAssociates
    <3> QED BY <2>0, <3>1
  <2>2. u \in Text
    <3> HIDE DEF r3
    <3> QED BY <1>1, <1>3, Joining
  <2>3. Piece(a3, dot, u)
    BY <1>2, <1>10, <2>1, <2>2 DEF Piece, r2
  <2>4. b \in Text /\ Len(b) = w /\ format = b \o u
    <3> HIDE DEF u
    <3>1. /\ format = (a3 \o dot) \o u /\ a3 \o dot \in Text
          /\ Len(a3 \o dot) = Len(a3) + Len(dot)
      BY <2>3, PieceIs
    <3> QED BY <1>2, <1>10, <3>1
  <2> HIDE DEF b
  <2>5. Piece(b, pd, r3)
    BY <1>1, <1>3, <2>4 DEF Piece
  <2>6. First(r3) \notin DigitChars /\ First(r3) # "*"
    BY <1>3, Kinds
  <2>7. PastNumber(Len(b) + 1) = Len(b) + Len(pd) + 1 /\ (Char(Len(b) + 1) = "*" <=> pd = <<"*">>)
    <3> HIDE DEF r3
    <3> QED BY <1>1, <2>5, <2>6, FieldScanned
  <2>9. SubSeq(format, Len(b) + 1, Len(b) + Len(pd)) = pd
    BY <2>5, PieceTaken
  <2>10. Len(pr) = 1 + Len(pd) /\ Len(pd) \in Nat
    <3>1. Len(dot \o pd) = Len(dot) + Len(pd) /\ Len(pd) \in Nat
      BY <1>1, <1>2, Joining, Lengths0
    <3> QED BY <1>2, <2>0, <3>1
  <2>11. Len(b) + 1 = w + 1 /\ Len(b) + Len(pd) + 1 = p /\ Len(b) + Len(pd) = p - 1
    BY <1>0, <1>10, <2>4, <2>10
  <2> QED BY <2>7, <2>9, <2>11
<1> HIDE DEF a4
<1>15. Piece(a4, ln, r)
  BY <1>1, <1>13 DEF Piece, r3
<1>16. /\ PastLength(p) = c /\ SubSeq(format, p, c - 1) = ln /\ c \in Nat /\ c >= p
       /\ (p = c <=> ln = <<>>) /\ Char(c) = First(r) /\ Len(format) = (c - 1) + Len(r)
       /\ c <= Len(format) + 1
  <2>1. PastLength(Len(a4) + 1) = Len(a4) + Len(ln) + 1
    <3>1. First(r) \notin LengthChars
      BY <1>1, Kinds
    <3> QED BY <1>1, <1>15, <3>1, LengthScanned
  <2>2. SubSeq(format, Len(a4) + 1, Len(a4) + Len(ln)) = ln
    BY <1>15, PieceTaken
  <2>3. /\ Len(ln) \in Nat /\ Char(Len(a4) + Len(ln) + 1) = First(r)
        /\ Len(r) \in Nat /\ Len(format) = Len(a4) + Len(ln) + Len(r)
    BY <1>15, PieceIs
  <2>4. Len(a4) + 1 = p /\ Len(a4) + Len(ln) + 1 = c /\ Len(a4) + Len(ln) = c - 1
    BY <1>0, <1>13, <2>3
  <2>5. ln = <<>> <=> Len(ln) = 0
    BY <1>1 DEF Text
  <2>6. PastLength(p) = c /\ SubSeq(format, p, c - 1) = ln /\ Char(c) = First(r)
    BY <2>1, <2>2, <2>3, <2>4, Zenon
  <2>7. c \in Nat /\ c >= p /\ Len(format) = (c - 1) + Len(r) /\ c <= Len(format) + 1
    BY SMTT(30), <1>0, <1>13, <2>3, <2>4
  <2>8. p = c <=> Len(ln) = 0
    BY SMTT(30), <1>0, <1>13, <2>3
  <2> QED BY <2>5, <2>6, <2>7, <2>8
<1>17. Char(1) = "%"
  <2>1. Piece(<<>>, a1, fl \o r1)
    <3>1. fl \o r1 \in Text
      BY <1>1, <1>6, Joining
    <3>2. <<>> \o (a1 \o (fl \o r1)) = a1 \o (fl \o r1) /\ <<>> \in Text
      BY <1>2, <3>1, Joining, JoiningNothing
    <3> QED BY <1>1, <1>2, <3>1, <3>2 DEF Piece
  <2>2. \A i \in 1..Len(a1) : Char(Len(<<>>) + i) = a1[i]
    BY <2>1, PieceIs
  <2>3. 1 \in 1..Len(a1) /\ Len(<<>>) + 1 = 1
    BY <1>2
  <2> QED BY <1>2, <2>2, <2>3
<1> HIDE DEF r2, r3
<1> QED BY <1>8, <1>10, <1>11, <1>13, <1>14, <1>16, <1>17 DEF Places

LengthType(ln) ==
  CASE ln = <<"h", "h">> -> "hh" [] ln = <<"h">> -> "h" [] ln = <<>> -> "int" [] OTHER -> "l"

Stars(wd, pd) == (IF wd = <<"*">> THEN 1 ELSE 0) + (IF pd = <<"*">> THEN 1 ELSE 0)

(* The directive that Parse finds. *)
Found(fl, wd, pr, pd, ln, r, wv, pv) ==
  [flags |-> Range(fl) \cup (IF wv < 0 THEN {"-"} ELSE {}) \cup (IF pr # <<>> THEN {"."} ELSE {}),
   width |-> IF wv < 0 THEN -wv ELSE wv,
   precision |-> IF pr # <<>> /\ pv > 0 THEN pv ELSE 0,
   type |-> LengthType(ln),
   conversion |-> First(r),
   end |-> Len(fl) + 2 + Len(wd) + Len(pr) + Len(ln),
   stars |-> Stars(wd, pd)]

LEMMA ParseIs ==
  ASSUME NEW fl, NEW wd, NEW pr, NEW pd, NEW ln, NEW r, Parts(fl, wd, pr, pd, ln, r),
         NEW wv, wv = IF wd = <<"*">> THEN args[1] ELSE atou_(wd),
         NEW pv, pv = IF pd = <<"*">> THEN args[Stars(wd, pd)] ELSE atou_(pd)
  PROVE  /\ Parse = Found(fl, wd, pr, pd, ln, r, wv, pv)
         /\ (Char(Past(2, FlagChars)) = "*" <=> wd = <<"*">>)
<1> DEFINE f == Past(2, FlagChars)
           w == PastNumber(f)
           p == IF Char(w) = "." THEN PastNumber(w + 1) ELSE w
           c == PastLength(p)
           before == IF Char(f) = "*" THEN 1 ELSE 0
           stars == IF p > w /\ Char(w + 1) = "*" THEN before + 1 ELSE before
           width == IF before = 1 THEN args[1] ELSE atou_(SubSeq(format, f, w - 1))
           precision == IF stars > before THEN args[stars]
                        ELSE atou_(SubSeq(format, w + 1, p - 1))
           F == Len(fl) + 2
           W == F + Len(wd)
           P == W + Len(pr)
           C == P + Len(ln)
<1>0. F = Len(fl) + 2 /\ W = F + Len(wd) /\ P = W + Len(pr) /\ C = P + Len(ln)
  OBVIOUS
<1>1. /\ F \in Nat /\ W \in Nat /\ P \in Nat /\ C \in Nat
      /\ Past(2, FlagChars) = F /\ SubSeq(format, 2, F - 1) = fl
      /\ PastNumber(F) = W /\ SubSeq(format, F, W - 1) = wd
      /\ (Char(F) = "*" <=> wd = <<"*">>)
      /\ (Char(W) = "." <=> pr # <<>>)
      /\ (P > W <=> pr # <<>>)
      /\ pr # <<>> => /\ PastNumber(W + 1) = P /\ (Char(W + 1) = "*" <=> pd = <<"*">>)
                      /\ SubSeq(format, W + 1, P - 1) = pd
      /\ PastLength(P) = C /\ SubSeq(format, P, C - 1) = ln
      /\ (P = C <=> ln = <<>>)
      /\ Char(C) = First(r)
  <2> HIDE DEF F, W, P, C
  <2>1. Ends(fl, wd, pr, ln, F, W, P, C)
    BY <1>0 DEF Ends
  <2>2. Places(fl, wd, pr, pd, ln, r, F, W, P, C)
    BY <2>1, Positions
  <2> QED BY <2>2 DEF Places
<1>2. pr = <<>> => P = W
  <2>1. Len(<<>>) = 0
    OBVIOUS
  <2> HIDE DEF F
  <2> QED BY <1>1, <2>1
<1> HIDE DEF F, W, P, C
<1>3. f = F /\ w = W
  BY <1>1
<1>4. p = P
  <2> HIDE DEF f, w
  <2> QED BY <1>1, <1>2, <1>3
<1>5. c = C
  <2> HIDE DEF f, w, p
  <2> QED BY <1>1, <1>4
<1> HIDE DEF f, w, p, c
<1>6. before = IF wd = <<"*">> THEN 1 ELSE 0
  BY <1>1, <1>3
<1>7. stars = before + (IF pd = <<"*">> THEN 1 ELSE 0) /\ before \in {0, 1}
  <2>1. pr = <<>> => pd # <<"*">>
    <3>1. pr = <<>> => pd = <<>>
      BY DEF Parts
    <3> QED BY <3>1
  <2>2. p > w <=> pr # <<>>
    BY <1>1, <1>3, <1>4
  <2>3. pr # <<>> => (Char(w + 1) = "*" <=> pd = <<"*">>)
    BY <1>1, <1>3
  <2>4. before \in {0, 1}
    BY <1>6
  <2> HIDE DEF before
  <2> QED BY <2>1, <2>2, <2>3, <2>4
<1>8. width = wv
  <2>1. wd = <<"*">> => width = wv
    <3> HIDE DEF before
    <3> QED BY <1>6
  <2>2. wd # <<"*">> => width = wv
    <3>1. SubSeq(format, f, w - 1) = wd
      BY <1>1, <1>3
    <3> SUFFICES ASSUME wd # <<"*">> PROVE width = wv
      OBVIOUS
    <3>2. before # 1
      BY <1>6
    <3>3. width = atou_(SubSeq(format, f, w - 1))
      BY <3>2
    <3>4. wv = atou_(wd)
      OBVIOUS
    <3> HIDE DEF before, width
    <3> QED BY <3>1, <3>3, <3>4
  <2> QED BY <2>1, <2>2
<1>s. stars = Stars(wd, pd)
  BY <1>6, <1>7 DEF Stars
<1>9. pr # <<>> => precision = pv
  <2>1. stars > before <=> pd = <<"*">>
    <3> HIDE DEF stars, before
    <3> QED BY <1>7
  <2>2. CASE pd = <<"*">>
    <3> HIDE DEF stars, before
    <3> QED BY <1>s, <2>1, <2>2
  <2>3. CASE pd # <<"*">>
    <3>1. precision = atou_(SubSeq(format, w + 1, p - 1))
      <4> HIDE DEF stars, before
      <4> QED BY <2>1, <2>3
    <3>2. pr # <<>> => SubSeq(format, w + 1, p - 1) = pd
      BY <1>1, <1>3, <1>4
    <3>3. pv = atou_(pd)
      BY <2>3
    <3> HIDE DEF precision
    <3> QED BY <3>1, <3>2, <3>3
  <2> QED BY <2>2, <2>3
<1>10. p > w <=> pr # <<>>
  BY <1>1, <1>3, <1>4
<1>11. Range(SubSeq(format, 2, f - 1)) = Range(fl)
  BY <1>1, <1>3
<1>12. SubSeq(format, p, c - 1) = ln /\ (p = c <=> ln = <<>>) /\ Char(c) = First(r)
  BY <1>1, <1>4, <1>5
<1>13. Parse =
         [flags |-> Range(SubSeq(format, 2, f - 1))
                      \cup (IF width < 0 THEN {"-"} ELSE {})
                      \cup (IF p > w THEN {"."} ELSE {}),
          width |-> IF width < 0 THEN -width ELSE width,
          precision |-> IF p > w /\ precision > 0 THEN precision ELSE 0,
          type |-> CASE SubSeq(format, p, c - 1) = <<"h", "h">> -> "hh"
                     [] SubSeq(format, p, c - 1) = <<"h">> -> "h"
                     [] p = c -> "int"
                     [] OTHER -> "l",
          conversion |-> Char(c),
          end |-> c,
          stars |-> stars]
  BY Zenon DEF Parse, f, w, p, c, stars, before, width, precision
<1> HIDE DEF stars, before, width, precision
<1>14. (CASE SubSeq(format, p, c - 1) = <<"h", "h">> -> "hh"
          [] SubSeq(format, p, c - 1) = <<"h">> -> "h"
          [] p = c -> "int"
          [] OTHER -> "l") = LengthType(ln)
  BY <1>12 DEF LengthType
<1>15. (IF p > w /\ precision > 0 THEN precision ELSE 0)
         = (IF pr # <<>> /\ pv > 0 THEN pv ELSE 0)
  <2> HIDE DEF precision, p, w
  <2> QED BY <1>9, <1>10
<1>16. c = Len(fl) + 2 + Len(wd) + Len(pr) + Len(ln)
  BY <1>1, <1>5 DEF F, W, P, C
<1>17. (IF p > w THEN {"."} ELSE {}) = (IF pr # <<>> THEN {"."} ELSE {})
  BY <1>10
<1>18. Char(Past(2, FlagChars)) = "*" <=> wd = <<"*">>
  BY <1>1
<1>19. Parse = Found(fl, wd, pr, pd, ln, r, wv, pv)
  BY <1>8, <1>11, <1>12, <1>13, <1>14, <1>15, <1>16, <1>17, <1>s DEF Found
<1> QED BY <1>18, <1>19

LEMMA SubText ==
  ASSUME NEW S, S \subseteq Characters, NEW s \in Seq(S)
  PROVE  s \in Text
<1>1. Len(s) \in Nat /\ DOMAIN s = 1..Len(s) /\ \A i \in 1..Len(s) : s[i] \in S
  OBVIOUS
<1>2. s = [i \in 1..Len(s) |-> s[i]]
  OBVIOUS
<1>3. [i \in 1..Len(s) |-> s[i]] \in Seq(Characters)
  BY <1>1
<1> QED BY <1>2, <1>3 DEF Text

(* What is left after a part of a sequence. *)
LEMMA Suffix ==
  ASSUME NEW E, NEW a \in Seq(E), NEW b \in Seq(E)
  PROVE  SubSeq(a \o b, Len(a) + 1, Len(a \o b)) = b
<1> DEFINE s == a \o b
           t == SubSeq(s, Len(a) + 1, Len(s))
<1>1. s \in Seq(E) /\ Len(s) = Len(a) + Len(b) /\ Len(a) \in Nat /\ Len(b) \in Nat
      /\ \A i \in 1..Len(b) : s[Len(a) + i] = b[i]
  OBVIOUS
<1> HIDE DEF s
<1>2. t \in Seq(E) /\ Len(t) = Len(b) /\ \A i \in 1..Len(b) : t[i] = s[Len(a) + i]
  BY <1>1, SubSeqProperties
<1> HIDE DEF t
<1>3. \A i \in 1..Len(b) : t[i] = b[i]
  BY <1>1, <1>2
<1>4. t = b
  BY <1>2, <1>3, SeqEqual
<1> QED BY <1>4 DEF t, s

(* The parts of the directive d. *)
WidthPart(d) == IF d.star THEN <<"*">> ELSE Numeral(d.width)
PrecisionField(d) == IF d.dot_star THEN <<"*">> ELSE Numeral(d.precision)
NoPrecision(d) == ~ d.dot_star /\ d.precision = None
PrecisionPart(d) == IF NoPrecision(d) THEN <<>> ELSE <<".">> \o PrecisionField(d)
Proper(d) == DirectiveOK(d) /\ ~ d.plain /\ d.conversion \in Converts

LEMMA ProperIs ==
  ASSUME FormatAssumption, NEW d, Proper(d)
  PROVE  /\ ~ d.plain /\ d.conversion \in Converts /\ d.flags \in Seq(FlagChars)
         /\ d.star \in BOOLEAN /\ d.dot_star \in BOOLEAN
         /\ d.width \in Int /\ (~ d.star => d.width = None \/ d.width > 0)
         /\ d.precision \in Int /\ (~ d.dot_star => d.precision \in Nat \cup {None})
         /\ d.length \in Lengths
<1>1. INT_MIN..INT_MAX \subseteq Int
  BY SizesAre
<1>2. /\ d.star \in BOOLEAN /\ d.dot_star \in BOOLEAN
      /\ d.width \in IF d.star THEN INT_MIN..INT_MAX ELSE (Nat \ {0}) \cup {None}
      /\ d.precision \in IF d.dot_star THEN INT_MIN..INT_MAX ELSE Nat \cup {None}
  BY DEF Proper, DirectiveOK
<1>3. d.width \in Int /\ (~ d.star => d.width = None \/ d.width > 0)
  <2>1. CASE d.star
    <3>1. d.width \in INT_MIN..INT_MAX
      BY <1>2, <2>1
    <3> QED BY <1>1, <2>1, <3>1
  <2>2. CASE ~ d.star
    <3>1. d.width \in (Nat \ {0}) \cup {None}
      BY <1>2, <2>2
    <3> QED BY <3>1 DEF None
  <2> QED BY <1>2, <2>1, <2>2
<1>4. d.precision \in Int /\ (~ d.dot_star => d.precision \in Nat \cup {None})
  <2>1. CASE d.dot_star
    <3>1. d.precision \in INT_MIN..INT_MAX
      BY <1>2, <2>1
    <3> QED BY <1>1, <2>1, <3>1
  <2>2. CASE ~ d.dot_star
    <3>1. d.precision \in Nat \cup {None}
      BY <1>2, <2>2
    <3> QED BY <2>2, <3>1 DEF None
  <2> QED BY <1>2, <2>1, <2>2
<1> QED BY <1>2, <1>3, <1>4 DEF Proper, DirectiveOK

(* A number is not a star. *)
LEMMA StarIs ==
  ASSUME NEW n \in Int, n = None \/ n \in Nat
  PROVE  Numeral(n) # <<"*">>
<1>1. AllDigits(Numeral(n))
  BY NumeralIs, NoDigits
<1> SUFFICES ASSUME Numeral(n) = <<"*">> PROVE FALSE
  OBVIOUS
<1>2. 1 \in 1..Len(Numeral(n)) /\ Numeral(n)[1] = "*"
  OBVIOUS
<1> QED BY <1>1, <1>2, DigitsAre, Kinds DEF AllDigits

LEMMA PartsText ==
  ASSUME FormatAssumption, NEW d, Proper(d)
  PROVE  /\ d.flags \in Text /\ \A i \in 1..Len(d.flags) : d.flags[i] \in FlagChars
         /\ WidthPart(d) \in Text /\ Field(WidthPart(d))
         /\ WidthPart(d) # <<>> => WidthPart(d)[1] # "0"
         /\ Field(PrecisionField(d)) /\ PrecisionField(d) \in Text
         /\ PrecisionPart(d) \in Text
         /\ PrecisionPart(d) = IF PrecisionPart(d) = <<>> THEN PrecisionField(d)
                               ELSE <<".">> \o PrecisionField(d)
         /\ PrecisionPart(d) = <<>> <=> NoPrecision(d)
         /\ d.length \in Text /\ d.length \in Lengths
         /\ <<d.conversion>> \in Text /\ Len(<<d.conversion>>) = 1
         /\ <<"%">> \in Text /\ Len(<<"%">>) = 1
<1>1. /\ d.flags \in Seq(FlagChars) /\ d.star \in BOOLEAN /\ d.width \in Int
      /\ (~ d.star => d.width = None \/ d.width > 0)
      /\ d.dot_star \in BOOLEAN /\ (~ d.dot_star => d.precision \in Nat \cup {None})
      /\ d.length \in Lengths /\ d.conversion \in Converts
  BY ProperIs
<1>2. d.flags \in Text
  <2>1. FlagChars \subseteq Characters
    BY DEF FlagChars, Characters
  <2> QED BY <1>1, <2>1, SubText
<1>3. \A i \in 1..Len(d.flags) : d.flags[i] \in FlagChars
  BY <1>1
<1>4. <<"*">> \in Text /\ <<".">> \in Text /\ <<"%">> \in Text /\ Len(<<"%">>) = 1
      /\ Len(<<".">>) = 1 /\ <<"*">>[1] = "*"
  <2>1. "*" \in Characters /\ "." \in Characters /\ "%" \in Characters
    BY DEF Characters
  <2> QED BY <2>1, OneCharacter
<1>5. /\ WidthPart(d) \in Text /\ Field(WidthPart(d))
      /\ WidthPart(d) # <<>> => WidthPart(d)[1] # "0"
  <2>1. CASE d.star
    <3>1. WidthPart(d) = <<"*">>
      BY <2>1 DEF WidthPart
    <3> QED BY <1>4, <3>1 DEF Field
  <2>2. CASE ~ d.star /\ d.width = None
    <3>1. WidthPart(d) = <<>>
      BY <2>2, NumeralIs DEF WidthPart
    <3> QED BY <3>1, NoDigits DEF Field, AllDigits
  <2>3. CASE ~ d.star /\ d.width > 0
    <3>1. WidthPart(d) = Numeral(d.width) /\ d.width \in Nat
      BY <1>1, <2>3 DEF WidthPart
    <3>2. AllDigits(Numeral(d.width)) /\ Numeral(d.width)[1] # "0"
      BY <2>3, <3>1, NumeralIs
    <3> QED BY <3>1, <3>2 DEF Field, AllDigits
  <2> QED BY <1>1, <2>1, <2>2, <2>3
<1>6. /\ Field(PrecisionField(d)) /\ PrecisionField(d) \in Text
      /\ NoPrecision(d) => PrecisionField(d) = <<>>
  <2>1. CASE d.dot_star
    BY <1>4, <2>1 DEF PrecisionField, NoPrecision, Field
  <2>2. CASE ~ d.dot_star
    <3>1. PrecisionField(d) = Numeral(d.precision)
      BY <2>2 DEF PrecisionField
    <3>2. AllDigits(Numeral(d.precision)) /\ (d.precision = None => Numeral(d.precision) = <<>>)
      BY <1>1, <2>2, NumeralIs, NoDigits
    <3> QED BY <3>1, <3>2 DEF AllDigits, Field, NoPrecision
  <2> QED BY <1>1, <2>1, <2>2
<1>7. /\ PrecisionPart(d) \in Text
      /\ PrecisionPart(d) = <<>> <=> NoPrecision(d)
      /\ PrecisionPart(d) = IF PrecisionPart(d) = <<>> THEN PrecisionField(d)
                            ELSE <<".">> \o PrecisionField(d)
  <2>1. CASE NoPrecision(d)
    BY <1>6, <2>1, JoiningNothing DEF PrecisionPart
  <2>2. CASE ~ NoPrecision(d)
    <3>1. PrecisionPart(d) = <<".">> \o PrecisionField(d)
      BY <2>2 DEF PrecisionPart
    <3>2. PrecisionPart(d) \in Text /\ Len(PrecisionPart(d)) = 1 + Len(PrecisionField(d))
      BY <1>4, <1>6, <3>1, Joining
    <3>3. Len(PrecisionPart(d)) # 0
      BY <1>6, <3>2, Lengths0
    <3>4. PrecisionPart(d) # <<>>
      BY <3>3
    <3> QED BY <2>2, <3>1, <3>2, <3>4
  <2> QED BY <2>1, <2>2
<1>8. d.length \in Text
  <2>1. "h" \in Characters /\ "l" \in Characters /\ "t" \in Characters /\ "j" \in Characters
        /\ "z" \in Characters
    BY DEF Characters
  <2>2. Lengths \subseteq Text
    BY <2>1 DEF Lengths, Text
  <2> QED BY <1>1, <2>2
<1>9. d.conversion \in Characters
  BY <1>1 DEF Converts, Integral, Characters
<1> QED BY <1>1, <1>2, <1>3, <1>4, <1>5, <1>6, <1>7, <1>8, <1>9, OneCharacter

(* The directive as written is its parts. *)
LEMMA WrittenParts ==
  ASSUME FormatAssumption, NEW d, Proper(d)
  PROVE  Written(d) = <<"%">> \o d.flags \o WidthPart(d) \o PrecisionPart(d) \o d.length
                        \o <<d.conversion>>
<1>1. ~ d.plain /\ d.conversion # "%" /\ d.dot_star \in BOOLEAN
  BY ProperIs DEF Converts, Integral
<1>2. CASE d.dot_star
  <2>1. PrecisionPart(d) = <<".">> \o <<"*">>
    BY <1>2 DEF PrecisionPart, PrecisionField, NoPrecision
  <2>2. <<".">> \o <<"*">> = <<".", "*">>
    <3>1. "." \in Characters /\ "*" \in Characters
      BY DEF Characters
    <3> QED BY <3>1, TwoCharacters
  <2>3. PrecisionPart(d) = <<".", "*">>
    BY <2>1, <2>2
  <2> QED BY <1>1, <1>2, <2>3 DEF Written, WidthPart
<1>3. CASE NoPrecision(d)
  <2>1. PrecisionPart(d) = <<>> /\ ~ d.dot_star /\ d.precision = None
    BY <1>3 DEF PrecisionPart, NoPrecision
  <2> QED BY <1>1, <2>1 DEF Written, WidthPart
<1>4. CASE ~ d.dot_star /\ d.precision # None
  <2>1. PrecisionPart(d) = <<".">> \o Numeral(d.precision)
    BY <1>4 DEF PrecisionPart, PrecisionField, NoPrecision
  <2> QED BY <1>1, <1>4, <2>1 DEF Written, WidthPart
<1> QED BY <1>1, <1>2, <1>3, <1>4 DEF NoPrecision

LEMMA WrittenIs ==
  ASSUME FormatAssumption, NEW d, Proper(d)
  PROVE  /\ Written(d) \in Text
         /\ Len(Written(d)) = Len(d.flags) + 2 + Len(WidthPart(d)) + Len(PrecisionPart(d))
                                + Len(d.length)
<1> DEFINE fl == d.flags
           wd == WidthPart(d)
           pr == PrecisionPart(d)
           ln == d.length
           c == <<d.conversion>>
           z == <<"%">>
<1>0. d.conversion \in Converts
  BY DEF Proper
<1>1. Written(d) = z \o fl \o wd \o pr \o ln \o c
  BY WrittenParts
<1>2. z \in Text /\ fl \in Text /\ wd \in Text /\ pr \in Text /\ ln \in Text /\ c \in Text
      /\ Len(z) = 1 /\ Len(c) = 1
  BY PartsText
<1> HIDE DEF fl, wd, pr, ln, c, z
<1>3. /\ z \o fl \in Text /\ Len(z \o fl) = 1 + Len(fl)
      /\ z \o fl \o wd \in Text /\ Len(z \o fl \o wd) = 1 + Len(fl) + Len(wd)
      /\ z \o fl \o wd \o pr \in Text /\ Len(z \o fl \o wd \o pr) = 1 + Len(fl) + Len(wd) + Len(pr)
  <2>1. z \o fl \in Text /\ Len(z \o fl) = 1 + Len(fl)
    <3>1. z \o fl \in Text /\ Len(z \o fl) = Len(z) + Len(fl)
      BY <1>2, Joining
    <3> QED BY <1>2, <3>1
  <2>2. (z \o fl) \o wd \in Text /\ Len((z \o fl) \o wd) = Len(z \o fl) + Len(wd)
    BY <1>2, <2>1, Joining
  <2>3. ((z \o fl) \o wd) \o pr \in Text
        /\ Len(((z \o fl) \o wd) \o pr) = Len((z \o fl) \o wd) + Len(pr)
    BY <1>2, <2>2, Joining
  <2> QED BY <2>1, <2>2, <2>3
<1>4. /\ z \o fl \o wd \o pr \o ln \in Text
      /\ Len(z \o fl \o wd \o pr \o ln) = 1 + Len(fl) + Len(wd) + Len(pr) + Len(ln)
      /\ z \o fl \o wd \o pr \o ln \o c \in Text
      /\ Len(z \o fl \o wd \o pr \o ln \o c) = 2 + Len(fl) + Len(wd) + Len(pr) + Len(ln)
  <2>1. (z \o fl \o wd \o pr) \o ln \in Text
        /\ Len((z \o fl \o wd \o pr) \o ln) = Len(z \o fl \o wd \o pr) + Len(ln)
    BY <1>2, <1>3, Joining
  <2>2. (z \o fl \o wd \o pr \o ln) \o c \in Text
        /\ Len((z \o fl \o wd \o pr \o ln) \o c) = Len(z \o fl \o wd \o pr \o ln) + Len(c)
    BY <1>2, <2>1, Joining
  <2>3. Len(fl) \in Nat /\ Len(wd) \in Nat /\ Len(pr) \in Nat /\ Len(ln) \in Nat
    BY <1>2, Lengths0
  <2> QED BY <1>2, <1>3, <2>1, <2>2, <2>3
<1>5. Len(Written(d)) = Len(fl) + 2 + Len(wd) + Len(pr) + Len(ln)
  <2>1. Len(fl) \in Nat /\ Len(wd) \in Nat /\ Len(pr) \in Nat /\ Len(ln) \in Nat
    BY <1>2, Lengths0
  <2> QED BY <1>1, <1>4, <2>1
<1> QED BY <1>1, <1>4, <1>5 DEF fl, wd, pr, ln

LEMMA DirectiveParts ==
  ASSUME FormatAssumption, NEW d, Proper(d), NEW rest \in Text, format = Written(d) \o rest
  PROVE  Parts(d.flags, WidthPart(d), PrecisionPart(d), PrecisionField(d), d.length,
               <<d.conversion>> \o rest)
<1> DEFINE fl == d.flags
           wd == WidthPart(d)
           pr == PrecisionPart(d)
           ln == d.length
           c == <<d.conversion>>
           z == <<"%">>
           r == c \o rest
<1>0. d.conversion \in Converts
  BY DEF Proper
<1>1. Written(d) = z \o fl \o wd \o pr \o ln \o c
  BY WrittenParts
<1>2. z \in Text /\ fl \in Text /\ wd \in Text /\ pr \in Text /\ ln \in Text /\ c \in Text
      /\ Len(z) = 1 /\ Len(c) = 1
  BY PartsText
<1>c. c # <<>> /\ c[1] = d.conversion
  OBVIOUS
<1> HIDE DEF fl, wd, pr, ln, c, z
<1>3. z \o fl \in Text /\ z \o fl \o wd \in Text /\ z \o fl \o wd \o pr \in Text
  <2>1. z \o fl \in Text
    BY <1>2, Joining
  <2>2. (z \o fl) \o wd \in Text
    BY <1>2, <2>1, Joining
  <2> QED BY <1>2, <2>1, <2>2, Joining
<1>4. z \o fl \o wd \o pr \o ln \in Text
  BY <1>2, <1>3, Joining
<1>5. r \in Text /\ ln \o r \in Text /\ pr \o (ln \o r) \in Text /\ wd \o (pr \o (ln \o r)) \in Text
  <2>1. r \in Text
    BY <1>2, Joining
  <2> HIDE DEF r
  <2>2. ln \o r \in Text
    BY <1>2, <2>1, Joining
  <2>3. pr \o (ln \o r) \in Text
    BY <1>2, <2>2, Joining
  <2> QED BY <1>2, <2>1, <2>2, <2>3, Joining
<1>6. format = z \o (fl \o (wd \o (pr \o (ln \o r))))
  <2> DEFINE a1 == z \o fl
             a2 == a1 \o wd
             a3 == a2 \o pr
             a4 == a3 \o ln
             r1 == ln \o r
             r2 == pr \o r1
             r3 == wd \o r2
  <2>0. /\ a1 \in Text /\ a2 \in Text /\ a3 \in Text /\ a4 \in Text
        /\ r \in Text /\ r1 \in Text /\ r2 \in Text /\ r3 \in Text
    BY <1>3, <1>4, <1>5
  <2>1. (a4 \o c) \o rest = a4 \o (c \o rest)
    <3> HIDE DEF a1, a2, a3, a4, r, r1, r2, r3
    <3>1. a4 \in Text /\ c \in Text /\ rest \in Text
      BY <1>2, <2>0
    <3> QED BY <3>1, JoiningAssociates
  <2>2. (a3 \o ln) \o r = a3 \o (ln \o r)
    <3> HIDE DEF a1, a2, a3, a4, r, r1, r2, r3
    <3>1. a3 \in Text /\ ln \in Text /\ r \in Text
      BY <1>2, <2>0
    <3> QED BY <3>1, JoiningAssociates
  <2>3. (a2 \o pr) \o r1 = a2 \o (pr \o r1)
    <3> HIDE DEF a1, a2, a3, a4, r, r1, r2, r3
    <3>1. a2 \in Text /\ pr \in Text /\ r1 \in Text
      BY <1>2, <2>0
    <3> QED BY <3>1, JoiningAssociates
  <2>4. (a1 \o wd) \o r2 = a1 \o (wd \o r2)
    <3> HIDE DEF a1, a2, a3, a4, r, r1, r2, r3
    <3>1. a1 \in Text /\ wd \in Text /\ r2 \in Text
      BY <1>2, <2>0
    <3> QED BY <3>1, JoiningAssociates
  <2>5. (z \o fl) \o r3 = z \o (fl \o r3)
    <3> HIDE DEF a1, a2, a3, a4, r, r1, r2, r3
    <3>1. z \in Text /\ fl \in Text /\ r3 \in Text
      BY <1>2, <2>0
    <3> QED BY <3>1, JoiningAssociates
  <2>6. format = (a4 \o c) \o rest
    BY <1>1
  <2> QED BY Zenon, <2>1, <2>2, <2>3, <2>4, <2>5, <2>6
<1>7. First(r) = d.conversion
  BY <1>2, <1>c, FirstOf DEF r
<1>8. First(r) \in EndChars
  BY <1>0, <1>7 DEF EndChars
<1>9. Parts(fl, wd, pr, PrecisionField(d), ln, r)
  <2>1. /\ \A i \in 1..Len(fl) : fl[i] \in FlagChars
        /\ Field(wd) /\ (wd # <<>> => wd[1] # "0")
        /\ Field(PrecisionField(d)) /\ PrecisionField(d) \in Text
        /\ pr = IF pr = <<>> THEN PrecisionField(d) ELSE <<".">> \o PrecisionField(d)
        /\ ln \in Lengths
    BY PartsText DEF fl, wd, pr, ln
  <2> HIDE DEF r
  <2> QED BY <1>2, <1>5, <1>6, <1>8, <2>1 DEF Parts, z
<1> QED BY <1>9 DEF fl, wd, pr, ln, c, r

(* A directive as it is read: its numbers are those that the program has,  *)
(* and a precision in an argument is as good as one in the format string.  *)
Real(d) ==
  /\ ~ d.plain /\ d.conversion \in Converts
  /\ d.flags \in Seq(FlagChars)
  /\ d.star \in BOOLEAN
  /\ d.width \in Int /\ (~ d.star => d.width = None \/ d.width > 0)
  /\ d.precision \in Nat \cup {None}
  /\ d.length \in Lengths
  /\ d.conversion \in Integral => d.arg \in Int
  /\ d.conversion = "c" => d.arg \in STRING
  /\ d.conversion = "s" => d.arg \in Seq(STRING)
  /\ d.conversion \in {"c", "s"} => Range(d.flags) \subseteq {"-"}
  /\ d.conversion = "p" =>
       d.arg \in Nat /\ d.flags = <<>> /\ d.precision = None /\ d.width = None /\ ~ d.star

(* What the program reads of such a directive. *)
ReadFlags(d) == StandardFlags(d) \cup (IF d.precision = None THEN {} ELSE {"."})
ReadWidth(d) ==
  IF d.star THEN IF d.width < 0 THEN -d.width ELSE d.width
  ELSE IF d.width = None THEN 0 ELSE d.width
ReadPrecision(d) == IF d.precision = None THEN 0 ELSE d.precision

Read(d) ==
  [flags |-> ReadFlags(d), width |-> ReadWidth(d), precision |-> ReadPrecision(d),
   type |-> TypeOf(d), conversion |-> d.conversion]

LEMMA AsReadIs ==
  ASSUME FormatAssumption, NEW d, Proper(d)
  PROVE  /\ Real(AsRead(d))
         /\ AsRead(d).flags = d.flags /\ AsRead(d).star = d.star /\ AsRead(d).length = d.length
         /\ AsRead(d).conversion = d.conversion /\ AsRead(d).arg = d.arg
         /\ AsRead(d).precision = None <=> NoPrecision(d)
         /\ d.star => AsRead(d).width = d.width
         /\ ~ d.star => ReadWidth(AsRead(d)) = atou_(Numeral(d.width))
         /\ d.dot_star => AsRead(d).precision = IF d.precision > 0 THEN d.precision ELSE 0
         /\ ~ d.dot_star /\ d.precision # None => AsRead(d).precision = atou_(Numeral(d.precision))
<1> DEFINE e == AsRead(d)
           w == CASE d.star \/ d.width = None -> d.width
                  [] ~ (d.star \/ d.width = None) /\ d.width % Sizes = 0 -> None
                  [] OTHER -> d.width % Sizes
           p == CASE d.dot_star -> Max({d.precision, 0})
                  [] ~ d.dot_star /\ d.precision = None -> None
                  [] OTHER -> d.precision % Sizes
<1>1. /\ ~ d.plain /\ d.conversion \in Converts /\ d.flags \in Seq(FlagChars)
      /\ d.star \in BOOLEAN /\ d.dot_star \in BOOLEAN
      /\ d.width \in Int /\ (~ d.star => d.width = None \/ d.width > 0)
      /\ d.precision \in Int /\ (~ d.dot_star => d.precision \in Nat \cup {None})
      /\ d.length \in Lengths
  BY ProperIs
<1>2. e = Respelt(d, w, p)
  BY <1>1, Zenon DEF AsRead
<1>3. /\ e.plain = FALSE /\ e.flags = d.flags /\ e.width = w /\ e.star = d.star /\ e.precision = p
      /\ e.length = d.length /\ e.conversion = d.conversion /\ e.arg = d.arg
  <2> HIDE DEF e, w, p
  <2> QED BY <1>2 DEF Respelt
<1>4. Sizes \in Nat \ {0} /\ \A n \in Nat : n % Sizes \in Nat
  <2>1. Sizes \in Nat \ {0}
    BY SizesAre
  <2> QED BY <2>1
<1>5. /\ w \in Int /\ (~ d.star => w = None \/ w > 0)
      /\ d.star => w = d.width
      /\ ~ d.star /\ d.width = None => w = None
      /\ ~ d.star /\ d.width # None => /\ d.width \in Nat
                                       /\ w = IF d.width % Sizes = 0 THEN None ELSE d.width % Sizes
  <2>1. CASE d.star \/ d.width = None
    BY <1>1, <2>1
  <2>2. CASE ~ (d.star \/ d.width = None)
    <3>1. d.width \in Nat
      BY <1>1, <2>2
    <3>2. d.width % Sizes \in Nat
      BY <1>4, <3>1
    <3>3. w = IF d.width % Sizes = 0 THEN None ELSE d.width % Sizes
      BY <2>2
    <3> HIDE DEF w
    <3> QED BY <2>2, <3>1, <3>2, <3>3 DEF None
  <2> QED BY <2>1, <2>2
<1>6. /\ p \in Nat \cup {None} /\ (p = None <=> NoPrecision(d))
      /\ d.dot_star => p = IF d.precision > 0 THEN d.precision ELSE 0
      /\ ~ d.dot_star /\ d.precision # None => p = d.precision % Sizes /\ d.precision \in Nat
  <2>1. CASE d.dot_star
    <3>1. p = Max({d.precision, 0})
      BY <2>1
    <3>2. p = IF d.precision > 0 THEN d.precision ELSE 0
      <4>1. d.precision \in Int /\ 0 \in Int
        BY <1>1
      <4>2. Max({d.precision, 0}) = IF d.precision <= 0 THEN 0 ELSE d.precision
        BY <4>1, Least2
      <4> HIDE DEF p
      <4> QED BY <3>1, <4>1, <4>2
    <3> HIDE DEF p
    <3> QED BY <1>1, <2>1, <3>2 DEF NoPrecision, None
  <2>2. CASE ~ d.dot_star /\ d.precision = None
    BY <2>2 DEF NoPrecision
  <2>3. CASE ~ d.dot_star /\ d.precision # None
    <3>1. d.precision \in Nat
      BY <1>1, <2>3
    <3>2. p = d.precision % Sizes
      BY <2>3
    <3> HIDE DEF p
    <3> QED BY <1>4, <2>3, <3>1, <3>2 DEF NoPrecision, None
  <2> QED BY <1>1, <2>1, <2>2, <2>3
<1>7. Real(e)
  <2>1. /\ d.conversion \in Integral => d.arg \in Int
        /\ d.conversion = "c" => d.arg \in STRING
        /\ d.conversion = "s" => d.arg \in Seq(STRING)
        /\ d.conversion \in {"c", "s"} => Range(d.flags) \subseteq {"-"}
        /\ d.conversion = "p" =>
             d.arg \in Nat /\ d.flags = <<>> /\ d.precision = None /\ d.width = None
             /\ ~ d.star /\ ~ d.dot_star
    BY DEF Proper, DirectiveOK
  <2>2. d.conversion = "p" => w = None /\ p = None
    <3> HIDE DEF w, p
    <3> QED BY <1>5, <1>6, <2>1 DEF NoPrecision
  <2> HIDE DEF e, w, p
  <2> QED BY <1>1, <1>3, <1>5, <1>6, <2>1, <2>2 DEF Real
<1> HIDE DEF e, w, p
<1>8. ~ d.star => ReadWidth(e) = atou_(Numeral(d.width))
  <2>1. CASE d.width = None
    <3>1. atou_(Numeral(d.width)) = 0
      BY <2>1, NumeralIs, AtouIs
    <3> QED BY <1>3, <1>5, <2>1, <3>1 DEF ReadWidth
  <2>2. CASE d.width # None /\ ~ d.star
    <3>1. d.width \in Nat /\ atou_(Numeral(d.width)) = d.width % Sizes
      BY <1>5, <2>2, AtouIs
    <3>2. d.width % Sizes \in Nat
      BY <1>4, <3>1
    <3> QED BY <1>3, <1>5, <2>2, <3>1, <3>2 DEF ReadWidth, None
  <2> QED BY <2>1, <2>2
<1>9. ~ d.dot_star /\ d.precision # None => e.precision = atou_(Numeral(d.precision))
  BY <1>3, <1>6, AtouIs
<1> QED BY <1>3, <1>5, <1>6, <1>7, <1>8, <1>9 DEF e

(* Parse finds what the program reads of a directive. *)
LEMMA DirectiveRead ==
  ASSUME FormatAssumption, NEW d, Proper(d), NEW rest \in Text, format = Written(d) \o rest,
         d.star => args[1] = d.width,
         d.dot_star => args[Stars(WidthPart(d), PrecisionField(d))] = d.precision
  PROVE  LET e == Read(AsRead(d))
         IN  /\ Parse = [flags |-> e.flags, width |-> e.width, precision |-> e.precision,
                         type |-> e.type, conversion |-> e.conversion,
                         end |-> Len(Written(d)),
                         stars |-> Stars(WidthPart(d), PrecisionField(d))]
             /\ Char(Past(2, FlagChars)) = "*" <=> d.star
<1> DEFINE fl == d.flags
           wd == WidthPart(d)
           pr == PrecisionPart(d)
           pd == PrecisionField(d)
           ln == d.length
           r == <<d.conversion>> \o rest
           wv == IF wd = <<"*">> THEN args[1] ELSE atou_(wd)
           pv == IF pd = <<"*">> THEN args[Stars(wd, pd)] ELSE atou_(pd)
           a == AsRead(d)
<1>0. /\ d.star \in BOOLEAN /\ d.dot_star \in BOOLEAN /\ d.width \in Int
      /\ (~ d.star => d.width = None \/ d.width > 0)
      /\ d.precision \in Int /\ (~ d.dot_star => d.precision \in Nat \cup {None})
  BY ProperIs
<1>1. Parts(fl, wd, pr, pd, ln, r)
      /\ Len(Written(d)) = Len(fl) + 2 + Len(wd) + Len(pr) + Len(ln)
  BY DirectiveParts, WrittenIs
<1>2. wd = <<"*">> <=> d.star
  <2>1. ~ d.star => d.width = None \/ d.width \in Nat
    BY <1>0
  <2>2. ~ d.star => Numeral(d.width) # <<"*">>
    BY <1>0, <2>1, StarIs
  <2> QED BY <1>0, <2>2 DEF WidthPart
<1>3. pd = <<"*">> <=> d.dot_star
  <2>1. ~ d.dot_star => Numeral(d.precision) # <<"*">>
    BY <1>0, StarIs
  <2> QED BY <1>0, <2>1 DEF PrecisionField
<1>4. pr = <<>> <=> NoPrecision(d)
  BY PartsText
<1>5. /\ a.flags = d.flags /\ a.star = d.star /\ a.length = d.length
      /\ a.conversion = d.conversion /\ (a.precision = None <=> NoPrecision(d))
      /\ d.star => a.width = d.width
      /\ ~ d.star => ReadWidth(a) = atou_(Numeral(d.width))
      /\ d.dot_star => a.precision = IF d.precision > 0 THEN d.precision ELSE 0
      /\ ~ d.dot_star /\ d.precision # None => a.precision = atou_(Numeral(d.precision))
  BY AsReadIs
<1> HIDE DEF a
<1>6. /\ d.star => wv = d.width
      /\ ~ d.star => wv = atou_(Numeral(d.width)) /\ wv \in Nat
  <2>1. d.star => wv = d.width
    BY <1>2
  <2>2. ~ d.star => wv = atou_(Numeral(d.width))
    <3>1. ~ d.star => wd = Numeral(d.width)
      BY DEF WidthPart
    <3> HIDE DEF wd
    <3> QED BY <1>2, <3>1
  <2>3. ~ d.star => AllDigits(Numeral(d.width))
    <3> HIDE DEF wd, pd, ln, r, wv, pv
    <3>1. CASE d.width = None
      <4>1. Numeral(d.width) = <<>>
        BY <3>1, NumeralIs
      <4> QED BY <4>1, NoDigits
    <3>2. CASE d.width \in Nat
      BY <3>2, NumeralIs
    <3>3. ~ d.star => d.width = None \/ d.width \in Nat
      BY <1>0
    <3> QED BY <3>1, <3>2, <3>3
  <2> HIDE DEF wv
  <2> QED BY <2>1, <2>2, <2>3, AtouIs
<1>7. /\ d.dot_star => pv = d.precision
      /\ ~ d.dot_star => pv = atou_(Numeral(d.precision)) /\ pv \in Nat
  <2>1. d.dot_star => pv = d.precision
    BY <1>3
  <2>2. ~ d.dot_star => pv = atou_(Numeral(d.precision))
    <3>1. ~ d.dot_star => pd = Numeral(d.precision)
      BY DEF PrecisionField
    <3> HIDE DEF pd
    <3> QED BY <1>3, <3>1
  <2>3. ~ d.dot_star => AllDigits(Numeral(d.precision))
    BY <1>0, NumeralIs, NoDigits
  <2> HIDE DEF pv
  <2> QED BY <2>1, <2>2, <2>3, AtouIs
<1> HIDE DEF pr, pd, ln, r, wd
<1>8. /\ Parse = Found(fl, wd, pr, pd, ln, r, wv, pv)
      /\ Char(Past(2, FlagChars)) = "*" <=> wd = <<"*">>
  <2>1. /\ wv = IF wd = <<"*">> THEN args[1] ELSE atou_(wd)
        /\ pv = IF pd = <<"*">> THEN args[Stars(wd, pd)] ELSE atou_(pd)
    OBVIOUS
  <2> HIDE DEF wv, pv, fl
  <2> QED BY <1>1, <2>1, ParseIs
<1> HIDE DEF wv, pv
<1>9. First(r) = a.conversion
  <2>1. <<d.conversion>> \in Text /\ <<d.conversion>> # <<>> /\ <<d.conversion>>[1] = d.conversion
    BY PartsText
  <2> QED BY <1>5, <2>1, FirstOf DEF r
<1>10. LengthType(ln) = TypeOf(a)
  BY <1>5 DEF LengthType, TypeOf, ln
<1>11. Range(fl) \cup (IF wv < 0 THEN {"-"} ELSE {}) \cup (IF pr # <<>> THEN {"."} ELSE {})
         = ReadFlags(a)
  <2>1. (IF wv < 0 THEN {"-"} ELSE {}) = (IF a.star /\ a.width < 0 THEN {"-"} ELSE {})
    BY <1>0, <1>5, <1>6
  <2> QED BY <1>4, <1>5, <2>1 DEF ReadFlags, StandardFlags
<1>12. (IF wv < 0 THEN -wv ELSE wv) = ReadWidth(a)
  <2>1. CASE d.star
    BY <1>0, <1>5, <1>6, <2>1 DEF ReadWidth
  <2>2. CASE ~ d.star
    BY <1>5, <1>6, <2>2
  <2> QED BY <1>0, <2>1, <2>2
<1>13. (IF pr # <<>> /\ pv > 0 THEN pv ELSE 0) = ReadPrecision(a)
  <2>1. CASE d.dot_star
    BY <1>0, <1>4, <1>5, <1>7, <2>1 DEF ReadPrecision, NoPrecision
  <2>2. CASE ~ d.dot_star /\ d.precision = None
    BY <1>4, <1>5, <2>2 DEF ReadPrecision, NoPrecision
  <2>3. CASE ~ d.dot_star /\ d.precision # None
    BY <1>4, <1>5, <1>7, <2>3 DEF ReadPrecision, NoPrecision
  <2> QED BY <1>0, <2>1, <2>2, <2>3
<1>14. Char(Past(2, FlagChars)) = "*" <=> d.star
  BY <1>2, <1>8
<1> DEFINE e == Read(a)
<1>15. /\ e.flags = ReadFlags(a) /\ e.width = ReadWidth(a) /\ e.precision = ReadPrecision(a)
       /\ e.type = TypeOf(a) /\ e.conversion = a.conversion
  BY DEF Read
<1> HIDE DEF e, fl
<1>16. Parse = [flags |-> e.flags, width |-> e.width, precision |-> e.precision,
                type |-> e.type, conversion |-> e.conversion,
                end |-> Len(Written(d)), stars |-> Stars(wd, pd)]
  BY <1>1, <1>8, <1>9, <1>10, <1>11, <1>12, <1>13, <1>15 DEF Found
<1> QED BY Zenon, <1>14, <1>16 DEF e, a, wd, pd

LEMMA PercentRead ==
  ASSUME NEW rest \in Text, format = <<"%", "%">> \o rest
  PROVE  /\ Parse.conversion = "%" /\ Parse.end = 2 /\ Parse.stars = 0 /\ Char(1) = "%"
         /\ Char(Past(2, FlagChars)) # "*"
<1> DEFINE e == <<>>
           z == <<"%">>
           r == z \o rest
<1>1. z \in Text /\ Len(z) = 1 /\ z[1] = "%" /\ z # <<>>
  <2>1. "%" \in Characters
    BY DEF Characters
  <2> QED BY <2>1, OneCharacter
<1>2. z \o z = <<"%", "%">>
  <2>1. "%" \in Characters
    BY DEF Characters
  <2> QED BY <2>1, TwoCharacters
<1> HIDE DEF z
<1>3. r \in Text
  BY <1>1, Joining
<1>4. format = z \o r
  <2>1. z \o (z \o rest) = (z \o z) \o rest
    BY <1>1, JoiningAssociates
  <2>2. format = (z \o z) \o rest
    BY Zenon, <1>2
  <2> QED BY Zenon, <2>1, <2>2 DEF r
<1>5. First(r) = "%"
  BY <1>1, FirstOf
<1> HIDE DEF r
<1>6. e \o r = r /\ e \in Text /\ Len(e) = 0
  BY <1>3, JoiningNothing
<1>7. Parts(e, e, e, e, e, r)
  <2>1. First(r) \in EndChars
    BY <1>5 DEF EndChars
  <2>2. Field(e) /\ AllDigits(e) /\ e \in Lengths /\ e = <<>>
    BY NoDigits DEF Field, Lengths
  <2>3. \A i \in 1..Len(e) : e[i] \in FlagChars
    BY <1>6
  <2>4. format = <<"%">> \o (e \o (e \o (e \o (e \o r))))
    BY <1>4, <1>6 DEF z
  <2> HIDE DEF e
  <2> QED BY <1>3, <1>6, <2>1, <2>2, <2>3, <2>4 DEF Parts
<1>8. /\ Parse = Found(e, e, e, e, e, r, atou_(e), atou_(e)) /\ Stars(e, e) = 0
      /\ Char(Past(2, FlagChars)) # "*"
  <2>1. e # <<"*">>
    OBVIOUS
  <2> HIDE DEF e
  <2>2. /\ atou_(e) = IF e = <<"*">> THEN args[1] ELSE atou_(e)
        /\ atou_(e) = IF e = <<"*">> THEN args[Stars(e, e)] ELSE atou_(e)
    BY <2>1
  <2> QED BY <1>7, <2>1, <2>2, ParseIs DEF Stars
<1>9. Char(1) = "%"
  <2>1. format # <<>> /\ Len(format) >= 1
    BY <1>1, <1>3, <1>4, Joining, Lengths0
  <2>2. format[1] = "%"
    <3>1. 1 \in 1..Len(z)
      BY <1>1
    <3> QED BY <1>1, <1>3, <1>4, <3>1, Joining
  <2> QED BY <2>1, <2>2 DEF Char
<1> QED BY <1>5, <1>6, <1>8, <1>9 DEF Found

Splits(s, i, j, k) ==
  /\ SubSeq(s, i, j) \in Text /\ Len(SubSeq(s, i, j)) = j - i + 1
  /\ \A n \in 1..(j - i + 1) : SubSeq(s, i, j)[n] = s[i + n - 1]
  /\ SubSeq(s, j + 1, k) \in Text
  /\ SubSeq(s, i, j) \o SubSeq(s, j + 1, k) = SubSeq(s, i, k)

LEMMA Splitting ==
  ASSUME NEW s \in Text, NEW i \in Nat, NEW j \in Nat, NEW k \in Nat,
         1 <= i, i <= j + 1, j <= k, k <= Len(s)
  PROVE  Splits(s, i, j, k)
<1> DEFINE a == SubSeq(s, i, j)
           b == SubSeq(s, j + 1, k)
           c == SubSeq(s, i, k)
<1>0. Len(s) \in Nat /\ s \in Seq(Characters)
  BY DEF Text
<1>1. a \in Text /\ Len(a) = j - i + 1 /\ \A n \in 1..Len(a) : a[n] = s[i + n - 1]
  BY <1>0, SubSeqProperties DEF Text
<1>2. b \in Text /\ Len(b) = k - j /\ \A n \in 1..Len(b) : b[n] = s[j + n]
  BY <1>0, SubSeqProperties DEF Text
<1>3. c \in Text /\ Len(c) = k - i + 1 /\ \A n \in 1..Len(c) : c[n] = s[i + n - 1]
  BY <1>0, SubSeqProperties DEF Text
<1> HIDE DEF a, b, c
<1>4. a \o b \in Text /\ Len(a \o b) = Len(c)
  BY <1>1, <1>2, <1>3, Joining
<1>5. ASSUME NEW n \in 1..Len(c) PROVE (a \o b)[n] = c[n]
  <2>1. CASE n <= Len(a)
    <3>1. n \in 1..Len(a)
      BY <1>1, <1>3, <1>5, <2>1
    <3>2. (a \o b)[n] = a[n]
      BY <1>1, <1>2, <3>1, Joining
    <3> QED BY <1>1, <1>3, <3>1, <3>2
  <2>2. CASE n > Len(a)
    <3> DEFINE m == n - Len(a)
    <3>1. m \in 1..Len(b) /\ n = Len(a) + m /\ m \in Nat
      BY <1>1, <1>2, <1>3, <1>5, <2>2
    <3> HIDE DEF m
    <3>2. (a \o b)[n] = b[m]
      BY <1>1, <1>2, <3>1, Joining
    <3>3. b[m] = s[j + m] /\ c[n] = s[i + n - 1] /\ i + n - 1 = j + m
      BY <1>1, <1>2, <1>3, <3>1
    <3> QED BY <3>2, <3>3
  <2>3. n <= Len(a) \/ n > Len(a)
    BY <1>1, <1>3, <1>5
  <2> QED BY Zenon, <2>1, <2>2, <2>3
<1>6. a \o b = c
  BY <1>3, <1>4, <1>5, SameText
<1> QED BY <1>1, <1>2, <1>6 DEF a, b, c, Splits

PartIn(s, i, j, S) ==
  /\ \A n \in 1..(j - i + 1) : SubSeq(s, i, j)[n] \in S
  /\ j >= i => s[j] \in S

LEMMA RangeOfPart ==
  ASSUME NEW s \in Text, NEW i \in Nat, NEW j \in Nat, 1 <= i, i <= j + 1, j <= Len(s),
         NEW S, Range(SubSeq(s, i, j)) \subseteq S
  PROVE  PartIn(s, i, j, S)
<1> DEFINE t == SubSeq(s, i, j)
<1>1. t \in Text /\ Len(t) = j - i + 1 /\ \A n \in 1..(j - i + 1) : t[n] = s[i + n - 1]
  <2>1. Len(s) \in Nat
    BY Lengths0
  <2>2. Splits(s, i, j, j)
    BY <2>1, Splitting
  <2> QED BY <2>2 DEF Splits
<1> HIDE DEF t
<1>2. DOMAIN t = 1..(j - i + 1)
  BY <1>1, Lengths0
<1>3. \A n \in 1..(j - i + 1) : t[n] \in S
  BY <1>2 DEF Range, t
<1>4. ASSUME j >= i PROVE s[j] \in S
  <2>1. j - i + 1 \in 1..(j - i + 1) /\ i + (j - i + 1) - 1 = j
    BY <1>4
  <2> QED BY <1>1, <1>3, <2>1
<1> QED BY <1>3, <1>4 DEF t, PartIn

(* A format string that ends within a directive. *)
LEMMA CutParts ==
  ASSUME format \in Text, format # <<>>, CutOff(format)
  PROVE  \E fl, wd, pr, pd, ln :
           /\ Parts(fl, wd, pr, pd, ln, <<>>)
           /\ wd # <<"*">> /\ pd # <<"*">>
           /\ Len(format) = Len(fl) + 1 + Len(wd) + Len(pr) + Len(ln)
           /\ Len(format) > 1 => format[Len(format)] \in FlagChars \cup DigitChars
                                                         \cup {".", "l", "h", "t", "j", "z"}
<1> DEFINE L == Len(format)
<1>0. L \in Nat /\ L >= 1
  BY NotEmpty, Lengths0
<1>1. PICK f \in 1..L : \E w \in f..L : \E p \in w..L :
          /\ Range(SubSeq(format, 2, f)) \subseteq FlagChars
          /\ Range(SubSeq(format, f + 1, w)) \subseteq Range(Digits10)
          /\ w > f => format[f + 1] # "0"
          /\ p > w => /\ format[w + 1] = "."
                      /\ Range(SubSeq(format, w + 2, p)) \subseteq Range(Digits10)
          /\ SubSeq(format, p + 1, L) \in Lengths
  BY DEF CutOff
<1>2. PICK w \in f..L : \E p \in w..L :
          /\ Range(SubSeq(format, 2, f)) \subseteq FlagChars
          /\ Range(SubSeq(format, f + 1, w)) \subseteq Range(Digits10)
          /\ w > f => format[f + 1] # "0"
          /\ p > w => /\ format[w + 1] = "."
                      /\ Range(SubSeq(format, w + 2, p)) \subseteq Range(Digits10)
          /\ SubSeq(format, p + 1, L) \in Lengths
  BY <1>1
<1>3. PICK p \in w..L :
          /\ Range(SubSeq(format, 2, f)) \subseteq FlagChars
          /\ Range(SubSeq(format, f + 1, w)) \subseteq Range(Digits10)
          /\ w > f => format[f + 1] # "0"
          /\ p > w => /\ format[w + 1] = "."
                      /\ Range(SubSeq(format, w + 2, p)) \subseteq Range(Digits10)
          /\ SubSeq(format, p + 1, L) \in Lengths
  BY <1>2
<1>4. f \in Nat /\ w \in Nat /\ p \in Nat /\ 1 <= f /\ f <= w /\ w <= p /\ p <= L
  BY <1>0
<1>c. format[1] = "%"
  BY DEF CutOff
<1> DEFINE fl == SubSeq(format, 2, f)
           wd == SubSeq(format, f + 1, w)
           pr == SubSeq(format, w + 1, p)
           pd == IF p > w THEN SubSeq(format, w + 2, p) ELSE <<>>
           ln == SubSeq(format, p + 1, L)
           e == <<>>
           z == SubSeq(format, 1, 1)
<1>5. fl \in Text /\ Len(fl) = f - 1 /\ \A i \in 1..Len(fl) : fl[i] \in FlagChars
  <2>1. fl \in Text /\ Len(fl) = f - 1
    <3>1. Splits(format, 2, f, f)
      BY <1>0, <1>4, Splitting
    <3> QED BY <1>4, <3>1 DEF Splits
  <2>2. \A n \in 1..(f - 2 + 1) : SubSeq(format, 2, f)[n] \in FlagChars
    <3>1. PartIn(format, 2, f, FlagChars)
      BY <1>0, <1>3, <1>4, RangeOfPart
    <3> QED BY <3>1 DEF PartIn
  <2> HIDE DEF fl
  <2>3. f - 2 + 1 = f - 1
    BY <1>4
  <2> QED BY <2>1, <2>2, <2>3 DEF fl
<1>6. wd \in Text /\ Len(wd) = w - f /\ AllDigits(wd) /\ (wd # <<>> => wd[1] # "0")
      /\ wd # <<"*">> /\ (w > f => format[w] \in DigitChars)
  <2>1. wd \in Text /\ Len(wd) = w - f /\ \A n \in 1..(w - f) : wd[n] = format[f + n]
    <3>1. f + 1 \in Nat /\ 1 <= f + 1 /\ f + 1 <= w + 1 /\ w <= L
          /\ w - (f + 1) + 1 = w - f /\ \A n \in Nat : f + 1 + n - 1 = f + n
      BY <1>4
    <3>2. /\ SubSeq(format, f + 1, w) \in Text /\ Len(SubSeq(format, f + 1, w)) = w - (f + 1) + 1
          /\ \A n \in 1..(w - (f + 1) + 1) : SubSeq(format, f + 1, w)[n] = format[f + 1 + n - 1]
      <4>1. Splits(format, f + 1, w, w)
        BY <1>4, <3>1, Splitting
      <4> QED BY <4>1 DEF Splits
    <3> QED BY <3>1, <3>2
  <2>2. /\ \A n \in 1..(w - (f + 1) + 1) : SubSeq(format, f + 1, w)[n] \in Range(Digits10)
        /\ w >= f + 1 => format[w] \in Range(Digits10)
    <3>1. f + 1 \in Nat /\ 1 <= f + 1 /\ f + 1 <= w + 1 /\ w <= Len(format)
      BY <1>4
    <3>2. PartIn(format, f + 1, w, Range(Digits10))
      BY <1>3, <1>4, <3>1, RangeOfPart
    <3> QED BY <3>2 DEF PartIn
  <2>3. w - (f + 1) + 1 = w - f /\ (w > f <=> w >= f + 1)
    BY <1>4
  <2>4. \A i \in 1..Len(wd) : wd[i] \in Range(Digits10)
    BY <2>1, <2>2, <2>3
  <2> HIDE DEF wd
  <2>5. AllDigits(wd)
    BY <2>1, <2>4 DEF AllDigits
  <2>6. ASSUME wd # <<>> PROVE wd[1] # "0"
    <3>1. 1 \in 1..Len(wd)
      BY <2>1, <2>6, NotEmpty
    <3>2. w > f /\ wd[1] = format[f + 1]
      BY <1>4, <2>1, <3>1
    <3> QED BY <1>3, <3>2
  <2>7. wd # <<"*">>
    <3> SUFFICES ASSUME wd = <<"*">> PROVE FALSE
      OBVIOUS
    <3>1. 1 \in 1..Len(wd) /\ wd[1] = "*"
      OBVIOUS
    <3> QED BY <2>4, <3>1, DigitsAre, Kinds
  <2> QED BY <2>1, <2>2, <2>3, <2>5, <2>6, <2>7, DigitsAre
<1>7. pr \in Text /\ Len(pr) = p - w /\ AllDigits(pd) /\ pd \in Text
      /\ pr = (IF pr = <<>> THEN pd ELSE <<".">> \o pd)
      /\ (p > w => format[p] \in DigitChars \cup {"."})
  <2>0. pr \in Text /\ Len(pr) = p - w
    <3>1. w + 1 \in Nat /\ 1 <= w + 1 /\ w + 1 <= p + 1 /\ p - (w + 1) + 1 = p - w
      BY <1>4
    <3>2. Splits(format, w + 1, p, p)
      BY <1>4, <3>1, Splitting
    <3> QED BY <3>1, <3>2 DEF Splits
  <2>1. CASE p = w
    <3>1. Len(pr) = 0
      BY <1>4, <2>0, <2>1
    <3>2. pr = <<>> /\ pd = <<>>
      BY <1>4, <2>0, <2>1, <3>1 DEF Text
    <3> QED BY <1>4, <2>0, <2>1, <3>2, NoDigits DEF AllDigits
  <2>2. CASE p > w
    <3> DEFINE dot == SubSeq(format, w + 1, w + 1)
    <3>1. pd = SubSeq(format, w + 2, p)
      BY <2>2
    <3>2. /\ w + 1 \in Nat /\ 1 <= w + 1 /\ w + 1 <= (w + 1) + 1 /\ w + 1 <= p
          /\ (w + 1) - (w + 1) + 1 = 1 /\ w + 1 + 1 - 1 = w + 1 /\ 1 \in 1..1
          /\ (w + 1) + 1 = w + 2
      BY <1>4, <2>2
    <3>3. /\ dot \in Text /\ Len(dot) = 1 /\ dot[1] = format[w + 1]
          /\ pd \in Text /\ dot \o pd = pr
      <4>1. Splits(format, w + 1, w + 1, p)
        BY <1>4, <3>2, Splitting
      <4> QED BY <3>1, <3>2, <4>1 DEF Splits
    <3>4. dot = <<".">>
      <4>1. dot[1] = "."
        BY <1>3, <2>2, <3>3
      <4> HIDE DEF dot
      <4> QED BY <3>3, <4>1 DEF Text
    <3>5. /\ \A n \in 1..(p - (w + 2) + 1) : SubSeq(format, w + 2, p)[n] \in Range(Digits10)
          /\ p >= w + 2 => format[p] \in Range(Digits10)
      <4>1. w + 2 \in Nat /\ 1 <= w + 2 /\ w + 2 <= p + 1
        BY <1>4, <2>2
      <4>2. PartIn(format, w + 2, p, Range(Digits10))
        BY <1>3, <1>4, <2>2, <4>1, RangeOfPart
      <4> QED BY <4>2 DEF PartIn
    <3>6. Len(pd) = p - (w + 2) + 1
      <4>1. w + 2 \in Nat /\ 1 <= w + 2 /\ w + 2 <= p + 1
        BY <1>4, <2>2
      <4>2. Splits(format, w + 2, p, p)
        BY <1>4, <4>1, Splitting
      <4> QED BY <3>1, <4>2 DEF Splits
    <3>7. AllDigits(pd)
      BY <3>1, <3>3, <3>5, <3>6 DEF AllDigits
    <3>8. pr # <<>>
      BY <1>4, <2>0, <2>2
    <3>9. format[p] \in DigitChars \cup {"."}
      <4>1. CASE p >= w + 2
        BY <3>5, <4>1, DigitsAre
      <4>2. CASE p = w + 1
        BY <1>3, <2>2, <4>2
      <4> QED BY <1>4, <2>2, <4>1, <4>2
    <3> HIDE DEF dot, pr, pd
    <3> QED BY <2>0, <3>3, <3>4, <3>7, <3>8, <3>9
  <2> QED BY <1>4, <2>1, <2>2
<1>8. ln \in Text /\ Len(ln) = L - p /\ ln \in Lengths
      /\ (L > p => format[L] \in {"l", "h", "t", "j", "z"})
  <2>1. p + 1 \in Nat /\ 1 <= p + 1 /\ p + 1 <= L + 1 /\ L - (p + 1) + 1 = L - p
        /\ \A n \in Nat : p + 1 + n - 1 = p + n
    BY <1>0, <1>4
  <2>2. /\ SubSeq(format, p + 1, L) \in Text /\ Len(SubSeq(format, p + 1, L)) = L - (p + 1) + 1
        /\ \A n \in 1..(L - (p + 1) + 1) : SubSeq(format, p + 1, L)[n] = format[p + 1 + n - 1]
    <3>1. Splits(format, p + 1, L, L)
      BY <1>0, <1>4, <2>1, Splitting
    <3> QED BY <3>1 DEF Splits
  <2>3. ln \in Text /\ Len(ln) = L - p /\ \A n \in 1..(L - p) : ln[n] = format[p + n]
    <3>1. ASSUME NEW n \in 1..(L - p) PROVE ln[n] = format[p + n]
      <4>1. ln[n] = format[p + 1 + n - 1]
        BY <2>1, <2>2
      <4>2. p + 1 + n - 1 = p + n
        BY <1>4
      <4> QED BY <4>1, <4>2
    <3> QED BY <2>1, <2>2, <3>1
  <2>4. ln \in Lengths
    BY <1>3
  <2> HIDE DEF ln
  <2>5. \A i \in 1..Len(ln) : ln[i] \in {"l", "h", "t", "j", "z"}
    BY <2>4 DEF Lengths
  <2>6. ASSUME L > p PROVE format[L] \in {"l", "h", "t", "j", "z"}
    <3>1. L - p \in 1..(L - p) /\ p + (L - p) = L
      BY <1>0, <1>4, <2>6
    <3> QED BY <2>3, <2>5, <3>1
  <2> QED BY <2>3, <2>4, <2>6
<1>9. format = <<"%">> \o (fl \o (wd \o (pr \o (ln \o e))))
  <2>1. ln \o e = ln
    <3> HIDE DEF ln
    <3> QED BY <1>8, JoiningNothing
  <2>2. pr \o ln = SubSeq(format, w + 1, L)
    <3>1. w + 1 \in Nat /\ 1 <= w + 1 /\ w + 1 <= p + 1
      BY <1>4
    <3>2. Splits(format, w + 1, p, L)
      BY <1>0, <1>4, <3>1, Splitting
    <3> QED BY <3>2 DEF Splits
  <2>3. wd \o SubSeq(format, w + 1, L) = SubSeq(format, f + 1, L)
    <3>1. f + 1 \in Nat /\ 1 <= f + 1 /\ f + 1 <= w + 1 /\ w <= L
      BY <1>4
    <3>2. Splits(format, f + 1, w, L)
      BY <1>0, <1>4, <3>1, Splitting
    <3> QED BY <3>2 DEF Splits
  <2>4. fl \o SubSeq(format, f + 1, L) = SubSeq(format, 2, L)
    <3>1. 2 \in Nat /\ 1 <= 2 /\ 2 <= f + 1 /\ f <= L
      BY <1>4
    <3>2. Splits(format, 2, f, L)
      BY <1>0, <1>4, <3>1, Splitting
    <3> QED BY <3>2 DEF Splits
  <2>5. z \o SubSeq(format, 2, L) = SubSeq(format, 1, L) /\ z \in Text /\ Len(z) = 1
        /\ z[1] = format[1]
    <3>1. 1 \in Nat /\ 1 <= 1 /\ 1 <= 1 + 1 /\ 1 <= L /\ 1 + 1 = 2 /\ 1 - 1 + 1 = 1 /\ 1 \in 1..1
      BY <1>0
    <3>2. /\ SubSeq(format, 1, 1) \o SubSeq(format, 1 + 1, L) = SubSeq(format, 1, L)
          /\ SubSeq(format, 1, 1) \in Text /\ Len(SubSeq(format, 1, 1)) = 1 - 1 + 1
          /\ SubSeq(format, 1, 1)[1] = format[1 + 1 - 1]
      <4>1. Splits(format, 1, 1, L)
        BY <1>0, <3>1, Splitting
      <4> QED BY <3>1, <4>1 DEF Splits
    <3> QED BY <3>1, <3>2
  <2>6. z = <<"%">>
    <3> HIDE DEF z
    <3> QED BY <1>c, <2>5 DEF Text
  <2>7. SubSeq(format, 1, L) = format
    BY <1>0, SubSeqFull DEF Text
  <2> HIDE DEF fl, wd, pr, ln, z, e
  <2> QED BY Zenon, <2>1, <2>2, <2>3, <2>4, <2>5, <2>6, <2>7
<1>10. Parts(fl, wd, pr, pd, ln, e) /\ pd # <<"*">>
  <2>1. First(e) \in EndChars
    BY DEF First, At, EndChars
  <2>2. e \in Text /\ Field(wd) /\ Field(pd)
    BY <1>6, <1>7, JoiningNothing DEF Field
  <2>3. pd # <<"*">>
    <3> HIDE DEF pd
    <3> SUFFICES ASSUME pd = <<"*">> PROVE FALSE
      OBVIOUS
    <3>1. 1 \in 1..Len(pd) /\ pd[1] = "*"
      OBVIOUS
    <3> QED BY <1>7, <3>1, DigitsAre, Kinds DEF AllDigits
  <2> HIDE DEF fl, wd, pr, pd, ln, e
  <2> QED BY <1>5, <1>6, <1>7, <1>8, <1>9, <2>1, <2>2, <2>3 DEF Parts
<1>11. L = Len(fl) + 1 + Len(wd) + Len(pr) + Len(ln)
  <2>1. Len(fl) = f - 1 /\ Len(wd) = w - f /\ Len(pr) = p - w /\ Len(ln) = L - p
    BY <1>5, <1>6, <1>7, <1>8
  <2> HIDE DEF fl, wd, pr, pd, ln, e, z
  <2> QED BY <1>0, <1>4, <2>1
<1>12. ASSUME L > 1
       PROVE  format[L] \in FlagChars \cup DigitChars \cup {".", "l", "h", "t", "j", "z"}
  <2>1. CASE L > p
    BY <1>8, <2>1
  <2>2. CASE L = p /\ p > w
    BY <1>7, <2>2
  <2>3. CASE L = p /\ p = w /\ w > f
    BY <1>6, <2>3
  <2>4. CASE L = p /\ p = w /\ w = f
    <3>1. f >= 2
      BY <1>4, <1>12, <2>4
    <3>2. format[f] \in FlagChars
      <4>1. PartIn(format, 2, f, FlagChars)
        BY <1>3, <1>4, <3>1, RangeOfPart
      <4> QED BY <3>1, <4>1 DEF PartIn
    <3> QED BY <2>4, <3>2
  <2> QED BY <1>0, <1>4, <2>1, <2>2, <2>3, <2>4
<1> HIDE DEF fl, wd, pr, pd, ln, e
<1> QED BY <1>6, <1>10, <1>11, <1>12 DEF e

LEMMA CutRead ==
  ASSUME format \in Text, format # <<>>, CutOff(format)
  PROVE  /\ Parse.conversion = NUL /\ Parse.end = Len(format) + 1 /\ Char(1) = "%"
         /\ Char(Past(2, FlagChars)) # "*"
         /\ Len(format) \in Nat /\ Len(format) >= 1
         /\ Len(format) > 1 => format[Len(format)] \in FlagChars \cup DigitChars
                                                       \cup {".", "l", "h", "t", "j", "z"}
<1>1. PICK fl, wd, pr, pd, ln :
           /\ Parts(fl, wd, pr, pd, ln, <<>>)
           /\ wd # <<"*">> /\ pd # <<"*">>
           /\ Len(format) = Len(fl) + 1 + Len(wd) + Len(pr) + Len(ln)
           /\ Len(format) > 1 => format[Len(format)] \in FlagChars \cup DigitChars
                                                         \cup {".", "l", "h", "t", "j", "z"}
  BY CutParts
<1>2. /\ Parse = Found(fl, wd, pr, pd, ln, <<>>, atou_(wd), atou_(pd))
      /\ Char(Past(2, FlagChars)) # "*"
  <2>1. /\ atou_(wd) = IF wd = <<"*">> THEN args[1] ELSE atou_(wd)
        /\ atou_(pd) = IF pd = <<"*">> THEN args[Stars(wd, pd)] ELSE atou_(pd)
    BY <1>1
  <2> QED BY <1>1, <2>1, ParseIs
<1>3. First(<<>>) = NUL
  BY DEF First, At
<1>4. Len(fl) + 2 + Len(wd) + Len(pr) + Len(ln) = Len(format) + 1
  <2>1. Len(fl) \in Nat /\ Len(wd) \in Nat /\ Len(pr) \in Nat /\ Len(ln) \in Nat
    BY <1>1, Lengths0 DEF Parts
  <2> QED BY <1>1, <2>1
<1>5. Char(1) = "%" /\ Len(format) \in Nat /\ Len(format) >= 1
  BY NotEmpty, Lengths0 DEF CutOff, Char
<1> QED BY <1>1, <1>2, <1>3, <1>4, <1>5 DEF Found
-----------------------------------------------------------------------------
(* A character several times. *)

LEMMA TimesIs ==
  ASSUME NEW c \in Characters, NEW n \in Int
  PROVE  /\ Times(c, n) \in Text
         /\ Len(Times(c, n)) = (IF n > 0 THEN n ELSE 0)
         /\ \A i \in 1..Len(Times(c, n)) : Times(c, n)[i] = c
         /\ n <= 0 => Times(c, n) = <<>>
<1> DEFINE m == IF n > 0 THEN n ELSE 0
<1>1. m \in Nat /\ 1..n = 1..m /\ (n <= 0 => m = 0)
  OBVIOUS
<1> HIDE DEF m
<1>2. Times(c, n) = [i \in 1..m |-> c]
  BY <1>1 DEF Times
<1>3. Times(c, n) \in Text /\ Len(Times(c, n)) = m
  BY <1>1, <1>2 DEF Text
<1>4. \A i \in 1..m : Times(c, n)[i] = c
  BY <1>2
<1>5. m = 0 => Times(c, n) = <<>>
  BY <1>3 DEF Text
<1> QED BY <1>1, <1>3, <1>4, <1>5 DEF m

LEMMA TimesSplit ==
  ASSUME NEW c \in Characters, NEW m \in Nat, NEW n \in Nat
  PROVE  Times(c, m) \o Times(c, n) = Times(c, m + n)
<1> DEFINE a == Times(c, m)
           b == Times(c, n)
           t == Times(c, m + n)
<1>1. a \in Text /\ Len(a) = m /\ \A i \in 1..m : a[i] = c
  BY TimesIs
<1>2. b \in Text /\ Len(b) = n /\ \A i \in 1..n : b[i] = c
  BY TimesIs
<1>3. t \in Text /\ Len(t) = m + n /\ \A i \in 1..(m + n) : t[i] = c
  BY TimesIs
<1> HIDE DEF a, b, t
<1>4. a \o b \in Text /\ Len(a \o b) = m + n
  BY <1>1, <1>2, Joining
<1>5. ASSUME NEW i \in 1..(m + n) PROVE (a \o b)[i] = c
  <2>1. CASE i <= m
    <3>1. i \in 1..Len(a)
      BY <1>1, <2>1
    <3>2. (a \o b)[i] = a[i]
      BY <1>1, <1>2, <3>1, Joining
    <3> QED BY <1>1, <3>1, <3>2
  <2>2. CASE i > m
    <3>1. i - m \in 1..Len(b) /\ i = Len(a) + (i - m)
      BY <1>1, <1>2, <2>2
    <3>2. (a \o b)[Len(a) + (i - m)] = b[i - m]
      BY <1>1, <1>2, <3>1, Joining
    <3>3. b[i - m] = c
      BY <1>2, <3>1
    <3> QED BY Zenon, <3>1, <3>2, <3>3
  <2>3. i <= m \/ i > m
    OBVIOUS
  <2> QED BY Zenon, <2>1, <2>2, <2>3
<1>6. \A i \in 1..Len(a \o b) : (a \o b)[i] = t[i]
  BY <1>3, <1>4, <1>5
<1>7. a \o b = t
  BY <1>3, <1>4, <1>6, SameText
<1> QED BY <1>7 DEF a, b, t

LEMMA ReverseTimes ==
  ASSUME NEW c \in Characters, NEW n \in Int
  PROVE  Reverse(Times(c, n)) = Times(c, n)
<1> DEFINE t == Times(c, n)
<1>1. t \in Text /\ \A i \in 1..Len(t) : t[i] = c
  BY TimesIs
<1> HIDE DEF t
<1>2. Reverse(t) \in Text /\ Len(Reverse(t)) = Len(t)
      /\ \A i \in 1..Len(t) : Reverse(t)[i] = t[Len(t) - i + 1]
  BY <1>1, Reversing
<1>3. \A i \in 1..Len(t) : Len(t) - i + 1 \in 1..Len(t)
  BY <1>1, Lengths0
<1>4. \A i \in 1..Len(Reverse(t)) : Reverse(t)[i] = t[i]
  BY <1>1, <1>2, <1>3
<1>5. Reverse(t) = t
  BY <1>1, <1>2, <1>4, SameText
<1> QED BY <1>5 DEF t

(* What is left of a text that ends in one character, several times. *)
LEMMA CutTimes ==
  ASSUME NEW s \in Text, NEW c \in Characters, NEW m \in Nat, NEW k \in Nat, k <= m
  PROVE  SubSeq(s \o Times(c, m), 1, Len(s) + k) = s \o Times(c, k)
<1> DEFINE a == Times(c, k)
           b == Times(c, m - k)
           u == s \o a
<1>1. a \in Text /\ Len(a) = k /\ b \in Text /\ Len(b) = m - k
  BY TimesIs
<1>2. a \o b = Times(c, m)
  <2>1. m - k \in Nat /\ k + (m - k) = m
    OBVIOUS
  <2> QED BY <2>1, TimesSplit
<1> HIDE DEF a, b
<1>3. s \o Times(c, m) = u \o b
  <2>1. s \o (a \o b) = (s \o a) \o b
    BY <1>1, JoiningAssociates
  <2> QED BY <1>2, <2>1
<1>4. u \in Text /\ Len(u) = Len(s) + k /\ Len(s) \in Nat
  BY <1>1, Joining, Lengths0
<1> HIDE DEF u
<1> DEFINE w == u \o b
           v == SubSeq(w, 1, Len(u))
<1>5. w \in Text /\ Len(w) = Len(u) + Len(b) /\ \A i \in 1..Len(u) : w[i] = u[i]
  BY <1>1, <1>4, Joining
<1> HIDE DEF w
<1>6. v \in Text /\ Len(v) = Len(u) /\ \A i \in 1..Len(u) : v[i] = w[i]
  <2>1. Splits(w, 1, Len(u), Len(u))
    <3>1. Len(u) \in Nat /\ 1 \in Nat /\ 1 <= Len(u) + 1 /\ Len(u) <= Len(w)
      BY <1>1, <1>4, <1>5
    <3> QED BY <1>5, <3>1, Splitting
  <2>2. Len(u) - 1 + 1 = Len(u) /\ \A i \in Nat : 1 + i - 1 = i
    BY <1>4
  <2>3. v \in Text /\ Len(v) = Len(u) - 1 + 1
        /\ \A i \in 1..(Len(u) - 1 + 1) : v[i] = w[1 + i - 1]
    BY <2>1 DEF Splits
  <2> HIDE DEF v
  <2> QED BY <2>2, <2>3
<1> HIDE DEF v
<1>7. \A i \in 1..Len(v) : v[i] = u[i]
  BY <1>5, <1>6
<1>8. v = u
  BY <1>4, <1>6, <1>7, SameText
<1> QED BY <1>3, <1>4, <1>8 DEF v, w, u, a
-----------------------------------------------------------------------------
(* The steps of Finalized. *)

ZeroPads(flags) == "-" \notin flags /\ "0" \in flags
Inner(negative, full, flags) ==
  IF full > 0 /\ ZeroPads(flags) /\ (negative \/ flags \cap {"+", " "} # {}) THEN full - 1 ELSE full
Zeroed(digits, width, flags) == IF ZeroPads(flags) THEN Zeros(digits, width) ELSE digits
Hashed(digits, padded, base, flags) ==
  \/ "p" \in flags
  \/ "#" \in flags /\ ~ (base = 8 /\ Len(padded) > Len(digits))
Room(digits, padded, base, precision, width, flags) ==
  IF "." \notin flags /\ padded # <<>> /\ Len(padded) \in {precision, width}
  THEN TakeBack(padded, digits, base) ELSE padded
Lettered(room, base, flags) ==
  CASE base = 16 -> Put(room, IF "X" \in flags THEN "X" ELSE "x")
    [] base = 2 -> Put(room, "b")
    [] OTHER -> room
SignOf(negative, flags) ==
  CASE negative -> <<"-">>
    [] ~ negative /\ "+" \in flags -> <<"+">>
    [] ~ negative /\ "+" \notin flags /\ " " \in flags -> <<" ">>
    [] OTHER -> <<>>
Prefixed(digits, padded, base, precision, width, flags) ==
  IF Hashed(digits, padded, base, flags)
  THEN Put(Lettered(Room(digits, padded, base, precision, width, flags), base, flags), "0")
  ELSE padded
WithSign(s, sign) == IF sign = <<>> THEN s ELSE Put(s, sign[1])

LEMMA FinalizedIs ==
  ASSUME NEW digits, NEW negative, NEW base, NEW precision, NEW full, NEW flags,
         NEW width, width = Inner(negative, full, flags),
         NEW padded, padded = Zeros(Zeroed(digits, width, flags), precision)
  PROVE  Finalized(digits, negative, base, precision, full, flags)
           = OutRev(WithSign(Prefixed(digits, padded, base, precision, width, flags),
                             SignOf(negative, flags)), width, flags)
<1> DEFINE signed == negative \/ flags \cap {"+", " "} # {}
           wid == IF full > 0 /\ "-" \notin flags /\ "0" \in flags /\ signed
                  THEN full - 1 ELSE full
           zeroed == IF "-" \notin flags /\ "0" \in flags THEN Zeros(digits, wid) ELSE digits
           pad == Zeros(zeroed, precision)
           hash == \/ "p" \in flags
                   \/ "#" \in flags /\ ~ (base = 8 /\ Len(pad) > Len(digits))
           room == IF "." \notin flags /\ pad # <<>> /\ Len(pad) \in {precision, wid}
                   THEN TakeBack(pad, digits, base) ELSE pad
           lettered == CASE base = 16 -> Put(room, IF "X" \in flags THEN "X" ELSE "x")
                         [] base = 2 -> Put(room, "b")
                         [] OTHER -> room
           prefixed == IF hash THEN Put(lettered, "0") ELSE pad
           sign == CASE negative -> <<"-">>
                     [] ~ negative /\ "+" \in flags -> <<"+">>
                     [] ~ negative /\ "+" \notin flags /\ " " \in flags -> <<" ">>
                     [] OTHER -> <<>>
<1>1. Finalized(digits, negative, base, precision, full, flags)
        = OutRev(IF sign = <<>> THEN prefixed ELSE Put(prefixed, sign[1]), wid, flags)
  BY Zenon DEF Finalized
<1>2. wid = width
  BY Zenon DEF Inner, ZeroPads
<1>3. sign = SignOf(negative, flags)
  BY Zenon DEF SignOf
<1> HIDE DEF wid, sign
<1>4. pad = padded
  BY Zenon, <1>2 DEF Zeroed, ZeroPads
<1> HIDE DEF pad
<1>5. room = Room(digits, padded, base, precision, width, flags)
  BY Zenon, <1>2, <1>4 DEF Room
<1>6. hash <=> Hashed(digits, padded, base, flags)
  BY Zenon, <1>4 DEF Hashed
<1> HIDE DEF room, hash
<1>7. lettered = Lettered(Room(digits, padded, base, precision, width, flags), base, flags)
  BY Zenon, <1>5 DEF Lettered
<1> HIDE DEF lettered
<1>8. prefixed = Prefixed(digits, padded, base, precision, width, flags)
  BY Zenon, <1>4, <1>6, <1>7 DEF Prefixed
<1> HIDE DEF prefixed
<1> QED BY Zenon, <1>1, <1>2, <1>3, <1>8 DEF WithSign

LEMMA PutIs ==
  ASSUME NEW s \in Text, NEW c \in Characters
  PROVE  /\ Put(s, c) \in Text
         /\ Len(s) < BufferSize => Put(s, c) = Append(s, c) /\ Len(Put(s, c)) = Len(s) + 1
<1>1. Append(s, c) \in Text /\ Len(Append(s, c)) = Len(s) + 1
  BY OneMore DEF Text
<1> QED BY <1>1 DEF Put

LEMMA Named ==
  /\ " " \in Characters /\ "0" \in Characters /\ "-" \in Characters /\ "+" \in Characters
  /\ "x" \in Characters /\ "X" \in Characters /\ "b" \in Characters /\ "%" \in Characters
  /\ "(" \in Characters /\ ")" \in Characters /\ "n" \in Characters /\ "u" \in Characters
  /\ "l" \in Characters /\ "i" \in Characters
  BY DEF Characters

LEMMA ZerosIs ==
  ASSUME FormatAssumption, NEW s \in Text, NEW n \in Nat
  PROVE  /\ Zeros(s, n) \in Text
         /\ n <= BufferSize => Zeros(s, n) = s \o Times("0", n - Len(s))
         /\ n <= Len(s) => Zeros(s, n) = s
<1> DEFINE m == Min({n, BufferSize})
<1>1. m \in Nat /\ m <= n /\ (n <= BufferSize => m = n)
  BY Least2 DEF FormatAssumption
<1> HIDE DEF m
<1>2. Zeros(s, n) = s \o Times("0", m - Len(s))
  BY DEF Zeros, m
<1>3. Len(s) \in Nat /\ m - Len(s) \in Int
  BY <1>1, Lengths0
<1>4. Times("0", m - Len(s)) \in Text /\ (m - Len(s) <= 0 => Times("0", m - Len(s)) = <<>>)
  BY <1>3, Named, TimesIs
<1>5. Zeros(s, n) \in Text
  BY <1>2, <1>4, Joining
<1>6. n <= Len(s) => m - Len(s) <= 0
  BY <1>1, <1>3
<1> QED BY <1>1, <1>2, <1>4, <1>5, <1>6, JoiningNothing

LEMMA Prefix ==
  ASSUME NEW s \in Text, NEW n \in Nat, n <= Len(s)
  PROVE  SubSeq(s, 1, n) \in Text /\ Len(SubSeq(s, 1, n)) = n
<1>1. Splits(s, 1, n, n)
  <2>1. 1 \in Nat /\ 1 <= 1 /\ 1 <= n + 1 /\ n <= n
    OBVIOUS
  <2> QED BY <2>1, Splitting
<1> QED BY <1>1 DEF Splits

LEMMA SomeZeros ==
  ASSUME NEW n \in Nat
  PROVE  Times("0", n) \in Text /\ Len(Times("0", n)) = n
<1>1. "0" \in Characters
  BY Named
<1>2. n \in Int /\ (n > 0 \/ n = 0)
  OBVIOUS
<1>3. Times("0", n) \in Text /\ Len(Times("0", n)) = IF n > 0 THEN n ELSE 0
  BY <1>1, <1>2, TimesIs
<1> QED BY <1>2, <1>3

PrefixSize(base) == IF base = 8 THEN 1 ELSE 2

TakesBack(s, digits, base) ==
  \A k \in Nat : s = digits \o Times("0", k) =>
    TakeBack(s, digits, base) = digits \o Times("0", k - PrefixSize(base))

LEMMA TakeBackIs ==
  ASSUME NEW s \in Text, NEW digits \in Text, NEW base
  PROVE  TakeBack(s, digits, base) \in Text /\ TakesBack(s, digits, base)
<1> DEFINE n == IF base = 8 THEN 1 ELSE 2
           d == Len(digits)
           l == Len(s)
           m == Max({Min({d, l}), l - n})
<1>1. n \in {1, 2} /\ d \in Nat /\ l \in Nat
  BY Lengths0
<1>n. n = PrefixSize(base)
  BY DEF PrefixSize
<1> HIDE DEF n, d, l
<1>2. Min({d, l}) = (IF d <= l THEN d ELSE l) /\ Min({d, l}) \in Nat
  BY <1>1, Least2
<1>3. m = IF Min({d, l}) <= l - n THEN l - n ELSE Min({d, l})
  <2> DEFINE a == Min({d, l})
  <2>1. a \in Int /\ l - n \in Int
    BY <1>1, <1>2
  <2> HIDE DEF a
  <2>2. Max({a, l - n}) = IF a <= l - n THEN l - n ELSE a
    BY <2>1, Least2
  <2> QED BY <2>2 DEF a
<1>4. m \in Nat /\ m <= l
  BY <1>1, <1>2, <1>3
<1>5. TakeBack(s, digits, base) = SubSeq(s, 1, m)
  BY DEF TakeBack, n, d, l
<1> HIDE DEF m
<1>6. TakeBack(s, digits, base) \in Text
  BY <1>4, <1>5, Prefix DEF l
<1>7. ASSUME NEW k \in Nat, s = digits \o Times("0", k)
      PROVE  TakeBack(s, digits, base) = digits \o Times("0", k - n)
  <2>1. l = d + k
    <3>1. Times("0", k) \in Text /\ Len(Times("0", k)) = k
      BY SomeZeros
    <3> QED BY <1>7, <3>1, Joining DEF l, d
  <2> DEFINE j == IF k >= n THEN k - n ELSE 0
  <2>2. m = d + j /\ j \in Nat /\ j <= k
    BY <1>1, <1>2, <1>3, <2>1
  <2>3. Times("0", k - n) = Times("0", j)
    <3>1. CASE k >= n
      BY <3>1
    <3>2. CASE k < n
      <4>1. k - n \in Int /\ k - n <= 0 /\ j = 0 /\ 0 \in Int /\ 0 <= 0
        BY <1>1, <3>2
      <4>2. Times("0", k - n) = <<>> /\ Times("0", 0) = <<>>
        BY <4>1, Named, TimesIs
      <4> QED BY <4>1, <4>2
    <3> QED BY <1>1, <3>1, <3>2
  <2> HIDE DEF j
  <2>4. SubSeq(digits \o Times("0", k), 1, d + j) = digits \o Times("0", j)
    BY <2>2, CutTimes, Named DEF d
  <2> QED BY <1>5, <1>7, <2>2, <2>3, <2>4
<1> QED BY <1>6, <1>7, <1>n DEF TakesBack

LEMMA OutRevIs ==
  ASSUME NEW s \in Text, NEW width \in Int, NEW flags
  PROVE  /\ OutRev(s, width, flags) \in Text
         /\ ZeroPads(flags) => OutRev(s, width, flags) = Reverse(s)
         /\ "-" \in flags =>
              OutRev(s, width, flags) = Reverse(s) \o Times(" ", width - Len(s))
         /\ "-" \notin flags /\ "0" \notin flags =>
              OutRev(s, width, flags) = Times(" ", width - Len(s)) \o Reverse(s)
<1> DEFINE t == Times(" ", width - Len(s))
           r == Reverse(s)
           lead == IF flags \cap {"-", "0"} = {} THEN t ELSE <<>>
           trail == IF "-" \in flags THEN t ELSE <<>>
<1>1. OutRev(s, width, flags) = (lead \o r) \o trail
  BY DEF OutRev
<1>2. t \in Text
  <2>1. width - Len(s) \in Int
    BY Lengths0
  <2> QED BY <2>1, Named, TimesIs
<1>3. r \in Text
  BY Reversing
<1> HIDE DEF t, r
<1>4. <<>> \in Text
  BY JoiningNothing
<1>5. lead \in Text /\ trail \in Text
  BY <1>2, <1>4
<1>6. lead \o r \in Text
  <2> HIDE DEF lead
  <2> QED BY <1>3, <1>5, Joining
<1>7. (lead \o r) \o trail \in Text
  <2> HIDE DEF lead, trail
  <2> QED BY <1>5, <1>6, Joining
<1>8. ASSUME ZeroPads(flags) PROVE (lead \o r) \o trail = r
  <2>1. lead = <<>> /\ trail = <<>>
    BY <1>8 DEF ZeroPads
  <2>2. lead \o r = r
    BY <1>3, <2>1, JoiningNothing
  <2> QED BY <1>3, <2>1, <2>2, JoiningNothing
<1>9. ASSUME "-" \in flags PROVE (lead \o r) \o trail = r \o t
  <2>1. lead = <<>> /\ trail = t
    BY <1>9
  <2>2. lead \o r = r
    BY <1>3, <2>1, JoiningNothing
  <2> HIDE DEF lead, trail
  <2> QED BY <2>1, <2>2
<1>10. ASSUME "-" \notin flags, "0" \notin flags PROVE (lead \o r) \o trail = t \o r
  <2>1. lead = t /\ trail = <<>>
    BY <1>10
  <2>2. (lead \o r) \o trail = lead \o r
    <3> HIDE DEF lead
    <3> QED BY <1>6, <2>1, JoiningNothing
  <2> HIDE DEF lead, trail
  <2> QED BY <2>1, <2>2
<1> HIDE DEF lead, trail
<1> QED BY <1>1, <1>7, <1>8, <1>9, <1>10 DEF t, r

LEMMA SignIs ==
  ASSUME NEW negative \in BOOLEAN, NEW flags
  PROVE  /\ SignOf(negative, flags) \in Text
         /\ SignOf(negative, flags) # <<>> =>
              /\ Len(SignOf(negative, flags)) = 1
              /\ SignOf(negative, flags)[1] \in Characters
              /\ SignOf(negative, flags) = <<SignOf(negative, flags)[1]>>
         /\ SignOf(negative, flags) = <<>> <=> ~ negative /\ "+" \notin flags /\ " " \notin flags
<1> DEFINE sign == SignOf(negative, flags)
<1>1. sign \in {<<"-">>, <<"+">>, <<" ">>, <<>>}
      /\ (sign = <<>> <=> ~ negative /\ "+" \notin flags /\ " " \notin flags)
  <2>1. CASE negative
    BY <2>1 DEF SignOf
  <2>2. CASE ~ negative /\ "+" \in flags
    BY <2>2 DEF SignOf
  <2>3. CASE ~ negative /\ "+" \notin flags /\ " " \in flags
    BY <2>3 DEF SignOf
  <2>4. CASE ~ negative /\ "+" \notin flags /\ " " \notin flags
    BY <2>4 DEF SignOf
  <2> QED BY <2>1, <2>2, <2>3, <2>4
<1> HIDE DEF sign
<1>2. ASSUME NEW c \in {"-", "+", " "}, sign = <<c>>
      PROVE  sign \in Text /\ Len(sign) = 1 /\ sign[1] \in Characters /\ sign = <<sign[1]>>
  BY <1>2, Named, OneCharacter
<1>3. sign = <<>> => sign \in Text
  BY DEF Text
<1> QED BY <1>1, <1>2, <1>3 DEF sign

LEMMA FinalizedText ==
  ASSUME FormatAssumption, NEW digits \in Text, NEW negative \in BOOLEAN, NEW base,
         NEW precision \in Nat, NEW full \in Nat, NEW flags
  PROVE  Finalized(digits, negative, base, precision, full, flags) \in Text
<1> DEFINE width == Inner(negative, full, flags)
           zeroed == Zeroed(digits, width, flags)
           padded == Zeros(zeroed, precision)
           room == Room(digits, padded, base, precision, width, flags)
           lettered == Lettered(room, base, flags)
           prefixed == Prefixed(digits, padded, base, precision, width, flags)
           sign == SignOf(negative, flags)
<1>1. width \in Nat
  <2>1. width = full \/ (full > 0 /\ width = full - 1)
    BY Zenon DEF Inner
  <2> QED BY <2>1
<1>a. width = Inner(negative, full, flags)
  OBVIOUS
<1> HIDE DEF width
<1>b. padded = Zeros(Zeroed(digits, width, flags), precision)
  OBVIOUS
<1>2. zeroed \in Text
  BY <1>1, ZerosIs DEF Zeroed
<1> HIDE DEF zeroed
<1>3. padded \in Text
  BY <1>2, ZerosIs
<1> HIDE DEF padded
<1>4. room \in Text
  BY <1>3, TakeBackIs DEF Room
<1> HIDE DEF room
<1>5. lettered \in Text
  <2>1. Put(room, "x") \in Text /\ Put(room, "X") \in Text /\ Put(room, "b") \in Text
    BY <1>4, Named, PutIs
  <2>2. CASE base = 16
    BY <2>1, <2>2 DEF Lettered
  <2>3. CASE base = 2
    BY <2>1, <2>3 DEF Lettered
  <2>4. CASE base # 16 /\ base # 2
    BY <1>4, <2>4 DEF Lettered
  <2> QED BY <2>2, <2>3, <2>4
<1> HIDE DEF lettered
<1>6. prefixed \in Text
  <2>1. Put(lettered, "0") \in Text
    BY <1>5, Named, PutIs
  <2>2. prefixed = IF Hashed(digits, padded, base, flags) THEN Put(lettered, "0") ELSE padded
    BY Zenon DEF Prefixed, lettered, room
  <2> HIDE DEF prefixed
  <2> QED BY <1>3, <2>1, <2>2
<1> HIDE DEF prefixed
<1>7. WithSign(prefixed, sign) \in Text
  BY <1>6, SignIs, PutIs DEF WithSign
<1>8. Finalized(digits, negative, base, precision, full, flags)
        = OutRev(WithSign(prefixed, sign), width, flags)
  BY <1>a, <1>b, FinalizedIs DEF prefixed, sign
<1> HIDE DEF sign
<1>9. width \in Int
  BY <1>1
<1> QED BY <1>7, <1>8, <1>9, OutRevIs
-----------------------------------------------------------------------------
(* What the conversions print is text. *)

LEMMA SixteenRadix ==
  ASSUME NEW base \in {2, 8, 10, 16}, NEW digits \in {Digits16, Upper16}
  PROVE  Radix(base, digits) /\ \A k \in 1..(base - 1) : digits[k + 1] # "0"
<1>1. \A k \in 1..15 : Digits16[k + 1] # "0" /\ Upper16[k + 1] # "0"
  BY DEF Digits16, Upper16, Digits10
<1>2. \A k \in 1..(base - 1) : k \in 1..15
  OBVIOUS
<1>3. base \in Nat /\ base > 1 /\ \A k \in 1..base : k \in 1..16
  OBVIOUS
<1> QED BY <1>1, <1>2, <1>3, DigitsAreCharacters DEF Radix

Types == {"hh", "h", "int", "l"}

LEMMA Remainder ==
  ASSUME NEW c \in Nat \ {0}, NEW x \in Int
  PROVE  x % c \in Nat
  OBVIOUS

LEMMA ValuesAre ==
  ASSUME FormatAssumption, NEW type \in Types, NEW x \in Int
  PROVE  Unsigned(x, type) \in Nat /\ Signed(x, type) \in Int
<1>1. Bits[type] \in Nat /\ Bits[type] - 1 \in Nat
  BY DEF FormatAssumption, Types
<1>2. Power(Bits[type]) \in Nat \ {0} /\ Power(Bits[type] - 1) \in Nat \ {0}
  BY <1>1, PowerIs
<1>3. Unsigned(x, type) \in Nat
  BY <1>2, Remainder DEF Unsigned
<1> QED BY <1>2, <1>3 DEF Signed

LEMMA PrintIntegerText ==
  ASSUME FormatAssumption, NEW value \in Nat, NEW negative \in BOOLEAN,
         NEW base \in {2, 8, 10, 16}, NEW precision \in Nat, NEW width \in Nat, NEW flags
  PROVE  print_integer(value, negative, base, precision, width, flags) \in Text
<1>1. CASE value = 0
  <2> DEFINE digits == IF "." \in flags THEN <<>> ELSE <<"0">>
             rest == IF "." \in flags /\ base # 16 THEN flags ELSE flags \ {"#"}
  <2>1. digits \in Text
    <3>1. <<"0">> \in Text
      BY Named, OneCharacter
    <3>2. <<>> \in Text
      BY DEF Text
    <3> HIDE DEF rest
    <3> QED BY <3>1, <3>2
  <2>2. print_integer(value, negative, base, precision, width, flags)
          = Finalized(digits, negative, base, precision, width, rest)
    BY <1>1, Zenon DEF print_integer
  <2> HIDE DEF digits, rest
  <2> QED BY <2>1, <2>2, FinalizedText
<1>2. CASE value # 0
  <2> DEFINE table == IF "X" \in flags THEN Upper16 ELSE Digits16
             digits == Converted(value, base, table)
  <2>1. table \in {Digits16, Upper16}
    OBVIOUS
  <2>2. print_integer(value, negative, base, precision, width, flags)
          = Finalized(digits, negative, base, precision, width, flags)
    BY <1>2, Zenon DEF print_integer
  <2> HIDE DEF table
  <2>3. digits \in Text
    BY <2>1, SixteenRadix, ConvertedIs
  <2> HIDE DEF digits
  <2> QED BY <2>2, <2>3, FinalizedText
<1> QED BY <1>1, <1>2

BaseOf(conversion) ==
  CASE conversion \in {"x", "X"} -> 16 [] conversion = "o" -> 8 [] conversion = "b" -> 2
    [] OTHER -> 10
ValueOf(conversion, type, arg) ==
  IF conversion \in {"d", "i"} THEN Signed(arg, type) ELSE Unsigned(arg, type)
FlagsLeft(flags, conversion) ==
  (flags \cup {conversion})
    \ ((IF BaseOf(conversion) = 10 THEN {"#"} ELSE {})
         \cup (IF "." \in flags THEN {"0"} ELSE {})
         \cup (IF conversion \in {"d", "i"} THEN {} ELSE {"+", " "}))
Size(v) == IF v < 0 THEN -v ELSE v

LEMMA PrintIntegralIs ==
  ASSUME NEW d, NEW arg, NEW v, v = ValueOf(d.conversion, d.type, arg)
  PROVE  PrintIntegral(d, arg)
           = print_integer(Size(v), v < 0, BaseOf(d.conversion), d.precision, d.width,
                           FlagsLeft(d.flags, d.conversion))
<1> DEFINE base == CASE d.conversion \in {"x", "X"} -> 16 [] d.conversion = "o" -> 8
                     [] d.conversion = "b" -> 2 [] OTHER -> 10
           signed == d.conversion \in {"d", "i"}
           value == IF signed THEN Signed(arg, d.type) ELSE Unsigned(arg, d.type)
           flags == (d.flags \cup {d.conversion})
                      \ ((IF base = 10 THEN {"#"} ELSE {})
                           \cup (IF "." \in d.flags THEN {"0"} ELSE {})
                           \cup (IF signed THEN {} ELSE {"+", " "}))
<1>1. PrintIntegral(d, arg)
        = print_integer(IF value < 0 THEN -value ELSE value, value < 0, base,
                        d.precision, d.width, flags)
  BY Zenon DEF PrintIntegral
<1>2. base = BaseOf(d.conversion)
  BY Zenon DEF BaseOf
<1> HIDE DEF base
<1>3. flags = FlagsLeft(d.flags, d.conversion)
  BY Zenon, <1>2 DEF FlagsLeft
<1>4. value = v
  BY Zenon DEF ValueOf
<1> HIDE DEF flags, value
<1> QED BY Zenon, <1>1, <1>2, <1>3, <1>4 DEF Size

LEMMA BaseIs ==
  ASSUME NEW conversion
  PROVE  BaseOf(conversion) \in {2, 8, 10, 16}
<1>1. CASE conversion \in {"x", "X"}
  BY <1>1 DEF BaseOf
<1>2. CASE conversion = "o"
  BY <1>2 DEF BaseOf
<1>3. CASE conversion = "b"
  BY <1>3 DEF BaseOf
<1>4. CASE conversion \notin {"x", "X", "o", "b"}
  BY <1>4 DEF BaseOf
<1> QED BY <1>1, <1>2, <1>3, <1>4

LEMMA PrintIntegralText ==
  ASSUME FormatAssumption, NEW d, d.type \in Types, d.precision \in Nat, d.width \in Nat,
         NEW arg \in Int
  PROVE  PrintIntegral(d, arg) \in Text
<1> DEFINE v == ValueOf(d.conversion, d.type, arg)
<1>1. v \in Int
  <2>1. Signed(arg, d.type) \in Int /\ Unsigned(arg, d.type) \in Int
    BY ValuesAre
  <2> QED BY <2>1 DEF ValueOf
<1>2. PrintIntegral(d, arg)
        = print_integer(Size(v), v < 0, BaseOf(d.conversion), d.precision, d.width,
                        FlagsLeft(d.flags, d.conversion))
  BY PrintIntegralIs
<1>3. Size(v) \in Nat
  BY <1>1 DEF Size
<1> DEFINE neg == v < 0
<1>4. neg \in BOOLEAN
  BY <1>1
<1>5. PrintIntegral(d, arg)
        = print_integer(Size(v), neg, BaseOf(d.conversion), d.precision, d.width,
                        FlagsLeft(d.flags, d.conversion))
  BY <1>2
<1> HIDE DEF v, neg
<1>6. BaseOf(d.conversion) \in {2, 8, 10, 16}
  BY BaseIs
<1> QED BY <1>3, <1>4, <1>5, <1>6, PrintIntegerText

LEMMA PaddedText ==
  ASSUME NEW s \in Text, NEW width \in Int, NEW flags
  PROVE  Padded(s, width, flags) \in Text
<1> DEFINE t == Times(" ", width - Len(s))
<1>1. t \in Text
  <2>1. width - Len(s) \in Int
    BY Lengths0
  <2> QED BY <2>1, Named, TimesIs
<1>2. Padded(s, width, flags) = IF "-" \in flags THEN s \o t ELSE t \o s
  BY DEF Padded
<1> HIDE DEF t
<1> QED BY <1>1, <1>2, Joining

LEMMA WordsAre ==
  /\ <<")", "l", "i", "n", "(">> \in Text
  /\ <<")", "l", "l", "u", "n", "(">> \in Text
<1> DEFINE s == <<")", "l", "i", "n", "(">>
           t == <<")", "l", "l", "u", "n", "(">>
<1>1. s = [i \in 1..5 |-> s[i]] /\ t = [i \in 1..6 |-> t[i]]
  OBVIOUS
<1>2. \A i \in 1..5 : s[i] \in Characters
  <2>1. s[1] = ")" /\ s[2] = "l" /\ s[3] = "i" /\ s[4] = "n" /\ s[5] = "("
    OBVIOUS
  <2>2. \A i \in 1..5 : i = 1 \/ i = 2 \/ i = 3 \/ i = 4 \/ i = 5
    OBVIOUS
  <2> HIDE DEF s
  <2> QED BY <2>1, <2>2, Named
<1>3. \A i \in 1..6 : t[i] \in Characters
  <2>1. t[1] = ")" /\ t[2] = "l" /\ t[3] = "l" /\ t[4] = "u" /\ t[5] = "n" /\ t[6] = "("
    OBVIOUS
  <2>2. \A i \in 1..6 : i = 1 \/ i = 2 \/ i = 3 \/ i = 4 \/ i = 5 \/ i = 6
    OBVIOUS
  <2> HIDE DEF t
  <2> QED BY <2>1, <2>2, Named
<1> HIDE DEF s, t
<1>4. [i \in 1..5 |-> s[i]] \in Text /\ [i \in 1..6 |-> t[i]] \in Text
  BY <1>2, <1>3 DEF Text
<1>5. s \in Text /\ t \in Text
  BY <1>1, <1>4
<1> QED BY <1>5 DEF s, t

LEMMA PrintPointerText ==
  ASSUME FormatAssumption, NEW d, d.precision \in Nat, NEW arg \in Nat
  PROVE  PrintPointer(d, arg) \in Text
<1> DEFINE width == Bits["l"] \div 4 + 2
           flags == d.flags \cup {"0", "p"}
           word == <<")", "l", "i", "n", "(">>
<1>1. width \in Nat
  BY DEF FormatAssumption
<1>2. word \in Text
  BY WordsAre
<1>3. PrintPointer(d, arg)
        = IF arg = 0 THEN OutRev(word, width, flags)
          ELSE print_integer(arg, FALSE, 16, d.precision, width, flags)
  BY DEF PrintPointer
<1> HIDE DEF width, flags, word
<1>4. OutRev(word, width, flags) \in Text
  <2>1. width \in Int
    BY <1>1
  <2> QED BY <2>1, <1>2, OutRevIs
<1>5. print_integer(arg, FALSE, 16, d.precision, width, flags) \in Text
  BY <1>1, PrintIntegerText
<1> QED BY <1>3, <1>4, <1>5

LEMMA PrintStringText ==
  ASSUME NEW d, d.precision \in Nat, d.width \in Nat, NEW arg \in Text
  PROVE  PrintString(d, arg) \in Text
<1> DEFINE word == <<")", "l", "l", "u", "n", "(">>
           cut == IF "." \in d.flags THEN SubSeq(arg, 1, Min({d.precision, Len(arg)})) ELSE arg
<1>1. word \in Text
  BY WordsAre
<1>2. cut \in Text
  BY Cut
<1>3. PrintString(d, arg)
        = IF arg = <<NUL>> THEN OutRev(word, d.width, d.flags) ELSE Padded(cut, d.width, d.flags)
  BY Zenon DEF PrintString
<1> HIDE DEF word, cut
<1>4. d.width \in Int
  OBVIOUS
<1> QED BY <1>1, <1>2, <1>3, <1>4, OutRevIs, PaddedText

LEMMA RealIs ==
  ASSUME NEW d, Real(d)
  PROVE  /\ ~ d.plain /\ d.conversion \in Converts /\ d.star \in BOOLEAN /\ d.width \in Int
         /\ (~ d.star => d.width = None \/ d.width > 0)
         /\ d.precision \in Nat \cup {None} /\ d.length \in Lengths
         /\ (d.conversion \in Integral => d.arg \in Int)
         /\ (d.conversion = "c" => d.arg \in Characters)
         /\ (d.conversion = "s" => d.arg \in Text)
         /\ (d.conversion \in {"c", "s"} => Range(d.flags) \subseteq {"-"})
         /\ (d.conversion = "p" => d.arg \in Nat /\ d.flags = <<>> /\ d.precision = None
                                     /\ d.width = None /\ ~ d.star)
         /\ ReadPrecision(d) \in Nat /\ ReadWidth(d) \in Nat /\ TypeOf(d) \in Types
<1>1. /\ ~ d.plain /\ d.conversion \in Converts /\ d.star \in BOOLEAN /\ d.width \in Int
      /\ (~ d.star => d.width = None \/ d.width > 0)
      /\ d.precision \in Nat \cup {None} /\ d.length \in Lengths
      /\ (d.conversion \in Integral => d.arg \in Int)
      /\ (d.conversion = "c" => d.arg \in STRING)
      /\ (d.conversion = "s" => d.arg \in Seq(STRING))
      /\ (d.conversion \in {"c", "s"} => Range(d.flags) \subseteq {"-"})
      /\ (d.conversion = "p" => d.arg \in Nat /\ d.flags = <<>> /\ d.precision = None
                                  /\ d.width = None /\ ~ d.star)
  BY DEF Real
<1>2. STRING \subseteq Characters
  BY DEF Characters
<1>3. d.conversion = "s" => d.arg \in Text
  BY <1>1, <1>2, SubText
<1>4. ReadPrecision(d) \in Nat
  BY <1>1 DEF ReadPrecision
<1>5. ReadWidth(d) \in Nat
  BY <1>1 DEF ReadWidth
<1>6. TypeOf(d) \in Types
  <2>1. CASE d.length = <<"h", "h">>
    BY <2>1 DEF TypeOf, Types
  <2>2. CASE d.length = <<"h">>
    BY <2>2 DEF TypeOf, Types
  <2>3. CASE d.length = <<>>
    BY <2>3 DEF TypeOf, Types
  <2>4. CASE d.length \notin {<<"h", "h">>, <<"h">>, <<>>}
    BY <2>4 DEF TypeOf, Types
  <2> QED BY <2>1, <2>2, <2>3, <2>4
<1> QED BY <1>1, <1>2, <1>3, <1>4, <1>5, <1>6

LEMMA ConversionText ==
  ASSUME FormatAssumption, NEW d, Real(d)
  PROVE  Conversion(Read(d), d.arg) \in Text
<1> DEFINE e == Read(d)
<1>1. /\ e.conversion = d.conversion /\ e.type = TypeOf(d) /\ e.precision = ReadPrecision(d)
      /\ e.width = ReadWidth(d) /\ e.flags = ReadFlags(d)
  BY DEF Read
<1> HIDE DEF e
<1>2. e.type \in Types /\ e.precision \in Nat /\ e.width \in Nat
  BY <1>1, RealIs
<1>3. CASE d.conversion \in Integral
  <2>1. Conversion(e, d.arg) = PrintIntegral(e, d.arg)
    <3>1. d.conversion # "c" /\ d.conversion # "s" /\ d.conversion # "p"
      BY <1>3 DEF Integral
    <3> QED BY <1>1, <1>3, <3>1 DEF Conversion
  <2>2. d.arg \in Int
    BY <1>3, RealIs
  <2> QED BY <1>2, <2>1, <2>2, PrintIntegralText DEF e
<1>4. CASE d.conversion = "c"
  <2>1. d.conversion \notin Integral
    BY <1>4 DEF Integral
  <2>2. Conversion(e, d.arg) = Padded(<<d.arg>>, Max({e.width, 1}), e.flags)
    BY <1>1, <1>4, <2>1 DEF Conversion
  <2>3. <<d.arg>> \in Text /\ Max({e.width, 1}) \in Int
    <3>1. d.arg \in Characters
      BY <1>4, RealIs
    <3>2. e.width \in Int /\ 1 \in Int
      BY <1>2
    <3> QED BY <3>1, <3>2, OneCharacter, Least2
  <2> QED BY <2>2, <2>3, PaddedText DEF e
<1>5. CASE d.conversion = "s"
  <2>1. d.conversion \notin Integral
    BY <1>5 DEF Integral
  <2>2. Conversion(e, d.arg) = PrintString(e, d.arg)
    BY <1>1, <1>5, <2>1 DEF Conversion
  <2>3. d.arg \in Text
    BY <1>5, RealIs
  <2> QED BY <1>2, <2>2, <2>3, PrintStringText DEF e
<1>6. CASE d.conversion = "p"
  <2>1. d.conversion \notin Integral
    BY <1>6 DEF Integral
  <2>2. Conversion(e, d.arg) = PrintPointer(e, d.arg)
    BY <1>1, <1>6, <2>1 DEF Conversion
  <2>3. d.arg \in Nat
    BY <1>6, RealIs
  <2> QED BY <1>2, <2>2, <2>3, PrintPointerText DEF e
<1>7. d.conversion \in Integral \cup {"c", "s", "p"}
  BY RealIs DEF Converts
<1> QED BY <1>3, <1>4, <1>5, <1>6, <1>7
-----------------------------------------------------------------------------
(* The arguments of a directive. *)

LEMMA StarsAre ==
  ASSUME FormatAssumption, NEW d, Proper(d)
  PROVE  Stars(WidthPart(d), PrecisionField(d))
           = (IF d.star THEN 1 ELSE 0) + (IF d.dot_star THEN 1 ELSE 0)
<1>1. /\ d.star \in BOOLEAN /\ d.dot_star \in BOOLEAN /\ d.width \in Int
      /\ (~ d.star => d.width = None \/ d.width > 0)
      /\ d.precision \in Int /\ (~ d.dot_star => d.precision \in Nat \cup {None})
  BY ProperIs
<1>2. WidthPart(d) = <<"*">> <=> d.star
  <2>1. ~ d.star => d.width = None \/ d.width \in Nat
    BY <1>1
  <2>2. ~ d.star => Numeral(d.width) # <<"*">>
    BY <1>1, <2>1, StarIs
  <2> QED BY <1>1, <2>2 DEF WidthPart
<1>3. PrecisionField(d) = <<"*">> <=> d.dot_star
  <2>1. ~ d.dot_star => Numeral(d.precision) # <<"*">>
    BY <1>1, StarIs
  <2> QED BY <1>1, <2>1 DEF PrecisionField
<1> QED BY <1>2, <1>3 DEF Stars

LEMMA Two ==
  ASSUME NEW E, NEW a \in Seq(E), NEW b \in Seq(E)
  PROVE  /\ a \o b \in Seq(E) /\ Len(a \o b) = Len(a) + Len(b)
         /\ \A i \in 1..Len(a) : (a \o b)[i] = a[i]
         /\ \A i \in 1..Len(b) : (a \o b)[Len(a) + i] = b[i]
  OBVIOUS

LEMMA ArgumentsRead ==
  ASSUME FormatAssumption, NEW d, Proper(d), NEW E, d.width \in E, d.precision \in E, d.arg \in E,
         NEW rest \in Seq(E), args = Arguments(d) \o rest,
         NEW n, n = Stars(WidthPart(d), PrecisionField(d))
  PROVE  /\ n \in Nat
         /\ d.star => args[1] = d.width
         /\ d.dot_star => args[n] = d.precision
         /\ args[n + 1] = d.arg
         /\ SubSeq(args, n + 2, Len(args)) = rest
<1> DEFINE a1 == IF d.star THEN <<d.width>> ELSE <<>>
           a2 == IF d.dot_star THEN <<d.precision>> ELSE <<>>
           a3 == <<d.arg>>
           b == a1 \o a2
           c == b \o a3
<1>1. ~ d.plain /\ d.conversion # "%" /\ d.star \in BOOLEAN /\ d.dot_star \in BOOLEAN
  BY ProperIs DEF Converts, Integral
<1>2. Arguments(d) = c
  BY <1>1 DEF Arguments
<1>3. a1 \in Seq(E) /\ Len(a1) = (IF d.star THEN 1 ELSE 0) /\ (d.star => a1[1] = d.width)
  BY <1>1
<1>4. a2 \in Seq(E) /\ Len(a2) = (IF d.dot_star THEN 1 ELSE 0) /\ (d.dot_star => a2[1] = d.precision)
  BY <1>1
<1>5. a3 \in Seq(E) /\ Len(a3) = 1 /\ a3[1] = d.arg
  OBVIOUS
<1> HIDE DEF a1, a2, a3
<1>6. /\ b \in Seq(E) /\ Len(b) = Len(a1) + Len(a2)
      /\ \A i \in 1..Len(a1) : b[i] = a1[i]
      /\ \A i \in 1..Len(a2) : b[Len(a1) + i] = a2[i]
  BY <1>3, <1>4, Two
<1> HIDE DEF b
<1>7. /\ c \in Seq(E) /\ Len(c) = Len(b) + Len(a3)
      /\ \A i \in 1..Len(b) : c[i] = b[i]
      /\ \A i \in 1..Len(a3) : c[Len(b) + i] = a3[i]
  <2>1. b \in Seq(E) /\ a3 \in Seq(E)
    BY <1>5, <1>6
  <2> QED BY <2>1, Two
<1> HIDE DEF c
<1>8. /\ \A i \in 1..Len(c) : (c \o rest)[i] = c[i]
      /\ SubSeq(c \o rest, Len(c) + 1, Len(c \o rest)) = rest
  BY <1>7, Two, Suffix
<1>9. n = Len(b) /\ n \in Nat /\ Len(c) = n + 1
  BY <1>1, <1>3, <1>4, <1>5, <1>6, <1>7, StarsAre
<1>10. args = c \o rest
  BY <1>2
<1>11. \A i \in 1..(n + 1) : args[i] = c[i]
  BY <1>8, <1>9, <1>10
<1>12. args[n + 1] = d.arg
  <2>1. 1 \in 1..Len(a3) /\ n + 1 \in 1..(n + 1)
    BY <1>5, <1>9
  <2>2. args[n + 1] = c[n + 1]
    BY <1>11, <2>1
  <2>3. c[Len(b) + 1] = a3[1]
    BY <1>7, <2>1
  <2> QED BY <1>5, <1>9, <2>2, <2>3
<1>13. ASSUME d.star PROVE args[1] = d.width
  <2>1. 1 \in 1..Len(a1) /\ 1 \in 1..Len(b) /\ 1 \in 1..(n + 1)
    BY <1>3, <1>4, <1>6, <1>9, <1>13
  <2>2. args[1] = c[1]
    BY <1>11, <2>1
  <2>3. c[1] = b[1] /\ b[1] = a1[1]
    BY <1>6, <1>7, <2>1
  <2> QED BY <1>3, <1>13, <2>2, <2>3
<1>14. ASSUME d.dot_star PROVE args[n] = d.precision
  <2>1. 1 \in 1..Len(a2) /\ Len(a1) + 1 = n /\ n \in 1..Len(b) /\ n \in 1..(n + 1)
    BY <1>1, <1>3, <1>4, <1>6, <1>9, <1>14
  <2>2. args[n] = c[n]
    BY <1>11, <2>1
  <2>3. c[n] = b[n] /\ b[n] = a2[1]
    BY <1>6, <1>7, <2>1
  <2> QED BY <1>4, <1>14, <2>2, <2>3
<1>15. SubSeq(args, n + 2, Len(args)) = rest
  <2>1. n + 2 = Len(c) + 1
    BY <1>9
  <2> QED BY <1>8, <1>10, <2>1
<1> QED BY <1>9, <1>12, <1>13, <1>14, <1>15

LEMMA ArgumentsIn ==
  ASSUME NEW d, DirectiveOK(d), NEW E, d.width \in E, d.precision \in E, d.arg \in E
  PROVE  Arguments(d) \in Seq(E)
<1> DEFINE a1 == IF d.star THEN <<d.width>> ELSE <<>>
           a2 == IF d.dot_star THEN <<d.precision>> ELSE <<>>
           a3 == <<d.arg>>
<1>1. Arguments(d) = <<>> \/ Arguments(d) = a1 \o a2 \o a3
  BY Zenon DEF Arguments
<1>2. a1 \in Seq(E) /\ a2 \in Seq(E) /\ a3 \in Seq(E)
  OBVIOUS
<1> HIDE DEF a1, a2, a3
<1>3. a1 \o a2 \o a3 \in Seq(E)
  <2>1. a1 \o a2 \in Seq(E)
    BY <1>2, Two
  <2> QED BY <1>2, <2>1, Two
<1>4. <<>> \in Seq(E)
  OBVIOUS
<1> QED BY <1>1, <1>3, <1>4
-----------------------------------------------------------------------------
(* Where the call is: before its directive n + 1. *)

Count == Len(job.directives)
Writings == [i \in DOMAIN job.directives |-> Written(job.directives[i])]
Takings == [i \in DOMAIN job.directives |-> Arguments(job.directives[i])]
Printings == [i \in DOMAIN job.directives |-> Standard(AsMeant(job.directives[i]))]
AllRegular == \A d \in Range(job.directives) : Regular(d)
Givens == UNION {{d.width, d.precision, d.arg} : d \in Range(job.directives)}

LEMMA JobIs ==
  ASSUME JobOK(job)
  PROVE  /\ Count \in Nat /\ DOMAIN job.directives = 1..Count
         /\ \A i \in 1..Count : /\ job.directives[i] \in Range(job.directives)
                                /\ DirectiveOK(job.directives[i])
         /\ job.tail \in Text /\ CutOff(job.tail)
         /\ job.size \in Nat \cup {Unlimited}
<1>1. job.directives \in Seq(Range(job.directives))
  BY DEF JobOK
<1>2. Count \in Nat /\ DOMAIN job.directives = 1..Count
  BY <1>1 DEF Count
<1>3. \A i \in 1..Count : job.directives[i] \in Range(job.directives)
  BY <1>2 DEF Range
<1>4. STRING \subseteq Characters
  BY DEF Characters
<1>5. job.tail \in Text /\ CutOff(job.tail) /\ job.size \in Nat \cup {Unlimited}
  BY <1>4, SubText DEF JobOK
<1> QED BY <1>2, <1>3, <1>5 DEF JobOK

LEMMA PlainIs ==
  ASSUME NEW d, DirectiveOK(d), d.plain
  PROVE  /\ d.conversion \in Characters /\ d.conversion \notin {"%", NUL}
         /\ Written(d) = <<d.conversion>> /\ Standard(AsMeant(d)) = <<d.conversion>>
         /\ Arguments(d) = <<>>
<1>1. d.conversion \in STRING \ {"%", NUL}
  BY DEF DirectiveOK
<1>2. d.conversion \in Characters /\ d.conversion \notin {"%", NUL}
  BY <1>1 DEF Characters
<1>3. Written(d) = <<d.conversion>> /\ Arguments(d) = <<>>
  BY DEF Written, Arguments
<1>4. Standard(AsMeant(d)) = <<d.conversion>>
  BY DEF Standard, AsMeant
<1> QED BY <1>2, <1>3, <1>4

LEMMA PercentIs ==
  ASSUME NEW d, DirectiveOK(d), ~ d.plain, d.conversion = "%"
  PROVE  /\ Written(d) = <<"%", "%">> /\ Standard(AsMeant(d)) = <<"%">>
         /\ Arguments(d) = <<>>
<1>1. Written(d) = <<"%", "%">> /\ Arguments(d) = <<>>
  BY DEF Written, Arguments
<1>2. "%" \notin Integral /\ "%" # "c" /\ "%" # "s" /\ "%" # "p"
  BY DEF Integral
<1>3. AsMeant(d) = d
  BY <1>2 DEF AsMeant, Converts
<1>4. Standard(d) = <<"%">>
  BY <1>2 DEF Standard
<1> QED BY <1>1, <1>3, <1>4

LEMMA OneOf ==
  ASSUME NEW d, DirectiveOK(d)
  PROVE  d.plain \/ (~ d.plain /\ d.conversion = "%") \/ Proper(d)
  BY DEF DirectiveOK, Proper

LEMMA PiecesOf ==
  ASSUME FormatAssumption, JobOK(job)
  PROVE  /\ Pieces(Writings, Characters) /\ Len(Writings) = Count
         /\ Pieces(Takings, Givens) /\ Len(Takings) = Count
<1>1. Count \in Nat /\ DOMAIN job.directives = 1..Count
  BY JobIs
<1>2. Len(Writings) = Count /\ DOMAIN Writings = 1..Count
      /\ \A i \in 1..Count : Writings[i] = Written(job.directives[i])
  BY <1>1 DEF Writings
<1>3. Len(Takings) = Count /\ DOMAIN Takings = 1..Count
      /\ \A i \in 1..Count : Takings[i] = Arguments(job.directives[i])
  BY <1>1 DEF Takings
<1>4. ASSUME NEW i \in 1..Count PROVE Written(job.directives[i]) \in Text
  <2> DEFINE d == job.directives[i]
  <2>1. DirectiveOK(d)
    BY JobIs
  <2> HIDE DEF d
  <2>2. <<"%", "%">> \in Text
    <3>1. "%" \in Characters
      BY Named
    <3> QED BY <3>1 DEF Text
  <2>3. Written(d) \in Text
    BY <2>1, <2>2, OneOf, PlainIs, OneCharacter, PercentIs, WrittenIs
  <2> QED BY <2>3 DEF d
<1>5. ASSUME NEW i \in 1..Count PROVE Arguments(job.directives[i]) \in Seq(Givens)
  <2> DEFINE d == job.directives[i]
  <2>1. DirectiveOK(d) /\ d \in Range(job.directives)
    BY JobIs
  <2> HIDE DEF d
  <2>2. d.width \in Givens /\ d.precision \in Givens /\ d.arg \in Givens
    BY <2>1 DEF Givens
  <2>3. Arguments(d) \in Seq(Givens)
    BY <2>1, <2>2, ArgumentsIn
  <2> QED BY <2>3 DEF d
<1> HIDE DEF Writings, Takings
<1>6. \A i \in 1..Count : Writings[i] \in Seq(Characters)
  BY <1>2, <1>4 DEF Text
<1>7. \A i \in 1..Count : Takings[i] \in Seq(Givens)
  BY <1>3, <1>5
<1> QED BY <1>1, <1>2, <1>3, <1>6, <1>7 DEF Pieces

PrintPosition(n) ==
  /\ n \in 0..Count
  /\ \/ format = Rest(Writings, job.tail, n)
     \/ n = Count /\ format = <<>>
  /\ args = Rest(Takings, <<>>, n)
  /\ AllRegular => printed = Joined(Printings, n)

(* The directive n + 1 is read in the position n. *)
Next1(n) == job.directives[n + 1]
RestText(n) == Rest(Writings, job.tail, n + 1)
RestArgs(n) == Rest(Takings, <<>>, n + 1)

LEMMA AtDirective ==
  ASSUME FormatAssumption, JobOK(job), NEW n, PrintPosition(n), n # Count
  PROVE  /\ n \in Nat /\ n + 1 \in 0..Count /\ n + 1 \in 1..Count
         /\ Next1(n) \in Range(job.directives) /\ DirectiveOK(Next1(n))
         /\ format = Written(Next1(n)) \o RestText(n) /\ RestText(n) \in Text
         /\ args = Arguments(Next1(n)) \o RestArgs(n) /\ RestArgs(n) \in Seq(Givens)
         /\ Next1(n).width \in Givens /\ Next1(n).precision \in Givens
         /\ Next1(n).arg \in Givens
<1> DEFINE m == n + 1
<1>1. n \in 0..Count /\ format = Rest(Writings, job.tail, n) /\ args = Rest(Takings, <<>>, n)
  BY DEF PrintPosition
<1>2. m \in 1..Count /\ m \in 0..Count /\ n \in Nat /\ m - 1 = n /\ Count \in Nat
  BY <1>1, JobIs
<1> HIDE DEF m
<1>3. /\ Pieces(Writings, Characters) /\ Len(Writings) = Count
      /\ Pieces(Takings, Givens) /\ Len(Takings) = Count
  BY PiecesOf
<1>4. Writings[m] = Written(job.directives[m]) /\ Takings[m] = Arguments(job.directives[m])
  <2>1. m \in DOMAIN job.directives
    BY <1>2, JobIs
  <2> QED BY <2>1 DEF Writings, Takings
<1>5. /\ Rest(Writings, job.tail, m) \in Seq(Characters)
      /\ Rest(Writings, job.tail, m - 1) = Writings[m] \o Rest(Writings, job.tail, m)
  <2>1. job.tail \in Seq(Characters)
    BY JobIs DEF Text
  <2> HIDE DEF Writings
  <2>2. Unfolds(Writings, job.tail, Characters)
    BY <1>3, <2>1, RestUnfolds
  <2> QED BY <1>2, <1>3, <2>2 DEF Unfolds
<1>6. /\ Rest(Takings, <<>>, m) \in Seq(Givens)
      /\ Rest(Takings, <<>>, m - 1) = Takings[m] \o Rest(Takings, <<>>, m)
  <2>1. <<>> \in Seq(Givens)
    OBVIOUS
  <2> HIDE DEF Takings, Givens
  <2>2. Unfolds(Takings, <<>>, Givens)
    BY <1>3, <2>1, RestUnfolds
  <2> QED BY <1>2, <1>3, <2>2 DEF Unfolds
<1>7. job.directives[m] \in Range(job.directives) /\ DirectiveOK(job.directives[m])
  BY <1>2, JobIs
<1>8. /\ job.directives[m].width \in Givens /\ job.directives[m].precision \in Givens
      /\ job.directives[m].arg \in Givens
  BY <1>7 DEF Givens
<1> HIDE DEF Writings, Takings, Givens
<1> QED BY <1>1, <1>2, <1>4, <1>5, <1>6, <1>7, <1>8 DEF Next1, RestText, RestArgs, m, Text

LEMMA AtEnd ==
  ASSUME FormatAssumption, JobOK(job), PrintPosition(Count)
  PROVE  /\ format = job.tail \/ format = <<>>
         /\ args = <<>>
<1>1. Rest(Writings, job.tail, Count) = job.tail
  <2>1. job.tail \in Seq(Characters)
    BY JobIs DEF Text
  <2> QED BY <2>1, PiecesOf, RestSteps
<1>2. Rest(Takings, <<>>, Count) = <<>>
  <2>1. <<>> \in Seq(Givens)
    OBVIOUS
  <2> HIDE DEF Takings, Givens
  <2>2. Rest(Takings, <<>>, Len(Takings)) = <<>>
    <3>1. Unfolds(Takings, <<>>, Givens)
      BY <2>1, PiecesOf, RestUnfolds
    <3> QED BY <3>1 DEF Unfolds
  <2> QED BY <2>2, PiecesOf
<1> QED BY <1>1, <1>2 DEF PrintPosition
-----------------------------------------------------------------------------
(* The shape of a number that is printed.  The number of zeros before the  *)
(* digits T: up to the width inside of the sign, or up to the precision.   *)

ZerosBefore(T, width, precision, flags) ==
  IF ZeroPads(flags) THEN width - Len(T) ELSE precision - Len(T)
Hashes(z, base, flags) == "p" \in flags \/ ("#" \in flags /\ ~ (base = 8 /\ z > 0))
ZerosLeft(z, base, flags) ==
  IF ZeroPads(flags) /\ Hashes(z, base, flags) THEN z - PrefixSize(base) ELSE z
Letter(base, flags) ==
  CASE base = 16 -> IF "X" \in flags THEN <<"X">> ELSE <<"x">>
    [] base = 2 -> <<"b">>
    [] OTHER -> <<>>
Marks(z, base, flags) ==
  IF Hashes(z, base, flags) THEN <<"0">> \o Letter(base, flags) ELSE <<>>
Zeroes(z, T) == Times("0", z) \o T
Shape(T, z, base, negative, flags) ==
  SignOf(negative, flags) \o (Marks(z, base, flags) \o Zeroes(ZerosLeft(z, base, flags), T))

Framed(text, width, flags) ==
  IF "-" \in flags THEN text \o Times(" ", width - Len(text))
  ELSE IF "0" \in flags THEN text
  ELSE Times(" ", width - Len(text)) \o text

LEMMA FramedOut ==
  ASSUME NEW s \in Text, NEW width \in Int, NEW flags
  PROVE  OutRev(s, width, flags) = Framed(Reverse(s), width, flags)
<1>1. Len(Reverse(s)) = Len(s)
  BY Reversing
<1> DEFINE r == Reverse(s)
<1> HIDE DEF r
<1>2. CASE "-" \in flags
  BY <1>1, <1>2, OutRevIs DEF Framed, r
<1>3. CASE "-" \notin flags /\ "0" \in flags
  BY <1>3, OutRevIs DEF Framed, ZeroPads, r
<1>4. CASE "-" \notin flags /\ "0" \notin flags
  BY <1>1, <1>4, OutRevIs DEF Framed, r
<1> QED BY <1>2, <1>3, <1>4

LEMMA ZeroesIs ==
  ASSUME NEW T \in Text, NEW z \in Int
  PROVE  /\ Zeroes(z, T) \in Text
         /\ Len(Zeroes(z, T)) = Len(T) + (IF z > 0 THEN z ELSE 0)
         /\ z <= 0 => Zeroes(z, T) = T
         /\ Reverse(T) \o Times("0", z) \in Text
         /\ Len(Reverse(T) \o Times("0", z)) = Len(T) + (IF z > 0 THEN z ELSE 0)
         /\ Reverse(Reverse(T) \o Times("0", z)) = Zeroes(z, T)
         /\ z <= 0 => Reverse(T) \o Times("0", z) = Reverse(T)
<1> DEFINE t == Times("0", z)
           D == Reverse(T)
<1>c. "0" \in Characters
  BY Named
<1>n. z > 0 \/ z <= 0
  OBVIOUS
<1>0. "0" \in Characters /\ (z > 0 \/ z <= 0)
  BY <1>c, <1>n
<1>t. t \in Text /\ Len(t) = (IF z > 0 THEN z ELSE 0) /\ (z <= 0 => t = <<>>)
  BY <1>0, TimesIs
<1>r. Reverse(t) = t
  BY <1>0, ReverseTimes
<1>1. t \in Text /\ Len(t) = (IF z > 0 THEN z ELSE 0) /\ (z <= 0 => t = <<>>) /\ Reverse(t) = t
  BY Zenon, <1>t, <1>r
<1>2. D \in Text /\ Len(D) = Len(T) /\ Reverse(D) = T /\ Len(T) \in Nat
  BY Reversing, ReverseTwice, Lengths0
<1>3. Zeroes(z, T) = t \o T
  BY DEF Zeroes
<1> HIDE DEF t, D
<1>4. t \o T \in Text /\ Len(t \o T) = Len(t) + Len(T)
  BY <1>1, Joining
<1>5. D \o t \in Text /\ Len(D \o t) = Len(D) + Len(t)
  BY <1>1, <1>2, Joining
<1>6. Reverse(D \o t) = t \o T
  BY <1>1, <1>2, ReverseJoined
<1>7. Len(t) + Len(T) = Len(T) + Len(t)
  BY <1>1, <1>2
<1>8. z <= 0 => t \o T = T /\ D \o t = D
  BY <1>1, <1>2, JoiningNothing
<1> QED BY <1>1, <1>2, <1>3, <1>4, <1>5, <1>6, <1>7, <1>8 DEF t, D

(* A length that the buffer of a number holds, or that needs no zeros.     *)
Holds(n, T) == n \in Nat /\ (n <= BufferSize \/ n <= Len(T))

LEMMA ZerosHold ==
  ASSUME FormatAssumption, NEW T \in Text, NEW n, Holds(n, T)
  PROVE  Zeros(Reverse(T), n) = Reverse(T) \o Times("0", n - Len(T))
<1> DEFINE D == Reverse(T)
           z == n - Len(T)
<1>1. D \in Text /\ Len(D) = Len(T) /\ Len(T) \in Nat /\ n \in Nat
  BY Reversing, Lengths0 DEF Holds
<1> HIDE DEF D
<1>2. CASE n <= BufferSize
  BY <1>1, <1>2, ZerosIs DEF D
<1>3. CASE n <= Len(T)
  <2>1. Zeros(D, n) = D
    BY <1>1, <1>3, ZerosIs
  <2>2. z \in Int /\ z <= 0
    BY <1>1, <1>3
  <2>3. D \o Times("0", z) = D
    BY <2>2, ZeroesIs DEF D
  <2> QED BY <2>1, <2>3 DEF D
<1> QED BY <1>2, <1>3 DEF Holds

LEMMA PaddedIs ==
  ASSUME FormatAssumption, NEW T \in Text, NEW width, NEW precision, NEW flags,
         Holds(precision, T), ZeroPads(flags) => precision = 0 /\ Holds(width, T)
  PROVE  Zeros(Zeroed(Reverse(T), width, flags), precision)
           = Reverse(T) \o Times("0", ZerosBefore(T, width, precision, flags))
<1> DEFINE D == Reverse(T)
<1>1. D \in Text
  BY Reversing
<1>2. CASE ZeroPads(flags)
  <2> DEFINE s == D \o Times("0", width - Len(T))
  <2>1. Zeroed(D, width, flags) = s
    BY <1>2, ZerosHold DEF Zeroed
  <2>2. width - Len(T) \in Int
    BY <1>2, Lengths0 DEF Holds
  <2>3. s \in Text
    BY <2>2, ZeroesIs
  <2> HIDE DEF s
  <2>4. 0 \in Nat /\ 0 <= Len(s)
    BY <2>3, Lengths0
  <2>5. Zeros(s, 0) = s
    BY <2>3, <2>4, ZerosIs
  <2> QED BY <1>2, <2>1, <2>5 DEF ZerosBefore, s
<1>3. CASE ~ ZeroPads(flags)
  <2>1. Zeroed(D, width, flags) = D
    BY <1>3 DEF Zeroed
  <2> QED BY <1>3, <2>1, ZerosHold DEF ZerosBefore
<1> QED BY <1>2, <1>3

(* Nothing, or one character. *)
Little(w) == w = <<>> \/ \E c \in Characters : w = <<c>>

LEMMA LittleIs ==
  ASSUME NEW w, Little(w)
  PROVE  w \in Text /\ Len(w) \in {0, 1} /\ (Len(w) = 0 => w = <<>>)
<1>1. CASE w = <<>>
  BY <1>1 DEF Text
<1>2. CASE \E c \in Characters : w = <<c>>
  BY <1>2, OneCharacter
<1> QED BY <1>1, <1>2 DEF Little

LEMMA WithSignIs ==
  ASSUME FormatAssumption, NEW s \in Text, NEW w, Little(w), Len(s) + Len(w) <= BufferSize
  PROVE  /\ WithSign(s, w) \in Text
         /\ Len(WithSign(s, w)) = Len(s) + Len(w)
         /\ Reverse(WithSign(s, w)) = w \o Reverse(s)
<1> DEFINE r == Reverse(s)
<1>1. r \in Text
  BY Reversing
<1>2. Len(s) \in Nat
  BY Lengths0
<1>3. CASE w = <<>>
  <2>1. WithSign(s, w) = s
    BY <1>3 DEF WithSign
  <2>2. w \o r = r /\ Len(w) = 0
    <3> HIDE DEF r
    <3> QED BY <1>1, <1>3, JoiningNothing
  <2> HIDE DEF r
  <2> QED BY <1>2, <2>1, <2>2 DEF r
<1>4. ASSUME NEW c \in Characters, w = <<c>>
      PROVE  /\ WithSign(s, w) \in Text
             /\ Len(WithSign(s, w)) = Len(s) + Len(w)
             /\ Reverse(WithSign(s, w)) = w \o Reverse(s)
  <2>1. w # <<>> /\ w[1] = c /\ Len(w) = 1
    BY <1>4
  <2>2. WithSign(s, w) = Put(s, c)
    BY <2>1 DEF WithSign
  <2>3. Len(s) < BufferSize
    BY <1>2, <2>1 DEF FormatAssumption
  <2>4. Put(s, c) = Append(s, c) /\ Put(s, c) \in Text /\ Len(Put(s, c)) = Len(s) + 1
    BY <2>3, PutIs
  <2>5. Reverse(Append(s, c)) = <<c>> \o Reverse(s)
    BY ReverseAppend
  <2> QED BY <1>4, <2>1, <2>2, <2>4, <2>5
<1> QED BY <1>3, <1>4 DEF Little

LEMMA Littles ==
  ASSUME NEW base \in {2, 8, 10, 16}, NEW flags
  PROVE  /\ Little(Letter(base, flags))
         /\ Little(<<"0">>)
         /\ \A room : Lettered(room, base, flags) = WithSign(room, Letter(base, flags))
<1>1. Little(<<>>)
  BY DEF Little
<1>2. \A c \in Characters : Little(<<c>>)
  BY DEF Little
<1>3. ASSUME NEW c \in Characters, NEW room PROVE WithSign(room, <<c>>) = Put(room, c)
  <2>1. <<c>> # <<>> /\ <<c>>[1] = c
    OBVIOUS
  <2> DEFINE w == <<c>>
  <2>2. w # <<>> /\ w[1] = c
    BY <2>1
  <2> HIDE DEF w
  <2>3. WithSign(room, w) = Put(room, c)
    BY <2>2 DEF WithSign
  <2> QED BY <2>3 DEF w
<1>x. "x" \in Characters /\ "X" \in Characters /\ "b" \in Characters /\ "0" \in Characters
  BY Named
<1>4. CASE base = 16 /\ "X" \in flags
  <2>1. Letter(base, flags) = <<"X">> /\ \A room : Lettered(room, base, flags) = Put(room, "X")
    BY <1>4 DEF Letter, Lettered
  <2> QED BY Zenon, <1>2, <1>3, <1>x, <2>1
<1>5. CASE base = 16 /\ "X" \notin flags
  <2>1. Letter(base, flags) = <<"x">> /\ \A room : Lettered(room, base, flags) = Put(room, "x")
    BY <1>5 DEF Letter, Lettered
  <2> QED BY Zenon, <1>2, <1>3, <1>x, <2>1
<1>6. CASE base = 2
  <2>1. Letter(base, flags) = <<"b">> /\ \A room : Lettered(room, base, flags) = Put(room, "b")
    BY <1>6 DEF Letter, Lettered
  <2> QED BY Zenon, <1>2, <1>3, <1>x, <2>1
<1>7. CASE base \in {8, 10}
  <2>1. Letter(base, flags) = <<>> /\ \A room : Lettered(room, base, flags) = room
    BY <1>7 DEF Letter, Lettered
  <2>2. \A room : WithSign(room, <<>>) = room
    BY Zenon DEF WithSign
  <2> QED BY Zenon, <1>1, <1>2, <1>x, <2>1, <2>2
<1>8. base = 16 \/ base = 2 \/ base \in {8, 10}
  OBVIOUS
<1> QED BY Zenon, <1>4, <1>5, <1>6, <1>7, <1>8

LEMMA HashedIs ==
  ASSUME NEW T \in Text, NEW z \in Int, NEW base, NEW flags
  PROVE  Hashed(Reverse(T), Reverse(T) \o Times("0", z), base, flags) <=> Hashes(z, base, flags)
<1> DEFINE D == Reverse(T)
           p == Reverse(T) \o Times("0", z)
<1>1. Len(D) = Len(T) /\ Len(T) \in Nat
  BY Reversing, Lengths0
<1>2. Len(p) = Len(T) + IF z > 0 THEN z ELSE 0
  BY ZeroesIs
<1> HIDE DEF D, p
<1>3. Len(p) > Len(D) <=> z > 0
  BY <1>1, <1>2
<1>4. Hashed(D, p, base, flags) <=> Hashes(z, base, flags)
  BY <1>3 DEF Hashed, Hashes
<1> QED BY <1>4 DEF D, p

(* The lengths for which the room that a number has is enough for its zeros.*)
Fits(T, width, precision, flags) ==
  /\ Holds(precision, T)
  /\ "." \notin flags => precision = 0
  /\ ZeroPads(flags) => "." \notin flags /\ Holds(width, T)

HasRoom(T, z, base, precision, width, flags) ==
  Room(Reverse(T), Reverse(T) \o Times("0", z), base, precision, width, flags)
    = Reverse(T) \o Times("0", ZerosLeft(z, base, flags))

LEMMA RoomIs ==
  ASSUME FormatAssumption, NEW T \in Text, NEW width, NEW precision, NEW flags, NEW base,
         Fits(T, width, precision, flags),
         NEW z \in Int, z = ZerosBefore(T, width, precision, flags), Hashes(z, base, flags)
  PROVE  HasRoom(T, z, base, precision, width, flags)
<1> DEFINE D == Reverse(T)
           p == D \o Times("0", z)
           n == PrefixSize(base)
           room == Room(D, p, base, precision, width, flags)
<1>h. /\ Holds(precision, T) /\ ("." \notin flags => precision = 0)
      /\ (ZeroPads(flags) => "." \notin flags /\ Holds(width, T))
  BY DEF Fits
<1>1. D \in Text /\ Len(D) = Len(T) /\ Len(T) \in Nat
  BY Reversing, Lengths0
<1>2. p \in Text /\ Len(p) = Len(T) + (IF z > 0 THEN z ELSE 0) /\ (z <= 0 => p = D)
  BY ZeroesIs
<1>n. n \in {1, 2} /\ n = PrefixSize(base)
  BY DEF PrefixSize
<1>3. \A k \in Nat : p = D \o Times("0", k) => TakeBack(p, D, base) = D \o Times("0", k - n)
  <2> HIDE DEF D, p, n
  <2>1. p \in Text /\ D \in Text
    BY <1>1, <1>2
  <2>2. TakesBack(p, D, base)
    BY Zenon, <2>1, TakeBackIs
  <2> QED BY Zenon, <1>n, <2>2 DEF TakesBack
<1>4. \A k \in Int : k <= 0 => D \o Times("0", k) = D
  BY ZeroesIs
<1>p. p = D \o Times("0", z)
  OBVIOUS
<1>r. room = IF "." \notin flags /\ p # <<>> /\ Len(p) \in {precision, width}
             THEN TakeBack(p, D, base) ELSE p
  BY Zenon DEF Room
<1> HIDE DEF D, p, n, room
<1>5. ASSUME ZeroPads(flags) PROVE room = D \o Times("0", ZerosLeft(z, base, flags))
  <2>1. ZerosLeft(z, base, flags) = z - n
    BY <1>5, <1>n DEF ZerosLeft
  <2>2. precision = 0 /\ width \in Nat /\ z = width - Len(T)
    BY <1>5, <1>h DEF Holds, ZerosBefore
  <2>3. CASE z < 0
    <3>1. p = D /\ Len(p) = Len(T) /\ Len(T) > width /\ Len(T) > 0
      BY <1>1, <1>2, <2>2, <2>3
    <3>2. room = p
      BY <1>h, <1>r, <2>2, <3>1
    <3>3. z - n \in Int /\ z - n <= 0
      BY <1>n, <2>3
    <3> QED BY <1>4, <2>1, <3>1, <3>2, <3>3
  <2>4. CASE z >= 0
    <3>1. Len(p) = width
      BY <1>1, <1>2, <2>2, <2>4
    <3>2. TakeBack(p, D, base) = D \o Times("0", z - n)
      BY <1>3, <1>p, <2>4
    <3>3. CASE p # <<>>
      <4>1. room = TakeBack(p, D, base)
        BY <1>5, <1>h, <1>r, <3>1, <3>3
      <4> QED BY <2>1, <3>2, <4>1
    <3>4. CASE p = <<>>
      <4>0. Len(p) = 0
        BY <3>4
      <4>1. z = 0
        BY <1>1, <1>2, <2>4, <4>0
      <4>2. p = D /\ room = p
        BY <1>2, <1>r, <3>4, <4>1
      <4>3. z - n \in Int /\ z - n <= 0
        BY <1>n, <4>1
      <4> QED BY <1>4, <2>1, <4>2, <4>3
    <3> QED BY <3>3, <3>4
  <2> QED BY <2>3, <2>4
<1>6. ASSUME ~ ZeroPads(flags) PROVE room = D \o Times("0", ZerosLeft(z, base, flags))
  <2>1. ZerosLeft(z, base, flags) = z
    BY <1>6 DEF ZerosLeft
  <2>2. CASE "." \in flags
    <3>1. room = p
      BY <1>r, <2>2
    <3> QED BY <1>p, <2>1, <3>1
  <2>3. CASE "." \notin flags
    <3>1. z = 0 - Len(T)
      BY <1>6, <1>h, <2>3 DEF ZerosBefore
    <3>2. z <= 0 /\ 0 \in Nat /\ 0 \in Int /\ 0 <= 0 /\ 0 - n \in Int /\ 0 - n <= 0
      BY <1>1, <1>n, <3>1
    <3>3. p = D /\ D \o Times("0", 0) = D /\ D \o Times("0", 0 - n) = D
      BY <1>2, <1>4, <3>2
    <3>4. TakeBack(p, D, base) = D
      BY Zenon, <1>3, <3>2, <3>3
    <3>5. room = D
      BY Zenon, <1>r, <3>3, <3>4
    <3> QED BY <1>p, <2>1, <3>3, <3>5
  <2> QED BY <2>2, <2>3
<1>7. room = D \o Times("0", ZerosLeft(z, base, flags))
  BY <1>5, <1>6
<1> QED BY <1>7 DEF room, p, D, HasRoom

(* The text before the sign. *)
Body(T, z, base, flags) == Marks(z, base, flags) \o Zeroes(ZerosLeft(z, base, flags), T)
(* What a text is, written from its end. *)
WrittenFromTheEnd(s, text) == s \in Text /\ Len(s) = Len(text) /\ Reverse(s) = text

LEMMA PrefixedIs ==
  ASSUME FormatAssumption, NEW T \in Text, NEW width, NEW precision, NEW flags,
         NEW base \in {2, 8, 10, 16},
         Fits(T, width, precision, flags),
         NEW z \in Int, z = ZerosBefore(T, width, precision, flags),
         Len(Body(T, z, base, flags)) <= BufferSize
  PROVE  /\ Body(T, z, base, flags) \in Text
         /\ WrittenFromTheEnd(Prefixed(Reverse(T), Reverse(T) \o Times("0", z), base, precision,
                                       width, flags), Body(T, z, base, flags))
<1> DEFINE D == Reverse(T)
           p == D \o Times("0", z)
           left == ZerosLeft(z, base, flags)
           room == Room(D, p, base, precision, width, flags)
           letter == Letter(base, flags)
           lettered == Lettered(room, base, flags)
           Z == Zeroes(left, T)
           prefixed == Prefixed(D, p, base, precision, width, flags)
           zero == <<"0">>
<1>1. left \in Int
  BY DEF ZerosLeft, PrefixSize
<1>2. Z \in Text /\ D \o Times("0", left) \in Text /\ Len(D \o Times("0", left)) = Len(Z)
      /\ Reverse(D \o Times("0", left)) = Z
  <2> HIDE DEF left
  <2>1. Z \in Text /\ D \o Times("0", left) \in Text
        /\ Reverse(D \o Times("0", left)) = Z
    BY <1>1, ZeroesIs
  <2>2. Len(D \o Times("0", left)) = Len(Reverse(D \o Times("0", left)))
    BY <2>1, Reversing
  <2> QED BY <2>1, <2>2
<1>3. Hashed(D, p, base, flags) <=> Hashes(z, base, flags)
  BY HashedIs
<1>4. prefixed = IF Hashes(z, base, flags) THEN Put(lettered, "0") ELSE p
  BY Zenon, <1>3 DEF Prefixed
<1>5. Little(letter) /\ Little(zero) /\ lettered = WithSign(room, letter)
      /\ Put(lettered, "0") = WithSign(lettered, zero)
  <2>1. Little(letter) /\ Little(zero) /\ lettered = WithSign(room, letter)
    BY Littles
  <2>2. zero # <<>> /\ zero[1] = "0"
    OBVIOUS
  <2> HIDE DEF zero, lettered
  <2>3. Put(lettered, "0") = WithSign(lettered, zero)
    BY <2>2 DEF WithSign
  <2> QED BY <2>1, <2>3 DEF lettered
<1>6. CASE Hashes(z, base, flags)
  <2>1. room = D \o Times("0", left)
    <3>1. HasRoom(T, z, base, precision, width, flags)
      BY <1>6, RoomIs
    <3> QED BY <3>1 DEF HasRoom
  <2>2. prefixed = WithSign(lettered, zero)
    BY <1>4, <1>5, <1>6
  <2>3. Body(T, z, base, flags) = (zero \o letter) \o Z
    BY <1>6 DEF Body, Marks
  <2> HIDE DEF D, p, left, room, letter, lettered, Z, prefixed, zero
  <2>4. letter \in Text /\ zero \in Text /\ Z \in Text
    BY <1>2, <1>5, LittleIs
  <2>5. zero \o letter \in Text /\ Len(zero \o letter) = Len(zero) + Len(letter)
    BY <2>4, Joining
  <2>6. (zero \o letter) \o Z \in Text
        /\ Len((zero \o letter) \o Z) = Len(zero) + Len(letter) + Len(Z)
    BY <2>4, <2>5, Joining
  <2>7. (zero \o letter) \o Z = zero \o (letter \o Z)
    BY <2>4, JoiningAssociates
  <2>8. Len(zero) \in Nat /\ Len(letter) \in Nat /\ Len(Z) \in Nat /\ BufferSize \in Nat
        /\ Len(zero) + Len(letter) + Len(Z) <= BufferSize
    BY <2>3, <2>4, <2>6, Lengths0 DEF FormatAssumption
  <2>9. room \in Text /\ Len(room) = Len(Z) /\ Reverse(room) = Z
    BY <1>2, <2>1
  <2>10. Len(room) + Len(letter) <= BufferSize
    BY <2>8, <2>9
  <2>11. lettered \in Text /\ Len(lettered) = Len(room) + Len(letter)
         /\ Reverse(lettered) = letter \o Z
    BY <1>5, <2>9, <2>10, WithSignIs
  <2>12. Len(lettered) + Len(zero) <= BufferSize
    BY <2>8, <2>9, <2>11
  <2>13. prefixed \in Text /\ Len(prefixed) = Len(lettered) + Len(zero)
         /\ Reverse(prefixed) = zero \o (letter \o Z)
    BY <1>5, <2>2, <2>11, <2>12, WithSignIs
  <2>14. Len(prefixed) = Len(Body(T, z, base, flags))
    BY <2>3, <2>6, <2>8, <2>9, <2>11, <2>13
  <2> QED BY <2>3, <2>6, <2>7, <2>13, <2>14 DEF WrittenFromTheEnd, prefixed, D, p
<1>7. CASE ~ Hashes(z, base, flags)
  <2>1. left = z
    BY <1>7 DEF ZerosLeft
  <2>2. prefixed = p
    BY <1>4, <1>7
  <2>3. Body(T, z, base, flags) = <<>> \o Z
    BY <1>7 DEF Body, Marks
  <2>4. <<>> \o Z = Z
    <3> HIDE DEF Z
    <3> QED BY <1>2, JoiningNothing
  <2>5. p \in Text /\ Len(p) = Len(Z) /\ Reverse(p) = Z
    BY <1>2, <2>1
  <2> HIDE DEF D, p, left, Z, prefixed
  <2> QED BY <1>2, <2>2, <2>3, <2>4, <2>5 DEF WrittenFromTheEnd, prefixed, D, p
<1> QED BY <1>6, <1>7

LEMMA FinalizedShape ==
  ASSUME FormatAssumption, NEW T \in Text, NEW negative \in BOOLEAN, NEW full \in Nat,
         NEW precision, NEW flags, NEW base \in {2, 8, 10, 16},
         NEW width, width = Inner(negative, full, flags),
         NEW z, z = ZerosBefore(T, width, precision, flags),
         Fits(T, width, precision, flags),
         Len(Shape(T, z, base, negative, flags)) <= BufferSize
  PROVE  Finalized(Reverse(T), negative, base, precision, full, flags)
           = Framed(Shape(T, z, base, negative, flags), width, flags)
<1> DEFINE D == Reverse(T)
           p == D \o Times("0", z)
           prefixed == Prefixed(D, p, base, precision, width, flags)
           sign == SignOf(negative, flags)
           body == Body(T, z, base, flags)
           signed == WithSign(prefixed, sign)
<1>1. width \in Int /\ z \in Int
  <2>1. width = full \/ width = full - 1
    BY Zenon DEF Inner
  <2>2. width \in Int /\ precision \in Int /\ Len(T) \in Int
    BY <2>1, Lengths0 DEF Fits, Holds
  <2>3. z = width - Len(T) \/ z = precision - Len(T)
    BY Zenon DEF ZerosBefore
  <2> QED BY <2>2, <2>3
<1>2. Zeros(Zeroed(D, width, flags), precision) = p
  <2>1. Holds(precision, T) /\ (ZeroPads(flags) => precision = 0 /\ Holds(width, T))
    BY DEF Fits
  <2> QED BY <2>1, PaddedIs
<1>3. Finalized(D, negative, base, precision, full, flags) = OutRev(signed, width, flags)
  <2>1. p = Zeros(Zeroed(D, width, flags), precision)
    BY <1>2
  <2> HIDE DEF D, p
  <2> QED BY <2>1, FinalizedIs DEF signed, prefixed, sign
<1>4. Little(sign)
  <2>1. sign \in Text /\ (sign # <<>> => sign[1] \in Characters /\ sign = <<sign[1]>>)
    BY SignIs
  <2> HIDE DEF sign
  <2> QED BY <2>1 DEF Little
<1>5. Shape(T, z, base, negative, flags) = sign \o body
  BY DEF Shape, Body
<1>6. body \in Text /\ Len(sign \o body) = Len(sign) + Len(body) /\ sign \o body \in Text
      /\ Len(sign) \in Nat /\ Len(body) \in Nat
  <2>1. sign \in Text
    BY <1>4, LittleIs
  <2>2. body \in Text
    <3> DEFINE left == ZerosLeft(z, base, flags)
               Z == Zeroes(left, T)
    <3>1. left \in Int
      BY <1>1 DEF ZerosLeft, PrefixSize
    <3> HIDE DEF left
    <3>2. Z \in Text
      BY <3>1, ZeroesIs
    <3>3. Marks(z, base, flags) \in Text
      <4> DEFINE letter == Letter(base, flags)
                 zero == <<"0">>
      <4>1. letter \in Text /\ zero \in Text
        <5>1. Little(letter) /\ Little(zero)
          BY Littles
        <5> HIDE DEF letter, zero
        <5> QED BY <5>1, LittleIs
      <4>2. Marks(z, base, flags) = IF Hashes(z, base, flags) THEN zero \o letter ELSE <<>>
        BY Zenon DEF Marks
      <4> HIDE DEF letter, zero
      <4>3. zero \o letter \in Text
        BY <4>1, Joining
      <4>4. <<>> \in Text
        BY DEF Text
      <4> QED BY <4>2, <4>3, <4>4
    <3>4. body = Marks(z, base, flags) \o Z
      BY DEF Body, left
    <3> HIDE DEF Z, body
    <3> QED BY <3>2, <3>3, <3>4, Joining
  <2> HIDE DEF sign, body
  <2> QED BY <2>1, <2>2, Joining, Lengths0
<1>7. Len(body) <= BufferSize /\ Len(body) + Len(sign) <= BufferSize
  BY <1>5, <1>6 DEF FormatAssumption
<1>8. WrittenFromTheEnd(prefixed, body)
  BY <1>1, <1>7, PrefixedIs
<1> HIDE DEF D, p, prefixed, sign, body
<1>9. prefixed \in Text /\ Len(prefixed) = Len(body) /\ Reverse(prefixed) = body
  BY <1>8 DEF WrittenFromTheEnd
<1>10. signed \in Text /\ Reverse(signed) = sign \o body
  BY <1>4, <1>7, <1>9, WithSignIs
<1> HIDE DEF signed
<1>11. OutRev(signed, width, flags) = Framed(sign \o body, width, flags)
  BY ZenonT(40), <1>1, <1>10, FramedOut
<1> QED BY <1>3, <1>5, <1>11 DEF D

(* The digits that print_integer makes, in the order of reading, and the   *)
(* flags that it hands on.                                                 *)
Table(flags) == IF "X" \in flags THEN Upper16 ELSE Digits16
DigitsOf(size, base, flags) ==
  IF size = 0 THEN IF "." \in flags THEN <<>> ELSE <<"0">> ELSE InBase(size, base, Table(flags))
HashLeft(size, base, flags) ==
  IF size = 0 /\ ~ ("." \in flags /\ base # 16) THEN flags \ {"#"} ELSE flags

LEMMA DigitsOfText ==
  ASSUME NEW size \in Nat, NEW base \in {2, 8, 10, 16}, NEW flags
  PROVE  DigitsOf(size, base, flags) \in Text
<1>1. InBase(size, base, Table(flags)) \in Text
  <2>1. Table(flags) \in {Digits16, Upper16}
    BY DEF Table
  <2> DEFINE table == Table(flags)
  <2> HIDE DEF table
  <2>2. Radix(base, table)
    BY <2>1, SixteenRadix DEF table
  <2>3. InBase(size, base, table) \in Text
    BY <2>2, InBaseSteps
  <2> QED BY <2>3 DEF table
<1>2. <<>> \in Text
  BY DEF Text
<1>3. <<"0">> \in Text
  BY Named, OneCharacter
<1> QED BY <1>1, <1>2, <1>3 DEF DigitsOf

PrintsDigits(size, negative, base, precision, full, flags) ==
  print_integer(size, negative, base, precision, full, flags)
    = Finalized(Reverse(DigitsOf(size, base, flags)), negative, base, precision, full,
                HashLeft(size, base, flags))

LEMMA PrintIntegerIs ==
  ASSUME FormatAssumption, NEW size \in Nat, NEW negative, NEW base \in {2, 8, 10, 16},
         NEW precision, NEW full, NEW flags,
         Len(DigitsOf(size, base, flags)) <= BufferSize
  PROVE  PrintsDigits(size, negative, base, precision, full, flags)
<1> DEFINE T == DigitsOf(size, base, flags)
           left == HashLeft(size, base, flags)
<1>1. ASSUME size = 0
      PROVE  print_integer(size, negative, base, precision, full, flags)
               = Finalized(Reverse(T), negative, base, precision, full, left)
  <2> DEFINE digits == IF "." \in flags THEN <<>> ELSE <<"0">>
             rest == IF "." \in flags /\ base # 16 THEN flags ELSE flags \ {"#"}
  <2>1. print_integer(size, negative, base, precision, full, flags)
          = Finalized(digits, negative, base, precision, full, rest)
    BY <1>1, Zenon DEF print_integer
  <2>2. rest = left
    BY <1>1 DEF HashLeft
  <2>3. T = digits
    BY <1>1 DEF DigitsOf
  <2>4. Reverse(digits) = digits
    <3>1. Reverse(<<>>) = <<>>
      <4>1. <<>> \in Text
        BY DEF Text
      <4>2. Reverse(<<>>) \in Text /\ Len(Reverse(<<>>)) = Len(<<>>)
        BY <4>1, Reversing
      <4> QED BY <4>2 DEF Text
    <3>2. Reverse(<<"0">>) = <<"0">>
      BY Named, ReverseOne
    <3> QED BY <3>1, <3>2
  <2> HIDE DEF digits, rest, T, left
  <2> QED BY Zenon, <2>1, <2>2, <2>3, <2>4 DEF T, left
<1>2. ASSUME size # 0
      PROVE  print_integer(size, negative, base, precision, full, flags)
               = Finalized(Reverse(T), negative, base, precision, full, left)
  <2> DEFINE table == Table(flags)
  <2>1. table \in {Digits16, Upper16} /\ T = InBase(size, base, table) /\ left = flags
    BY <1>2 DEF Table, DigitsOf, HashLeft
  <2>2. print_integer(size, negative, base, precision, full, flags)
          = Finalized(Converted(size, base, table), negative, base, precision, full, flags)
    BY <1>2, Zenon DEF print_integer, Table
  <2> HIDE DEF table, T, left
  <2>3. Radix(base, table)
    BY <2>1, SixteenRadix
  <2>4. Len(InBase(size, base, table)) <= BufferSize
    BY <2>1 DEF T
  <2>5. Converted(size, base, table) = Reverse(InBase(size, base, table))
    BY <2>3, <2>4, ConvertedIs
  <2> QED BY Zenon, <2>1, <2>2, <2>5 DEF T, left
<1>3. print_integer(size, negative, base, precision, full, flags)
        = Finalized(Reverse(T), negative, base, precision, full, left)
  BY <1>1, <1>2
<1> QED BY <1>3 DEF PrintsDigits

(* The value of a directive's argument, its digits, and what is read of the*)
(* flags.                                                                  *)
Value(d) == ValueOf(d.conversion, TypeOf(d), d.arg)
Base(d) == BaseOf(d.conversion)
FlagsRead(d) == FlagsLeft(ReadFlags(d), d.conversion)
Kept(d) == HashLeft(Size(Value(d)), Base(d), FlagsRead(d))
ReadDigits(d) == DigitsOf(Size(Value(d)), Base(d), FlagsRead(d))
Negative(d) == Value(d) < 0
ReadInner(d) == Inner(Negative(d), ReadWidth(d), Kept(d))
Before(d) == ZerosBefore(ReadDigits(d), ReadInner(d), ReadPrecision(d), Kept(d))
ReadShape(d) == Shape(ReadDigits(d), Before(d), Base(d), Negative(d), Kept(d))

LEMMA ValueIs ==
  ASSUME FormatAssumption, NEW d, Real(d), d.conversion \in Integral
  PROVE  /\ Value(d) \in Int /\ Size(Value(d)) \in Nat /\ Negative(d) \in BOOLEAN
         /\ d.conversion \notin {"d", "i"} => ~ Negative(d)
         /\ Base(d) \in {2, 8, 10, 16}
         /\ ReadDigits(d) \in Text
<1>1. d.arg \in Int /\ TypeOf(d) \in Types
  BY RealIs
<1>2. Signed(d.arg, TypeOf(d)) \in Int /\ Unsigned(d.arg, TypeOf(d)) \in Nat
  BY <1>1, ValuesAre
<1>3. Value(d) \in Int /\ (d.conversion \notin {"d", "i"} => Value(d) \in Nat)
  BY <1>2 DEF Value, ValueOf
<1>4. Size(Value(d)) \in Nat
  BY <1>3 DEF Size
<1>5. Base(d) \in {2, 8, 10, 16}
  BY BaseIs DEF Base
<1> QED BY <1>3, <1>4, <1>5, DigitsOfText DEF Negative, ReadDigits

LEMMA ReadingIs ==
  ASSUME FormatAssumption, NEW d, Real(d), d.conversion \in Integral,
         Fits(ReadDigits(d), ReadInner(d), ReadPrecision(d), Kept(d)),
         Len(ReadDigits(d)) <= BufferSize, Len(ReadShape(d)) <= BufferSize
  PROVE  Conversion(Read(d), d.arg) = Framed(ReadShape(d), ReadInner(d), Kept(d))
<1> DEFINE e == Read(d)
           v == Value(d)
           neg == Negative(d)
           full == ReadWidth(d)
           T == ReadDigits(d)
           flags == Kept(d)
           z == Before(d)
           width == ReadInner(d)
           base == Base(d)
           precision == ReadPrecision(d)
<1>1. /\ e.conversion = d.conversion /\ e.type = TypeOf(d) /\ e.precision = precision
      /\ e.width = full /\ e.flags = ReadFlags(d)
  BY DEF Read
<1>2. Conversion(e, d.arg) = PrintIntegral(e, d.arg)
  <2> HIDE DEF e
  <2> QED BY <1>1 DEF Conversion, Integral
<1>3. PrintIntegral(e, d.arg)
        = print_integer(Size(v), neg, base, precision, full, FlagsRead(d))
  <2>1. v = ValueOf(e.conversion, e.type, d.arg)
    <3> HIDE DEF e
    <3> QED BY <1>1 DEF Value
  <2> HIDE DEF e, v
  <2>2. PrintIntegral(e, d.arg)
          = print_integer(Size(v), v < 0, BaseOf(e.conversion), e.precision, e.width,
                          FlagsLeft(e.flags, e.conversion))
    BY <2>1, PrintIntegralIs
  <2> QED BY Zenon, <1>1, <2>2 DEF FlagsRead, Base, Negative, v
<1>4. /\ Size(v) \in Nat /\ base \in {2, 8, 10, 16} /\ T \in Text /\ full \in Nat
      /\ neg \in BOOLEAN
  BY ValueIs, RealIs
<1>5. print_integer(Size(v), neg, base, precision, full, FlagsRead(d))
        = Finalized(Reverse(T), neg, base, precision, full, flags)
  <2>1. T = DigitsOf(Size(v), base, FlagsRead(d)) /\ flags = HashLeft(Size(v), base, FlagsRead(d))
    BY DEF ReadDigits, Kept
  <2> HIDE DEF T, v, base, flags, neg, full, precision
  <2>2. Len(DigitsOf(Size(v), base, FlagsRead(d))) <= BufferSize
    BY <2>1 DEF T
  <2>3. PrintsDigits(Size(v), neg, base, precision, full, FlagsRead(d))
    BY <1>4, <2>2, PrintIntegerIs
  <2> QED BY Zenon, <2>1, <2>3 DEF PrintsDigits
<1>6. width = Inner(neg, full, flags) /\ z = ZerosBefore(T, width, precision, flags)
      /\ Fits(T, width, precision, flags) /\ Len(Shape(T, z, base, neg, flags)) <= BufferSize
      /\ ReadShape(d) = Shape(T, z, base, neg, flags)
  BY Zenon DEF ReadInner, Before, ReadShape
<1> HIDE DEF e, v, neg, full, T, flags, z, width, base, precision
<1>7. Finalized(Reverse(T), neg, base, precision, full, flags)
        = Framed(Shape(T, z, base, neg, flags), width, flags)
  BY <1>4, <1>6, FinalizedShape
<1> QED BY Zenon, <1>2, <1>3, <1>5, <1>6, <1>7 DEF e, width, flags

LEMMA FlagsAre ==
  ASSUME NEW d, Real(d), d.conversion \in Integral
  PROVE  /\ "-" \in Kept(d) <=> "-" \in StandardFlags(d)
         /\ "0" \in Kept(d) <=> "0" \in StandardFlags(d) /\ d.precision = None
         /\ "+" \in Kept(d) <=> "+" \in StandardFlags(d) /\ d.conversion \in {"d", "i"}
         /\ " " \in Kept(d) <=> " " \in StandardFlags(d) /\ d.conversion \in {"d", "i"}
         /\ "." \in Kept(d) <=> d.precision # None
         /\ "X" \in Kept(d) <=> d.conversion = "X"
         /\ "p" \notin Kept(d)
         /\ "#" \in Kept(d) <=> /\ "#" \in StandardFlags(d) /\ Base(d) # 10
                                /\ Size(Value(d)) = 0 => d.precision # None /\ Base(d) # 16
         /\ "." \in FlagsRead(d) <=> d.precision # None
         /\ "X" \in FlagsRead(d) <=> d.conversion = "X"
         /\ ZeroPads(Kept(d)) <=> PadsWithZeros(d)
<1> DEFINE S == StandardFlags(d)
           R == ReadFlags(d)
           F == FlagsRead(d)
           K == Kept(d)
<1>1. S \subseteq FlagChars
  <2>1. Range(d.flags) \subseteq FlagChars
    <3>1. d.flags \in Seq(FlagChars)
      BY DEF Real
    <3> QED BY <3>1 DEF Range
  <2> QED BY <2>1 DEF StandardFlags, FlagChars
<1>2. R = S \cup (IF d.precision = None THEN {} ELSE {"."})
  BY DEF ReadFlags
<1>3. F = (R \cup {d.conversion})
            \ ((IF Base(d) = 10 THEN {"#"} ELSE {})
                 \cup (IF "." \in R THEN {"0"} ELSE {})
                 \cup (IF d.conversion \in {"d", "i"} THEN {} ELSE {"+", " "}))
  BY DEF FlagsRead, FlagsLeft, Base
<1>4. K = IF Size(Value(d)) = 0 /\ ~ ("." \in F /\ Base(d) # 16) THEN F \ {"#"} ELSE F
  BY DEF Kept, HashLeft
<1> HIDE DEF S, R, F, K
<1>5. "." \in R <=> d.precision # None
  BY <1>1, <1>2 DEF FlagChars
<1>6. /\ "-" \in F <=> "-" \in S
      /\ "0" \in F <=> "0" \in S /\ d.precision = None
      /\ "+" \in F <=> "+" \in S /\ d.conversion \in {"d", "i"}
      /\ " " \in F <=> " " \in S /\ d.conversion \in {"d", "i"}
      /\ "." \in F <=> d.precision # None
      /\ "X" \in F <=> d.conversion = "X"
      /\ "p" \notin F
      /\ "#" \in F <=> "#" \in S /\ Base(d) # 10
  BY <1>1, <1>2, <1>3, <1>5 DEF FlagChars, Integral
<1>7. /\ "-" \in K <=> "-" \in S
      /\ "0" \in K <=> "0" \in S /\ d.precision = None
      /\ "+" \in K <=> "+" \in S /\ d.conversion \in {"d", "i"}
      /\ " " \in K <=> " " \in S /\ d.conversion \in {"d", "i"}
      /\ "." \in K <=> d.precision # None
      /\ "X" \in K <=> d.conversion = "X"
      /\ "p" \notin K
      /\ "#" \in K <=> /\ "#" \in S /\ Base(d) # 10
                       /\ Size(Value(d)) = 0 => d.precision # None /\ Base(d) # 16
  BY <1>4, <1>6
<1>8. ZeroPads(K) <=> PadsWithZeros(d)
  BY <1>7 DEF ZeroPads, PadsWithZeros, S
<1> QED BY <1>6, <1>7, <1>8 DEF S, F, K

(* The parts of what the standard says of a number. *)
StandardDigits(d) ==
  InBase(Size(Value(d)), Base(d), IF d.conversion = "X" THEN Upper16 ELSE Digits16)
Precise(d) ==
  Zeroes((IF d.precision = None THEN 1 ELSE d.precision) - Len(StandardDigits(d)),
         StandardDigits(d))
Octal(d) ==
  "#" \in StandardFlags(d) /\ d.conversion = "o" /\ (Precise(d) = <<>> \/ Precise(d)[1] # "0")
StandardBody(d) == IF Octal(d) THEN <<"0">> \o Precise(d) ELSE Precise(d)
StandardPrefix(d) ==
  IF "#" \in StandardFlags(d) /\ Size(Value(d)) # 0 /\ d.conversion \in {"x", "X", "b"}
  THEN <<"0", d.conversion>> ELSE <<>>
Sign(d) == SignOf(Negative(d), Kept(d))
TheNumber(d) == Sign(d) \o StandardPrefix(d) \o StandardBody(d)
Filled(d, width) ==
  CASE "-" \in StandardFlags(d) -> TheNumber(d) \o Times(" ", width - Len(TheNumber(d)))
    [] PadsWithZeros(d) ->
         Sign(d) \o StandardPrefix(d) \o Times("0", width - Len(TheNumber(d))) \o StandardBody(d)
    [] OTHER -> Times(" ", width - Len(TheNumber(d))) \o Sign(d) \o StandardPrefix(d)
                  \o StandardBody(d)

LEMMA StandardIntegerIs ==
  ASSUME FormatAssumption, NEW d, Real(d), d.conversion \in Integral, NEW width
  PROVE  StandardInteger(d, TypeOf(d), width) = Filled(d, width)
<1> DEFINE flags == StandardFlags(d)
           type == TypeOf(d)
           value == IF d.conversion \in {"d", "i"} THEN Signed(d.arg, type)
                    ELSE Unsigned(d.arg, type)
           size == IF value < 0 THEN -value ELSE value
           digits == CASE d.conversion \in {"x", "X"} ->
                            InBase(size, 16, IF d.conversion = "X" THEN Upper16 ELSE Digits16)
                       [] d.conversion = "o" -> InBase(size, 8, Digits16)
                       [] d.conversion = "b" -> InBase(size, 2, Digits16)
                       [] OTHER -> InBase(size, 10, Digits16)
           atLeast == IF d.precision = None THEN 1 ELSE d.precision
           precise == Times("0", atLeast - Len(digits)) \o digits
           octal == "#" \in flags /\ d.conversion = "o" /\ (precise = <<>> \/ precise[1] # "0")
           body == IF octal THEN <<"0">> \o precise ELSE precise
           prefix == IF "#" \in flags /\ size # 0 /\ d.conversion \in {"x", "X", "b"}
                     THEN <<"0", d.conversion>> ELSE <<>>
           signs == IF d.conversion \in {"d", "i"} THEN flags \cap {"+", " "} ELSE {}
           sign == CASE value < 0 -> <<"-">>
                     [] value >= 0 /\ "+" \in signs -> <<"+">>
                     [] value >= 0 /\ signs = {" "} -> <<" ">>
                     [] OTHER -> <<>>
           pad == width - Len(sign \o prefix \o body)
<1>1. StandardInteger(d, type, width)
        = CASE "-" \in flags -> sign \o prefix \o body \o Times(" ", pad)
            [] PadsWithZeros(d) -> sign \o prefix \o Times("0", pad) \o body
            [] OTHER -> Times(" ", pad) \o sign \o prefix \o body
  BY Zenon DEF StandardInteger
<1>2. value = Value(d)
  BY Zenon DEF Value, ValueOf
<1> HIDE DEF value
<1>3. size = Size(Value(d))
  BY Zenon, <1>2 DEF Size
<1> HIDE DEF size
<1>4. digits = StandardDigits(d)
  <2>1. CASE d.conversion \in {"x", "X"}
    BY <1>3, <2>1 DEF StandardDigits, Base, BaseOf
  <2>2. CASE d.conversion = "o"
    BY <1>3, <2>2 DEF StandardDigits, Base, BaseOf
  <2>3. CASE d.conversion = "b"
    BY <1>3, <2>3 DEF StandardDigits, Base, BaseOf
  <2>4. CASE d.conversion \notin {"x", "X", "o", "b"}
    BY <1>3, <2>4 DEF StandardDigits, Base, BaseOf
  <2> QED BY <2>1, <2>2, <2>3, <2>4
<1> HIDE DEF digits
<1>5. precise = Precise(d)
  BY Zenon, <1>4 DEF Precise, Zeroes
<1> HIDE DEF precise
<1>6. octal <=> Octal(d)
  BY Zenon, <1>5 DEF Octal
<1> HIDE DEF octal
<1>7. body = StandardBody(d)
  BY Zenon, <1>5, <1>6 DEF StandardBody
<1>8. prefix = StandardPrefix(d)
  BY Zenon, <1>3 DEF StandardPrefix
<1>9. sign = Sign(d)
  <2>1. Value(d) \in Int /\ (Negative(d) <=> Value(d) < 0)
    BY ValueIs DEF Negative
  <2>2. ("+" \in Kept(d) <=> "+" \in signs) /\ (" " \in Kept(d) <=> " " \in signs)
        /\ signs \subseteq {"+", " "}
    BY FlagsAre
  <2> HIDE DEF signs
  <2> DEFINE below == value < 0
             above == value >= 0
  <2>3. (above <=> ~ below) /\ (below <=> Negative(d))
    BY <1>2, <2>1
  <2>4. sign = CASE below -> <<"-">> [] above /\ "+" \in signs -> <<"+">>
                 [] above /\ signs = {" "} -> <<" ">> [] OTHER -> <<>>
    BY Zenon
  <2> HIDE DEF below, above, sign
  <2>5. CASE below
    BY <2>3, <2>4, <2>5 DEF Sign, SignOf
  <2>6. CASE ~ below /\ "+" \in signs
    <3>1. signs # {" "}
      <4>1. "+" \in signs /\ "+" \notin {" "}
        BY <2>6
      <4> QED BY Zenon, <4>1
    <3> QED BY <2>2, <2>3, <2>4, <2>6, <3>1 DEF Sign, SignOf
  <2>7. CASE ~ below /\ "+" \notin signs /\ " " \in signs
    <3>1. signs = {" "}
      BY <2>2, <2>7
    <3> QED BY <2>2, <2>3, <2>4, <2>7, <3>1 DEF Sign, SignOf
  <2>8. CASE ~ below /\ "+" \notin signs /\ " " \notin signs
    <3>1. signs # {" "}
      BY <2>2, <2>8
    <3> QED BY <2>2, <2>3, <2>4, <2>8, <3>1 DEF Sign, SignOf
  <2> QED BY <2>5, <2>6, <2>7, <2>8
<1> HIDE DEF body, prefix, sign
<1>10. pad = width - Len(TheNumber(d))
  BY Zenon, <1>7, <1>8, <1>9 DEF TheNumber
<1> HIDE DEF pad
<1> QED BY Zenon, <1>1, <1>7, <1>8, <1>9, <1>10 DEF Filled, TheNumber

LEMMA ZeroesLead ==
  ASSUME NEW T \in Text, NEW z \in Int, z > 0
  PROVE  Zeroes(z, T) # <<>> /\ Zeroes(z, T)[1] = "0"
<1> DEFINE t == Times("0", z)
<1>0. "0" \in Characters
  BY Named
<1>1. t \in Text /\ Len(t) = (IF z > 0 THEN z ELSE 0) /\ \A i \in 1..Len(t) : t[i] = "0"
  BY <1>0, TimesIs
<1> HIDE DEF t
<1>2. 1 \in 1..Len(t) /\ t[1] = "0"
  BY <1>1
<1>3. (t \o T)[1] = "0" /\ Len(t \o T) = Len(t) + Len(T)
  BY <1>1, <1>2, Joining
<1>4. Len(t \o T) # 0
  BY <1>1, <1>3, Lengths0
<1> DEFINE u == t \o T
<1>5. u # <<>> /\ u[1] = "0"
  <2>1. Len(u) # 0 /\ u[1] = "0"
    BY <1>3, <1>4
  <2> HIDE DEF u
  <2> QED BY <2>1
<1> QED BY <1>5 DEF Zeroes, t

LEMMA ReadDigitsAre ==
  ASSUME FormatAssumption, NEW d, Real(d), d.conversion \in Integral
  PROVE  /\ Size(Value(d)) # 0 =>
              /\ ReadDigits(d) = StandardDigits(d)
              /\ Len(ReadDigits(d)) >= 1 /\ ReadDigits(d)[1] # "0"
         /\ Size(Value(d)) = 0 =>
              /\ StandardDigits(d) = <<>>
              /\ ReadDigits(d) = IF d.precision = None THEN <<"0">> ELSE <<>>
<1> DEFINE size == Size(Value(d))
           base == Base(d)
           table == IF d.conversion = "X" THEN Upper16 ELSE Digits16
<1>1. size \in Nat /\ base \in {2, 8, 10, 16} /\ table \in {Digits16, Upper16}
  BY ValueIs
<1>2. StandardDigits(d) = InBase(size, base, table)
  BY Zenon DEF StandardDigits
<1>3. Table(FlagsRead(d)) = table
  BY FlagsAre DEF Table
<1>4. ReadDigits(d) = IF size = 0 THEN IF d.precision = None THEN <<"0">> ELSE <<>>
                      ELSE InBase(size, base, table)
  BY <1>3, FlagsAre, Zenon DEF ReadDigits, DigitsOf
<1> HIDE DEF size, base, table
<1>5. Radix(base, table) /\ \A k \in 1..(base - 1) : table[k + 1] # "0"
  BY <1>1, SixteenRadix
<1>6. InBase(0, base, table) = <<>>
  BY <1>5, InBaseSteps
<1>7. size # 0 => Len(InBase(size, base, table)) >= 1 /\ InBase(size, base, table)[1] # "0"
  BY <1>1, <1>5, InBaseLeads
<1>8. size = 0 => StandardDigits(d) = <<>>
  BY <1>2, <1>6
<1> QED BY <1>2, <1>4, <1>7, <1>8 DEF size

LEMMA PreciseIs ==
  ASSUME FormatAssumption, NEW d, Real(d), d.conversion \in Integral
  PROVE  Precise(d) = Zeroes(ReadPrecision(d) - Len(ReadDigits(d)), ReadDigits(d))
<1> DEFINE T == ReadDigits(d)
           D == StandardDigits(d)
           size == Size(Value(d))
           atLeast == IF d.precision = None THEN 1 ELSE d.precision
<1>1. T \in Text /\ Len(T) \in Nat
  BY ValueIs, Lengths0
<1>2. d.precision \in Nat \cup {None} /\ ReadPrecision(d) = IF d.precision = None THEN 0 ELSE d.precision
  BY RealIs DEF ReadPrecision
<1>3. Precise(d) = Zeroes(atLeast - Len(D), D)
  BY Zenon DEF Precise
<1>4. /\ size # 0 => T = D /\ Len(T) >= 1
      /\ size = 0 => D = <<>> /\ T = IF d.precision = None THEN <<"0">> ELSE <<>>
  BY ReadDigitsAre
<1>a. atLeast = IF d.precision = None THEN 1 ELSE d.precision
  OBVIOUS
<1> HIDE DEF T, D, size, atLeast
<1>5. \A z \in Int : z <= 0 => Zeroes(z, T) = T
  BY <1>1, ZeroesIs
<1>6. CASE d.precision # None
  <2>1. T = D
    BY <1>4, <1>6
  <2>2. atLeast = ReadPrecision(d)
    BY <1>2, <1>6, <1>a
  <2> QED BY <1>3, <2>1, <2>2 DEF T
<1>7. CASE d.precision = None /\ size # 0
  <2>1. 1 - Len(T) \in Int /\ 1 - Len(T) <= 0 /\ 0 - Len(T) \in Int /\ 0 - Len(T) <= 0
    BY <1>1, <1>4, <1>7
  <2>2. Zeroes(1 - Len(T), T) = T /\ Zeroes(0 - Len(T), T) = T
    BY <1>5, <2>1
  <2>3. atLeast = 1 /\ ReadPrecision(d) = 0 /\ T = D
    BY <1>2, <1>4, <1>7, <1>a
  <2> QED BY <1>3, <2>2, <2>3 DEF T
<1>8. CASE d.precision = None /\ size = 0
  <2>1. T = <<"0">> /\ D = <<>> /\ atLeast = 1 /\ ReadPrecision(d) = 0
    BY <1>2, <1>4, <1>8, <1>a
  <2>2. Len(T) = 1 /\ Len(D) = 0
    BY <2>1
  <2>3. Zeroes(0 - Len(T), T) = T
    <3>1. 0 - Len(T) \in Int /\ 0 - Len(T) <= 0
      BY <2>2
    <3> QED BY <1>5, <3>1
  <2>4. Zeroes(1 - Len(D), D) = <<"0">>
    <3>1. Times("0", 1) = <<"0">>
      BY DEF Times
    <3>2. <<"0">> \in Text
      BY Named, OneCharacter
    <3>3. <<"0">> \o <<>> = <<"0">>
      BY <3>2, JoiningNothing
    <3>4. 1 - Len(D) = 1
      BY <2>2
    <3> QED BY <2>1, <3>1, <3>3, <3>4 DEF Zeroes
  <2> QED BY <1>3, <2>1, <2>3, <2>4 DEF T
<1> QED BY <1>6, <1>7, <1>8 DEF T

LEMMA OctalIs ==
  ASSUME FormatAssumption, NEW d, Real(d), d.conversion \in Integral
  PROVE  Octal(d) <=> /\ d.conversion = "o" /\ "#" \in Kept(d)
                      /\ ReadPrecision(d) - Len(ReadDigits(d)) <= 0
<1> DEFINE T == ReadDigits(d)
           z == ReadPrecision(d) - Len(T)
           P == Precise(d)
           S == StandardFlags(d)
           size == Size(Value(d))
<1>1. T \in Text /\ Len(T) \in Nat /\ ReadPrecision(d) \in Nat /\ z \in Int
  BY ValueIs, Lengths0, RealIs
<1>2. P = Zeroes(z, T)
  BY PreciseIs
<1>3. Octal(d) <=> "#" \in S /\ d.conversion = "o" /\ (P = <<>> \/ P[1] # "0")
  BY Zenon DEF Octal
<1>4. d.conversion = "o" =>
        ("#" \in Kept(d) <=> "#" \in S /\ (size = 0 => d.precision # None))
  <2>1. d.conversion = "o" => Base(d) = 8
    BY DEF Base, BaseOf
  <2>2. "#" \in Kept(d) <=> /\ "#" \in S /\ Base(d) # 10
                            /\ size = 0 => d.precision # None /\ Base(d) # 16
    BY FlagsAre
  <2> HIDE DEF S, size
  <2> QED BY <2>1, <2>2
<1>5. /\ size # 0 => Len(T) >= 1 /\ T[1] # "0"
      /\ size = 0 => T = IF d.precision = None THEN <<"0">> ELSE <<>>
  BY ReadDigitsAre
<1>6. z > 0 => P # <<>> /\ P[1] = "0"
  <2> HIDE DEF z, T, P
  <2> QED BY <1>1, <1>2, ZeroesLead
<1>7. z <= 0 => P = T
  <2> HIDE DEF z, T, P
  <2> QED BY <1>1, <1>2, ZeroesIs
<1>8. ReadPrecision(d) = IF d.precision = None THEN 0 ELSE d.precision
  BY DEF ReadPrecision
<1>z. z = ReadPrecision(d) - Len(T)
  OBVIOUS
<1> HIDE DEF T, z, P, S, size
<1>9. Octal(d) <=> d.conversion = "o" /\ "#" \in Kept(d) /\ z <= 0
  <2>1. CASE d.conversion # "o"
    BY <1>3, <2>1
  <2>2. CASE d.conversion = "o" /\ z > 0
    <3>1. ~ (z <= 0)
      BY <1>1, <2>2
    <3> QED BY <1>3, <1>6, <2>2, <3>1
  <2>3. CASE d.conversion = "o" /\ z <= 0 /\ size # 0
    BY <1>3, <1>4, <1>5, <1>7, <2>3
  <2>4. CASE d.conversion = "o" /\ z <= 0 /\ size = 0 /\ d.precision = None
    <3>1. P = <<"0">>
      BY <1>5, <1>7, <2>4
    <3>2. P # <<>> /\ P[1] = "0"
      BY <3>1
    <3> QED BY <1>3, <1>4, <2>4, <3>2
  <2>5. CASE d.conversion = "o" /\ z <= 0 /\ size = 0 /\ d.precision # None
    BY <1>3, <1>4, <1>5, <1>7, <2>5
  <2>6. z > 0 \/ z <= 0
    BY <1>1
  <2> QED BY <2>1, <2>2, <2>3, <2>4, <2>5, <2>6
<1> QED BY <1>9 DEF z, T

LEMMA MarksAre ==
  ASSUME FormatAssumption, NEW d, Real(d), FitsBuffer(d), d.conversion \in Integral, NEW z \in Int
  PROVE  /\ d.conversion = "o" =>
              /\ StandardPrefix(d) = <<>>
              /\ Hashes(z, Base(d), Kept(d)) <=> "#" \in Kept(d) /\ z <= 0
              /\ Base(d) = 8
              /\ Marks(z, Base(d), Kept(d)) = IF "#" \in Kept(d) /\ z <= 0 THEN <<"0">> ELSE <<>>
         /\ d.conversion # "o" =>
              /\ Marks(z, Base(d), Kept(d)) = StandardPrefix(d)
              /\ Hashes(z, Base(d), Kept(d)) <=> "#" \in Kept(d)
              /\ Base(d) # 8
              /\ Len(StandardPrefix(d)) = IF "#" \in Kept(d) THEN 2 ELSE 0
         /\ StandardPrefix(d) \in Text
<1> DEFINE K == Kept(d)
           S == StandardFlags(d)
           size == Size(Value(d))
           base == Base(d)
<1>1. /\ "p" \notin K
      /\ "X" \in K <=> d.conversion = "X"
      /\ "#" \in K <=> /\ "#" \in S /\ base # 10
                       /\ size = 0 => d.precision # None /\ base # 16
  BY FlagsAre
<1>2. Hashes(z, base, K) <=> "#" \in K /\ ~ (base = 8 /\ z > 0)
  BY <1>1 DEF Hashes
<1>3. Marks(z, base, K) = IF Hashes(z, base, K) THEN <<"0">> \o Letter(base, K) ELSE <<>>
  BY Zenon DEF Marks
<1>4. StandardPrefix(d) = IF "#" \in S /\ size # 0 /\ d.conversion \in {"x", "X", "b"}
                          THEN <<"0", d.conversion>> ELSE <<>>
  BY Zenon DEF StandardPrefix
<1>5. <<>> \in Text /\ Len(<<>>) = 0
  BY DEF Text
<1>n. "0" \in Characters /\ "x" \in Characters /\ "X" \in Characters /\ "b" \in Characters
  BY Named
<1>6. ASSUME NEW c \in Characters
      PROVE  <<"0", c>> = <<"0">> \o <<c>> /\ <<"0", c>> \in Text /\ Len(<<"0", c>>) = 2
  <2> DEFINE s == <<"0">>
             t == <<c>>
  <2>1. s \in Text /\ t \in Text
    BY <1>n, OneCharacter
  <2>2. <<"0", c>> = s \o t /\ Len(<<"0", c>>) = 2
    OBVIOUS
  <2> HIDE DEF s, t
  <2>3. s \o t \in Text
    BY <2>1, Joining
  <2> QED BY <2>2, <2>3 DEF s, t
<1>7. CASE d.conversion = "o"
  <2>1. base = 8
    BY <1>7 DEF Base, BaseOf
  <2>2. Letter(base, K) = <<>>
    BY <2>1 DEF Letter
  <2>3. <<"0">> \o <<>> = <<"0">>
    OBVIOUS
  <2>4. StandardPrefix(d) = <<>>
    BY <1>4, <1>7
  <2> HIDE DEF K, base
  <2>5. Hashes(z, base, K) <=> "#" \in K /\ z <= 0
    BY <1>2, <2>1
  <2>6. Marks(z, base, K) = IF "#" \in K /\ z <= 0 THEN <<"0">> ELSE <<>>
    BY Zenon, <1>3, <2>2, <2>3, <2>5
  <2> QED BY <1>5, <1>7, <2>1, <2>4, <2>5, <2>6 DEF K, base
<1>8. CASE d.conversion \in {"d", "i", "u"}
  <2>1. base = 10
    BY <1>8 DEF Base, BaseOf
  <2>2. "#" \notin K /\ ~ Hashes(z, base, K)
    BY <1>1, <1>2, <2>1
  <2>3. Marks(z, base, K) = <<>> /\ StandardPrefix(d) = <<>>
    BY <1>3, <1>4, <1>8, <2>2
  <2> QED BY <1>5, <1>8, <2>1, <2>2, <2>3
<1>9. CASE d.conversion \in {"x", "X", "b"}
  <2>1. base = IF d.conversion = "b" THEN 2 ELSE 16
    BY <1>9 DEF Base, BaseOf
  <2>2. Letter(base, K) = <<d.conversion>> /\ d.conversion \in Characters
    <3>1. CASE d.conversion = "b"
      BY <1>n, <2>1, <3>1 DEF Letter
    <3>2. CASE d.conversion = "x"
      BY <1>1, <1>n, <2>1, <3>2 DEF Letter
    <3>3. CASE d.conversion = "X"
      BY <1>1, <1>n, <2>1, <3>3 DEF Letter
    <3> QED BY <1>9, <3>1, <3>2, <3>3
  <2>3. "#" \in K <=> "#" \in S /\ size # 0
    <3>1. CASE d.conversion = "b"
      <4>1. base = 2
        BY <2>1, <3>1
      <4>2. "#" \in S <=> "#" \in Range(d.flags)
        BY DEF StandardFlags
      <4>3. "#" \in Range(d.flags) /\ d.precision # None => size # 0
        <5>1. "#" \in Range(d.flags) /\ d.precision # None => Unsigned(d.arg, TypeOf(d)) # 0
          BY <3>1, RealIs DEF FitsBuffer
        <5>2. Value(d) = Unsigned(d.arg, TypeOf(d)) /\ Value(d) \in Int
          BY <3>1, ValueIs DEF Value, ValueOf
        <5>3. Value(d) # 0 => Size(Value(d)) # 0
          BY <5>2 DEF Size
        <5> QED BY <5>1, <5>2, <5>3
      <4> HIDE DEF K, S, size, base
      <4> QED BY <1>1, <4>1, <4>2, <4>3
    <3>2. CASE d.conversion \in {"x", "X"}
      <4>1. base = 16
        BY <2>1, <3>2
      <4> HIDE DEF K, S, size, base
      <4> QED BY <1>1, <4>1
    <3> QED BY <1>9, <3>1, <3>2
  <2> HIDE DEF K, S, size, base
  <2>4. base # 8 /\ (Hashes(z, base, K) <=> "#" \in K)
    BY <1>2, <2>1
  <2>5. /\ <<"0", d.conversion>> = <<"0">> \o <<d.conversion>>
        /\ <<"0", d.conversion>> \in Text /\ Len(<<"0", d.conversion>>) = 2
    BY <1>6, <2>2
  <2>6. StandardPrefix(d) = IF "#" \in K THEN <<"0", d.conversion>> ELSE <<>>
    BY Zenon, <1>4, <1>9, <2>3
  <2>7. Marks(z, base, K) = StandardPrefix(d)
    BY Zenon, <1>3, <2>2, <2>4, <2>5, <2>6
  <2>8. StandardPrefix(d) \in Text /\ Len(StandardPrefix(d)) = IF "#" \in K THEN 2 ELSE 0
    <3> DEFINE p == <<"0", d.conversion>>
    <3>1. p \in Text /\ Len(p) = 2 /\ StandardPrefix(d) = IF "#" \in K THEN p ELSE <<>>
      BY <2>5, <2>6
    <3> HIDE DEF p
    <3> QED BY <1>5, <3>1
  <2>9. d.conversion # "o"
    BY <1>9
  <2> QED BY <2>4, <2>7, <2>8, <2>9 DEF K, base
<1> QED BY <1>7, <1>8, <1>9 DEF Integral

LEMMA PartsAre ==
  ASSUME FormatAssumption, NEW d, Real(d), FitsBuffer(d), d.conversion \in Integral
  PROVE  /\ Sign(d) \in Text /\ StandardPrefix(d) \in Text /\ Precise(d) \in Text
         /\ StandardBody(d) \in Text /\ TheNumber(d) \in Text
         /\ Len(Sign(d)) \in {0, 1} /\ Len(StandardPrefix(d)) \in Nat
         /\ Len(StandardBody(d)) = Len(Precise(d)) + (IF Octal(d) THEN 1 ELSE 0)
         /\ Len(Precise(d)) \in Nat
         /\ Len(TheNumber(d)) = Len(Sign(d)) + Len(StandardPrefix(d)) + Len(StandardBody(d))
         /\ Len(Sign(d)) = 0 <=> ~ (Negative(d) \/ Kept(d) \cap {"+", " "} # {})
<1> DEFINE sign == Sign(d)
           prefix == StandardPrefix(d)
           P == Precise(d)
           body == StandardBody(d)
           T == ReadDigits(d)
           z == ReadPrecision(d) - Len(T)
           zero == <<"0">>
<1>1. Negative(d) \in BOOLEAN /\ T \in Text /\ Len(T) \in Nat /\ ReadPrecision(d) \in Nat
  BY ValueIs, Lengths0, RealIs
<1>2. /\ sign \in Text /\ Len(sign) \in {0, 1}
      /\ Len(sign) = 0 <=> ~ (Negative(d) \/ Kept(d) \cap {"+", " "} # {})
  <2> DEFINE neg == Negative(d)
             K == Kept(d)
             s == SignOf(neg, K)
  <2>1. neg \in BOOLEAN
    BY <1>1
  <2> HIDE DEF neg, K
  <2>2. s \in Text /\ (s # <<>> => Len(s) = 1)
        /\ (s = <<>> <=> ~ neg /\ "+" \notin K /\ " " \notin K)
    BY <2>1, SignIs
  <2> HIDE DEF s
  <2>3. Len(s) \in {0, 1} /\ (Len(s) = 0 <=> s = <<>>)
    <3>1. CASE s = <<>>
      BY <3>1
    <3>2. CASE s # <<>>
      <4>1. Len(s) = 1
        BY <2>2, <3>2
      <4> QED BY <3>2, <4>1
    <3> QED BY <3>1, <3>2
  <2>4. K \cap {"+", " "} # {} <=> "+" \in K \/ " " \in K
    OBVIOUS
  <2>5. Len(s) = 0 <=> ~ (neg \/ K \cap {"+", " "} # {})
    BY <2>2, <2>3, <2>4
  <2> QED BY <2>2, <2>3, <2>5 DEF Sign, s, neg, K
<1>3. prefix \in Text
  <2>1. 0 \in Int
    OBVIOUS
  <2> HIDE DEF prefix
  <2> QED BY <2>1, MarksAre DEF prefix
<1>4. P \in Text
  <2>1. P = Zeroes(z, T)
    BY PreciseIs
  <2>2. z \in Int
    BY <1>1
  <2> HIDE DEF z, T, P
  <2> QED BY <1>1, <2>1, <2>2, ZeroesIs
<1>5. zero \in Text /\ Len(zero) = 1
  BY Named, OneCharacter
<1>6. body = IF Octal(d) THEN zero \o P ELSE P
  BY Zenon DEF StandardBody
<1>7. TheNumber(d) = (sign \o prefix) \o body
  BY Zenon DEF TheNumber
<1> HIDE DEF sign, prefix, P, body, T, z, zero
<1>8. zero \o P \in Text /\ Len(zero \o P) = 1 + Len(P) /\ Len(P) \in Nat
  <2>1. zero \o P \in Text /\ Len(zero \o P) = Len(zero) + Len(P)
    BY <1>4, <1>5, Joining
  <2>2. Len(P) \in Nat
    BY <1>4, Lengths0
  <2> QED BY <1>5, <2>1, <2>2
<1>9. body \in Text /\ Len(body) = Len(P) + (IF Octal(d) THEN 1 ELSE 0)
  BY <1>4, <1>6, <1>8
<1>10. sign \o prefix \in Text /\ Len(sign \o prefix) = Len(sign) + Len(prefix)
       /\ Len(prefix) \in Nat
  BY <1>2, <1>3, Joining, Lengths0
<1>11. (sign \o prefix) \o body \in Text
       /\ Len((sign \o prefix) \o body) = Len(sign \o prefix) + Len(body)
  BY <1>9, <1>10, Joining
<1> QED BY <1>2, <1>3, <1>4, <1>7, <1>8, <1>9, <1>10, <1>11 DEF sign, prefix, P, body

LEMMA WidthsAre ==
  ASSUME FormatAssumption, NEW d, Real(d), FitsBuffer(d), d.conversion \in Integral
  PROVE  /\ StandardWidth(d) \in Int /\ ReadWidth(d) \in Nat /\ ReadInner(d) \in Nat
         /\ StandardWidth(d) >= 0 => ReadWidth(d) = StandardWidth(d)
         /\ StandardWidth(d) < 0 => ReadWidth(d) = 0
         /\ ReadInner(d) <= ReadWidth(d)
         /\ ~ PadsWithZeros(d) => ReadInner(d) = ReadWidth(d)
         /\ PadsWithZeros(d) /\ ReadWidth(d) > 0 => ReadInner(d) = ReadWidth(d) - Len(Sign(d))
<1>1. d.width \in Int /\ d.star \in BOOLEAN /\ (~ d.star => d.width = None \/ d.width > 0)
  BY RealIs
<1>2. /\ StandardWidth(d) \in Int /\ ReadWidth(d) \in Nat
      /\ StandardWidth(d) >= 0 => ReadWidth(d) = StandardWidth(d)
      /\ StandardWidth(d) < 0 => ReadWidth(d) = 0
  BY <1>1 DEF StandardWidth, ReadWidth, None
<1> DEFINE W == ReadWidth(d)
           w == ReadInner(d)
           signed == Negative(d) \/ Kept(d) \cap {"+", " "} # {}
           pads == ZeroPads(Kept(d))
<1>3. w = IF W > 0 /\ pads /\ signed THEN W - 1 ELSE W
  BY Zenon DEF ReadInner, Inner
<1>4. Len(Sign(d)) \in {0, 1} /\ (Len(Sign(d)) = 0 <=> ~ signed)
  BY PartsAre
<1>5. pads <=> PadsWithZeros(d)
  BY FlagsAre
<1>6. pads \in BOOLEAN /\ signed \in BOOLEAN /\ W \in Nat
  BY <1>2 DEF ZeroPads
<1> HIDE DEF W, w, signed, pads
<1>7. w \in Nat /\ w <= W /\ (~ pads => w = W) /\ (pads /\ W > 0 => w = W - Len(Sign(d)))
  <2>1. CASE W > 0 /\ pads /\ signed
    <3>1. w = W - 1
      BY Zenon, <1>3, <2>1
    <3>2. Len(Sign(d)) = 1
      BY <1>4, <2>1
    <3> QED BY <1>6, <2>1, <3>1, <3>2
  <2>2. CASE ~ (W > 0 /\ pads /\ signed)
    <3>1. w = W
      BY Zenon, <1>3, <2>2
    <3> QED BY <1>4, <1>6, <2>2, <3>1
  <2> QED BY <2>1, <2>2
<1> QED BY <1>2, <1>5, <1>7 DEF W, w

(* Without padding by zeros, what is printed is the number.                *)
LEMMA UnpaddedShape ==
  ASSUME FormatAssumption, NEW d, Real(d), FitsBuffer(d), d.conversion \in Integral,
         ~ PadsWithZeros(d)
  PROVE  ReadShape(d) = TheNumber(d)
<1> DEFINE T == ReadDigits(d)
           z == Before(d)
           K == Kept(d)
           base == Base(d)
           sign == Sign(d)
           prefix == StandardPrefix(d)
           P == Precise(d)
           body == StandardBody(d)
           marks == Marks(z, base, K)
           zero == <<"0">>
<1>1. T \in Text /\ Len(T) \in Nat /\ ReadPrecision(d) \in Nat
  BY ValueIs, Lengths0, RealIs
<1>2. ~ ZeroPads(K)
  BY FlagsAre
<1>3. z = ReadPrecision(d) - Len(T) /\ z \in Int
  BY <1>1, <1>2 DEF Before, ZerosBefore
<1>4. P = Zeroes(z, T)
  BY <1>3, PreciseIs
<1>5. ReadShape(d) = sign \o (marks \o P)
  <2>1. ZerosLeft(z, base, K) = z
    BY <1>2 DEF ZerosLeft
  <2> HIDE DEF z, base, K, T
  <2>2. Shape(T, z, base, Negative(d), K) = SignOf(Negative(d), K) \o (marks \o P)
    BY Zenon, <1>4, <2>1 DEF Shape
  <2> QED BY Zenon, <2>2 DEF ReadShape, Sign, z, base, K, T
<1>6. sign \in Text /\ prefix \in Text /\ P \in Text /\ body \in Text
  BY PartsAre
<1>7. Octal(d) <=> d.conversion = "o" /\ "#" \in K /\ z <= 0
  BY <1>3, OctalIs
<1>8. body = IF Octal(d) THEN zero \o P ELSE P
  BY Zenon DEF StandardBody
<1>9. TheNumber(d) = (sign \o prefix) \o body
  BY Zenon DEF TheNumber
<1>10. /\ d.conversion = "o" => /\ prefix = <<>>
                                /\ marks = IF "#" \in K /\ z <= 0 THEN zero ELSE <<>>
       /\ d.conversion # "o" => marks = prefix
  BY <1>3, MarksAre
<1> HIDE DEF T, z, K, base, sign, prefix, P, body, marks, zero
<1>11. (sign \o prefix) \o body = sign \o (prefix \o body)
  BY <1>6, JoiningAssociates
<1>12. marks \o P = prefix \o body
  <2>1. CASE d.conversion # "o"
    BY <1>7, <1>8, <1>10, <2>1
  <2>2. CASE d.conversion = "o" /\ ~ ("#" \in K /\ z <= 0)
    BY <1>7, <1>8, <1>10, <2>2
  <2>3. CASE d.conversion = "o" /\ "#" \in K /\ z <= 0
    <3>1. marks = zero /\ body = zero \o P /\ prefix = <<>>
      BY <1>7, <1>8, <1>10, <2>3
    <3>2. <<>> \o body = body
      BY <1>6, JoiningNothing
    <3> QED BY <3>1, <3>2
  <2> QED BY <2>1, <2>2, <2>3
<1> QED BY Zenon, <1>5, <1>9, <1>11, <1>12

LEMMA SameTimes ==
  ASSUME NEW c \in Characters, NEW m \in Int, NEW n \in Int, m = n \/ (m <= 0 /\ n <= 0)
  PROVE  Times(c, m) = Times(c, n)
<1>1. CASE m = n
  BY <1>1
<1>2. CASE m <= 0 /\ n <= 0
  <2>1. Times(c, m) = <<>> /\ Times(c, n) = <<>>
    BY <1>2, TimesIs
  <2> QED BY <2>1
<1> QED BY <1>1, <1>2

(* With padding by zeros, they stand between the prefix and the digits.    *)
LEMMA PaddedShape ==
  ASSUME FormatAssumption, NEW d, Real(d), FitsBuffer(d), d.conversion \in Integral,
         PadsWithZeros(d)
  PROVE  /\ ReadShape(d) = Sign(d) \o (StandardPrefix(d)
              \o (Times("0", StandardWidth(d) - Len(TheNumber(d))) \o StandardBody(d)))
         /\ ReadPrecision(d) = 0 /\ d.precision = None
<1> DEFINE T == ReadDigits(d)
           w == ReadInner(d)
           W == ReadWidth(d)
           V == StandardWidth(d)
           z == Before(d)
           K == Kept(d)
           base == Base(d)
           sign == Sign(d)
           prefix == StandardPrefix(d)
           P == Precise(d)
           body == StandardBody(d)
           N == TheNumber(d)
           marks == Marks(z, base, K)
           left == ZerosLeft(z, base, K)
           hash == Hashes(z, base, K)
           zero == <<"0">>
           pad == V - Len(N)
<1>1. d.precision = None /\ ReadPrecision(d) = 0
  BY DEF PadsWithZeros, ReadPrecision
<1>2. T \in Text /\ Len(T) \in Nat
  BY ValueIs, Lengths0
<1>3. ZeroPads(K)
  BY FlagsAre
<1>4. /\ V \in Int /\ W \in Nat /\ w \in Nat /\ w <= W
      /\ (V >= 0 => W = V) /\ (V < 0 => W = 0) /\ (W > 0 => w = W - Len(sign))
  BY WidthsAre
<1>5. z = w - Len(T) /\ z \in Int
  BY <1>2, <1>3, <1>4 DEF Before, ZerosBefore
<1>6. P = T
  <2>1. P = Zeroes(0 - Len(T), T)
    BY <1>1, PreciseIs
  <2>2. 0 - Len(T) \in Int /\ 0 - Len(T) <= 0
    BY <1>2
  <2> HIDE DEF P, T
  <2> QED BY <1>2, <2>1, <2>2, ZeroesIs
<1>7. ReadShape(d) = sign \o (marks \o (Times("0", left) \o T))
  <2>1. Shape(T, z, base, Negative(d), K)
          = SignOf(Negative(d), K) \o (marks \o (Times("0", left) \o T))
    BY Zenon DEF Shape, Zeroes
  <2> HIDE DEF z, base, K, T
  <2> QED BY Zenon, <2>1 DEF ReadShape, Sign, z, base, K, T
<1>8. /\ Len(sign) \in {0, 1} /\ Len(prefix) \in Nat
      /\ Len(body) = Len(P) + (IF Octal(d) THEN 1 ELSE 0)
      /\ Len(N) = Len(sign) + Len(prefix) + Len(body)
      /\ sign \in Text /\ prefix \in Text /\ body \in Text
  BY PartsAre
<1>9. Octal(d) <=> d.conversion = "o" /\ "#" \in K
  <2>1. 0 - Len(T) <= 0
    BY <1>2
  <2> HIDE DEF T, K
  <2> QED BY <1>1, <2>1, OctalIs DEF T, K
<1>10. body = IF Octal(d) THEN zero \o T ELSE T
  BY Zenon, <1>6 DEF StandardBody
<1>11. /\ d.conversion = "o" => /\ prefix = <<>> /\ base = 8
                                /\ hash <=> "#" \in K /\ z <= 0
                                /\ marks = IF "#" \in K /\ z <= 0 THEN zero ELSE <<>>
       /\ d.conversion # "o" => /\ marks = prefix /\ base # 8
                                /\ hash <=> "#" \in K
                                /\ Len(prefix) = IF "#" \in K THEN 2 ELSE 0
  BY <1>5, MarksAre
<1>12. left = IF hash THEN z - (IF base = 8 THEN 1 ELSE 2) ELSE z
  BY <1>3 DEF ZerosLeft, PrefixSize
<1>0. "0" \in Characters
  BY Named
<1>z. zero \in Text /\ Len(zero) = 1 /\ Times("0", 1) = zero
  BY <1>0, OneCharacter DEF Times
<1>p. pad = V - Len(N)
  OBVIOUS
<1> HIDE DEF T, w, W, V, z, K, base, sign, prefix, P, body, N, marks, left, hash, zero, pad
<1>8a. Len(sign) \in Nat /\ Len(prefix) \in Nat /\ Len(body) \in Nat
       /\ Len(N) = Len(sign) + Len(prefix) + Len(body)
  BY <1>8, Lengths0
<1>4a. W > 0 => V = W /\ w = V - Len(sign)
  BY <1>4
<1>13. marks \o (Times("0", left) \o T) = prefix \o (Times("0", pad) \o body)
  <2>1. CASE d.conversion # "o" \/ "#" \notin K
    <3>1. ~ Octal(d) /\ body = T /\ Len(body) = Len(T)
      BY <1>6, <1>8, <1>9, <1>10, <2>1
    <3>2. marks = prefix /\ left = z - Len(prefix)
      <4>1. CASE d.conversion # "o" /\ "#" \in K
        BY <1>5, <1>11, <1>12, <4>1
      <4>2. CASE d.conversion # "o" /\ "#" \notin K
        BY <1>5, <1>11, <1>12, <4>2
      <4>3. CASE d.conversion = "o" /\ "#" \notin K
        <5>1. prefix = <<>> /\ marks = <<>> /\ ~ hash
          BY <1>11, <4>3
        <5>2. Len(prefix) = 0 /\ left = z
          BY <1>12, <5>1
        <5> QED BY <1>5, <5>1, <5>2
      <4> QED BY <2>1, <4>1, <4>2, <4>3
    <3>3. pad = V - Len(sign) - Len(prefix) - Len(T) /\ pad \in Int /\ left \in Int
      BY <1>2, <1>4, <1>5, <1>8a, <1>p, <3>1, <3>2
    <3>4. left = pad \/ (left <= 0 /\ pad <= 0)
      <4>1. CASE W > 0
        <5>1. z = V - Len(sign) - Len(T)
          BY <1>4a, <1>5, <4>1
        <5>2. left = V - Len(sign) - Len(T) - Len(prefix)
          BY <3>2, <5>1
        <5>3. V \in Int /\ Len(T) \in Int /\ Len(sign) \in Int /\ Len(prefix) \in Int
          BY <1>2, <1>4, <1>8a
        <5>4. left = pad
          BY <3>3, <5>2, <5>3
        <5> QED BY <5>4
      <4>2. CASE W = 0
        BY <1>2, <1>4, <1>5, <1>8, <3>2, <3>3, <4>2
      <4> QED BY <1>4, <4>1, <4>2
    <3>5. Times("0", left) = Times("0", pad)
      BY <1>0, <3>3, <3>4, SameTimes
    <3> QED BY <3>1, <3>2, <3>5
  <2>2. CASE d.conversion = "o" /\ "#" \in K /\ z <= 0
    <3>1. body = zero \o T /\ Len(body) = Len(T) + 1 /\ prefix = <<>> /\ marks = zero
          /\ left = z - 1
      BY <1>6, <1>8, <1>9, <1>10, <1>11, <1>12, <2>2
    <3>2. Len(prefix) = 0
      BY <3>1
    <3>3. pad \in Int /\ left \in Int /\ left <= 0 /\ pad <= 0
      <4>1. pad = V - Len(sign) - Len(T) - 1 /\ pad \in Int /\ left \in Int
        BY <1>2, <1>4, <1>5, <1>8a, <1>p, <3>1, <3>2
      <4>2. CASE W > 0
        BY <1>2, <1>4, <1>5, <1>8, <2>2, <3>1, <4>1, <4>2
      <4>3. CASE W = 0
        BY <1>2, <1>4, <1>5, <1>8, <2>2, <3>1, <4>1, <4>3
      <4> QED BY <1>4, <4>1, <4>2, <4>3
    <3>4. Times("0", left) = <<>> /\ Times("0", pad) = <<>>
      BY <1>0, <3>3, TimesIs
    <3>5. <<>> \o T = T /\ <<>> \o body = body
      BY <1>2, <1>8, JoiningNothing
    <3> QED BY <3>1, <3>4, <3>5
  <2>3. CASE d.conversion = "o" /\ "#" \in K /\ z > 0
    <3>0. ~ (z <= 0)
      BY <1>5, <2>3
    <3>1. body = zero \o T /\ Len(body) = Len(T) + 1 /\ prefix = <<>> /\ marks = <<>>
          /\ left = z
      BY <1>6, <1>8, <1>9, <1>10, <1>11, <1>12, <2>3, <3>0
    <3>2. Len(prefix) = 0
      BY <3>1
    <3>3. pad \in Nat /\ z = pad + 1
      <4>1. pad = V - Len(sign) - Len(T) - 1 /\ pad \in Int
        BY <1>2, <1>4, <1>5, <1>8a, <1>p, <3>1, <3>2
      <4>2. W > 0
        BY <1>2, <1>4, <1>5, <2>3
      <4> QED BY <1>2, <1>4, <1>5, <1>8, <2>3, <4>1, <4>2
    <3> DEFINE t == Times("0", pad)
    <3>4. t \in Text /\ t \o zero = Times("0", left)
      <4>1. 1 \in Nat
        OBVIOUS
      <4>2. Times("0", pad) \o Times("0", 1) = Times("0", pad + 1)
        BY <1>0, <3>3, <4>1, TimesSplit
      <4>3. t \in Text
        BY <3>3, SomeZeros
      <4> QED BY <1>z, <3>1, <3>3, <4>2, <4>3
    <3> HIDE DEF t
    <3>5. t \o (zero \o T) = (t \o zero) \o T
      BY <1>2, <1>z, <3>4, JoiningAssociates
    <3> QED BY <3>1, <3>4, <3>5 DEF t
  <2>4. z <= 0 \/ z > 0
    BY <1>5
  <2> QED BY <2>1, <2>2, <2>3, <2>4
<1> QED BY Zenon, <1>1, <1>7, <1>13 DEF sign, prefix, body, N, V, pad

LEMMA FilledIs ==
  ASSUME FormatAssumption, NEW d, Real(d), FitsBuffer(d), d.conversion \in Integral, NEW width \in Int
  PROVE  /\ ~ PadsWithZeros(d) =>
              Filled(d, width)
                = IF "-" \in StandardFlags(d)
                  THEN TheNumber(d) \o Times(" ", width - Len(TheNumber(d)))
                  ELSE Times(" ", width - Len(TheNumber(d))) \o TheNumber(d)
         /\ PadsWithZeros(d) =>
              /\ Filled(d, width) = Sign(d) \o (StandardPrefix(d)
                   \o (Times("0", width - Len(TheNumber(d))) \o StandardBody(d)))
              /\ Filled(d, width) \in Text
              /\ Len(Filled(d, width)) >= width /\ Len(Filled(d, width)) >= Len(TheNumber(d))
<1> DEFINE sign == Sign(d)
           prefix == StandardPrefix(d)
           body == StandardBody(d)
           N == TheNumber(d)
           S == StandardFlags(d)
           spaces == Times(" ", width - Len(N))
           zeros == Times("0", width - Len(N))
<1>1. /\ sign \in Text /\ prefix \in Text /\ body \in Text /\ N \in Text
      /\ Len(N) = Len(sign) + Len(prefix) + Len(body)
  BY PartsAre
<1>2. N = (sign \o prefix) \o body
  BY Zenon DEF TheNumber
<1>3. PadsWithZeros(d) => "-" \notin S
  BY DEF PadsWithZeros
<1>4. Filled(d, width)
        = CASE "-" \in S -> N \o spaces
            [] PadsWithZeros(d) -> ((sign \o prefix) \o zeros) \o body
            [] OTHER -> ((spaces \o sign) \o prefix) \o body
  BY Zenon DEF Filled
<1>5. width - Len(N) \in Int
  BY <1>1, Lengths0
<1>0. " " \in Characters /\ "0" \in Characters
  BY Named
<1>6. spaces \in Text
  <2> HIDE DEF N
  <2> QED BY <1>0, <1>5, TimesIs
<1>7. zeros \in Text /\ Len(zeros) = IF width - Len(N) > 0 THEN width - Len(N) ELSE 0
  <2> HIDE DEF N
  <2> QED BY <1>0, <1>5, TimesIs
<1> HIDE DEF sign, prefix, body, N, S, spaces, zeros
<1>8. ((spaces \o sign) \o prefix) \o body = spaces \o N
  <2>1. sign \o prefix \in Text /\ spaces \o sign \in Text
    BY <1>1, <1>6, Joining
  <2>2. (spaces \o sign) \o prefix = spaces \o (sign \o prefix)
    BY <1>1, <1>6, JoiningAssociates
  <2>3. (spaces \o (sign \o prefix)) \o body = spaces \o ((sign \o prefix) \o body)
    BY SMTT(30), <1>1, <1>6, <2>1, JoiningAssociates
  <2> QED BY Zenon, <1>2, <2>2, <2>3
<1>9. ASSUME PadsWithZeros(d)
      PROVE  /\ Filled(d, width) = sign \o (prefix \o (zeros \o body))
             /\ Filled(d, width) \in Text
             /\ Len(Filled(d, width)) >= width /\ Len(Filled(d, width)) >= Len(N)
  <2>1. Filled(d, width) = ((sign \o prefix) \o zeros) \o body
    BY <1>3, <1>4, <1>9
  <2>2. sign \o prefix \in Text /\ Len(sign \o prefix) = Len(sign) + Len(prefix)
    BY <1>1, Joining
  <2>3. zeros \o body \in Text /\ Len(zeros \o body) = Len(zeros) + Len(body)
    BY <1>1, <1>7, Joining
  <2>4. ((sign \o prefix) \o zeros) \o body = (sign \o prefix) \o (zeros \o body)
    BY SMTT(30), <1>1, <1>7, <2>2, JoiningAssociates
  <2>5. (sign \o prefix) \o (zeros \o body) = sign \o (prefix \o (zeros \o body))
    BY SMTT(30), <1>1, <2>3, JoiningAssociates
  <2>6. (sign \o prefix) \o (zeros \o body) \in Text
        /\ Len((sign \o prefix) \o (zeros \o body)) = Len(sign \o prefix) + Len(zeros \o body)
    BY <2>2, <2>3, Joining
  <2>7. Len(sign) \in Nat /\ Len(prefix) \in Nat /\ Len(body) \in Nat /\ Len(zeros) \in Nat
    BY <1>1, <1>7, Lengths0
  <2>8. Len(Filled(d, width)) = Len(N) + Len(zeros) /\ Len(N) \in Nat
    BY <1>1, <2>1, <2>2, <2>3, <2>4, <2>6, <2>7
  <2>9. Len(zeros) >= width - Len(N)
    <3>1. CASE width - Len(N) > 0
      BY <1>7, <3>1
    <3>2. CASE width - Len(N) <= 0
      BY <1>5, <2>7, <3>2
    <3> QED BY <1>5, <3>1, <3>2
  <2>10. Len(Filled(d, width)) >= width /\ Len(Filled(d, width)) >= Len(N)
    BY <2>7, <2>8, <2>9
  <2>11. Filled(d, width) = sign \o (prefix \o (zeros \o body)) /\ Filled(d, width) \in Text
    BY <2>1, <2>4, <2>5, <2>6
  <2> QED BY <2>10, <2>11
<1>10. ASSUME ~ PadsWithZeros(d)
       PROVE  Filled(d, width) = IF "-" \in S THEN N \o spaces ELSE spaces \o N
  BY <1>4, <1>8, <1>10
<1> QED BY Zenon, <1>9, <1>10 DEF sign, prefix, body, N, S, spaces, zeros

LEMMA IntegralStandard ==
  ASSUME FormatAssumption, NEW d, Real(d), FitsBuffer(d), d.conversion \in Integral
  PROVE  Conversion(Read(d), d.arg) = Standard(d)
<1> DEFINE T == ReadDigits(d)
           w == ReadInner(d)
           W == ReadWidth(d)
           V == StandardWidth(d)
           K == Kept(d)
           S == StandardFlags(d)
           N == TheNumber(d)
           P == Precise(d)
           precision == ReadPrecision(d)
           shape == ReadShape(d)
<1>1. Standard(d) = Filled(d, V)
  <2>1. ~ d.plain /\ d.conversion # "%"
    BY RealIs DEF Converts, Integral
  <2>2. Standard(d) = StandardInteger(d, TypeOf(d), V)
    BY <2>1 DEF Standard, Integral
  <2> HIDE DEF V
  <2> QED BY <2>2, StandardIntegerIs
<1>2. Len(Filled(d, IF PadsWithZeros(d) THEN V ELSE 0)) <= BufferSize
  <2> DEFINE width == IF PadsWithZeros(d) THEN V ELSE 0
  <2>1. ~ d.plain
    BY RealIs
  <2>2. Len(StandardInteger(d, TypeOf(d), width)) <= BufferSize
    BY <2>1 DEF FitsBuffer
  <2> HIDE DEF width
  <2>3. StandardInteger(d, TypeOf(d), width) = Filled(d, width)
    BY StandardIntegerIs
  <2> QED BY <2>2, <2>3 DEF width
<1>3. /\ V \in Int /\ W \in Nat /\ w \in Nat /\ w <= W
      /\ (V >= 0 => W = V) /\ (V < 0 => W = 0) /\ (~ PadsWithZeros(d) => w = W)
  BY WidthsAre
<1>4. /\ T \in Text /\ Len(T) \in Nat /\ precision \in Nat /\ BufferSize \in Nat
  BY ValueIs, Lengths0, RealIs DEF FormatAssumption
<1>5. /\ "-" \in K <=> "-" \in S
      /\ "." \in K <=> d.precision # None
      /\ ZeroPads(K) <=> PadsWithZeros(d)
  BY FlagsAre
<1>6. N \in Text /\ Len(N) \in Nat /\ Len(P) \in Nat /\ Len(P) <= Len(N)
  <2>1. /\ N \in Text /\ Len(N) = Len(Sign(d)) + Len(StandardPrefix(d)) + Len(StandardBody(d))
        /\ Len(Sign(d)) \in {0, 1} /\ Len(StandardPrefix(d)) \in Nat /\ Len(P) \in Nat
        /\ Len(StandardBody(d)) = Len(P) + (IF Octal(d) THEN 1 ELSE 0)
    BY PartsAre
  <2> HIDE DEF N, P
  <2>2. Len(StandardBody(d)) = Len(P) \/ Len(StandardBody(d)) = Len(P) + 1
    BY <2>1
  <2>3. Len(Sign(d)) \in Nat
    BY <2>1
  <2>4. Len(N) = Len(Sign(d)) + Len(StandardPrefix(d)) + Len(StandardBody(d))
        /\ Len(StandardPrefix(d)) \in Nat /\ Len(P) \in Nat /\ N \in Text
    BY <2>1
  <2> QED BY <2>2, <2>3, <2>4
<1>7. precision <= Len(P) /\ Len(T) <= Len(P)
  <2> DEFINE z == precision - Len(T)
  <2>1. z \in Int
    BY <1>4
  <2>2. P = Zeroes(z, T)
    BY PreciseIs
  <2>3. z = precision - Len(T)
    OBVIOUS
  <2> HIDE DEF z, T, precision, P
  <2>4. Len(P) = Len(T) + IF z > 0 THEN z ELSE 0
    BY <1>4, <2>1, <2>2, ZeroesIs
  <2>5. CASE z > 0
    <3>1. Len(P) = Len(T) + z
      BY Zenon, <2>4, <2>5
    <3> QED BY <1>4, <2>3, <2>5, <3>1
  <2>6. CASE ~ (z > 0)
    <3>1. Len(P) = Len(T) + 0
      BY Zenon, <2>4, <2>6
    <3> QED BY <1>4, <2>3, <2>6, <3>1
  <2> QED BY <2>5, <2>6
<1>8. d.precision = None => precision = 0
  BY DEF ReadPrecision
<1>0. " " \in Characters
  BY Named
<1>9. ASSUME Fits(T, w, precision, K), Len(T) <= BufferSize, Len(shape) <= BufferSize
      PROVE  Conversion(Read(d), d.arg) = Framed(shape, w, K)
  BY <1>9, ReadingIs
<1>10. CASE ~ PadsWithZeros(d)
  <2>1. 0 \in Int
    OBVIOUS
  <2>2. Filled(d, 0) = IF "-" \in S THEN N \o Times(" ", 0 - Len(N))
                       ELSE Times(" ", 0 - Len(N)) \o N
    BY <1>10, <2>1, FilledIs
  <2>3. Filled(d, V) = IF "-" \in S THEN N \o Times(" ", V - Len(N))
                       ELSE Times(" ", V - Len(N)) \o N
    BY <1>3, <1>10, FilledIs
  <2>4. shape = N
    BY <1>10, UnpaddedShape
  <2> HIDE DEF T, w, W, V, K, S, N, P, precision, shape
  <2>5. Times(" ", 0 - Len(N)) = <<>>
    <3>1. 0 - Len(N) \in Int /\ 0 - Len(N) <= 0
      BY <1>6
    <3> QED BY <1>0, <3>1, TimesIs
  <2>6. Filled(d, 0) = N
    <3>1. N \o <<>> = N /\ <<>> \o N = N
      BY <1>6, JoiningNothing
    <3> QED BY Zenon, <2>2, <2>5, <3>1
  <2>7. Len(N) <= BufferSize
    BY Zenon, <1>2, <1>10, <2>6
  <2>8. Holds(precision, T)
    BY <1>4, <1>6, <1>7, <2>7 DEF Holds
  <2>9. Fits(T, w, precision, K)
    BY <1>5, <1>8, <1>10, <2>8 DEF Fits
  <2>10. Len(T) <= BufferSize
    BY <1>4, <1>6, <1>7, <2>7
  <2>11. Conversion(Read(d), d.arg) = Framed(N, w, K)
    BY <1>9, <2>4, <2>7, <2>9, <2>10
  <2>12. Times(" ", w - Len(N)) = Times(" ", V - Len(N))
    <3>1. w = W
      BY <1>3, <1>10
    <3>2. w - Len(N) \in Int /\ V - Len(N) \in Int
      BY <1>3, <1>6
    <3>3. w - Len(N) = V - Len(N) \/ (w - Len(N) <= 0 /\ V - Len(N) <= 0)
      <4>1. CASE V >= 0
        BY <1>3, <3>1, <4>1
      <4>2. CASE V < 0
        BY <1>3, <1>6, <3>1, <4>2
      <4> QED BY <1>3, <4>1, <4>2
    <3> QED BY <1>0, <3>2, <3>3, SameTimes
  <2>13. Framed(N, w, K) = Filled(d, V)
    <3>1. CASE "-" \in K
      BY Zenon, <1>5, <2>3, <2>12, <3>1 DEF Framed
    <3>2. CASE "-" \notin K
      <4>1. "0" \notin K
        BY <1>5, <1>10, <3>2 DEF ZeroPads
      <4> QED BY Zenon, <1>5, <2>3, <2>12, <3>2, <4>1 DEF Framed
    <3> QED BY <3>1, <3>2
  <2> QED BY Zenon, <1>1, <2>11, <2>13
<1>11. CASE PadsWithZeros(d)
  <2>1. shape = Sign(d) \o (StandardPrefix(d)
                  \o (Times("0", V - Len(N)) \o StandardBody(d)))
        /\ precision = 0 /\ d.precision = None
    BY <1>11, PaddedShape
  <2>2. /\ Filled(d, V) = Sign(d) \o (StandardPrefix(d)
                            \o (Times("0", V - Len(N)) \o StandardBody(d)))
        /\ Filled(d, V) \in Text
        /\ Len(Filled(d, V)) >= V /\ Len(Filled(d, V)) >= Len(N)
    BY <1>3, <1>11, FilledIs
  <2> HIDE DEF T, w, W, V, K, S, N, P, precision, shape
  <2>3. shape = Filled(d, V)
    BY Zenon, <2>1, <2>2
  <2>4. Len(Filled(d, V)) <= BufferSize
    BY Zenon, <1>2, <1>11
  <2>5. Len(Filled(d, V)) \in Nat
    BY <2>2, Lengths0
  <2>6. V <= BufferSize /\ Len(N) <= BufferSize
    BY <1>3, <1>4, <1>6, <2>2, <2>4, <2>5
  <2>7. w <= BufferSize
    BY <1>3, <1>4, <2>6
  <2>8. Holds(w, T) /\ Holds(precision, T)
    BY <1>3, <1>4, <2>1, <2>7 DEF Holds
  <2>9. Fits(T, w, precision, K)
    BY <1>5, <2>1, <2>8 DEF Fits
  <2>10. Len(T) <= BufferSize
    BY <1>4, <1>6, <1>7, <2>6
  <2>11. Conversion(Read(d), d.arg) = Framed(shape, w, K)
    BY <1>9, <2>3, <2>4, <2>9, <2>10
  <2>12. Framed(shape, w, K) = shape
    <3>1. "-" \notin K /\ "0" \in K
      BY <1>5, <1>11 DEF ZeroPads
    <3> QED BY Zenon, <3>1 DEF Framed
  <2> QED BY Zenon, <1>1, <2>3, <2>11, <2>12
<1> QED BY <1>10, <1>11

LEMMA SamePadding ==
  ASSUME NEW s \in Text, NEW m \in Int, NEW n \in Int, NEW flags, NEW others,
         m = n \/ (m <= Len(s) /\ n <= Len(s)), "-" \in flags <=> "-" \in others
  PROVE  Padded(s, m, flags) = Padded(s, n, others)
<1>1. Len(s) \in Nat
  BY Lengths0
<1>2. m - Len(s) \in Int /\ n - Len(s) \in Int
      /\ (m - Len(s) = n - Len(s) \/ (m - Len(s) <= 0 /\ n - Len(s) <= 0))
  BY <1>1
<1>3. " " \in Characters
  BY Named
<1>4. Times(" ", m - Len(s)) = Times(" ", n - Len(s))
  BY <1>2, <1>3, SameTimes
<1> QED BY Zenon, <1>4 DEF Padded

LEMMA BackWords ==
  /\ Reverse(<<")", "l", "i", "n", "(">>) = <<"(", "n", "i", "l", ")">>
  /\ Reverse(<<")", "l", "l", "u", "n", "(">>) = <<"(", "n", "u", "l", "l", ")">>
<1> DEFINE s == <<")", "l", "i", "n", "(">>
           t == <<"(", "n", "i", "l", ")">>
           u == <<")", "l", "l", "u", "n", "(">>
           v == <<"(", "n", "u", "l", "l", ")">>
<1>1. Len(s) = 5 /\ s[1] = ")" /\ s[2] = "l" /\ s[3] = "i" /\ s[4] = "n" /\ s[5] = "("
  OBVIOUS
<1>2. Len(t) = 5 /\ t[1] = "(" /\ t[2] = "n" /\ t[3] = "i" /\ t[4] = "l" /\ t[5] = ")"
  OBVIOUS
<1>3. Len(u) = 6 /\ u[1] = ")" /\ u[2] = "l" /\ u[3] = "l" /\ u[4] = "u" /\ u[5] = "n" /\ u[6] = "("
  OBVIOUS
<1>4. Len(v) = 6 /\ v[1] = "(" /\ v[2] = "n" /\ v[3] = "u" /\ v[4] = "l" /\ v[5] = "l" /\ v[6] = ")"
  OBVIOUS
<1>5. s \in Text /\ u \in Text
  BY WordsAre
<1>6. t \in Text
  <2>1. t = [i \in 1..5 |-> t[i]]
    OBVIOUS
  <2> HIDE DEF t
  <2>2. \A i \in 1..5 : i = 1 \/ i = 2 \/ i = 3 \/ i = 4 \/ i = 5
    OBVIOUS
  <2>3. \A i \in 1..5 : t[i] \in Characters
    BY <1>2, <2>2, Named
  <2>4. [i \in 1..5 |-> t[i]] \in Text
    BY <2>3 DEF Text
  <2> QED BY <2>1, <2>4
<1>7. v \in Text
  <2>1. v = [i \in 1..6 |-> v[i]]
    OBVIOUS
  <2> HIDE DEF v
  <2>2. \A i \in 1..6 : i = 1 \/ i = 2 \/ i = 3 \/ i = 4 \/ i = 5 \/ i = 6
    OBVIOUS
  <2>3. \A i \in 1..6 : v[i] \in Characters
    BY <1>4, <2>2, Named
  <2>4. [i \in 1..6 |-> v[i]] \in Text
    BY <2>3 DEF Text
  <2> QED BY <2>1, <2>4
<1> HIDE DEF s, t, u, v
<1>8. Reverse(s) = t
  <2> DEFINE r == Reverse(s)
  <2>0. r \in Text /\ Len(r) = Len(s) /\ \A i \in 1..Len(s) : r[i] = s[Len(s) - i + 1]
    BY <1>5, Reversing
  <2> HIDE DEF r
  <2>1. r \in Text /\ Len(r) = 5 /\ \A i \in 1..5 : r[i] = s[5 - i + 1]
    BY <1>1, <2>0
  <2>2. r[1] = s[5] /\ r[2] = s[4] /\ r[3] = s[3] /\ r[4] = s[2] /\ r[5] = s[1]
    BY <2>1
  <2>3. \A i \in 1..5 : i = 1 \/ i = 2 \/ i = 3 \/ i = 4 \/ i = 5
    OBVIOUS
  <2>4. \A i \in 1..5 : r[i] = t[i]
    BY <1>1, <1>2, <2>2, <2>3
  <2>5. r = t
    BY <1>2, <1>6, <2>1, <2>4, SameText
  <2> QED BY <2>5 DEF r
<1>9. Reverse(u) = v
  <2> DEFINE r == Reverse(u)
  <2>0. r \in Text /\ Len(r) = Len(u) /\ \A i \in 1..Len(u) : r[i] = u[Len(u) - i + 1]
    BY <1>5, Reversing
  <2> HIDE DEF r
  <2>1. r \in Text /\ Len(r) = 6 /\ \A i \in 1..6 : r[i] = u[6 - i + 1]
    BY <1>3, <2>0
  <2>2. r[1] = u[6] /\ r[2] = u[5] /\ r[3] = u[4] /\ r[4] = u[3] /\ r[5] = u[2] /\ r[6] = u[1]
    BY <2>1
  <2>3. \A i \in 1..6 : i = 1 \/ i = 2 \/ i = 3 \/ i = 4 \/ i = 5 \/ i = 6
    OBVIOUS
  <2>4. \A i \in 1..6 : r[i] = v[i]
    BY <1>3, <1>4, <2>2, <2>3
  <2>5. r = v
    BY <1>4, <1>7, <2>1, <2>4, SameText
  <2> QED BY <2>5 DEF r
<1> QED BY <1>8, <1>9 DEF s, t, u, v

LEMMA SimpleFlags ==
  ASSUME NEW d, Real(d), d.conversion \in {"c", "s"}
  PROVE  /\ "-" \in ReadFlags(d) <=> "-" \in StandardFlags(d)
         /\ "." \in ReadFlags(d) <=> d.precision # None
         /\ "0" \notin ReadFlags(d)
         /\ StandardWidth(d) \in Int /\ ReadWidth(d) \in Nat
         /\ StandardWidth(d) >= 0 => ReadWidth(d) = StandardWidth(d)
         /\ StandardWidth(d) < 0 => ReadWidth(d) = 0
<1>1. Range(d.flags) \subseteq {"-"}
  BY RealIs
<1>2. StandardFlags(d) \subseteq {"-"}
  BY <1>1 DEF StandardFlags
<1>3. ReadFlags(d) = StandardFlags(d) \cup (IF d.precision = None THEN {} ELSE {"."})
  BY DEF ReadFlags
<1>4. d.width \in Int /\ d.star \in BOOLEAN /\ (~ d.star => d.width = None \/ d.width > 0)
  BY RealIs
<1>5. /\ StandardWidth(d) \in Int /\ ReadWidth(d) \in Nat
      /\ StandardWidth(d) >= 0 => ReadWidth(d) = StandardWidth(d)
      /\ StandardWidth(d) < 0 => ReadWidth(d) = 0
  BY <1>4 DEF StandardWidth, ReadWidth, None
<1> DEFINE S == StandardFlags(d)
           R == ReadFlags(d)
<1> HIDE DEF S, R
<1>6. /\ "-" \in R <=> "-" \in S
      /\ "." \in R <=> d.precision # None
      /\ "0" \notin R
  BY <1>2, <1>3 DEF S, R
<1> QED BY <1>5, <1>6 DEF S, R

LEMMA CharacterStandard ==
  ASSUME FormatAssumption, NEW d, Real(d), d.conversion = "c"
  PROVE  Conversion(Read(d), d.arg) = Standard(d)
<1> DEFINE e == Read(d)
           s == <<d.arg>>
           W == ReadWidth(d)
           V == StandardWidth(d)
           m == Max({W, 1})
<1>1. e.conversion = d.conversion /\ e.width = W /\ e.flags = ReadFlags(d)
  BY DEF Read
<1>2. Conversion(e, d.arg) = Padded(s, m, ReadFlags(d))
  <2> HIDE DEF e
  <2>1. e.conversion = "c" /\ e.conversion \notin Integral
    BY <1>1 DEF Integral
  <2>2. Conversion(e, d.arg) = Padded(<<d.arg>>, Max({e.width, 1}), e.flags)
    BY <2>1 DEF Conversion
  <2> QED BY Zenon, <1>1, <2>2
<1>3. Standard(d) = Padded(s, V, StandardFlags(d))
  <2>1. ~ d.plain /\ d.conversion \notin Integral /\ d.conversion # "%"
    BY RealIs DEF Integral
  <2> QED BY <2>1 DEF Standard
<1>4. s \in Text /\ Len(s) = 1
  BY RealIs, OneCharacter
<1>5. /\ "-" \in ReadFlags(d) <=> "-" \in StandardFlags(d)
      /\ V \in Int /\ W \in Nat
      /\ (V >= 0 => W = V) /\ (V < 0 => W = 0)
  BY SimpleFlags
<1> HIDE DEF e, s, W, V
<1>6. m = IF W <= 1 THEN 1 ELSE W
  <2>1. W \in Int /\ 1 \in Int
    BY <1>5
  <2> QED BY <2>1, Least2
<1> HIDE DEF m
<1>7. m \in Int /\ (m = V \/ (m <= Len(s) /\ V <= Len(s)))
  <2>1. CASE W <= 1
    BY <1>4, <1>5, <1>6, <2>1
  <2>2. CASE W > 1
    BY <1>4, <1>5, <1>6, <2>2
  <2> QED BY <1>5, <2>1, <2>2
<1>8. Padded(s, m, ReadFlags(d)) = Padded(s, V, StandardFlags(d))
  BY <1>4, <1>5, <1>7, SamePadding
<1> QED BY <1>2, <1>3, <1>8 DEF e

LEMMA StringStandard ==
  ASSUME FormatAssumption, NEW d, Real(d), d.conversion = "s"
  PROVE  Conversion(Read(d), d.arg) = Standard(d)
<1> DEFINE e == Read(d)
           W == ReadWidth(d)
           V == StandardWidth(d)
           R == ReadFlags(d)
           S == StandardFlags(d)
           back == <<")", "l", "l", "u", "n", "(">>
           word == <<"(", "n", "u", "l", "l", ")">>
           cut == SubSeq(d.arg, 1, Min({ReadPrecision(d), Len(d.arg)}))
           text == IF "." \in R THEN cut ELSE d.arg
           said == CASE d.arg = <<NUL>> -> word
                     [] d.arg # <<NUL>> /\ d.precision = None -> d.arg
                     [] OTHER -> SubSeq(d.arg, 1, Min({d.precision, Len(d.arg)}))
<1>1. /\ e.conversion = d.conversion /\ e.width = W /\ e.flags = R
      /\ e.precision = ReadPrecision(d)
  BY DEF Read
<1>2. Conversion(e, d.arg) = IF d.arg = <<NUL>> THEN OutRev(back, W, R) ELSE Padded(text, W, R)
  <2> HIDE DEF e
  <2>1. e.conversion = "s" /\ e.conversion \notin Integral
    BY <1>1 DEF Integral
  <2>2. Conversion(e, d.arg) = PrintString(e, d.arg)
    BY <2>1 DEF Conversion
  <2>3. PrintString(e, d.arg)
          = IF d.arg = <<NUL>> THEN OutRev(back, e.width, e.flags)
            ELSE Padded(IF "." \in e.flags
                        THEN SubSeq(d.arg, 1, Min({e.precision, Len(d.arg)})) ELSE d.arg,
                        e.width, e.flags)
    BY Zenon DEF PrintString
  <2> QED BY Zenon, <1>1, <2>2, <2>3
<1>3. Standard(d) = Padded(said, V, S)
  <2>1. ~ d.plain /\ d.conversion \notin Integral /\ d.conversion # "%" /\ d.conversion # "c"
        /\ d.conversion # "p"
    BY RealIs DEF Integral
  <2> HIDE DEF said
  <2> QED BY <2>1 DEF Standard, said
<1>4. d.arg \in Text /\ d.precision \in Nat \cup {None} /\ ReadPrecision(d) \in Nat
  BY RealIs
<1>5. /\ "-" \in R <=> "-" \in S
      /\ "." \in R <=> d.precision # None
      /\ "0" \notin R
      /\ V \in Int /\ W \in Nat
      /\ (V >= 0 => W = V) /\ (V < 0 => W = 0)
  BY SimpleFlags
<1>6. back \in Text /\ Reverse(back) = word
  BY WordsAre, BackWords
<1>7. d.precision # None => ReadPrecision(d) = d.precision
  BY DEF ReadPrecision
<1>c. cut \in Text
  BY <1>4, Cut
<1> HIDE DEF e, W, V, R, S, back, word
<1>8. ASSUME NEW s \in Text PROVE Padded(s, W, R) = Padded(s, V, S)
  <2>1. Len(s) \in Nat /\ W \in Int
    BY <1>5, Lengths0
  <2>2. W = V \/ (W <= Len(s) /\ V <= Len(s))
    <3>1. CASE V >= 0
      BY <1>5, <3>1
    <3>2. CASE V < 0
      BY <1>5, <2>1, <3>2
    <3> QED BY <1>5, <3>1, <3>2
  <2> QED BY <1>5, <2>1, <2>2, SamePadding
<1>9. CASE d.arg = <<NUL>>
  <2>1. OutRev(back, W, R) = Framed(word, W, R)
    <3>1. W \in Int
      BY <1>5
    <3> QED BY <1>6, <3>1, FramedOut
  <2>2. Framed(word, W, R) = Padded(word, W, R)
    BY Zenon, <1>5 DEF Framed, Padded
  <2>3. word \in Text
    BY <1>6, Reversing
  <2>4. said = word
    BY <1>9
  <2>5. Padded(word, W, R) = Padded(word, V, S)
    BY <1>8, <2>3
  <2> HIDE DEF said
  <2> QED BY Zenon, <1>2, <1>3, <1>9, <2>1, <2>2, <2>4, <2>5 DEF e
<1>10. CASE d.arg # <<NUL>>
  <2>1. text \in Text
    BY <1>4, <1>c
  <2>2. said = text
    <3>1. CASE d.precision = None
      BY <1>5, <1>10, <3>1
    <3>2. CASE d.precision # None
      BY <1>5, <1>7, <1>10, <3>2
    <3> QED BY <3>1, <3>2
  <2> HIDE DEF said, text
  <2>3. Padded(text, W, R) = Padded(text, V, S)
    BY <1>8, <2>1
  <2> QED BY Zenon, <1>2, <1>3, <1>10, <2>2, <2>3 DEF e
<1> QED BY <1>9, <1>10

LEMMA PointerStandard ==
  ASSUME FormatAssumption, NEW d, Real(d), FitsBuffer(d), d.conversion = "p"
  PROVE  Conversion(Read(d), d.arg) = Standard(d)
<1> DEFINE e == Read(d)
           half == Bits["l"] \div 4
           W == half + 2
           F == {"0", "p"}
           back == <<")", "l", "i", "n", "(">>
           word == <<"(", "n", "i", "l", ")">>
           T == InBase(d.arg, 16, Digits16)
           mark == <<"0", "x">>
           fill == Times("0", half - Len(T))
           z == W - Len(T)
           zero == <<"0">>
           x == <<"x">>
<1>1. /\ d.arg \in Nat /\ d.flags = <<>> /\ d.precision = None /\ ~ d.star /\ ~ d.plain
  BY RealIs
<1>2. e.conversion = "p" /\ e.precision = 0 /\ e.flags \cup F = F
  <2>1. Range(d.flags) = {}
    BY <1>1 DEF Range
  <2>2. ReadFlags(d) = {}
    BY <1>1, <2>1 DEF ReadFlags, StandardFlags
  <2> QED BY <1>1, <2>2 DEF Read, ReadPrecision
<1>3. Conversion(e, d.arg) = IF d.arg = 0 THEN OutRev(back, W, F)
                             ELSE print_integer(d.arg, FALSE, 16, 0, W, F)
  <2> HIDE DEF e
  <2>1. e.conversion \notin Integral
    BY <1>2 DEF Integral
  <2>2. Conversion(e, d.arg) = PrintPointer(e, d.arg)
    BY <1>2, <2>1 DEF Conversion
  <2>3. PrintPointer(e, d.arg)
          = IF d.arg = 0 THEN OutRev(back, W, e.flags \cup F)
            ELSE print_integer(d.arg, FALSE, 16, e.precision, W, e.flags \cup F)
    BY Zenon DEF PrintPointer
  <2> QED BY Zenon, <1>2, <2>2, <2>3
<1>4. Standard(d) = IF d.arg = 0 THEN word ELSE mark \o fill \o T
  <2>1. ~ d.plain /\ d.conversion \notin Integral /\ d.conversion # "%" /\ d.conversion # "c"
        /\ d.conversion # "s"
    BY RealIs DEF Integral
  <2> HIDE DEF word, mark, fill
  <2> QED BY <2>1 DEF Standard, word, mark, fill
<1>5. half \in Nat /\ BufferSize \in Nat
  BY DEF FormatAssumption
<1>w. back \in Text /\ Reverse(back) = word
  BY WordsAre, BackWords
<1>6. ZeroPads(F) /\ "." \notin F /\ "X" \notin F /\ "p" \in F /\ "-" \notin F /\ "0" \in F
      /\ "+" \notin F /\ " " \notin F /\ F \cap {"+", " "} = {}
  BY DEF ZeroPads
<1>7. CASE d.arg = 0
  <2>1. W \in Int
    BY <1>5
  <2> HIDE DEF W, F, back, word, mark, fill, e
  <2>2. OutRev(back, W, F) = Reverse(back)
    BY <1>6, <1>w, <2>1, OutRevIs
  <2> QED BY Zenon, <1>3, <1>4, <1>7, <1>w, <2>2 DEF e
<1>8. CASE d.arg # 0
  <2>1. Table(F) = Digits16
    BY <1>6 DEF Table
  <2>2. DigitsOf(d.arg, 16, F) = T /\ HashLeft(d.arg, 16, F) = F
    BY Zenon, <1>8, <2>1 DEF DigitsOf, HashLeft
  <2>3. 16 \in {2, 8, 10, 16}
    OBVIOUS
  <2>4. T \in Text /\ Len(T) \in Nat
    <3> HIDE DEF F, T
    <3>1. DigitsOf(d.arg, 16, F) \in Text
      BY <1>1, <2>3, DigitsOfText
    <3> QED BY <2>2, <3>1, Lengths0
  <2>n. "0" \in Characters /\ "x" \in Characters
    BY Named
  <2>5. zero \in Text /\ Len(zero) = 1 /\ x \in Text /\ Len(x) = 1 /\ mark = zero \o x
    <3>1. mark = zero \o x
      OBVIOUS
    <3> QED BY <2>n, <3>1, OneCharacter
  <2>6. half - Len(T) \in Int /\ z = half - Len(T) + 2 /\ z \in Int
    BY <1>5, <2>4
  <2>7. fill \in Text /\ Len(fill) = IF half - Len(T) > 0 THEN half - Len(T) ELSE 0
    <3> HIDE DEF T, half
    <3> QED BY <2>6, <2>n, TimesIs
  <2>8. Hashes(z, 16, F)
    BY <1>6 DEF Hashes
  <2>9. ZerosLeft(z, 16, F) = half - Len(T)
    <3>1. ZerosLeft(z, 16, F) = z - 2
      BY <1>6, <2>8 DEF ZerosLeft, PrefixSize
    <3> HIDE DEF z, T, half
    <3> QED BY <2>6, <3>1
  <2>10. Letter(16, F) = x
    BY <1>6 DEF Letter
  <2>11. SignOf(FALSE, F) = <<>>
    BY <1>6 DEF SignOf
  <2> DEFINE shape == Shape(T, z, 16, FALSE, F)
             body == (zero \o x) \o (fill \o T)
  <2>12. shape = <<>> \o body
    <3>1. Marks(z, 16, F) = zero \o x
      BY Zenon, <2>8, <2>10 DEF Marks
    <3>2. Zeroes(ZerosLeft(z, 16, F), T) = fill \o T
      BY Zenon, <2>9 DEF Zeroes
    <3> HIDE DEF z, F, T, fill, zero, x
    <3> QED BY Zenon, <2>11, <3>1, <3>2 DEF Shape
  <2>13. ZerosBefore(T, W, 0, F) = z
    BY <1>6 DEF ZerosBefore
  <2>14. Inner(FALSE, W, F) = W
    BY Zenon, <1>6 DEF Inner
  <2>15. W = half + 2 /\ W \in Nat
    BY <1>5
  <2>16. Len(Standard(d)) <= BufferSize
    BY <1>1 DEF FitsBuffer
  <2> DEFINE neg == FALSE
  <2>b. neg \in BOOLEAN
    OBVIOUS
  <2>17. ASSUME Len(T) <= BufferSize
         PROVE  print_integer(d.arg, neg, 16, 0, W, F) = Finalized(Reverse(T), neg, 16, 0, W, F)
    <3> HIDE DEF T, W, F, neg
    <3>1. Len(DigitsOf(d.arg, 16, F)) <= BufferSize
      BY Zenon, <2>2, <2>17
    <3>2. print_integer(d.arg, neg, 16, 0, W, F)
            = Finalized(Reverse(DigitsOf(d.arg, 16, F)), neg, 16, 0, W, HashLeft(d.arg, 16, F))
      <4>1. PrintsDigits(d.arg, neg, 16, 0, W, F)
        BY <1>1, <2>3, <3>1, PrintIntegerIs
      <4> QED BY <4>1 DEF PrintsDigits
    <3> QED BY Zenon, <2>2, <3>2
  <2>f. neg = FALSE
    OBVIOUS
  <2>c. W = Inner(neg, W, F) /\ shape = Shape(T, z, 16, neg, F)
    BY <2>14
  <2> HIDE DEF e, half, W, F, back, word, T, mark, fill, z, zero, x, neg
  <2>18. fill \o T \in Text /\ Len(fill \o T) = Len(fill) + Len(T)
    BY <2>4, <2>7, Joining
  <2>19. zero \o x \in Text /\ Len(zero \o x) = 2
    <3>1. zero \o x \in Text /\ Len(zero \o x) = Len(zero) + Len(x)
      BY <2>5, Joining
    <3> QED BY <2>5, <3>1
  <2>20. body \in Text /\ Len(body) = Len(zero \o x) + Len(fill \o T)
    BY <2>18, <2>19, Joining
  <2>21. (mark \o fill) \o T = body
    BY <2>4, <2>5, <2>7, <2>19, JoiningAssociates
  <2>22. Standard(d) = body
    BY Zenon, <1>4, <1>8, <2>21
  <2> HIDE DEF body
  <2>23. shape = body
    BY <2>12, <2>20, JoiningNothing
  <2>24. Len(fill) \in Nat /\ Len(fill) >= half - Len(T)
    <3>1. CASE half - Len(T) > 0
      BY <2>6, <2>7, <3>1
    <3>2. CASE ~ (half - Len(T) > 0)
      <4>1. Len(fill) = 0
        BY Zenon, <2>7, <3>2
      <4> QED BY <2>6, <3>2, <4>1
    <3> QED BY <3>1, <3>2
  <2>25. Len(body) = 2 + Len(fill) + Len(T)
    BY <2>4, <2>18, <2>19, <2>20, <2>24
  <2>26. W <= BufferSize /\ Len(T) <= BufferSize
    BY <1>5, <2>4, <2>15, <2>16, <2>22, <2>24, <2>25
  <2>27. Fits(T, W, 0, F)
    <3>1. Holds(0, T) /\ Holds(W, T)
      BY <1>5, <2>4, <2>15, <2>26 DEF Holds
    <3> QED BY <1>6, <3>1 DEF Fits
  <2>28. Len(shape) <= BufferSize
    BY <2>16, <2>22, <2>23
  <2> HIDE DEF shape
  <2>29. Finalized(Reverse(T), neg, 16, 0, W, F) = Framed(shape, W, F)
    <3>1. Len(Shape(T, z, 16, neg, F)) <= BufferSize /\ z = ZerosBefore(T, W, 0, F)
      BY <2>13, <2>28, <2>c
    <3>2. Finalized(Reverse(T), neg, 16, 0, W, F) = Framed(Shape(T, z, 16, neg, F), W, F)
      BY <2>3, <2>4, <2>15, <2>27, <2>b, <2>c, <3>1, FinalizedShape
    <3> QED BY Zenon, <2>c, <3>2
  <2>30. Framed(shape, W, F) = shape
    BY Zenon, <1>6 DEF Framed
  <2>31. print_integer(d.arg, FALSE, 16, 0, W, F) = body
    BY Zenon, <2>17, <2>23, <2>26, <2>29, <2>30, <2>f
  <2> QED BY Zenon, <1>3, <1>8, <2>22, <2>31 DEF e
<1> QED BY <1>7, <1>8

(* A regular directive prints what the standard says.                      *)
LEMMA ConversionStandard ==
  ASSUME FormatAssumption, NEW d, Real(d), FitsBuffer(d)
  PROVE  Conversion(Read(d), d.arg) = Standard(d)
<1>1. d.conversion \in Integral \/ d.conversion = "c" \/ d.conversion = "s" \/ d.conversion = "p"
  BY DEF Real, Converts
<1> QED BY Zenon, <1>1, IntegralStandard, CharacterStandard, StringStandard, PointerStandard

(* A conversion depends on these parts of what is read. *)
LEMMA SameConversion ==
  ASSUME NEW p, NEW e, NEW x, p.flags = e.flags, p.width = e.width, p.precision = e.precision,
         p.type = e.type, p.conversion = e.conversion
  PROVE  Conversion(p, x) = Conversion(e, x)
<1>1. /\ PrintIntegral(p, x) = PrintIntegral(e, x) /\ PrintString(p, x) = PrintString(e, x)
      /\ PrintPointer(p, x) = PrintPointer(e, x)
  BY Zenon DEF PrintIntegral, PrintString, PrintPointer
<1> QED BY <1>1, Zenon DEF Conversion

(* So a directive that is regular prints what it means.                    *)
LEMMA MeaningPrinted ==
  ASSUME FormatAssumption, NEW d, Proper(d)
  PROVE  /\ Conversion(Read(AsRead(d)), d.arg) \in Text
         /\ Regular(d) => Conversion(Read(AsRead(d)), d.arg) = Standard(AsMeant(d))
<1> DEFINE a == AsRead(d)
<1>1. Real(a) /\ a.arg = d.arg
  BY AsReadIs
<1> HIDE DEF a
<1>2. Conversion(Read(a), d.arg) \in Text
  BY <1>1, ConversionText
<1>3. Regular(d) => FitsBuffer(a) /\ Standard(a) = Standard(AsMeant(d))
  BY DEF Regular, a
<1>4. Regular(d) => Conversion(Read(a), d.arg) = Standard(AsMeant(d))
  BY <1>1, <1>3, ConversionStandard
<1> QED BY <1>2, <1>4 DEF a

LEMMA StandardText ==
  ASSUME FormatAssumption, NEW d, DirectiveOK(d), Regular(d)
  PROVE  Standard(AsMeant(d)) \in Text
<1>1. CASE d.plain
  BY <1>1, PlainIs, OneCharacter
<1>2. CASE ~ d.plain /\ d.conversion = "%"
  BY <1>2, PercentIs, Named, OneCharacter
<1>3. CASE Proper(d)
  BY <1>3, MeaningPrinted
<1> QED BY <1>1, <1>2, <1>3, OneOf

LEMMA PrintingsAre ==
  ASSUME FormatAssumption, JobOK(job), AllRegular
  PROVE  /\ Pieces(Printings, Characters) /\ Len(Printings) = Count
         /\ \A i \in 1..Count : Printings[i] = Standard(AsMeant(job.directives[i]))
<1>1. Count \in Nat /\ DOMAIN job.directives = 1..Count
  BY JobIs
<1>2. Len(Printings) = Count /\ DOMAIN Printings = 1..Count
      /\ \A i \in 1..Count : Printings[i] = Standard(AsMeant(job.directives[i]))
  BY <1>1 DEF Printings
<1>3. ASSUME NEW i \in 1..Count PROVE Standard(AsMeant(job.directives[i])) \in Seq(Characters)
  <2> DEFINE d == job.directives[i]
  <2>1. DirectiveOK(d) /\ Regular(d)
    BY JobIs DEF AllRegular
  <2> HIDE DEF d
  <2>2. Standard(AsMeant(d)) \in Text
    BY <2>1, StandardText
  <2> QED BY <2>2 DEF d, Text
<1> HIDE DEF Printings
<1> QED BY <1>1, <1>2, <1>3 DEF Pieces

(* The joined texts, packed. *)
Joins(seqs, E) ==
  /\ Joined(seqs, 0) = <<>>
  /\ \A n \in 0..Len(seqs) : Joined(seqs, n) \in Seq(E)
  /\ \A n \in 1..Len(seqs) : Joined(seqs, n) = Joined(seqs, n - 1) \o seqs[n]
  /\ FlattenSeq(seqs) = Joined(seqs, Len(seqs))

LEMMA JoinedJoins ==
  ASSUME NEW E, NEW seqs, Pieces(seqs, E)
  PROVE  Joins(seqs, E)
  BY JoinedSteps DEF Joins

LEMMA Moves ==
  ASSUME FormatAssumption, JobOK(job), NEW n, PrintPosition(n), n # Count, job' = job,
         format' = RestText(n), args' = RestArgs(n),
         AllRegular => printed' = printed \o Standard(AsMeant(Next1(n)))
  PROVE  PrintPosition(n + 1)'
<1> DEFINE m == n + 1
<1>1. Count' = Count /\ Writings' = Writings /\ Takings' = Takings /\ Printings' = Printings
      /\ (AllRegular' <=> AllRegular) /\ job'.tail = job.tail
  BY DEF Count, Writings, Takings, Printings, AllRegular
<1>2. m \in 1..Count /\ m \in 0..Count /\ m - 1 = n
  BY AtDirective
<1>3. format' = Rest(Writings, job.tail, m) /\ args' = Rest(Takings, <<>>, m)
  BY DEF RestText, RestArgs
<1>4. ASSUME AllRegular PROVE printed' = Joined(Printings, m)
  <2>1. printed = Joined(Printings, n)
    BY <1>4 DEF PrintPosition
  <2>2. Joins(Printings, Characters) /\ Len(Printings) = Count
        /\ Printings[m] = Standard(AsMeant(job.directives[m]))
    BY <1>2, <1>4, PrintingsAre, JoinedJoins
  <2> HIDE DEF m
  <2>3. Joined(Printings, m) = Joined(Printings, m - 1) \o Printings[m]
    BY <1>2, <2>2 DEF Joins
  <2>4. Next1(n) = job.directives[m]
    BY DEF Next1, m
  <2> QED BY <1>2, <1>4, <2>1, <2>2, <2>3, <2>4, Zenon
<1>5. PrintPosition(m)' <=>
        /\ m \in 0..Count'
        /\ \/ format' = Rest(Writings', job'.tail, m)
           \/ m = Count' /\ format' = <<>>
        /\ args' = Rest(Takings', <<>>, m)
        /\ AllRegular' => printed' = Joined(Printings', m)
  BY DEF PrintPosition
<1> HIDE DEF m, Writings, Takings, Printings, AllRegular
<1>6. PrintPosition(m)'
  BY Zenon, <1>1, <1>2, <1>3, <1>4, <1>5
<1> QED BY <1>6 DEF m
-----------------------------------------------------------------------------
(* What the first character tells. *)

LEMMA FirstRead ==
  ASSUME NEW s \in Text, s # <<>>, NEW rest \in Text, format = s \o rest
  PROVE  Char(1) = s[1]
<1>1. First(s \o rest) = s[1]
  BY FirstOf
<1> QED BY <1>1 DEF First, At, Char

LEMMA PlainRead ==
  ASSUME NEW c \in Characters, NEW rest \in Text, format = <<c>> \o rest
  PROVE  Char(1) = c /\ Tail(format) = rest
<1> DEFINE s == <<c>>
<1>1. s \in Text /\ Len(s) = 1 /\ s[1] = c /\ s # <<>>
  BY OneCharacter
<1> HIDE DEF s
<1>2. format = s \o rest
  BY DEF s
<1>3. Char(1) = c
  BY <1>1, <1>2, FirstRead
<1>4. SubSeq(s \o rest, Len(s) + 1, Len(s \o rest)) = rest
  BY <1>1, Suffix DEF Text
<1>5. format \in Text /\ Len(format) = 1 + Len(rest) /\ Len(rest) \in Nat
  <2>1. s \o rest \in Text /\ Len(s \o rest) = Len(s) + Len(rest) /\ Len(rest) \in Nat
    BY <1>1, Joining, Lengths0
  <2> QED BY <1>1, <1>2, <2>1
<1>6. SubSeq(format, 2, Len(format)) = rest
  BY <1>1, <1>2, <1>4
<1>7. Tail(format) = SubSeq(format, 2, Len(format))
  <2>1. format \in Seq(Characters) /\ format # <<>>
    BY <1>5 DEF Text
  <2> QED BY <2>1, <1>5
<1> QED BY <1>3, <1>6, <1>7

LEMMA ProperRead ==
  ASSUME FormatAssumption, NEW d, Proper(d), NEW rest \in Text, format = Written(d) \o rest
  PROVE  /\ Char(1) = "%"
         /\ SubSeq(format, Len(Written(d)) + 1, Len(format)) = rest
<1>1. Char(1) = "%"
  <2> DEFINE f == Len(d.flags) + 2
             w == f + Len(WidthPart(d))
             p == w + Len(PrecisionPart(d))
             c == p + Len(d.length)
  <2>1. Ends(d.flags, WidthPart(d), PrecisionPart(d), d.length, f, w, p, c)
    BY DEF Ends
  <2>2. Parts(d.flags, WidthPart(d), PrecisionPart(d), PrecisionField(d), d.length,
              <<d.conversion>> \o rest)
    BY DirectiveParts
  <2> HIDE DEF f, w, p, c
  <2>3. Places(d.flags, WidthPart(d), PrecisionPart(d), PrecisionField(d), d.length,
               <<d.conversion>> \o rest, f, w, p, c)
    BY <2>1, <2>2, Positions
  <2> QED BY <2>3 DEF Places
<1>2. SubSeq(Written(d) \o rest, Len(Written(d)) + 1, Len(Written(d) \o rest)) = rest
  BY WrittenIs, Suffix DEF Text
<1> QED BY <1>1, <1>2

LEMMA PercentTail ==
  ASSUME NEW rest \in Text, format = <<"%", "%">> \o rest
  PROVE  SubSeq(format, 3, Len(format)) = rest
<1> DEFINE s == <<"%", "%">>
<1>1. s \in Text /\ Len(s) = 2
  <2>1. "%" \in Characters
    BY Named
  <2> QED BY <2>1 DEF Text
<1>2. format = s \o rest
  OBVIOUS
<1> HIDE DEF s
<1>3. SubSeq(s \o rest, Len(s) + 1, Len(s \o rest)) = rest
  BY <1>1, Suffix DEF Text
<1>4. Len(s) + 1 = 3
  BY <1>1
<1> QED BY <1>2, <1>3, <1>4
-----------------------------------------------------------------------------
(* The invariant: an unfinished call is before one of its directives or at *)
(* the end of its format string, has printed what the directives before it *)
(* say, and the buffer holds what it has room for.                         *)

Stops ==
  \E d \in Range(job.directives) :
    /\ ~ d.plain /\ d.conversion \in Converts
    /\ \/ d.conversion \in {"d", "i"} /\ TypeOf(d) = "l"
            /\ Signed(d.arg, "l") = -Power(Bits["l"] - 1)
       \/ d.star /\ d.width = INT_MIN

PrintIInv ==
  /\ JobOK(job)
  /\ print_pc \in {"loop", "done", "halted", "past"}
  /\ printed \in Text
  /\ print_pc = "loop" => \E n \in Nat : PrintPosition(n)
  /\ buffer = IF print_pc = "done" THEN Terminated(Stored(printed)) ELSE Stored(printed)
  /\ print_pc = "done" /\ AllRegular => printed = Expected
  /\ print_pc = "halted" => Stops
  /\ print_pc = "past" => Last(job.tail) \in FlagChars \cup Range(Digits10)

LEMMA MaxCharsIs ==
  ASSUME FormatAssumption, JobOK(job), job.size # Unlimited
  PROVE  max_chars \in Nat /\ max_chars <= job.size /\ (job.size > 0 => max_chars > 0)
<1>1. job.size \in Nat
  BY JobIs
<1>2. INT_MAX \in Nat /\ INT_MAX > 0
  BY SizesAre
<1>3. job.size \in 0..INT_MAX <=> job.size <= INT_MAX
  BY <1>1, <1>2
<1> QED BY <1>1, <1>2, <1>3 DEF max_chars

(* What the buffer holds of the characters out: as many as it has room for *)
LEMMA StoredIs ==
  ASSUME FormatAssumption, JobOK(job), job.size # Unlimited, NEW out \in Text
  PROVE  LET s == Stored(out)
             m == IF max_chars <= Len(out) THEN max_chars ELSE Len(out)
         IN  /\ m \in Nat /\ DOMAIN s = 1..m /\ Len(s) = m
             /\ Len(out) < Sizes => \A i \in 1..m : s[i] = out[i]
<1> DEFINE s == Stored(out)
           m == IF max_chars <= Len(out) THEN max_chars ELSE Len(out)
<1>1. max_chars \in Nat /\ Len(out) \in Nat /\ Sizes \in Nat \ {0}
  BY MaxCharsIs, Lengths0, SizesAre
<1>2. m \in Nat /\ m <= Len(out) /\ m = Min({max_chars, Len(out)})
  <2>1. max_chars \in Int /\ Len(out) \in Int
    BY <1>1
  <2> QED BY <1>1, <2>1, Least2
<1> HIDE DEF m
<1>3. s = [i \in 1..m |-> out[i + Sizes * ((Len(out) - i) \div Sizes)]]
  BY <1>2 DEF Stored
<1> HIDE DEF s
<1>4. DOMAIN s = 1..m /\ Len(s) = m
  BY <1>2, <1>3
<1>5. ASSUME Len(out) < Sizes, NEW i \in 1..m PROVE s[i] = out[i]
  <2>1. Len(out) - i \in Nat /\ Len(out) - i < Sizes /\ i \in Nat
    BY <1>1, <1>2, <1>5
  <2>2. (Len(out) - i) \div Sizes = 0
    BY <1>1, <2>1
  <2>3. i + Sizes * ((Len(out) - i) \div Sizes) = i
    BY <1>1, <2>1, <2>2
  <2> QED BY <1>3, <2>3
<1> QED BY <1>2, <1>4, <1>5 DEF s, m

LEMMA NothingStored ==
  ASSUME FormatAssumption, JobOK(job)
  PROVE  Stored(<<>>) = <<>>
<1>1. CASE job.size = Unlimited
  BY <1>1 DEF Stored
<1>2. CASE job.size # Unlimited
  <2>1. max_chars \in Nat /\ Len(<<>>) = 0
    BY <1>2, MaxCharsIs
  <2>2. Min({max_chars, 0}) = 0
    <3>1. max_chars \in Int /\ 0 \in Int
      BY <2>1
    <3>2. Min({max_chars, 0}) = IF max_chars <= 0 THEN max_chars ELSE 0
      BY <3>1, Least2
    <3> QED BY <2>1, <3>2
  <2> DEFINE z == <<>>
             g(i) == z[i + Sizes * ((Len(z) - i) \div Sizes)]
  <2>3. Stored(z) = [i \in 1..Min({max_chars, Len(z)}) |-> g(i)]
    BY <1>2, Zenon DEF Stored
  <2>4. Len(z) = 0
    OBVIOUS
  <2> HIDE DEF z, g
  <2>5. Stored(z) = [i \in 1..0 |-> g(i)]
    BY <2>2, <2>3, <2>4
  <2>6. [i \in 1..0 |-> g(i)] = <<>>
    OBVIOUS
  <2> QED BY <2>5, <2>6 DEF z
<1> QED BY <1>1, <1>2

LEMMA PrintInitially ==
  ASSUME FormatAssumption, JobOK(job), PrintInit
  PROVE  PrintIInv
<1>1. /\ print_pc = "loop" /\ printed = <<>> /\ buffer = <<>>
      /\ format = FlattenSeq(Writings) \o job.tail
      /\ args = FlattenSeq(Takings)
  BY Zenon DEF PrintInit, Writings, Takings
<1>2. /\ Pieces(Writings, Characters) /\ Pieces(Takings, Givens) /\ job.tail \in Seq(Characters)
      /\ Count \in Nat
  BY JobIs, PiecesOf DEF Text
<1>3. format = Rest(Writings, job.tail, 0)
  BY <1>1, <1>2, WholeIsRest
<1>4. args = Rest(Takings, <<>>, 0)
  <2> DEFINE a == FlattenSeq(Takings)
  <2>1. <<>> \in Seq(Givens)
    OBVIOUS
  <2> HIDE DEF Takings, Givens
  <2>2. a \o <<>> = Rest(Takings, <<>>, 0)
    BY <1>2, <2>1, WholeIsRest
  <2>3. a \in Seq(Givens)
    <3>1. Joins(Takings, Givens) /\ Len(Takings) = Count
      BY <1>2, JoinedJoins, PiecesOf
    <3>2. Count \in 0..Len(Takings)
      BY <1>2, <3>1
    <3> QED BY <3>1, <3>2 DEF Joins
  <2> HIDE DEF a
  <2>4. a \o <<>> = a
    BY <2>3
  <2> QED BY <1>1, <2>2, <2>4 DEF a
<1>5. AllRegular => printed = Joined(Printings, 0)
  BY <1>1, PrintingsAre, JoinedJoins DEF Joins
<1>6. PrintPosition(0)
  BY <1>2, <1>3, <1>4, <1>5 DEF PrintPosition
<1>7. printed \in Text /\ buffer = Stored(printed)
  <2>1. <<>> \in Text
    BY DEF Text
  <2> QED BY <1>1, <2>1, NothingStored
<1>8. 0 \in Nat
  OBVIOUS
<1> QED BY <1>1, <1>6, <1>7, <1>8 DEF PrintIInv

LEMMA PlainStep ==
  ASSUME FormatAssumption, PrintIInv, PrintChar
  PROVE  PrintIInv'
<1>1. PICK n \in Nat : PrintPosition(n)
  BY DEF PrintIInv, PrintChar
<1>2. Char(1) \notin {"%", NUL} /\ print_pc = "loop" /\ JobOK(job) /\ printed \in Text
      /\ format' = Tail(format) /\ args' = args /\ job' = job /\ print_pc' = print_pc
      /\ printed' = printed \o <<Char(1)>> /\ buffer' = Stored(printed')
  BY DEF PrintIInv, PrintChar, Emit
<1>3. n # Count
  <2> SUFFICES ASSUME n = Count PROVE FALSE
    OBVIOUS
  <2>1. format = job.tail \/ format = <<>>
    BY <1>1, <1>2, AtEnd
  <2>2. CASE format = <<>>
    BY <1>2, <2>2 DEF Char
  <2>3. CASE format = job.tail /\ format # <<>>
    <3>1. Char(1) = "%"
      BY <1>2, <2>3, JobIs, CutRead
    <3> QED BY <1>2, <3>1
  <2> QED BY <2>1, <2>2, <2>3
<1> DEFINE d == Next1(n)
<1>4. /\ DirectiveOK(d) /\ format = Written(d) \o RestText(n) /\ RestText(n) \in Text
      /\ args = Arguments(d) \o RestArgs(n) /\ RestArgs(n) \in Seq(Givens)
  BY <1>1, <1>2, <1>3, AtDirective
<1> HIDE DEF d
<1>5. d.plain
  <2>1. Proper(d) => Char(1) = "%"
    BY <1>4, ProperRead
  <2>2. ~ d.plain /\ d.conversion = "%" => Char(1) = "%"
    BY <1>4, PercentIs, PercentRead
  <2> QED BY <1>2, <1>4, <2>1, <2>2, OneOf
<1>6. /\ d.conversion \in Characters /\ Written(d) = <<d.conversion>>
      /\ Standard(AsMeant(d)) = <<d.conversion>> /\ Arguments(d) = <<>>
  BY <1>4, <1>5, PlainIs
<1>7. Char(1) = d.conversion /\ format' = RestText(n)
  BY <1>2, <1>4, <1>6, PlainRead
<1>8. args' = RestArgs(n)
  BY <1>2, <1>4, <1>6
<1>9. printed' = printed \o Standard(AsMeant(d))
  BY <1>2, <1>6, <1>7
<1>10. PrintPosition(n + 1)'
  BY <1>1, <1>2, <1>3, <1>7, <1>8, <1>9, Moves DEF d
<1>11. printed' \in Text
  BY <1>2, <1>6, <1>9, OneCharacter, Joining
<1>12. n + 1 \in Nat
  OBVIOUS
<1> QED BY <1>2, <1>10, <1>11, <1>12 DEF PrintIInv, Stored, max_chars

(* A directive begins where the call is: the next one of the job. *)
LEMMA AtPercent ==
  ASSUME FormatAssumption, JobOK(job), NEW n, PrintPosition(n), Char(1) = "%",
         WidthOverflows \/ Parse.conversion # NUL
  PROVE  /\ n # Count
         /\ ~ Next1(n).plain
<1>1. n # Count
  <2> SUFFICES ASSUME n = Count PROVE FALSE
    OBVIOUS
  <2>1. format = job.tail \/ format = <<>>
    BY AtEnd
  <2>2. CASE format = <<>>
    BY <2>2 DEF Char, NUL
  <2>3. CASE format = job.tail /\ format # <<>>
    <3>1. Parse.conversion = NUL /\ Char(Past(2, FlagChars)) # "*"
      BY <2>3, JobIs, CutRead
    <3> QED BY <3>1 DEF WidthOverflows
  <2> QED BY <2>1, <2>2, <2>3
<1> DEFINE d == Next1(n)
<1>2. DirectiveOK(d) /\ format = Written(d) \o RestText(n) /\ RestText(n) \in Text
  BY <1>1, AtDirective
<1> HIDE DEF d
<1>3. ~ d.plain
  <2> SUFFICES ASSUME d.plain PROVE FALSE
    OBVIOUS
  <2>1. d.conversion \in Characters /\ d.conversion # "%" /\ Written(d) = <<d.conversion>>
    BY <1>2, PlainIs
  <2>2. Char(1) = d.conversion
    BY <1>2, <2>1, PlainRead
  <2> QED BY <2>1, <2>2
<1> QED BY <1>1, <1>3 DEF d

(* What is read there. *)
AtProper(n, d, p, k) ==
  /\ k \in Nat
  /\ d.star => args[1] = d.width
  /\ args[k + 1] = d.arg
  /\ SubSeq(args, k + 2, Len(args)) = RestArgs(n)
  /\ p.flags = Read(AsRead(d)).flags /\ p.width = Read(AsRead(d)).width
  /\ p.precision = Read(AsRead(d)).precision /\ p.type = TypeOf(d)
  /\ p.type = Read(AsRead(d)).type /\ p.conversion = Read(AsRead(d)).conversion
  /\ p.conversion = d.conversion /\ d.conversion \in Converts
  /\ p.end = Len(Written(d)) /\ p.stars = k
  /\ SubSeq(format, p.end + 1, Len(format)) = RestText(n)
  /\ Char(Past(2, FlagChars)) = "*" <=> d.star

LEMMA ProperHere ==
  ASSUME FormatAssumption, JobOK(job), NEW n, PrintPosition(n), n # Count, Proper(Next1(n))
  PROVE  AtProper(n, Next1(n), Parse, Stars(WidthPart(Next1(n)), PrecisionField(Next1(n))))
<1> DEFINE d == Next1(n)
           p == Parse
           k == Stars(WidthPart(d), PrecisionField(d))
           e == Read(AsRead(d))
           f == Len(Written(d))
<1>1. /\ DirectiveOK(d) /\ format = Written(d) \o RestText(n) /\ RestText(n) \in Text
      /\ args = Arguments(d) \o RestArgs(n) /\ RestArgs(n) \in Seq(Givens)
      /\ d.width \in Givens /\ d.precision \in Givens /\ d.arg \in Givens
  BY AtDirective
<1>2. Proper(d)
  OBVIOUS
<1> HIDE DEF d
<1>3. /\ k \in Nat
      /\ d.star => args[1] = d.width
      /\ d.dot_star => args[k] = d.precision
      /\ args[k + 1] = d.arg
      /\ SubSeq(args, k + 2, Len(args)) = RestArgs(n)
  <2> HIDE DEF Givens, k
  <2>1. k = Stars(WidthPart(d), PrecisionField(d))
    BY DEF k
  <2> QED BY <1>1, <1>2, <2>1, ArgumentsRead
<1>4. /\ p = [flags |-> e.flags, width |-> e.width, precision |-> e.precision,
              type |-> e.type, conversion |-> e.conversion, end |-> f, stars |-> k]
      /\ Char(Past(2, FlagChars)) = "*" <=> d.star
  BY <1>1, <1>2, <1>3, DirectiveRead
<1>5. e.type = TypeOf(d) /\ e.conversion = d.conversion /\ d.conversion \in Converts
  <2>1. AsRead(d).length = d.length /\ AsRead(d).conversion = d.conversion
    BY <1>2, AsReadIs
  <2>2. e.type = TypeOf(AsRead(d)) /\ e.conversion = AsRead(d).conversion
    BY DEF Read
  <2>3. TypeOf(AsRead(d)) = TypeOf(d)
    BY <2>1 DEF TypeOf
  <2> QED BY <1>2, <2>1, <2>2, <2>3 DEF Proper
<1>6. SubSeq(format, f + 1, Len(format)) = RestText(n)
  BY <1>1, <1>2, ProperRead
<1> HIDE DEF p, k, e, f
<1>7. /\ p.flags = e.flags /\ p.width = e.width /\ p.precision = e.precision /\ p.type = e.type
      /\ p.conversion = e.conversion /\ p.end = f /\ p.stars = k
  BY <1>4
<1>8. AtProper(n, d, p, k)
  BY <1>3, <1>4, <1>5, <1>6, <1>7 DEF AtProper, e, f
<1> QED BY <1>8 DEF d, p, k

LEMMA DirectiveStep ==
  ASSUME FormatAssumption, PrintIInv, Directive
  PROVE  PrintIInv'
<1>1. PICK n \in Nat : PrintPosition(n)
  BY DEF PrintIInv, Directive
<1>2. Char(1) = "%" /\ Parse.conversion # NUL /\ print_pc = "loop" /\ JobOK(job)
      /\ printed \in Text /\ job' = job /\ buffer = Stored(printed)
  BY DEF PrintIInv, Directive
<1> DEFINE d == Next1(n)
<1>3. n # Count /\ ~ d.plain
  BY <1>1, <1>2, AtPercent
<1>4. /\ DirectiveOK(d) /\ format = Written(d) \o RestText(n) /\ RestText(n) \in Text
      /\ args = Arguments(d) \o RestArgs(n) /\ RestArgs(n) \in Seq(Givens)
      /\ d \in Range(job.directives)
  BY <1>1, <1>2, <1>3, AtDirective
<1> DEFINE e == Parse
           arg == IF e.conversion \in Converts THEN args[e.stars + 1] ELSE 0
<1>5. /\ Emit(Conversion(e, arg))
      /\ format' = SubSeq(format, e.end + 1, Len(format))
      /\ args' = SubSeq(args, e.stars + (IF e.conversion \in Converts THEN 2 ELSE 1), Len(args))
      /\ UNCHANGED print_pc
  BY DEF Directive
<1>6. CASE d.conversion = "%"
  <2> HIDE DEF d
  <2>1. /\ format = <<"%", "%">> \o RestText(n) /\ Standard(AsMeant(d)) = <<"%">>
        /\ Arguments(d) = <<>>
    BY <1>3, <1>4, <1>6, PercentIs
  <2>2. e.conversion = "%" /\ e.end = 2 /\ e.stars = 0
    BY <1>4, <2>1, PercentRead
  <2> HIDE DEF e
  <2>3. e.conversion \notin Integral /\ e.conversion \notin Converts
        /\ e.conversion # "c" /\ e.conversion # "s" /\ e.conversion # "p"
    BY <2>2 DEF Integral, Converts
  <2>4. Conversion(e, arg) = <<"%">>
    BY <2>2, <2>3 DEF Conversion
  <2>5. printed' = printed \o <<"%">> /\ buffer' = Stored(printed') /\ print_pc' = print_pc
    BY <1>5, <2>4 DEF Emit
  <2>6. format' = RestText(n)
    <3>1. format' = SubSeq(format, 3, Len(format))
      BY <1>5, <2>2
    <3> QED BY <1>4, <2>1, <3>1, PercentTail
  <2>7. args' = RestArgs(n)
    <3>1. args = RestArgs(n)
      BY <1>4, <2>1
    <3>2. args' = SubSeq(args, 1, Len(args))
      BY <1>5, <2>2, <2>3
    <3> HIDE DEF Givens
    <3> QED BY <1>4, <3>1, <3>2, SubSeqFull
  <2>8. PrintPosition(n + 1)'
    BY <1>1, <1>2, <1>3, <2>1, <2>5, <2>6, <2>7, Moves DEF d
  <2>9. printed' \in Text
    BY <1>2, <2>5, Named, OneCharacter, Joining
  <2>10. n + 1 \in Nat
    OBVIOUS
  <2> QED BY <1>2, <2>5, <2>8, <2>9, <2>10 DEF PrintIInv, Stored, max_chars
<1>7. CASE d.conversion # "%"
  <2> DEFINE k == Stars(WidthPart(d), PrecisionField(d))
  <2>1. Proper(d)
    BY <1>3, <1>4, <1>7, OneOf
  <2>2. AtProper(n, d, e, k)
    BY <1>1, <1>2, <1>3, <2>1, ProperHere
  <2> HIDE DEF d, e, k
  <2>3. e.conversion \in Converts /\ arg = d.arg
    BY <2>2 DEF AtProper
  <2>4. Conversion(e, d.arg) = Conversion(Read(AsRead(d)), d.arg)
    <3> DEFINE r == Read(AsRead(d))
    <3>1. /\ e.flags = r.flags /\ e.width = r.width /\ e.precision = r.precision
          /\ e.type = r.type /\ e.conversion = r.conversion
      BY <2>2 DEF AtProper
    <3> HIDE DEF r
    <3> QED BY <3>1, SameConversion DEF r
  <2>5. /\ Conversion(Read(AsRead(d)), d.arg) \in Text
        /\ Regular(d) => Conversion(Read(AsRead(d)), d.arg) = Standard(AsMeant(d))
    BY <2>1, MeaningPrinted
  <2> DEFINE chars == Conversion(Read(AsRead(d)), d.arg)
  <2>6. printed' = printed \o chars /\ buffer' = Stored(printed') /\ print_pc' = print_pc
    <3>1. Emit(chars)
      BY <1>5, <2>3, <2>4
    <3> QED BY <1>5, <3>1 DEF Emit
  <2> HIDE DEF chars, arg
  <2>7. format' = RestText(n)
    BY <1>5, <2>2 DEF AtProper
  <2>8. args' = RestArgs(n)
    BY <1>5, <2>2, <2>3 DEF AtProper
  <2>9. AllRegular => printed' = printed \o Standard(AsMeant(d))
    BY <1>4, <2>5, <2>6 DEF AllRegular, chars
  <2>10. PrintPosition(n + 1)'
    BY <1>1, <1>2, <1>3, <2>7, <2>8, <2>9, Moves DEF d
  <2>11. printed' \in Text
    BY <1>2, <2>5, <2>6, Joining DEF chars
  <2>12. n + 1 \in Nat
    OBVIOUS
  <2> QED BY <1>2, <2>6, <2>10, <2>11, <2>12 DEF PrintIInv, Stored, max_chars
<1> QED BY <1>6, <1>7

(* Only the least long and the least int stop it.                          *)
LEMMA HaltStep ==
  ASSUME FormatAssumption, PrintIInv, Halt
  PROVE  PrintIInv'
<1>1. PICK n \in Nat : PrintPosition(n)
  BY DEF PrintIInv, Halt
<1>2. /\ Char(1) = "%" /\ print_pc = "loop" /\ JobOK(job) /\ printed \in Text
      /\ buffer = Stored(printed) /\ print_pc' = "halted"
      /\ UNCHANGED <<job, format, args, printed, buffer>>
      /\ \/ WidthOverflows
         \/ Parse.conversion \in Integral /\ Overflows(Parse, args[Parse.stars + 1])
  BY DEF PrintIInv, Halt
<1> DEFINE d == Next1(n)
           e == Parse
           k == Stars(WidthPart(d), PrecisionField(d))
<1>3. NUL \notin Integral /\ "%" \notin Integral
  BY DEF Integral, NUL
<1>4. n # Count /\ ~ d.plain
  BY <1>1, <1>2, <1>3, AtPercent
<1>5. /\ DirectiveOK(d) /\ format = Written(d) \o RestText(n) /\ RestText(n) \in Text
      /\ d \in Range(job.directives)
  BY <1>1, <1>2, <1>4, AtDirective
<1>6. Proper(d)
  <2>1. CASE d.conversion = "%"
    <3> HIDE DEF d
    <3>1. format = <<"%", "%">> \o RestText(n)
      BY <1>4, <1>5, <2>1, PercentIs
    <3>2. Parse.conversion = "%" /\ Char(Past(2, FlagChars)) # "*"
      BY <1>5, <3>1, PercentRead
    <3> QED BY <1>2, <1>3, <3>2 DEF WidthOverflows
  <2> QED BY <1>4, <1>5, <2>1, OneOf
<1>7. AtProper(n, d, e, k)
  BY <1>1, <1>2, <1>4, <1>6, ProperHere
<1> HIDE DEF d, e, k
<1>8. CASE WidthOverflows
  <2>1. d.star /\ d.width = INT_MIN
    BY <1>7, <1>8 DEF WidthOverflows, AtProper
  <2> QED BY <1>2, <1>4, <1>5, <1>7, <2>1 DEF PrintIInv, Stops, AtProper, Stored, max_chars
<1>9. CASE Overflows(e, args[e.stars + 1])
  <2>1. d.conversion \in {"d", "i"} /\ TypeOf(d) = "l" /\ Signed(d.arg, "l") = -Power(Bits["l"] - 1)
    BY <1>7, <1>9 DEF Overflows, AtProper
  <2> QED BY <1>2, <1>4, <1>5, <1>7, <2>1 DEF PrintIInv, Stops, AtProper, Stored, max_chars
<1> QED BY <1>2, <1>8, <1>9 DEF e

LEMMA CutShortStep ==
  ASSUME FormatAssumption, PrintIInv, CutShort
  PROVE  PrintIInv'
<1>1. PICK n \in Nat : PrintPosition(n)
  BY DEF PrintIInv, CutShort
<1>2. Char(1) = "%" /\ Parse.conversion = NUL /\ print_pc = "loop" /\ JobOK(job)
      /\ printed \in Text /\ buffer = Stored(printed)
      /\ UNCHANGED <<job, args, printed, buffer>>
  BY DEF PrintIInv, CutShort
<1>3. n = Count
  <2> SUFFICES ASSUME n # Count PROVE FALSE
    OBVIOUS
  <2> DEFINE d == Next1(n)
  <2>1. /\ DirectiveOK(d) /\ format = Written(d) \o RestText(n) /\ RestText(n) \in Text
        /\ args = Arguments(d) \o RestArgs(n) /\ RestArgs(n) \in Seq(Givens)
    BY <1>1, <1>2, AtDirective
  <2> HIDE DEF d
  <2>2. CASE d.plain
    <3>1. d.conversion \in Characters /\ d.conversion # "%" /\ Written(d) = <<d.conversion>>
      BY <2>1, <2>2, PlainIs
    <3>2. Char(1) = d.conversion
      BY <2>1, <3>1, PlainRead
    <3> QED BY <1>2, <3>1, <3>2
  <2>3. CASE ~ d.plain /\ d.conversion = "%"
    <3>1. Parse.conversion = "%"
      BY <2>1, <2>3, PercentIs, PercentRead
    <3> QED BY <1>2, <3>1 DEF NUL
  <2>4. CASE Proper(d)
    <3>1. Parse.conversion \in Converts
      BY <1>1, <1>2, <2>4, ProperHere DEF d, AtProper
    <3> QED BY <1>2, <3>1 DEF Converts, Integral, NUL
  <2> QED BY <2>1, <2>2, <2>3, <2>4, OneOf
<1>4. format = job.tail /\ format # <<>> /\ format \in Text /\ CutOff(format)
  <2>1. format = job.tail \/ format = <<>>
    BY <1>1, <1>2, <1>3, AtEnd
  <2>2. format # <<>>
    BY <1>2 DEF Char, NUL
  <2> QED BY <1>2, <2>1, <2>2, JobIs
<1>5. /\ Parse.end = Len(format) + 1 /\ Len(format) \in Nat /\ Len(format) >= 1
      /\ Len(format) > 1 => format[Len(format)] \in FlagChars \cup DigitChars
                                                    \cup {".", "l", "h", "t", "j", "z"}
  BY <1>4, CutRead
<1> DEFINE told == \/ Parse.end = 2
                   \/ format[Parse.end - 1] \in {"*", ".", "l", "h", "t", "j", "z"}
<1>6. IF told THEN format' = <<>> /\ UNCHANGED print_pc ELSE print_pc' = "past" /\ UNCHANGED format
  BY DEF CutShort
<1>7. CASE told
  <2>1. format' = <<>> /\ print_pc' = print_pc
    BY <1>6, <1>7
  <2>2. Count' = Count /\ Writings' = Writings /\ Takings' = Takings /\ Printings' = Printings
        /\ (AllRegular' <=> AllRegular)
    BY <1>2 DEF Count, Writings, Takings, Printings, AllRegular
  <2>3. n \in 0..Count /\ args = Rest(Takings, <<>>, n)
        /\ (AllRegular => printed = Joined(Printings, n))
    BY <1>1 DEF PrintPosition
  <2>4. PrintPosition(n)' <=>
          /\ n \in 0..Count'
          /\ \/ format' = Rest(Writings', job'.tail, n)
             \/ n = Count' /\ format' = <<>>
          /\ args' = Rest(Takings', <<>>, n)
          /\ AllRegular' => printed' = Joined(Printings', n)
    BY DEF PrintPosition
  <2>5. args' = args /\ printed' = printed
    BY <1>2
  <2>6. PrintPosition(n)'
    <3> HIDE DEF Writings, Takings, Printings, AllRegular
    <3> QED BY Zenon, <1>3, <2>1, <2>2, <2>3, <2>4, <2>5
  <2> QED BY <1>2, <2>1, <2>6 DEF PrintIInv, Stored, max_chars
<1>8. CASE ~ told
  <2>1. print_pc' = "past"
    BY <1>6, <1>8
  <2>2. Parse.end - 1 = Len(format) /\ Len(format) > 1
    BY <1>5, <1>8
  <2>3. format[Len(format)] \in FlagChars \cup DigitChars
    BY <1>5, <1>8, <2>2
  <2>4. Last(job.tail) \in FlagChars \cup Range(Digits10)
    BY <1>4, <2>3, DigitsAre DEF Last
  <2> QED BY <1>2, <2>1, <2>4 DEF PrintIInv, Stored, max_chars
<1> QED BY <1>7, <1>8

LEMMA TerminateStep ==
  ASSUME FormatAssumption, PrintIInv, Terminate
  PROVE  PrintIInv'
<1>1. PICK n \in Nat : PrintPosition(n)
  BY DEF PrintIInv, Terminate
<1>2. /\ Char(1) = NUL /\ print_pc = "loop" /\ JobOK(job) /\ printed \in Text
      /\ buffer = Stored(printed) /\ buffer' = Terminated(buffer) /\ print_pc' = "done"
      /\ UNCHANGED <<job, format, args, printed>>
  BY DEF PrintIInv, Terminate
<1>3. n = Count
  <2> SUFFICES ASSUME n # Count PROVE FALSE
    OBVIOUS
  <2> DEFINE d == Next1(n)
  <2>1. DirectiveOK(d) /\ format = Written(d) \o RestText(n) /\ RestText(n) \in Text
    BY <1>1, <1>2, AtDirective
  <2> HIDE DEF d
  <2>2. CASE d.plain
    <3>1. d.conversion \in Characters /\ d.conversion # NUL /\ Written(d) = <<d.conversion>>
      BY <2>1, <2>2, PlainIs
    <3>2. Char(1) = d.conversion
      BY <2>1, <3>1, PlainRead
    <3> QED BY <1>2, <3>1, <3>2
  <2>3. CASE ~ d.plain /\ d.conversion = "%"
    <3>1. Char(1) = "%"
      BY <2>1, <2>3, PercentIs, PercentRead
    <3> QED BY <1>2, <3>1 DEF NUL
  <2>4. CASE Proper(d)
    <3>1. Char(1) = "%"
      BY <2>1, <2>4, ProperRead
    <3> QED BY <1>2, <3>1 DEF NUL
  <2> QED BY <2>1, <2>2, <2>3, <2>4, OneOf
<1>4. AllRegular => printed = Expected
  <2> SUFFICES ASSUME AllRegular PROVE printed = Expected
    OBVIOUS
  <2>1. printed = Joined(Printings, Count)
    BY <1>1, <1>3 DEF PrintPosition
  <2>2. Joins(Printings, Characters) /\ Len(Printings) = Count
    BY <1>2, PrintingsAre, JoinedJoins
  <2>3. FlattenSeq(Printings) = Joined(Printings, Count)
    BY <2>2 DEF Joins
  <2>4. Expected = FlattenSeq(Printings)
    BY Zenon DEF Expected, Printings
  <2> QED BY <2>1, <2>3, <2>4
<1>5. Expected' = Expected /\ (AllRegular' <=> AllRegular)
  BY <1>2 DEF Expected, AllRegular
<1>6. buffer' = Terminated(Stored(printed))' /\ (JobOK(job))'
  BY <1>2 DEF Terminated, WithNul, Stored, max_chars
<1> QED BY <1>2, <1>4, <1>5, <1>6 DEF PrintIInv

(* The invariant holds from the start to the end of a call. *)
LEMMA PrintInductive ==
  ASSUME FormatAssumption, PrintIInv, [PrintNext]_printVars
  PROVE  PrintIInv'
<1>1. CASE PrintChar
  BY <1>1, PlainStep
<1>2. CASE Directive
  BY <1>2, DirectiveStep
<1>3. CASE CutShort
  BY <1>3, CutShortStep
<1>h. CASE Halt
  BY <1>h, HaltStep
<1>4. CASE Terminate
  BY <1>4, TerminateStep
<1>5. CASE UNCHANGED printVars
  <2>1. /\ job' = job /\ print_pc' = print_pc /\ format' = format /\ args' = args
        /\ printed' = printed /\ buffer' = buffer
    BY <1>5 DEF printVars
  <2>2. /\ (JobOK(job))' <=> JobOK(job)
        /\ AllRegular' <=> AllRegular
        /\ Stops' <=> Stops
        /\ Expected' = Expected
    BY <2>1 DEF AllRegular, Stops, Expected
  <2>3. Stored(printed)' = Stored(printed) /\ Terminated(Stored(printed))' = Terminated(Stored(printed))
    <3>1. max_chars' = max_chars
      BY <2>1 DEF max_chars
    <3>2. Stored(printed)' = Stored(printed)
      BY <2>1, <3>1 DEF Stored
    <3> DEFINE s == Stored(printed)
    <3> HIDE DEF s
    <3>3. s' = s
      BY <3>2 DEF s
    <3>4. Terminated(s)' = Terminated(s)
      BY <2>1, <3>1, <3>3 DEF Terminated, WithNul
    <3> QED BY <3>2, <3>4 DEF s
  <2>4. \A n \in Nat : PrintPosition(n)' <=> PrintPosition(n)
    BY <2>1, <2>2 DEF PrintPosition, Writings, Takings, Printings, Count
  <2> QED BY <2>1, <2>2, <2>3, <2>4, Zenon DEF PrintIInv
<1> QED BY <1>1, <1>2, <1>3, <1>h, <1>4, <1>5 DEF PrintNext

LEMMA KeptByInvariant ==
  ASSUME FormatAssumption, PrintIInv
  PROVE  BufferKept
<1>1. JobOK(job) /\ printed \in Text /\ job.size \in Nat \cup {Unlimited}
      /\ buffer = IF print_pc = "done" THEN Terminated(Stored(printed)) ELSE Stored(printed)
  BY JobIs DEF PrintIInv
<1> DEFINE s == Stored(printed)
           L == Len(printed)
           M == max_chars
           m == IF M <= L THEN M ELSE L
<1>2. CASE job.size = Unlimited
  BY <1>2 DEF BufferKept, Unlimited
<1>3. CASE job.size # Unlimited
  <2>1. /\ M \in Nat /\ M <= job.size /\ (job.size > 0 => M > 0)
        /\ L \in Nat /\ Sizes \in Nat \ {0} /\ job.size \in Nat
    BY <1>1, <1>3, MaxCharsIs, Lengths0, SizesAre
  <2>2. /\ m \in Nat /\ DOMAIN s = 1..m /\ Len(s) = m
        /\ L < Sizes => \A i \in 1..m : s[i] = printed[i]
    BY <1>1, <1>3, StoredIs
  <2> HIDE DEF s, L, M
  <2>3. CASE print_pc # "done"
    <3>1. Len(buffer) <= job.size
      BY <1>1, <2>1, <2>2, <2>3 DEF s
    <3> QED BY <2>3, <3>1 DEF BufferKept
  <2>4. CASE print_pc = "done" /\ job.size = 0
    <3>1. Terminated(s) = s
      <4>1. M = 0
        BY <2>1, <2>4
      <4> QED BY <4>1 DEF Terminated, M
    <3>2. Len(buffer) <= job.size
      BY <1>1, <2>1, <2>2, <2>4, <3>1 DEF s
    <3> QED BY <2>4, <3>2 DEF BufferKept
  <2>5. CASE print_pc = "done" /\ job.size > 0
    <3> DEFINE r == L % Sizes
               at == (IF r <= M - 1 THEN r ELSE M - 1) + 1
               N == IF at <= m THEN m ELSE at
               u == SubSeq(printed, 1, Min({L, M - 1}))
    <3>1. M > 0 /\ M - 1 \in Nat /\ r \in Nat /\ (L < Sizes => r = L)
      BY <2>1, <2>5
    <3>2. at = Min({r, M - 1}) + 1 /\ N = Max({at, m}) /\ at \in 1..N /\ N \in Nat /\ N <= M
      <4>1. r \in Int /\ M - 1 \in Int
        BY <3>1
      <4> HIDE DEF r
      <4>2. at = Min({r, M - 1}) + 1 /\ at \in Nat /\ at >= 1 /\ at <= M
        BY <2>1, <3>1, <4>1, Least2
      <4>3. at \in Int /\ m \in Int /\ m <= M
        BY <2>1, <2>2, <4>2
      <4> HIDE DEF at, m
      <4>4. Max({at, m}) = IF at <= m THEN m ELSE at
        BY <4>3, Least2
      <4> QED BY <2>1, <2>2, <4>2, <4>3, <4>4
    <3>3. buffer = [i \in 1..N |-> IF i = at THEN NUL ELSE s[i]]
      <4>1. buffer = WithNul(s, Min({Len(printed) % Sizes, max_chars - 1}) + 1)
        <5>1. ~ (job.size = Unlimited \/ max_chars = 0)
          BY <1>3, <3>1 DEF M
        <5> QED BY <1>1, <2>5, <5>1 DEF Terminated, s
      <4>2. buffer = WithNul(s, at)
        BY <3>2, <4>1 DEF r, L, M
      <4>3. N = Max({at, Len(s)})
        BY <2>2, <3>2
      <4> HIDE DEF at, N
      <4> QED BY <4>2, <4>3, Zenon DEF WithNul
    <3> HIDE DEF r, m, N, at
    <3>4. DOMAIN buffer = 1..N /\ Len(buffer) = N
      BY <3>2, <3>3
    <3>5. NUL \in Range(buffer)
      <4>1. at \in DOMAIN buffer /\ buffer[at] = NUL
        BY <3>2, <3>3, <3>4
      <4> QED BY <4>1 DEF Range
    <3>6. Len(buffer) <= job.size
      BY <2>1, <3>2, <3>4
    <3>7. ASSUME L < Sizes
          PROVE  buffer = Append(u, NUL)
      <4> DEFINE j == IF L <= M - 1 THEN L ELSE M - 1
      <4>1. j = Min({L, M - 1}) /\ j \in Nat /\ j <= L
        <5>1. L \in Int /\ M - 1 \in Int
          BY <2>1
        <5> QED BY <2>1, <3>1, <5>1, Least2
      <4>2. at = j + 1 /\ N = j + 1 /\ j <= m
        BY <2>1, <3>1, <3>7 DEF at, N, m
      <4>3. u \in Text /\ Len(u) = j /\ \A i \in 1..j : u[i] = printed[i]
        <5>1. printed \in Seq(Characters) /\ j \in Nat /\ j <= Len(printed) /\ u = SubSeq(printed, 1, j)
          BY <1>1, <4>1 DEF Text, L
        <5> HIDE DEF j, u
        <5> QED BY <5>1 DEF Text
      <4> HIDE DEF u, j
      <4>4. /\ Append(u, NUL) \in Text /\ Len(Append(u, NUL)) = j + 1
            /\ Append(u, NUL)[j + 1] = NUL
            /\ \A i \in 1..j : Append(u, NUL)[i] = u[i]
        <5>1. NUL \in Characters
          BY DEF Characters
        <5>2. u \in Seq(Characters) /\ Len(u) = j /\ j \in Nat
          BY <4>1, <4>3 DEF Text
        <5>3. /\ Append(u, NUL) \in Seq(Characters) /\ Len(Append(u, NUL)) = Len(u) + 1
              /\ Append(u, NUL)[Len(u) + 1] = NUL
              /\ \A i \in 1..Len(u) : Append(u, NUL)[i] = u[i]
          BY <5>1, <5>2
        <5> QED BY <5>2, <5>3 DEF Text
      <4>5. ASSUME NEW i \in 1..(j + 1) PROVE buffer[i] = Append(u, NUL)[i]
        <5>1. CASE i = j + 1
          BY <3>3, <4>2, <4>4, <5>1
        <5>2. CASE i # j + 1
          <6>1. i \in 1..j /\ i \in 1..m /\ i \in 1..N
            BY <2>2, <4>1, <4>2, <5>2
          <6>2. buffer[i] = s[i] /\ s[i] = printed[i]
            BY <2>2, <3>3, <3>7, <4>2, <5>2, <6>1
          <6> QED BY <4>3, <4>4, <6>1, <6>2
        <5> QED BY <5>1, <5>2
      <4> DEFINE v == Append(u, NUL)
      <4> HIDE DEF v
      <4>6. v \in Text /\ Len(v) = j + 1 /\ \A i \in 1..(j + 1) : buffer[i] = v[i]
        BY <4>4, <4>5 DEF v
      <4>7. buffer = [i \in 1..(j + 1) |-> v[i]]
        BY <3>3, <4>2, <4>6
      <4>8. v = [i \in 1..(j + 1) |-> v[i]]
        BY <4>6 DEF Text
      <4> QED BY <4>7, <4>8 DEF v
    <3> QED BY <2>5, <3>5, <3>6, <3>7 DEF BufferKept, u, L, M
  <2> QED BY <2>1, <2>3, <2>4, <2>5
<1> QED BY <1>2, <1>3

LEMMA StandardByInvariant ==
  ASSUME PrintIInv
  PROVE  PrintsAsStandard
  BY DEF PrintIInv, PrintsAsStandard, AllRegular, Stops

LEMMA PrintIInvAlways ==
  ASSUME FormatAssumption
  PROVE  PrintSpec => []PrintIInv
<1>1. JobOK(job) /\ PrintInit => PrintIInv
  BY PrintInitially
<1>2. PrintIInv /\ [PrintNext]_printVars => PrintIInv'
  BY PrintInductive
<1> QED BY <1>1, <1>2, PTL DEF PrintSpec

(* Whatever is printed, the buffer is not written past its size and has a  *)
(* NUL in the end, after what it has room for (printf.c:322-352).          *)
THEOREM AlwaysKept ==
  ASSUME FormatAssumption
  PROVE  PrintSpec => []BufferKept
<1>1. PrintIInv => BufferKept
  BY KeptByInvariant
<1> QED BY <1>1, PrintIInvAlways, PTL

(* Every call that is valid prints what the C standard says, for all       *)
(* directives that are regular, with their widths and precisions in the    *)
(* format string or in arguments, and all values; it stops or leaves the   *)
(* format string only where PrintsAsStandard says (printf.c:428-553,       *)
(* 1024-1346).                                                             *)
THEOREM AlwaysStandard ==
  ASSUME FormatAssumption
  PROVE  PrintSpec => []PrintsAsStandard
<1>1. PrintIInv => PrintsAsStandard
  BY StandardByInvariant
<1> QED BY <1>1, PrintIInvAlways, PTL
=============================================================================
