------------------------- MODULE TransactionsProofs -------------------------
(***************************************************************************)
(* Lemmas about the operators of Transactions: what a sum is made of, how  *)
(* it changes with its sequence, and how weights turn into fees.           *)
(*                                                                         *)
(* Sums and walks are folds, and a fold is a function that is chosen by    *)
(* its recursive equation.  Induction over the naturals comes from the     *)
(* library's theorem that finite sets are well-founded by inclusion; it is *)
(* stated for a set of numbers, and gives each fold its values, one index  *)
(* after another (FoldExists).                                             *)
(***************************************************************************)
EXTENDS Transactions, FiniteSetTheorems, SequenceTheorems, TLAPS

(* A set of numbers that has 0 and, with each number, the next has all.     *)
LEMMA NatSetInduction ==
  ASSUME NEW S \in SUBSET Nat, 0 \in S, \A n \in S : n + 1 \in S
  PROVE  S = Nat
<1> DEFINE T == {1 .. n : n \in Nat \ S}
           R == StrictSubsetOrdering(Nat)
<1>1. SUFFICES ASSUME Nat \ S # {} PROVE FALSE
  OBVIOUS
<1>2. T # {} /\ T \subseteq FiniteSubsetsOf(Nat)
  <2>1. \A n \in Nat : 1 .. n \in SUBSET Nat /\ IsFiniteSet(1 .. n)
    BY FS_Interval
  <2> QED
    BY <1>1, <2>1 DEF FiniteSubsetsOf
<1>3. IsWellFoundedOn(R, FiniteSubsetsOf(Nat))
  BY FS_StrictSubsetOrderingWellFounded
<1>4. PICK x \in T : \A y \in T : ~ (<<y, x>> \in R)
  <2> HIDE DEF T, R
  <2> QED
    BY <1>2, <1>3, WFMin
<1>5. PICK n \in Nat \ S : x = 1 .. n
  OBVIOUS
<1>6. n # 0 /\ n - 1 \in Nat /\ n - 1 \notin S
  <2>1. n # 0
    OBVIOUS
  <2>2. (n - 1) + 1 = n /\ n - 1 \in Nat
    BY <2>1
  <2> QED
    BY <2>1, <2>2
<1>7. 1 .. (n - 1) \in T
  BY <1>6
<1>8. <<1 .. (n - 1), 1 .. n>> \in R
  <2>1. 1 .. (n - 1) \subseteq 1 .. n /\ 1 .. n \subseteq Nat /\ n \in 1 .. n /\ n \notin 1 .. (n - 1)
    BY <1>6
  <2> QED
    BY <2>1 DEF StrictSubsetOrdering
<1> QED
  BY <1>4, <1>5, <1>7, <1>8

(* The same up to a bound.                                                  *)
LEMMA UpTo ==
  ASSUME NEW n \in Nat, NEW S, 0 \in S, \A k \in 0 .. n - 1 : k \in S => k + 1 \in S
  PROVE  0 .. n \subseteq S
<1> DEFINE T == {k \in Nat : k <= n => k \in S}
<1>1. 0 \in T /\ \A k \in T : k + 1 \in T
  OBVIOUS
<1>2. T = Nat
  <2>1. T \in SUBSET Nat
    OBVIOUS
  <2> HIDE DEF T
  <2> QED
    BY <1>1, <2>1, NatSetInduction
<1> QED
  BY <1>2

LEMMA MaxOfInterval ==
  ASSUME NEW k \in Nat, NEW s \in SUBSET (1 .. k), s # {}
  PROVE  Max(s) \in s /\ \A y \in s : Max(s) >= y
<1> DEFINE Has(n) == \A t \in SUBSET (1 .. n) : t # {} => \E x \in t : \A y \in t : x >= y
           S == {n \in Nat : Has(n)}
<1>1. 0 \in S
  <2>1. 1 .. 0 = {}
    OBVIOUS
  <2>2. Has(0)
    BY <2>1
  <2> QED
    BY <2>2
<1>2. ASSUME NEW n \in S PROVE n + 1 \in S
  <2> SUFFICES ASSUME NEW t \in SUBSET (1 .. n + 1), t # {}
               PROVE  \E x \in t : \A y \in t : x >= y
    OBVIOUS
  <2>1. CASE n + 1 \in t
    BY <2>1
  <2>2. CASE n + 1 \notin t
    <3>1. t \in SUBSET (1 .. n)
      BY <2>2
    <3> QED
      BY <3>1, <1>2
  <2> QED
    BY <2>1, <2>2
<1>3. S = Nat
  <2> HIDE DEF S
  <2>1. S \in SUBSET Nat
    BY DEF S
  <2> QED
    BY <1>1, <1>2, <2>1, NatSetInduction
<1>4. \E x \in s : \A y \in s : x >= y
  BY <1>3
<1> QED
  BY <1>4 DEF Max

LEMMA MinOfInterval ==
  ASSUME NEW k \in Nat, NEW s \in SUBSET (1 .. k), s # {}
  PROVE  Min(s) \in s /\ \A y \in s : Min(s) <= y
<1> DEFINE r == {k + 1 - x : x \in s}
<1>0. \A x \in s : k + 1 - x \in 1 .. k
  OBVIOUS
<1>1. r \in SUBSET (1 .. k) /\ r # {}
  BY <1>0
<1>2. PICK m \in r : \A y \in r : m >= y
  BY <1>1, MaxOfInterval
<1>3. PICK x \in s : m = k + 1 - x
  BY <1>2
<1>4. \A y \in s : x <= y
  <2> TAKE y \in s
  <2>1. k + 1 - y \in r /\ x \in 1 .. k /\ y \in 1 .. k
    OBVIOUS
  <2>2. m >= k + 1 - y
    BY <1>2, <2>1
  <2> QED
    BY <1>3, <2>1, <2>2
<1> QED
  BY <1>4 DEF Min

LEMMA LastOfInterval ==
  ASSUME NEW k \in Nat, NEW s \in SUBSET (1 .. k + 1), k + 1 \in s
  PROVE  Max(s) = k + 1 /\ s \ {k + 1} \in SUBSET (1 .. k)
<1>1. k + 1 \in Nat /\ s # {}
  OBVIOUS
<1>2. Max(s) \in s /\ \A y \in s : Max(s) >= y
  BY <1>1, MaxOfInterval
<1>3. \A y \in s : y \in 1 .. k + 1
  OBVIOUS
<1>4. Max(s) = k + 1
  <2> DEFINE m == Max(s)
  <2>1. m \in 1 .. k + 1 /\ m >= k + 1
    BY <1>2, <1>3
  <2> HIDE DEF m
  <2>2. m = k + 1
    BY <2>1
  <2> QED
    BY <2>2 DEF m
<1> QED
  BY <1>3, <1>4

LEMMA IntervalGrows ==
  ASSUME NEW k \in Nat
  PROVE  /\ 1 .. k + 1 # {} /\ Max(1 .. k + 1) = k + 1
         /\ (1 .. k + 1) \ {k + 1} = 1 .. k
         /\ 1 .. 0 = {}
<1>1. 1 .. k + 1 \in SUBSET (1 .. k + 1) /\ k + 1 \in 1 .. k + 1
  OBVIOUS
<1>2. Max(1 .. k + 1) = k + 1
  BY <1>1, LastOfInterval
<1>3. (1 .. k + 1) \ {k + 1} = 1 .. k
  OBVIOUS
<1>4. 1 .. 0 = {}
  OBVIOUS
<1>5. 1 .. k + 1 # {}
  BY <1>1
<1> QED
  BY <1>2, <1>3, <1>4, <1>5

(* The equation that a fold over 1 .. n chooses its function by has a       *)
(* solution, for a step that stays in D.                                    *)
FoldSolutions(n, D, base, step) ==
    {g \in [SUBSET (1 .. n) -> D] :
        \A s \in SUBSET (1 .. n) :
           g[s] = IF s = {} THEN base ELSE step[<<Max(s), g[s \ {Max(s)}]>>]}

LEMMA FoldExists ==
  ASSUME NEW n \in Nat, NEW D, NEW base \in D, NEW step \in [(1 .. n) \X D -> D]
  PROVE  FoldSolutions(n, D, base, step) # {}
<1> DEFINE Is(k, g) == 
              \A s \in SUBSET (1 .. k) :
                 g[s] = IF s = {} THEN base ELSE step[<<Max(s), g[s \ {Max(s)}]>>]
           Good(k) == \E g \in [SUBSET (1 .. k) -> D] : Is(k, g)
           S == {k \in Nat : Good(k)}
<1>1. Good(0)
  <2> DEFINE g == [s \in SUBSET (1 .. 0) |-> base]
  <2>1. g \in [SUBSET (1 .. 0) -> D]
    OBVIOUS
  <2>2. \A s \in SUBSET (1 .. 0) : s = {} /\ g[s] = base
    OBVIOUS
  <2> HIDE DEF g
  <2>3. Is(0, g)
    BY <2>2
  <2> QED
    BY <2>1, <2>3
<1>2. ASSUME NEW k \in 0 .. n - 1, Good(k) PROVE Good(k + 1)
  <2> USE k \in Nat
  <2>1. PICK h \in [SUBSET (1 .. k) -> D] : Is(k, h)
    BY <1>2
  <2> DEFINE g == [s \in SUBSET (1 .. k + 1) |->
                     IF k + 1 \in s THEN step[<<k + 1, h[s \ {k + 1}]>>] ELSE h[s]]
  <2>2. \A s \in SUBSET (1 .. k + 1) : s \ {k + 1} \in SUBSET (1 .. k)
    OBVIOUS
  <2>3. g \in [SUBSET (1 .. k + 1) -> D]
    <3> SUFFICES ASSUME NEW s \in SUBSET (1 .. k + 1) PROVE g[s] \in D
      OBVIOUS
    <3>1. CASE k + 1 \in s
      <4>1. h[s \ {k + 1}] \in D
        BY <2>2
      <4>2. <<k + 1, h[s \ {k + 1}]>> \in (1 .. n) \X D
        BY <4>1
      <4> QED
        BY <3>1, <4>2
    <3>2. CASE k + 1 \notin s
      <4>1. s \in SUBSET (1 .. k)
        BY <3>2
      <4> QED
        BY <3>2, <4>1
    <3> QED
      BY <3>1, <3>2
  <2>4. ASSUME NEW s \in SUBSET (1 .. k + 1)
        PROVE  g[s] = IF s = {} THEN base ELSE step[<<Max(s), g[s \ {Max(s)}]>>]
    <3>1. CASE k + 1 \in s
      <4>1. Max(s) = k + 1
        BY <3>1, LastOfInterval
      <4>2. s \ {k + 1} \in SUBSET (1 .. k + 1) /\ k + 1 \notin s \ {k + 1}
        OBVIOUS
      <4>3. g[s \ {k + 1}] = h[s \ {k + 1}]
        BY <4>2
      <4> QED
        BY <3>1, <4>1, <4>3
    <3>2. CASE k + 1 \notin s /\ s # {}
      <4>1. s \in SUBSET (1 .. k)
        BY <3>2
      <4>2. s \ {Max(s)} \in SUBSET (1 .. k + 1) /\ k + 1 \notin s \ {Max(s)}
        BY <3>2
      <4>3. g[s \ {Max(s)}] = h[s \ {Max(s)}]
        BY <4>2
      <4>4. g[s] = h[s]
        BY <3>2
      <4> QED
        BY <2>1, <3>2, <4>1, <4>3, <4>4
    <3>3. CASE s = {}
      <4>1. g[s] = h[s] /\ s \in SUBSET (1 .. k)
        BY <3>3
      <4> QED
        BY <2>1, <3>3, <4>1
    <3> QED
      BY <3>1, <3>2, <3>3
  <2> HIDE DEF g
  <2>5. Is(k + 1, g)
    BY <2>4
  <2> QED
    BY <2>3, <2>5
<1>3. Good(n)
  <2> HIDE DEF Good
  <2>0. 0 \in S /\ \A k \in 0 .. n - 1 : k \in S => k + 1 \in S
    BY <1>1, <1>2
  <2>1. 0 .. n \subseteq S
    <3> HIDE DEF S
    <3> QED
      BY <2>0, UpTo
  <2> QED
    BY <2>1
<1> QED
  BY <1>3 DEF FoldSolutions

-----------------------------------------------------------------------------

(* A sum is the last of its partial sums.                                   *)
LEMMA PartialSums ==
  ASSUME NEW s \in Seq(Int)
  PROVE  \E f \in [0 .. Len(s) -> Int] :
            /\ f[0] = 0
            /\ \A k \in 0 .. Len(s) - 1 : f[k + 1] = f[k] + s[k + 1]
            /\ Sum(s) = f[Len(s)]
<1> DEFINE n == Len(s)
           iter == CHOOSE g : g = [t \in SUBSET (1 .. n) |->
                     IF t = {} THEN 0 ELSE g[t \ {Max(t)}] + s[Max(t)]]
           step == [p \in (1 .. n) \X Int |-> p[2] + s[p[1]]]
<1>1. n \in Nat /\ DOMAIN s = 1 .. n /\ \A k \in 1 .. n : s[k] \in Int
  OBVIOUS
<1>2. Sum(s) = iter[1 .. n]
  BY <1>1 DEF Sum, FoldLeft, MapThenFoldSet
<1>3. iter = [t \in SUBSET (1 .. n) |-> IF t = {} THEN 0 ELSE iter[t \ {Max(t)}] + s[Max(t)]]
  <2>1. step \in [(1 .. n) \X Int -> Int]
    BY <1>1
  <2>2. PICK g \in [SUBSET (1 .. n) -> Int] :
          \A t \in SUBSET (1 .. n) :
             g[t] = IF t = {} THEN 0 ELSE step[<<Max(t), g[t \ {Max(t)}]>>]
    <3> HIDE DEF step, n
    <3>1. 0 \in Int
      OBVIOUS
    <3>2. FoldSolutions(n, Int, 0, step) # {}
      BY <1>1, <2>1, <3>1, FoldExists
    <3> QED
      BY <3>2 DEF FoldSolutions
  <2>3. ASSUME NEW t \in SUBSET (1 .. n)
        PROVE  g[t] = IF t = {} THEN 0 ELSE g[t \ {Max(t)}] + s[Max(t)]
    <3>1. CASE t = {}
      BY <2>2, <3>1
    <3>2. CASE t # {}
      <4>1. Max(t) \in 1 .. n
        BY <1>1, <3>2, MaxOfInterval
      <4>2. g[t \ {Max(t)}] \in Int
        OBVIOUS
      <4>3. <<Max(t), g[t \ {Max(t)}]>> \in (1 .. n) \X Int
        BY <4>1, <4>2
      <4> QED
        BY <2>2, <3>2, <4>3
    <3> QED
      BY <3>1, <3>2
  <2>4. g = [t \in SUBSET (1 .. n) |-> IF t = {} THEN 0 ELSE g[t \ {Max(t)}] + s[Max(t)]]
    BY <2>3
  <2> QED
    BY <2>4
<1> HIDE DEF iter
<1>4. iter[1 .. 0] = 0
  <2>1. 1 .. 0 \in SUBSET (1 .. n) /\ 1 .. 0 = {}
    OBVIOUS
  <2> QED
    BY <1>3, <2>1
<1>5. ASSUME NEW k \in 0 .. n - 1 PROVE iter[1 .. k + 1] = iter[1 .. k] + s[k + 1]
  <2>1. k \in Nat /\ 1 .. k + 1 \in SUBSET (1 .. n)
    BY <1>1
  <2>2. 1 .. k + 1 # {} /\ Max(1 .. k + 1) = k + 1 /\ (1 .. k + 1) \ {k + 1} = 1 .. k
    BY <2>1, IntervalGrows
  <2> QED
    BY <1>3, <2>1, <2>2
<1> DEFINE f == [k \in 0 .. n |-> iter[1 .. k]]
<1>6. /\ f[0] = 0 /\ Sum(s) = f[n]
      /\ \A k \in 0 .. n - 1 : f[k + 1] = f[k] + s[k + 1]
  BY <1>1, <1>2, <1>4, <1>5
<1>7. f \in [0 .. n -> Int]
  <2> DEFINE S == {k \in 0 .. n : f[k] \in Int}
  <2> HIDE DEF f, n
  <2>1. 0 \in S /\ \A k \in 0 .. n - 1 : k \in S => k + 1 \in S
    BY <1>1, <1>6
  <2>2. 0 .. n \subseteq S
    <3> HIDE DEF S
    <3> QED
      BY <1>1, <2>1, UpTo
  <2>3. DOMAIN f = 0 .. n /\ f = [k \in DOMAIN f |-> f[k]]
    BY DEF f
  <2> QED
    BY <2>2, <2>3
<1> QED
  BY <1>6, <1>7

LEMMA SumIs ==
  ASSUME NEW s \in Seq(Int), NEW f, f[0] = 0,
         \A k \in 0 .. Len(s) - 1 : f[k + 1] = f[k] + s[k + 1]
  PROVE  Sum(s) = f[Len(s)] /\ Sum(s) \in Int
<1>1. PICK g \in [0 .. Len(s) -> Int] :
        /\ g[0] = 0
        /\ \A k \in 0 .. Len(s) - 1 : g[k + 1] = g[k] + s[k + 1]
        /\ Sum(s) = g[Len(s)]
  BY PartialSums
<1> DEFINE S == {k \in 0 .. Len(s) : f[k] = g[k]}
<1>2. 0 \in S /\ \A k \in 0 .. Len(s) - 1 : k \in S => k + 1 \in S
  BY <1>1
<1>3. 0 .. Len(s) \subseteq S
  <2>1. Len(s) \in Nat
    OBVIOUS
  <2> HIDE DEF S
  <2> QED
    BY <1>2, <2>1, UpTo
<1> QED
  BY <1>1, <1>3

LEMMA SumType ==
  ASSUME NEW s \in Seq(Int)
  PROVE  Sum(s) \in Int
<1>1. Len(s) \in 0 .. Len(s)
  OBVIOUS
<1> QED
  BY <1>1, PartialSums

(* The sum over the first elements of a sequence, one by one.               *)
First(s, k) == [i \in 1 .. k |-> s[i]]

LEMMA SumFirst ==
  ASSUME NEW s \in Seq(Int)
  PROVE  /\ Sum(First(s, 0)) = 0
         /\ \A k \in 0 .. Len(s) - 1 :
               /\ Sum(First(s, k)) \in Int
               /\ Sum(First(s, k + 1)) = Sum(First(s, k)) + s[k + 1]
         /\ Sum(First(s, Len(s))) = Sum(s)
<1>1. PICK g \in [0 .. Len(s) -> Int] :
        /\ g[0] = 0
        /\ \A k \in 0 .. Len(s) - 1 : g[k + 1] = g[k] + s[k + 1]
        /\ Sum(s) = g[Len(s)]
  BY PartialSums
<1>2. ASSUME NEW k \in 0 .. Len(s)
      PROVE  Sum(First(s, k)) = g[k]
  <2>1. First(s, k) \in Seq(Int) /\ Len(First(s, k)) = k
    BY DEF First
  <2>2. \A i \in 0 .. k - 1 : g[i + 1] = g[i] + First(s, k)[i + 1]
    BY <1>1 DEF First
  <2> QED
    BY <1>1, <2>1, <2>2, SumIs
<1>3. \A k \in 0 .. Len(s) - 1 : k \in 0 .. Len(s) /\ k + 1 \in 0 .. Len(s)
  OBVIOUS
<1>4. 0 \in 0 .. Len(s) /\ Len(s) \in 0 .. Len(s)
  OBVIOUS
<1> QED
  BY <1>1, <1>2, <1>3, <1>4

(* What goes before position i is summed before, what comes after it after. *)
LEMMA InsertedElements ==
  ASSUME NEW D, NEW s \in Seq(D), NEW x \in D, NEW i \in 1 .. Len(s) + 1
  PROVE  /\ InsertAt(s, i, x) \in Seq(D)
         /\ Len(InsertAt(s, i, x)) = Len(s) + 1
         /\ \A k \in 1 .. Len(s) + 1 :
               InsertAt(s, i, x)[k] = IF k < i THEN s[k] ELSE IF k = i THEN x ELSE s[k - 1]
<1>1. /\ SubSeq(s, 1, i - 1) \in Seq(D) /\ Len(SubSeq(s, 1, i - 1)) = i - 1
      /\ \A k \in 1 .. i - 1 : SubSeq(s, 1, i - 1)[k] = s[k]
  OBVIOUS
<1>2. /\ SubSeq(s, i, Len(s)) \in Seq(D) /\ Len(SubSeq(s, i, Len(s))) = Len(s) + 1 - i
      /\ \A k \in 1 .. Len(s) + 1 - i : SubSeq(s, i, Len(s))[k] = s[i + k - 1]
  OBVIOUS
<1> DEFINE a == SubSeq(s, 1, i - 1)
           b == SubSeq(s, i, Len(s))
<1> HIDE DEF a, b
<1>3. /\ a \o <<x>> \in Seq(D) /\ Len(a \o <<x>>) = i
      /\ \A k \in 1 .. i : (a \o <<x>>)[k] = IF k < i THEN s[k] ELSE x
  <2>1. <<x>> \in Seq(D) /\ Len(<<x>>) = 1 /\ <<x>>[1] = x
    OBVIOUS
  <2>2. a \in Seq(D) /\ Len(a) = i - 1 /\ \A k \in 1 .. i - 1 : a[k] = s[k]
    BY <1>1 DEF a
  <2>3. /\ a \o <<x>> \in Seq(D) /\ Len(a \o <<x>>) = Len(a) + 1
        /\ \A k \in 1 .. Len(a) + 1 :
              (a \o <<x>>)[k] = IF k <= Len(a) THEN a[k] ELSE <<x>>[k - Len(a)]
    BY <2>1, <2>2, ConcatProperties
  <2>4. \A k \in 1 .. i : k <= i - 1 <=> k < i
    OBVIOUS
  <2>5. \A k \in 1 .. i : ~(k < i) => k - (i - 1) = 1
    OBVIOUS
  <2>6. \A k \in 1 .. i : k < i => k \in 1 .. i - 1
    OBVIOUS
  <2> QED
    BY <2>1, <2>2, <2>3, <2>4, <2>5, <2>6
<1> DEFINE c == a \o <<x>>
<1> HIDE DEF c
<1>4. /\ c \o b \in Seq(D) /\ Len(c \o b) = Len(s) + 1
      /\ \A k \in 1 .. Len(s) + 1 : (c \o b)[k] = IF k <= i THEN c[k] ELSE b[k - i]
  <2>1. /\ b \in Seq(D) /\ Len(b) = Len(s) + 1 - i
        /\ c \in Seq(D) /\ Len(c) = i
    BY <1>2, <1>3 DEF b, c
  <2>2. /\ c \o b \in Seq(D) /\ Len(c \o b) = Len(c) + Len(b)
        /\ \A k \in 1 .. Len(c) + Len(b) :
              (c \o b)[k] = IF k <= Len(c) THEN c[k] ELSE b[k - Len(c)]
    BY <2>1, ConcatProperties
  <2>3. i + (Len(s) + 1 - i) = Len(s) + 1
    OBVIOUS
  <2> QED
    BY <2>1, <2>2, <2>3
<1>5. InsertAt(s, i, x) = c \o b
  BY DEF InsertAt, a, b, c
<1>6. \A k \in 1 .. Len(s) + 1 :
         (c \o b)[k] = IF k < i THEN s[k] ELSE IF k = i THEN x ELSE s[k - 1]
  <2> TAKE k \in 1 .. Len(s) + 1
  <2>1. CASE k <= i
    BY <1>3, <1>4, <2>1 DEF c
  <2>2. CASE k > i
    <3>1. (c \o b)[k] = b[k - i] /\ k - i \in 1 .. Len(s) + 1 - i
      BY <1>4, <2>2
    <3>2. b[k - i] = s[i + (k - i) - 1]
      BY <1>2, <3>1 DEF b
    <3> QED
      BY <2>2, <3>1, <3>2
  <2>3. k <= i \/ k > i
    OBVIOUS
  <2> QED
    BY <2>1, <2>2, <2>3
<1> QED
  BY <1>4, <1>5, <1>6

LEMMA SumInsert ==
  ASSUME NEW s \in Seq(Int), NEW x \in Int, NEW i \in 1 .. Len(s) + 1
  PROVE  Sum(InsertAt(s, i, x)) = Sum(s) + x
<1>1. PICK f \in [0 .. Len(s) -> Int] :
        /\ f[0] = 0
        /\ \A k \in 0 .. Len(s) - 1 : f[k + 1] = f[k] + s[k + 1]
        /\ Sum(s) = f[Len(s)]
  BY PartialSums
<1> DEFINE t == InsertAt(s, i, x)
<1>2. /\ t \in Seq(Int) /\ Len(t) = Len(s) + 1
      /\ \A k \in 1 .. Len(s) + 1 :
            t[k] = IF k < i THEN s[k] ELSE IF k = i THEN x ELSE s[k - 1]
  <2> DEFINE D == Int
  <2>1. s \in Seq(D) /\ x \in D
    OBVIOUS
  <2> HIDE DEF D
  <2>2. /\ t \in Seq(D) /\ Len(t) = Len(s) + 1
        /\ \A k \in 1 .. Len(s) + 1 :
              t[k] = IF k < i THEN s[k] ELSE IF k = i THEN x ELSE s[k - 1]
    BY <2>1, InsertedElements
  <2> QED
    BY <2>2 DEF D
<1> HIDE DEF t
<1> DEFINE h == [k \in 0 .. Len(s) + 1 |-> IF k < i THEN f[k] ELSE f[k - 1] + x]
<1>3. h[0] = 0 /\ h[Len(s) + 1] = f[Len(s)] + x
  BY <1>1
<1>4. ASSUME NEW k \in 0 .. Len(t) - 1 PROVE h[k + 1] = h[k] + t[k + 1]
  <2>0. k \in 0 .. Len(s) /\ k + 1 \in 1 .. Len(s) + 1
    BY <1>2
  <2>1. CASE k + 1 < i
    <3>1. k \in 0 .. Len(s) - 1 /\ k < i
      BY <2>0, <2>1
    <3>2. f[k + 1] = f[k] + s[k + 1] /\ t[k + 1] = s[k + 1]
      BY <1>1, <1>2, <2>0, <2>1, <3>1
    <3>3. h[k + 1] = f[k + 1] /\ h[k] = f[k]
      BY <2>0, <2>1, <3>1
    <3> QED
      BY <3>2, <3>3
  <2>2. CASE k + 1 = i
    BY <1>1, <1>2, <2>0, <2>2
  <2>3. CASE k + 1 > i
    <3>1. k - 1 \in 0 .. Len(s) - 1 /\ (k - 1) + 1 = k /\ k \in 1 .. Len(s)
      BY <2>0, <2>3
    <3>2. f[k] = f[k - 1] + s[k] /\ f[k - 1] \in Int /\ s[k] \in Int
      <4>1. PICK j \in 0 .. Len(s) - 1 : j = k - 1 /\ j + 1 = k
        BY <3>1
      <4>2. f[j + 1] = f[j] + s[j + 1] /\ j \in 0 .. Len(s)
        BY <1>1
      <4>3. f[j] \in Int
        BY <4>2
      <4>4. s[k] \in Int
        BY <3>1
      <4> QED
        BY <4>1, <4>2, <4>3, <4>4
    <3>3. t[k + 1] = s[k]
      BY <1>2, <2>0, <2>3, SMTT(30)
    <3>4. h[k + 1] = f[k] + x /\ h[k] = f[k - 1] + x
      BY <2>0, <2>3
    <3> QED
      BY <3>2, <3>3, <3>4, SMTT(30)
  <2> QED
    BY <2>0, <2>1, <2>2, <2>3
<1> HIDE DEF h
<1>5. Sum(t) = h[Len(t)]
  BY <1>2, <1>3, <1>4, SumIs
<1> QED
  BY <1>1, <1>2, <1>3, <1>5 DEF t

LEMMA SumAppend ==
  ASSUME NEW s \in Seq(Int), NEW x \in Int
  PROVE  Sum(Append(s, x)) = Sum(s) + x
<1> DEFINE t == Append(s, x)
<1>1. t \in Seq(Int) /\ Len(t) = Len(s) + 1 /\ t[Len(s) + 1] = x
  OBVIOUS
<1>2. First(t, Len(s)) = s
  BY DEF First
<1>3. Sum(First(t, Len(s) + 1)) = Sum(First(t, Len(s))) + x
  <2>1. Len(s) \in 0 .. Len(t) - 1
    BY <1>1
  <2> QED
    BY <1>1, <2>1, SumFirst
<1>4. Sum(First(t, Len(s) + 1)) = Sum(t)
  BY <1>1, SumFirst
<1> QED
  BY <1>2, <1>3, <1>4

LEMMA SumExcept ==
  ASSUME NEW s \in Seq(Int), NEW i \in 1 .. Len(s), NEW x \in Int
  PROVE  Sum([s EXCEPT ![i] = x]) = Sum(s) - s[i] + x
<1>1. PICK f \in [0 .. Len(s) -> Int] :
        /\ f[0] = 0
        /\ \A k \in 0 .. Len(s) - 1 : f[k + 1] = f[k] + s[k + 1]
        /\ Sum(s) = f[Len(s)]
  BY PartialSums
<1> DEFINE t == [s EXCEPT ![i] = x]
<1>2. /\ t \in Seq(Int) /\ Len(t) = Len(s)
      /\ \A k \in 1 .. Len(s) : t[k] = IF k = i THEN x ELSE s[k]
  OBVIOUS
<1> HIDE DEF t
<1> DEFINE h == [k \in 0 .. Len(s) |-> IF k < i THEN f[k] ELSE f[k] - s[i] + x]
<1>3. h[0] = 0 /\ h[Len(s)] = f[Len(s)] - s[i] + x
  BY <1>1
<1>4. ASSUME NEW k \in 0 .. Len(t) - 1 PROVE h[k + 1] = h[k] + t[k + 1]
  <2>0. k \in 0 .. Len(s) - 1 /\ k + 1 \in 1 .. Len(s) /\ f[k + 1] = f[k] + s[k + 1]
    BY <1>1, <1>2
  <2>1. s[i] \in Int /\ s[k + 1] \in Int /\ f[k] \in Int /\ f[k + 1] \in Int
    BY <2>0
  <2>2. t[k + 1] = IF k + 1 = i THEN x ELSE s[k + 1]
    BY <1>2, <2>0
  <2>3. /\ h[k + 1] = IF k + 1 < i THEN f[k + 1] ELSE f[k + 1] - s[i] + x
        /\ h[k] = IF k < i THEN f[k] ELSE f[k] - s[i] + x
    BY <2>0
  <2> HIDE DEF h
  <2>4. CASE k + 1 = i
    BY <2>0, <2>1, <2>2, <2>3, <2>4, SMTT(30)
  <2>5. CASE k + 1 # i
    <3>1. k + 1 < i <=> k < i
      BY <2>0, <2>5
    <3>2. CASE k < i
      BY <2>0, <2>2, <2>3, <2>5, <3>1, <3>2
    <3>3. CASE ~(k < i)
      <4>1. h[k + 1] = f[k + 1] - s[i] + x /\ h[k] = f[k] - s[i] + x
        BY <2>3, <3>1, <3>3
      <4>2. t[k + 1] = s[k + 1]
        BY <2>2, <2>5
      <4> QED
        BY <2>0, <2>1, <4>1, <4>2, SMTT(20)
    <3> QED
      BY <3>2, <3>3
  <2> QED
    BY <2>4, <2>5
<1> HIDE DEF h
<1>5. Sum(t) = h[Len(t)]
  BY <1>2, <1>3, <1>4, SumIs
<1> QED
  BY <1>1, <1>2, <1>3, <1>5 DEF t

(* Sums of sequences of one length compare as their elements do.            *)
LEMMA SumLeq ==
  ASSUME NEW s \in Seq(Int), NEW t \in Seq(Int), Len(s) = Len(t),
         \A k \in 1 .. Len(s) : s[k] <= t[k]
  PROVE  Sum(s) <= Sum(t)
<1>1. PICK f \in [0 .. Len(s) -> Int] :
        /\ f[0] = 0
        /\ \A k \in 0 .. Len(s) - 1 : f[k + 1] = f[k] + s[k + 1]
        /\ Sum(s) = f[Len(s)]
  BY PartialSums
<1>2. PICK g \in [0 .. Len(s) -> Int] :
        /\ g[0] = 0
        /\ \A k \in 0 .. Len(s) - 1 : g[k + 1] = g[k] + t[k + 1]
        /\ Sum(t) = g[Len(s)]
  BY PartialSums
<1> DEFINE S == {k \in 0 .. Len(s) : f[k] <= g[k]}
<1>3. 0 \in S
  BY <1>1, <1>2
<1>4. ASSUME NEW k \in 0 .. Len(s) - 1, k \in S PROVE k + 1 \in S
  <2>1. s[k + 1] <= t[k + 1] /\ s[k + 1] \in Int /\ t[k + 1] \in Int
    OBVIOUS
  <2>2. f[k] <= g[k] /\ f[k] \in Int /\ g[k] \in Int /\ k + 1 \in 0 .. Len(s)
    BY <1>4
  <2> QED
    BY <1>1, <1>2, <2>1, <2>2
<1>5. 0 .. Len(s) \subseteq S
  <2>1. Len(s) \in Nat
    OBVIOUS
  <2> HIDE DEF S
  <2> QED
    BY <1>3, <1>4, <2>1, UpTo
<1>6. Len(s) \in 0 .. Len(s)
  OBVIOUS
<1> QED
  BY <1>1, <1>2, <1>5, <1>6

LEMMA SumNone == Sum(<<>>) = 0
<1>1. <<>> \in Seq(Int) /\ Len(<<>>) = 0
  OBVIOUS
<1> QED
  BY <1>1, PartialSums

LEMMA SumNat ==
  ASSUME NEW s \in Seq(Nat)
  PROVE  Sum(s) \in Nat
<1>1. s \in Seq(Int) /\ \A k \in 1 .. Len(s) : s[k] >= 0
  OBVIOUS
<1> DEFINE z == [k \in 1 .. Len(s) |-> 0]
<1>2. z \in Seq(Int) /\ Len(z) = Len(s)
  OBVIOUS
<1>3. Sum(z) = 0
  <2> DEFINE f == [k \in 0 .. Len(s) |-> 0]
  <2>1. f[0] = 0 /\ f[Len(z)] = 0 /\ \A k \in 0 .. Len(z) - 1 : f[k + 1] = f[k] + z[k + 1]
    BY <1>2
  <2> HIDE DEF f, z
  <2> QED
    BY <1>2, <2>1, SumIs
<1>4. \A k \in 1 .. Len(z) : z[k] <= s[k]
  BY <1>1, <1>2
<1> HIDE DEF z
<1>5. Sum(z) <= Sum(s)
  BY <1>1, <1>2, <1>4, SumLeq
<1>6. Sum(s) \in Int
  BY <1>1, SumType
<1> QED
  BY <1>3, <1>5, <1>6

-----------------------------------------------------------------------------

(* The sum of what a function gives for the elements of a sequence.         *)
Values(F, s) == [i \in DOMAIN s |-> F[s[i]]]
SumOf(F, s) == Sum(Values(F, s))

LEMMA ValuesAre ==
  ASSUME NEW D, NEW F \in [D -> Int], NEW s \in Seq(D)
  PROVE  /\ Values(F, s) \in Seq(Int) /\ Len(Values(F, s)) = Len(s)
         /\ \A i \in 1 .. Len(s) : Values(F, s)[i] = F[s[i]]
         /\ \A i \in 1 .. Len(s) : s[i] \in D
<1>1. \A i \in 1 .. Len(s) : s[i] \in D
  OBVIOUS
<1>2. \A i \in 1 .. Len(s) : F[s[i]] \in Int
  BY <1>1
<1>3. DOMAIN s = 1 .. Len(s) /\ Len(s) \in Nat
  OBVIOUS
<1> QED
  BY <1>1, <1>2, <1>3 DEF Values

LEMMA SumOfType ==
  ASSUME NEW D, NEW F \in [D -> Int], NEW s \in Seq(D)
  PROVE  SumOf(F, s) \in Int
BY ValuesAre, SumType DEF SumOf

LEMMA SumOfNat ==
  ASSUME NEW D, NEW F \in [D -> Nat], NEW s \in Seq(D)
  PROVE  SumOf(F, s) \in Nat
<1>1. F \in [D -> Int]
  OBVIOUS
<1>2. Values(F, s) \in Seq(Int) /\ \A i \in 1 .. Len(s) : Values(F, s)[i] = F[s[i]] /\ s[i] \in D
  BY <1>1, ValuesAre
<1>3. Len(Values(F, s)) = Len(s)
  BY <1>1, ValuesAre
<1>4. Values(F, s) \in Seq(Nat)
  <2>1. \A i \in 1 .. Len(s) : F[s[i]] \in Nat
    BY <1>2
  <2>2. Values(F, s) = [i \in 1 .. Len(s) |-> F[s[i]]]
    BY DEF Values
  <2> QED
    BY <2>1, <2>2
<1> QED
  BY <1>4, SumNat DEF SumOf

LEMMA SumOfNone ==
  ASSUME NEW F
  PROVE  SumOf(F, <<>>) = 0
<1>1. Values(F, <<>>) = <<>>
  BY DEF Values
<1> QED
  BY <1>1, SumNone DEF SumOf

LEMMA SumOfInsert ==
  ASSUME NEW D, NEW F \in [D -> Int], NEW s \in Seq(D), NEW x \in D, NEW i \in 1 .. Len(s) + 1
  PROVE  /\ InsertAt(s, i, x) \in Seq(D)
         /\ SumOf(F, InsertAt(s, i, x)) = SumOf(F, s) + F[x]
<1> DEFINE t == InsertAt(s, i, x)
           v == Values(F, s)
           w == InsertAt(v, i, F[x])
<1>1. /\ t \in Seq(D) /\ Len(t) = Len(s) + 1
      /\ \A k \in 1 .. Len(s) + 1 :
            t[k] = IF k < i THEN s[k] ELSE IF k = i THEN x ELSE s[k - 1]
  BY InsertedElements
<1>2. v \in Seq(Int) /\ Len(v) = Len(s) /\ \A k \in 1 .. Len(s) : v[k] = F[s[k]] /\ s[k] \in D
  BY ValuesAre, SMTT(30)
<1>3. F[x] \in Int
  OBVIOUS
<1> HIDE DEF t, v
<1>4. /\ w \in Seq(Int) /\ Len(w) = Len(s) + 1
      /\ \A k \in 1 .. Len(s) + 1 :
            w[k] = IF k < i THEN v[k] ELSE IF k = i THEN F[x] ELSE v[k - 1]
  <2> DEFINE Z == Int
  <2>1. v \in Seq(Z) /\ F[x] \in Z /\ i \in 1 .. Len(v) + 1
    BY <1>2, <1>3
  <2> HIDE DEF Z
  <2>2. /\ w \in Seq(Z) /\ Len(w) = Len(v) + 1
        /\ \A k \in 1 .. Len(v) + 1 :
              w[k] = IF k < i THEN v[k] ELSE IF k = i THEN F[x] ELSE v[k - 1]
    BY <2>1, InsertedElements
  <2> QED
    BY <1>2, <2>2 DEF Z
<1>5. Sum(w) = Sum(v) + F[x]
  BY <1>2, <1>3, SumInsert
<1> HIDE DEF w
<1>6. /\ Values(F, t) \in Seq(Int) /\ Len(Values(F, t)) = Len(s) + 1
      /\ \A k \in 1 .. Len(s) + 1 : Values(F, t)[k] = F[t[k]]
  <2>1. /\ Values(F, t) \in Seq(Int) /\ Len(Values(F, t)) = Len(t)
        /\ \A k \in 1 .. Len(t) : Values(F, t)[k] = F[t[k]]
    <3>1. t \in Seq(D)
      BY <1>1
    <3> QED
      BY <3>1, ValuesAre, SMTT(30)
  <2> QED
    BY <1>1, <2>1
<1>7. \A k \in 1 .. Len(s) + 1 : Values(F, t)[k] = w[k]
  <2> TAKE k \in 1 .. Len(s) + 1
  <2>1. CASE k < i
    <3>1. k \in 1 .. Len(s)
      BY <2>1
    <3>2. t[k] = s[k] /\ w[k] = v[k]
      BY <1>1, <1>4, <2>1
    <3>3. v[k] = F[s[k]]
      BY <1>2, <3>1
    <3> QED
      BY <1>6, <3>2, <3>3
  <2>2. CASE k = i
    BY <1>1, <1>4, <1>6, <2>2
  <2>3. CASE k > i
    <3>1. k - 1 \in 1 .. Len(s) /\ ~(k < i) /\ k # i
      BY <2>3
    <3>2. t[k] = s[k - 1] /\ w[k] = v[k - 1]
      BY <1>1, <1>4, <3>1
    <3>3. v[k - 1] = F[s[k - 1]]
      BY <1>2, <3>1
    <3> QED
      BY <1>6, <3>2, <3>3
  <2>4. k < i \/ k = i \/ k > i
    OBVIOUS
  <2> QED
    BY <2>1, <2>2, <2>3, <2>4
<1>8. Values(F, t) = w
  <2>1. /\ Values(F, t) = [k \in 1 .. Len(s) + 1 |-> Values(F, t)[k]]
        /\ w = [k \in 1 .. Len(s) + 1 |-> w[k]]
    BY <1>4, <1>6
  <2> QED
    BY <1>7, <2>1
<1> QED
  BY <1>1, <1>5, <1>8 DEF SumOf, t, v

LEMMA SumOfAppend ==
  ASSUME NEW D, NEW F \in [D -> Int], NEW s \in Seq(D), NEW x \in D
  PROVE  SumOf(F, Append(s, x)) = SumOf(F, s) + F[x]
<1> DEFINE t == Append(s, x)
           v == Values(F, s)
           w == Append(v, F[x])
<1>1. /\ t \in Seq(D) /\ Len(t) = Len(s) + 1
      /\ \A k \in 1 .. Len(s) : t[k] = s[k]
      /\ t[Len(s) + 1] = x
  OBVIOUS
<1>2. v \in Seq(Int) /\ Len(v) = Len(s) /\ \A k \in 1 .. Len(s) : v[k] = F[s[k]]
  BY ValuesAre
<1>3. F[x] \in Int
  OBVIOUS
<1> HIDE DEF t, v
<1>4. /\ w \in Seq(Int) /\ Len(w) = Len(s) + 1
      /\ \A k \in 1 .. Len(s) : w[k] = v[k]
      /\ w[Len(s) + 1] = F[x]
  BY <1>2, <1>3
<1>5. Sum(w) = Sum(v) + F[x]
  BY <1>2, <1>3, SumAppend
<1> HIDE DEF w
<1>6. /\ Values(F, t) \in Seq(Int) /\ Len(Values(F, t)) = Len(s) + 1
      /\ \A k \in 1 .. Len(s) + 1 : Values(F, t)[k] = F[t[k]]
  <2>1. /\ Values(F, t) \in Seq(Int) /\ Len(Values(F, t)) = Len(t)
        /\ \A k \in 1 .. Len(t) : Values(F, t)[k] = F[t[k]]
    <3>1. t \in Seq(D)
      BY <1>1
    <3> QED
      BY <3>1, ValuesAre
  <2> QED
    BY <1>1, <2>1
<1>7. \A k \in 1 .. Len(s) + 1 : Values(F, t)[k] = w[k]
  <2> TAKE k \in 1 .. Len(s) + 1
  <2>1. k \in 1 .. Len(s) \/ k = Len(s) + 1
    OBVIOUS
  <2> QED
    BY <1>1, <1>2, <1>4, <1>6, <2>1
<1>8. Values(F, t) = w
  <2>1. /\ Values(F, t) = [k \in 1 .. Len(s) + 1 |-> Values(F, t)[k]]
        /\ w = [k \in 1 .. Len(s) + 1 |-> w[k]]
    BY <1>4, <1>6
  <2> QED
    BY <1>7, <2>1
<1> QED
  BY <1>5, <1>8 DEF SumOf, t, v

(* Two sequences that differ in one element.                                *)
SameBut(s, t, i) == Len(t) = Len(s) /\ \A k \in 1 .. Len(s) : k # i => t[k] = s[k]

LEMMA SumOfChanged ==
  ASSUME NEW D, NEW F \in [D -> Int], NEW s \in Seq(D), NEW t \in Seq(D),
         NEW i \in 1 .. Len(s), SameBut(s, t, i)
  PROVE  SumOf(F, t) = SumOf(F, s) - F[s[i]] + F[t[i]]
<1> DEFINE x == t[i]
           v == Values(F, s)
           w == [v EXCEPT ![i] = F[x]]
<1>0. x \in D
  BY DEF SameBut
<1>1. Len(t) = Len(s) /\ \A k \in 1 .. Len(s) : t[k] = IF k = i THEN x ELSE s[k]
  BY DEF SameBut
<1> HIDE DEF x
<1>2. v \in Seq(Int) /\ Len(v) = Len(s) /\ \A k \in 1 .. Len(s) : v[k] = F[s[k]]
  BY ValuesAre
<1>3. F[x] \in Int
  BY <1>0
<1> HIDE DEF v
<1>4. /\ w \in Seq(Int) /\ Len(w) = Len(s)
      /\ \A k \in 1 .. Len(s) : w[k] = IF k = i THEN F[x] ELSE v[k]
  BY <1>2, <1>3
<1>5. Sum(w) = Sum(v) - v[i] + F[x]
  BY <1>2, <1>3, SumExcept
<1> HIDE DEF w
<1>6. /\ Values(F, t) \in Seq(Int) /\ Len(Values(F, t)) = Len(s)
      /\ \A k \in 1 .. Len(s) : Values(F, t)[k] = F[t[k]]
  <2>1. /\ Values(F, t) \in Seq(Int) /\ Len(Values(F, t)) = Len(t)
        /\ \A k \in 1 .. Len(t) : Values(F, t)[k] = F[t[k]]
    BY ValuesAre, SMTT(30)
  <2> QED
    BY <1>1, <2>1
<1>7. \A k \in 1 .. Len(s) : Values(F, t)[k] = w[k]
  <2> TAKE k \in 1 .. Len(s)
  <2>1. CASE k = i
    <3>1. t[k] = x /\ w[k] = F[x]
      BY <1>1, <1>4, <2>1
    <3>2. Values(F, t)[k] = F[t[k]]
      BY <1>6
    <3> QED
      BY <3>1, <3>2
  <2>2. CASE k # i
    <3>1. t[k] = s[k] /\ w[k] = v[k]
      BY <1>1, <1>4, <2>2
    <3>2. Values(F, t)[k] = F[t[k]]
      BY <1>6
    <3>3. v[k] = F[s[k]]
      BY <1>2
    <3> QED
      BY <3>1, <3>2, <3>3
  <2> QED
    BY <2>1, <2>2
<1>8. Values(F, t) = w
  <2>1. /\ Values(F, t) = [k \in 1 .. Len(s) |-> Values(F, t)[k]]
        /\ w = [k \in 1 .. Len(s) |-> w[k]]
    BY <1>4, <1>6
  <2> QED
    BY <1>7, <2>1
<1> QED
  BY <1>2, <1>5, <1>8 DEF SumOf, v, x

(* The sum over the first elements, one by one.                             *)
LEMMA SumOfFirst ==
  ASSUME NEW D, NEW F \in [D -> Int], NEW s \in Seq(D)
  PROVE  /\ SumOf(F, First(s, 0)) = 0
         /\ \A k \in 0 .. Len(s) - 1 :
               /\ SumOf(F, First(s, k)) \in Int
               /\ SumOf(F, First(s, k + 1)) = SumOf(F, First(s, k)) + F[s[k + 1]]
         /\ SumOf(F, First(s, Len(s))) = SumOf(F, s)
<1> DEFINE v == Values(F, s)
<1>1. v \in Seq(Int) /\ Len(v) = Len(s) /\ \A k \in 1 .. Len(s) : v[k] = F[s[k]]
  BY ValuesAre
<1> HIDE DEF v
<1>2. ASSUME NEW k \in 0 .. Len(s) PROVE Values(F, First(s, k)) = First(v, k)
  <2>1. DOMAIN First(s, k) = 1 .. k
    BY DEF First
  <2>2. \A j \in 1 .. k : First(s, k)[j] = s[j] /\ v[j] = F[s[j]]
    BY <1>1 DEF First
  <2> QED
    BY <2>1, <2>2 DEF Values, First
<1>3. 0 \in 0 .. Len(s) /\ Len(s) \in 0 .. Len(s)
  OBVIOUS
<1>4. \A k \in 0 .. Len(s) - 1 : k \in 0 .. Len(s) /\ k + 1 \in 0 .. Len(s)
  OBVIOUS
<1>5. /\ Sum(First(v, 0)) = 0 /\ Sum(First(v, Len(v))) = Sum(v)
      /\ \A k \in 0 .. Len(v) - 1 :
            Sum(First(v, k)) \in Int /\ Sum(First(v, k + 1)) = Sum(First(v, k)) + v[k + 1]
  BY <1>1, SumFirst
<1>6. \A k \in 0 .. Len(s) - 1 : v[k + 1] = F[s[k + 1]]
  BY <1>1
<1> QED
  BY <1>1, <1>2, <1>3, <1>4, <1>5, <1>6 DEF SumOf, v

LEMMA SumOfSame ==
  ASSUME NEW D, NEW F \in [D -> Int], NEW s \in Seq(D), NEW t \in Seq(D), Len(s) = Len(t),
         \A i \in 1 .. Len(s) : F[s[i]] = F[t[i]]
  PROVE  SumOf(F, s) = SumOf(F, t)
<1>1. DOMAIN s = 1 .. Len(s) /\ DOMAIN t = 1 .. Len(s)
  OBVIOUS
<1>2. Values(F, s) = Values(F, t)
  BY <1>1 DEF Values
<1> QED
  BY <1>2 DEF SumOf

LEMMA SumOfZeros ==
  ASSUME NEW D, NEW F \in [D -> Int], NEW s \in Seq(D), \A i \in 1 .. Len(s) : F[s[i]] = 0
  PROVE  SumOf(F, s) = 0
<1> DEFINE v == Values(F, s)
<1>1. v \in Seq(Int) /\ \A k \in 0 .. Len(v) - 1 : v[k + 1] = 0
  <2>1. v \in Seq(Int) /\ Len(v) = Len(s) /\ \A i \in 1 .. Len(s) : v[i] = F[s[i]]
    BY ValuesAre
  <2> HIDE DEF v
  <2> QED
    BY <2>1
<1> HIDE DEF v
<1> DEFINE f == [k \in 0 .. Len(v) |-> 0]
<1>2. f[0] = 0 /\ f[Len(v)] = 0 /\ \A k \in 0 .. Len(v) - 1 : f[k + 1] = f[k] + v[k + 1]
  BY <1>1
<1> HIDE DEF f
<1>3. Sum(v) = 0
  BY <1>1, <1>2, SumIs
<1> QED
  BY <1>3 DEF SumOf, v

(* A function that is the sum of two.                                       *)
Both(D, F, G) == [x \in D |-> F[x] + G[x]]

LEMMA SumOfPlus ==
  ASSUME NEW D, NEW F \in [D -> Int], NEW G \in [D -> Int], NEW s \in Seq(D)
  PROVE  SumOf(Both(D, F, G), s) = SumOf(F, s) + SumOf(G, s)
<1> DEFINE H == Both(D, F, G)
           n == Len(s)
<1>0. H \in [D -> Int] /\ \A x \in D : H[x] = F[x] + G[x]
  BY DEF Both
<1> HIDE DEF H
<1>1. \A k \in 0 .. n - 1 : s[k + 1] \in D
  OBVIOUS
<1>2. /\ SumOf(F, First(s, 0)) = 0 /\ SumOf(F, First(s, n)) = SumOf(F, s)
      /\ \A k \in 0 .. n - 1 :
            /\ SumOf(F, First(s, k)) \in Int
            /\ SumOf(F, First(s, k + 1)) = SumOf(F, First(s, k)) + F[s[k + 1]]
  BY SumOfFirst, SMTT(30)
<1>3. /\ SumOf(G, First(s, 0)) = 0 /\ SumOf(G, First(s, n)) = SumOf(G, s)
      /\ \A k \in 0 .. n - 1 :
            /\ SumOf(G, First(s, k)) \in Int
            /\ SumOf(G, First(s, k + 1)) = SumOf(G, First(s, k)) + G[s[k + 1]]
  BY SumOfFirst, SMTT(30)
<1>4. /\ SumOf(H, First(s, 0)) = 0 /\ SumOf(H, First(s, n)) = SumOf(H, s)
      /\ \A k \in 0 .. n - 1 :
            /\ SumOf(H, First(s, k)) \in Int
            /\ SumOf(H, First(s, k + 1)) = SumOf(H, First(s, k)) + H[s[k + 1]]
  BY <1>0, SumOfFirst, ZenonT(60)
<1>5. n \in Nat
  OBVIOUS
<1> HIDE DEF n
<1> DEFINE S == {k \in 0 .. n :
                    SumOf(H, First(s, k)) = SumOf(F, First(s, k)) + SumOf(G, First(s, k))}
<1>6. 0 \in S
  BY <1>2, <1>3, <1>4, <1>5
<1>7. ASSUME NEW k \in 0 .. n - 1, k \in S PROVE k + 1 \in S
  <2>1. /\ SumOf(H, First(s, k + 1)) = SumOf(H, First(s, k)) + H[s[k + 1]]
        /\ SumOf(F, First(s, k + 1)) = SumOf(F, First(s, k)) + F[s[k + 1]]
        /\ SumOf(G, First(s, k + 1)) = SumOf(G, First(s, k)) + G[s[k + 1]]
        /\ SumOf(F, First(s, k)) \in Int /\ SumOf(G, First(s, k)) \in Int
    BY <1>2, <1>3, <1>4
  <2>2. /\ F[s[k + 1]] \in Int /\ G[s[k + 1]] \in Int
        /\ H[s[k + 1]] = F[s[k + 1]] + G[s[k + 1]]
    BY <1>0, <1>1 DEF n
  <2>3. SumOf(H, First(s, k + 1)) = SumOf(F, First(s, k + 1)) + SumOf(G, First(s, k + 1))
    BY <1>7, <2>1, <2>2
  <2>4. k + 1 \in 0 .. n
    BY <1>5
  <2> QED
    BY <2>3, <2>4
<1>8. n \in S
  <2>1. 0 .. n \subseteq S
    <3> HIDE DEF S
    <3> QED
      BY <1>5, <1>6, <1>7, UpTo
  <2> QED
    BY <1>5, <2>1
<1> QED
  BY <1>2, <1>3, <1>4, <1>8 DEF H

-----------------------------------------------------------------------------

LEMMA DivBounds ==
  ASSUME NEW a \in Int, NEW b \in Nat \ {0}
  PROVE  /\ a \div b \in Int
         /\ b * (a \div b) <= a
         /\ a < b * (a \div b) + b
OBVIOUS

LEMMA TimesMonotone ==
  ASSUME NEW a \in Nat, NEW b \in Nat, NEW c \in Nat, a <= b
  PROVE  a * c <= b * c
OBVIOUS

LEMMA DivAtLeast ==
  ASSUME NEW a \in Int, NEW b \in Nat \ {0}, NEW q \in Int, q * b <= a
  PROVE  q <= a \div b
<1> DEFINE d == a \div b
<1>1. d \in Int /\ a < b * d + b
  BY DivBounds
<1> HIDE DEF d
<1>2. CASE d < q
  <2>1. d + 1 <= q
    BY <1>1, <1>2
  <2>2. b * (d + 1) <= b * q
    <3>1. q - (d + 1) \in Nat
      BY <1>1, <2>1
    <3>2. b * (q - (d + 1)) >= 0
      BY <3>1
    <3>3. b * (q - (d + 1)) = b * q - b * (d + 1)
      BY <1>1
    <3> QED
      BY <1>1, <3>2, <3>3
  <2>3. b * (d + 1) = b * d + b
    BY <1>1
  <2>4. b * q = q * b
    OBVIOUS
  <2> QED
    BY <1>1, <2>2, <2>3, <2>4
<1> QED
  BY <1>1, <1>2 DEF d

LEMMA DivMonotone ==
  ASSUME NEW a \in Int, NEW b \in Nat \ {0}, NEW c \in Int, a <= c
  PROVE  a \div b <= c \div b
<1> DEFINE q == a \div b
<1>1. q \in Int /\ b * q <= a
  BY DivBounds
<1> HIDE DEF q
<1>2. q * b <= c
  BY <1>1
<1> QED
  BY <1>1, <1>2, DivAtLeast DEF q

(* A fee is no less than its rate asks for.                                 *)
LEMMA FeeCovers ==
  ASSUME NEW rate \in Nat, NEW weight \in Nat
  PROVE  /\ FeeAt(rate, weight) \in Nat
         /\ rate * weight <= FeeAt(rate, weight) * Unit
<1> DEFINE a == rate * weight + Unit - 1
           q == a \div Unit
<1>1. Unit \in Nat \ {0} /\ rate * weight \in Nat
  BY WeightsAssumption
<1>2. a \in Nat
  BY <1>1
<1>3. q \in Int /\ Unit * q <= a /\ a < Unit * q + Unit
  BY <1>1, <1>2, DivBounds
<1>4. 0 <= q
  <2>1. 0 * Unit <= a
    BY <1>1, <1>2
  <2> HIDE DEF a
  <2> QED
    BY <1>1, <1>2, <2>1, DivAtLeast
<1>5. rate * weight <= Unit * q
  <2> HIDE DEF q
  <2>1. Unit * q \in Int
    BY <1>1, <1>3
  <2> QED
    BY <1>1, <1>3, <2>1
<1>6. Unit * q = q * Unit
  BY <1>1, <1>3
<1> QED
  BY <1>3, <1>4, <1>5, <1>6 DEF FeeAt

LEMMA FeeMonotone ==
  ASSUME NEW rate \in Nat, NEW more \in Nat, NEW weight \in Nat, rate <= more
  PROVE  FeeAt(rate, weight) <= FeeAt(more, weight)
<1>1. Unit \in Nat \ {0}
  BY WeightsAssumption
<1>2. rate * weight <= more * weight /\ rate * weight \in Nat /\ more * weight \in Nat
  BY TimesMonotone
<1>3. /\ rate * weight + Unit - 1 \in Int /\ more * weight + Unit - 1 \in Int
      /\ rate * weight + Unit - 1 <= more * weight + Unit - 1
  BY <1>1, <1>2
<1> QED
  BY <1>1, <1>3, DivMonotone DEF FeeAt

(* A rate is the most that a fee pays for the whole of a weight.            *)
LEMMA RateIsMost ==
  ASSUME NEW fee \in Int, NEW weight \in Nat \ {0}, NEW rate \in Nat
  PROVE  /\ RateOf(fee, weight) \in Int
         /\ rate <= RateOf(fee, weight) <=> rate * weight <= fee * Unit
<1> DEFINE a == fee * Unit
           q == a \div weight
<1>1. Unit \in Nat \ {0} /\ a \in Int
  BY WeightsAssumption
<1>2. q \in Int /\ weight * q <= a
  BY <1>1, DivBounds
<1>3. RateOf(fee, weight) = q
  BY DEF RateOf
<1> HIDE DEF q
<1>4. ASSUME rate <= q PROVE rate * weight <= a
  <2>1. rate * weight <= q * weight
    BY <1>2, <1>4, TimesMonotone
  <2>2. q * weight = weight * q /\ rate * weight \in Int /\ weight * q \in Int
    BY <1>2
  <2> HIDE DEF a
  <2> QED
    BY <1>1, <1>2, <2>1, <2>2
<1>5. ASSUME rate * weight <= a PROVE rate <= q
  BY <1>1, <1>5, DivAtLeast DEF q
<1> QED
  BY <1>2, <1>3, <1>4, <1>5

-----------------------------------------------------------------------------

(* The totals of a transaction as sums of a function of its elements.       *)
InValue  == [i \in Inputs |-> i.value]
OutValue == [o \in Outputs |-> o.value]
InWeighs  == [i \in Inputs |-> InWeight[i.script]]
OutWeighs == [o \in Outputs |-> OutWeight[o.script]]

LEMMA MeasuresNat ==
  /\ InValue \in [Inputs -> Nat] /\ OutValue \in [Outputs -> Nat]
  /\ InWeighs \in [Inputs -> Nat] /\ OutWeighs \in [Outputs -> Nat]
BY WeightsAssumption DEF InValue, OutValue, InWeighs, OutWeighs, Inputs, Outputs

LEMMA MeasuresInt ==
  /\ InValue \in [Inputs -> Int] /\ OutValue \in [Outputs -> Int]
  /\ InWeighs \in [Inputs -> Int] /\ OutWeighs \in [Outputs -> Int]
BY MeasuresNat

LEMMA TotalsAre ==
  ASSUME NEW tx \in Psbts
  PROVE  /\ tx.ins \in Seq(Inputs) /\ tx.outs \in Seq(Outputs)
         /\ InTotal(tx) = SumOf(InValue, tx.ins) /\ InTotal(tx) \in Nat
         /\ OutTotal(tx) = SumOf(OutValue, tx.outs) /\ OutTotal(tx) \in Nat
         /\ InputsWeight(tx) = SumOf(InWeighs, tx.ins) /\ InputsWeight(tx) \in Nat
         /\ OutputsWeight(tx) = SumOf(OutWeighs, tx.outs) /\ OutputsWeight(tx) \in Nat
<1>1. tx.ins \in Seq(Inputs) /\ tx.outs \in Seq(Outputs)
  BY DEF Psbts
<1>2. /\ \A i \in DOMAIN tx.ins : tx.ins[i] \in Inputs
      /\ \A i \in DOMAIN tx.outs : tx.outs[i] \in Outputs
  BY <1>1
<1>3. /\ Values(InValue, tx.ins) = [i \in DOMAIN tx.ins |-> ValueOf(tx.ins[i])]
      /\ Values(OutValue, tx.outs) = [i \in DOMAIN tx.outs |-> ValueOf(tx.outs[i])]
      /\ Values(InWeighs, tx.ins) = [i \in DOMAIN tx.ins |-> InWeight[tx.ins[i].script]]
      /\ Values(OutWeighs, tx.outs) = [i \in DOMAIN tx.outs |-> OutWeight[tx.outs[i].script]]
  BY <1>2 DEF Values, InValue, OutValue, InWeighs, OutWeighs, ValueOf
<1>4. /\ InTotal(tx) = SumOf(InValue, tx.ins) /\ OutTotal(tx) = SumOf(OutValue, tx.outs)
      /\ InputsWeight(tx) = SumOf(InWeighs, tx.ins)
      /\ OutputsWeight(tx) = SumOf(OutWeighs, tx.outs)
  BY <1>3 DEF InTotal, OutTotal, InputsWeight, OutputsWeight, Total, SumOf
<1>5. /\ SumOf(InValue, tx.ins) \in Nat /\ SumOf(InWeighs, tx.ins) \in Nat
      /\ SumOf(OutValue, tx.outs) \in Nat /\ SumOf(OutWeighs, tx.outs) \in Nat
  BY <1>1, MeasuresNat, SumOfNat
<1> QED
  BY <1>1, <1>4, <1>5

(* What an output pays to a set of scripts.                                 *)
Pays(scripts) == [o \in Outputs |-> IF o.script \in scripts THEN o.value ELSE 0]

LEMMA PaysNat ==
  ASSUME NEW scripts
  PROVE  Pays(scripts) \in [Outputs -> Nat]
BY DEF Pays, Outputs

LEMMA FeeInt ==
  ASSUME NEW tx \in Psbts
  PROVE  Fee(tx) \in Int
BY TotalsAre DEF Fee

(* The first output with a script.                                          *)
LEMMA VoutIs ==
  ASSUME NEW tx \in Psbts, NEW script, \E i \in DOMAIN tx.outs : tx.outs[i].script = script
  PROVE  /\ VoutOf(tx, script) \in 1 .. Len(tx.outs)
         /\ tx.outs[VoutOf(tx, script)].script = script
<1> DEFINE I == {i \in 1 .. Len(tx.outs) : tx.outs[i].script = script}
<1>1. tx.outs \in Seq(Outputs) /\ Len(tx.outs) \in Nat
  BY DEF Psbts
<1>2. I # {} /\ I \in SUBSET (1 .. Len(tx.outs))
  BY <1>1
<1>3. VoutOf(tx, script) = Min(I)
  BY <1>2 DEF VoutOf, SelectInSeq
<1>4. Min(I) \in I
  <2> HIDE DEF I
  <2> QED
    BY <1>1, <1>2, MinOfInterval
<1> QED
  BY <1>3, <1>4

(* An output of another value.                                              *)
WithValue(outs, i, v) == [outs EXCEPT ![i].value = v]

LEMMA ValueSet ==
  ASSUME NEW outs \in Seq(Outputs), NEW i \in 1 .. Len(outs), NEW v \in Nat
  PROVE  LET t == WithValue(outs, i, v) IN
         /\ t \in Seq(Outputs) /\ Len(t) = Len(outs)
         /\ \A k \in 1 .. Len(outs) : t[k].script = outs[k].script
         /\ \A k \in 1 .. Len(outs) : t[k].value = IF k = i THEN v ELSE outs[k].value
         /\ SumOf(OutValue, t) = SumOf(OutValue, outs) - outs[i].value + v
         /\ SumOf(OutWeighs, t) = SumOf(OutWeighs, outs)
         /\ \A scripts : SumOf(Pays(scripts), t)
               = SumOf(Pays(scripts), outs)
                 + (IF outs[i].script \in scripts THEN v - outs[i].value ELSE 0)
<1> DEFINE o == [outs[i] EXCEPT !.value = v]
           t == WithValue(outs, i, v)
<1>1. outs[i] \in Outputs /\ outs[i].value \in Nat
  <2>1. outs[i] \in Outputs
    OBVIOUS
  <2> QED
    BY <2>1 DEF Outputs
<1>2. o \in Outputs /\ o.script = outs[i].script /\ o.value = v
  BY <1>1 DEF Outputs
<1>3. t = [outs EXCEPT ![i] = o]
  BY DEF WithValue
<1> HIDE DEF o, t
<1>4. /\ t \in Seq(Outputs) /\ Len(t) = Len(outs)
      /\ \A k \in 1 .. Len(outs) : t[k] = IF k = i THEN o ELSE outs[k]
  BY <1>2, <1>3
<1>5. ASSUME NEW F \in [Outputs -> Int]
      PROVE  SumOf(F, t) = SumOf(F, outs) - F[outs[i]] + F[o] /\ SumOf(F, outs) \in Int
  <2>1. SumOf(F, outs) \in Int
    BY <1>5, SumOfType
  <2>2. SumOf(F, t) = SumOf(F, outs) - F[outs[i]] + F[o]
    <3>1. t \in Seq(Outputs) /\ t[i] = o
      BY <1>4
    <3>2. SameBut(outs, t, i)
      BY <1>4 DEF SameBut
    <3> QED
      BY <1>5, <3>1, <3>2, SumOfChanged, SMTT(30)
  <2> QED
    BY <1>3, <2>1, <2>2
<1>6. /\ SumOf(OutValue, t) = SumOf(OutValue, outs) - outs[i].value + v
      /\ SumOf(OutWeighs, t) = SumOf(OutWeighs, outs)
  <2>1. OutValue[o] = v /\ OutValue[outs[i]] = outs[i].value
    BY <1>1, <1>2 DEF OutValue
  <2>2. OutWeighs[o] = OutWeighs[outs[i]] /\ OutWeighs[o] \in Int
    <3>1. OutWeighs[o] = OutWeighs[outs[i]]
      BY <1>1, <1>2 DEF OutWeighs
    <3> QED
      BY <1>2, <3>1, MeasuresInt
  <2>3. /\ SumOf(OutValue, t) = SumOf(OutValue, outs) - OutValue[outs[i]] + OutValue[o]
        /\ SumOf(OutWeighs, t) = SumOf(OutWeighs, outs) - OutWeighs[outs[i]] + OutWeighs[o]
        /\ SumOf(OutWeighs, outs) \in Int
    BY <1>5, MeasuresInt
  <2> QED
    BY <2>1, <2>2, <2>3
<1>7. ASSUME NEW scripts
      PROVE  SumOf(Pays(scripts), t)
               = SumOf(Pays(scripts), outs)
                 + (IF outs[i].script \in scripts THEN v - outs[i].value ELSE 0)
  <2>1. Pays(scripts) \in [Outputs -> Int]
    BY PaysNat
  <2>2. /\ Pays(scripts)[o] = IF outs[i].script \in scripts THEN v ELSE 0
        /\ Pays(scripts)[outs[i]] = IF outs[i].script \in scripts THEN outs[i].value ELSE 0
    BY <1>1, <1>2 DEF Pays
  <2>3. /\ SumOf(Pays(scripts), t)
            = SumOf(Pays(scripts), outs) - Pays(scripts)[outs[i]] + Pays(scripts)[o]
        /\ SumOf(Pays(scripts), outs) \in Int
    BY <1>5, <2>1
  <2> QED
    BY <1>1, <2>2, <2>3
<1>8. \A k \in 1 .. Len(outs) : /\ t[k].script = outs[k].script
                              /\ t[k].value = IF k = i THEN v ELSE outs[k].value
  BY <1>2, <1>4
<1> QED
  BY <1>4, <1>6, <1>7, <1>8 DEF t
=============================================================================
