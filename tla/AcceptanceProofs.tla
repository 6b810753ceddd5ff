-------------------------- MODULE AcceptanceProofs --------------------------
(***************************************************************************)
(* That the sender accepts what the receiver finalises, but for the named  *)
(* exemptions, for every Original and every choice both sides have.        *)
(***************************************************************************)
EXTENDS NegotiationProofs

(* The ways to place n elements among m in their order.                     *)
Embeddings(n, m) ==
    {f \in [1 .. n -> 1 .. m] : \A i, j \in 1 .. n : i < j => f[i] < f[j]}

Misses(f, k) == \A i \in DOMAIN f : f[i] # k

Then(f, h) == [i \in DOMAIN f |-> h[f[i]]]

LEMMA ThenIs ==
  ASSUME NEW n \in Nat, NEW m \in Nat, NEW l \in Nat,
         NEW f \in Embeddings(n, m), NEW h \in Embeddings(m, l)
  PROVE  /\ Then(f, h) \in Embeddings(n, l)
         /\ \A i \in 1 .. n : Then(f, h)[i] = h[f[i]]
         /\ \A k : Misses(Then(f, h), k) =>
               \/ Misses(h, k)
               \/ \E j \in 1 .. m : h[j] = k /\ Misses(f, j)
<1> DEFINE t == Then(f, h)
<1>1. /\ f \in [1 .. n -> 1 .. m] /\ \A i, j \in 1 .. n : i < j => f[i] < f[j]
      /\ h \in [1 .. m -> 1 .. l] /\ \A i, j \in 1 .. m : i < j => h[i] < h[j]
  BY DEF Embeddings
<1>2. DOMAIN t = 1 .. n /\ \A i \in 1 .. n : t[i] = h[f[i]] /\ f[i] \in 1 .. m
  BY <1>1 DEF Then
<1> HIDE DEF t
<1>3. t \in [1 .. n -> 1 .. l]
  <2>1. t = [i \in 1 .. n |-> h[f[i]]]
    BY <1>1 DEF Then, t
  <2> QED
    BY <1>1, <1>2, <2>1
<1>4. ASSUME NEW i \in 1 .. n, NEW j \in 1 .. n, i < j PROVE t[i] < t[j]
  <2>1. f[i] < f[j]
    BY <1>1, <1>4
  <2> QED
    BY <1>1, <1>2, <2>1
<1>5. t \in Embeddings(n, l)
  BY <1>3, <1>4 DEF Embeddings
<1>6. ASSUME NEW k, Misses(t, k), ~Misses(h, k)
      PROVE  \E j \in 1 .. m : h[j] = k /\ Misses(f, j)
  <2>1. PICK j \in 1 .. m : h[j] = k
    BY <1>1, <1>6 DEF Misses
  <2>2. \A i \in 1 .. n : f[i] # j
    BY <1>2, <1>6, <2>1 DEF Misses
  <2>3. Misses(f, j)
    BY <1>1, <2>2 DEF Misses
  <2> QED
    BY <2>1, <2>3
<1> QED
  BY <1>2, <1>5, <1>6 DEF t

(* s in its order in t, and the rest of t from S.                           *)
SpreadBy(h, s, t, S) ==
    /\ h \in Embeddings(Len(s), Len(t))
    /\ \A i \in 1 .. Len(s) : t[h[i]] = s[i]
    /\ \A k \in 1 .. Len(t) : Misses(h, k) => t[k] \in S
Spread(s, t, S) == \E h \in Embeddings(Len(s), Len(t)) : SpreadBy(h, s, t, S)

LEMMA SpreadSelf ==
  ASSUME NEW D, NEW s \in Seq(D), NEW S
  PROVE  SpreadBy([i \in 1 .. Len(s) |-> i], s, s, S)
<1> DEFINE h == [i \in 1 .. Len(s) |-> i]
<1>1. Len(s) \in Nat
  OBVIOUS
<1>2. h \in Embeddings(Len(s), Len(s)) /\ \A i \in 1 .. Len(s) : h[i] = i
  BY <1>1 DEF Embeddings
<1>3. \A k \in 1 .. Len(s) : ~Misses(h, k)
  BY DEF Misses
<1> QED
  BY <1>2, <1>3 DEF SpreadBy

LEMMA SpreadInsert ==
  ASSUME NEW D, NEW s \in Seq(D), NEW u \in Seq(D), NEW S, NEW x \in D, x \in S,
         Spread(s, u, S), NEW i \in 1 .. Len(u) + 1
  PROVE  InsertAt(u, i, x) \in Seq(D) /\ Spread(s, InsertAt(u, i, x), S)
<1> DEFINE n == Len(s)
           m == Len(u)
           v == InsertAt(u, i, x)
<1>1. n \in Nat /\ m \in Nat
  OBVIOUS
<1>2. /\ v \in Seq(D) /\ Len(v) = m + 1
      /\ \A k \in 1 .. m + 1 :
            v[k] = IF k < i THEN u[k] ELSE IF k = i THEN x ELSE u[k - 1]
  <2>1. InsertAt(u, i, x) \in Seq(D) /\ Len(InsertAt(u, i, x)) = Len(u) + 1
    BY InsertedElements
  <2>2. ASSUME NEW k \in 1 .. Len(u) + 1
        PROVE  InsertAt(u, i, x)[k] = IF k < i THEN u[k] ELSE IF k = i THEN x ELSE u[k - 1]
    BY InsertedElements, SMTT(40)
  <2> QED
    BY <2>1, <2>2
<1>3. PICK f \in Embeddings(n, m) :
         /\ \A j \in 1 .. n : u[f[j]] = s[j]
         /\ \A k \in 1 .. m : Misses(f, k) => u[k] \in S
  BY DEF Spread, SpreadBy
<1> HIDE DEF v, n, m
<1>4. f \in [1 .. n -> 1 .. m] /\ \A j, k \in 1 .. n : j < k => f[j] < f[k]
  BY <1>3 DEF Embeddings
<1> DEFINE h == [j \in 1 .. n |-> IF f[j] < i THEN f[j] ELSE f[j] + 1]
<1>5. i \in 1 .. m + 1
  BY DEF m
<1>6. ASSUME NEW j \in 1 .. n
      PROVE  /\ h[j] = IF f[j] < i THEN f[j] ELSE f[j] + 1
             /\ f[j] \in 1 .. m /\ h[j] \in 1 .. m + 1 /\ h[j] # i
  <2>1. f[j] \in 1 .. m
    BY <1>4
  <2> QED
    BY <1>1, <1>5, <2>1
<1>7. DOMAIN h = 1 .. n /\ h \in [1 .. n -> 1 .. m + 1]
  BY <1>6
<1> HIDE DEF h
<1>8. h \in Embeddings(n, m + 1)
  <2>1. ASSUME NEW j \in 1 .. n, NEW k \in 1 .. n, j < k PROVE h[j] < h[k]
    <3>1. f[j] < f[k] /\ f[j] \in 1 .. m /\ f[k] \in 1 .. m
      BY <1>4, <1>6, <2>1
    <3>2. /\ h[j] = IF f[j] < i THEN f[j] ELSE f[j] + 1
          /\ h[k] = IF f[k] < i THEN f[k] ELSE f[k] + 1
      BY <1>6
    <3> QED
      BY <1>1, <1>5, <3>1, <3>2
  <2> QED
    BY <1>7, <2>1 DEF Embeddings
<1>9. ASSUME NEW j \in 1 .. n PROVE v[h[j]] = s[j]
  <2>1. u[f[j]] = s[j]
    BY <1>3
  <2>2. CASE f[j] < i
    <3>1. h[j] = f[j] /\ h[j] \in 1 .. m + 1
      BY <1>6, <2>2
    <3> QED
      BY <1>2, <2>1, <2>2, <3>1
  <2>3. CASE ~(f[j] < i)
    <3>1. h[j] = f[j] + 1 /\ h[j] \in 1 .. m + 1 /\ f[j] \in 1 .. m
      BY <1>6, <2>3
    <3>2. ~(h[j] < i) /\ h[j] # i /\ h[j] - 1 = f[j]
      BY <1>5, <2>3, <3>1
    <3> QED
      BY <1>2, <2>1, <3>1, <3>2
  <2> QED
    BY <2>2, <2>3
<1>10. ASSUME NEW k \in 1 .. m + 1, Misses(h, k) PROVE v[k] \in S
  <2>0. \A j \in 1 .. n : h[j] # k
    BY <1>7, <1>10 DEF Misses
  <2>1. CASE k = i
    BY <1>2, <2>1
  <2>2. CASE k < i
    <3>1. k \in 1 .. m /\ v[k] = u[k]
      BY <1>1, <1>2, <1>5, <2>2
    <3>2. ASSUME NEW j \in 1 .. n PROVE f[j] # k
      BY <1>6, <2>0, <2>2
    <3>3. Misses(f, k)
      BY <1>4, <3>2 DEF Misses
    <3> QED
      BY <1>3, <3>1, <3>3
  <2>3. CASE k > i
    <3>1. k - 1 \in 1 .. m /\ v[k] = u[k - 1] /\ (k - 1) + 1 = k /\ ~(k - 1 < i)
      BY <1>1, <1>2, <1>5, <2>3
    <3>2. ASSUME NEW j \in 1 .. n PROVE f[j] # k - 1
      BY <1>6, <2>0, <3>1
    <3>3. Misses(f, k - 1)
      BY <1>4, <3>2 DEF Misses
    <3> QED
      BY <1>3, <3>1, <3>3
  <2> QED
    BY <1>5, <2>1, <2>2, <2>3
<1> QED
  BY <1>2, <1>8, <1>9, <1>10 DEF Spread, SpreadBy, v, n, m

LEMMA InsertedSpread ==
  ASSUME NEW D, NEW s \in Seq(D), NEW list \in Seq(D), NEW last \in Nat,
         NEW t \in Inserted(s, list, last)
  PROVE  t \in Seq(D) /\ Spread(s, t, {list[l] : l \in 1 .. Len(list)})
<1> DEFINE S == {list[l] : l \in 1 .. Len(list)}
           P == [k \in 0 .. Len(list) |-> {u \in Seq(D) : Spread(s, u, S)}]
<1>0. Len(list) \in Nat
  OBVIOUS
<1>1. s \in P[0]
  <2>1. SpreadBy([i \in 1 .. Len(s) |-> i], s, s, S)
    <3> HIDE DEF S
    <3> QED
      BY SpreadSelf
  <2>2. Spread(s, s, S)
    BY <2>1 DEF Spread, SpreadBy
  <2> QED
    BY <1>0, <2>2
<1>2. ASSUME NEW k \in 0 .. Len(list) - 1, NEW u \in P[k], NEW i \in 1 .. Len(u) + 1
      PROVE  InsertAt(u, i, list[k + 1]) \in P[k + 1]
  <2>1. u \in Seq(D) /\ Spread(s, u, S) /\ k + 1 \in 0 .. Len(list)
    BY <1>0
  <2>2. list[k + 1] \in D /\ list[k + 1] \in S
    BY <1>0
  <2> HIDE DEF S, P
  <2>3. InsertAt(u, i, list[k + 1]) \in Seq(D) /\ Spread(s, InsertAt(u, i, list[k + 1]), S)
    BY <2>1, <2>2, SpreadInsert
  <2> QED
    BY <2>1, <2>3 DEF P
<1> HIDE DEF P, S
<1>3. t \in P[Len(list)]
  BY <1>1, <1>2, InsertedAll
<1> QED
  BY <1>0, <1>3 DEF P, S

-----------------------------------------------------------------------------
(* A walk over m places that counts the elements it comes by.               *)
Walked(f, k, c) == \A i \in DOMAIN f : i < c <=> f[i] < k

LEMMA WalkOn ==
  ASSUME NEW n \in Nat, NEW m \in Nat, NEW f \in Embeddings(n, m),
         NEW k \in 1 .. m, NEW c \in 1 .. n + 1, Walked(f, k, c)
  PROVE  IF c <= n /\ f[c] = k THEN Walked(f, k + 1, c + 1)
                               ELSE Misses(f, k) /\ Walked(f, k + 1, c)
<1>1. f \in [1 .. n -> 1 .. m] /\ \A i, j \in 1 .. n : i < j => f[i] < f[j]
  BY DEF Embeddings
<1>2. \A i \in 1 .. n : f[i] \in 1 .. m /\ (i < c <=> f[i] < k)
  BY <1>1 DEF Walked
<1>3. CASE c <= n /\ f[c] = k
  <2>1. ASSUME NEW i \in 1 .. n PROVE i < c + 1 <=> f[i] < k + 1
    <3>1. i < c => f[i] < k
      BY <1>2
    <3>2. i > c => f[i] > k
      BY <1>1, <1>3
    <3> QED
      BY <1>2, <1>3, <3>1, <3>2
  <2> QED
    BY <1>1, <1>3, <2>1 DEF Walked
<1>4. CASE ~(c <= n /\ f[c] = k)
  <2>1. ASSUME NEW i \in 1 .. n PROVE f[i] # k
    <3>1. CASE i < c
      BY <1>2, <3>1
    <3>2. CASE i = c
      BY <1>4, <3>2
    <3>3. CASE i > c
      <4>1. c \in 1 .. n /\ f[c] < f[i] /\ ~(f[c] < k)
        BY <1>1, <1>2, <3>3
      <4> QED
        BY <1>2, <4>1
    <3> QED
      BY <3>1, <3>2, <3>3
  <2>2. \A i \in 1 .. n : i < c <=> f[i] < k + 1
    BY <1>2, <2>1
  <2> QED
    BY <1>1, <1>4, <2>1, <2>2 DEF Walked, Misses
<1> QED
  BY <1>3, <1>4

(* It has come by all of them at its end.                                   *)
LEMMA WalkEnds ==
  ASSUME NEW n \in Nat, NEW m \in Nat, NEW f \in Embeddings(n, m),
         NEW c \in 1 .. n + 1, Walked(f, m + 1, c)
  PROVE  c = n + 1
<1>1. CASE c <= n
  <2>1. c \in 1 .. n /\ f[c] \in 1 .. m /\ DOMAIN f = 1 .. n
    BY <1>1 DEF Embeddings
  <2>2. c < c
    BY <2>1 DEF Walked
  <2> QED
    BY <2>2
<1> QED
  BY <1>1

-----------------------------------------------------------------------------
(* The inputs.                                                              *)

SameInput(in, old) == in.coin = old.coin /\ in.script = old.script /\ in.seq = old.seq

Theirs(tx, in) ==
    /\ \A i \in 1 .. Len(tx.ins) : in.coin # tx.ins[i].coin
    /\ in.script \notin SpentScripts(tx)
    /\ in.seq = tx.ins[1].seq

(* The inputs of tx are among ins where f says, the others are the          *)
(* receiver's.                                                              *)
InsAt(tx, ins, f) ==
    /\ f \in Embeddings(Len(tx.ins), Len(ins))
    /\ \A i \in 1 .. Len(tx.ins) : SameInput(ins[f[i]], tx.ins[i])
    /\ \A k \in 1 .. Len(ins) : Misses(f, k) => Theirs(tx, ins[k])

SignedAt(ins, f) == \A k \in 1 .. Len(ins) : ins[k].final <=> Misses(f, k)

LEMMA InsAtStart ==
  ASSUME NEW tx \in Psbts
  PROVE  \E f \in Embeddings(Len(tx.ins), Len(tx.ins)) : InsAt(tx, tx.ins, f)
<1> DEFINE f == [i \in 1 .. Len(tx.ins) |-> i]
<1>1. tx.ins \in Seq(Inputs)
  BY DEF Psbts
<1> HIDE DEF f
<1>2. SpreadBy(f, tx.ins, tx.ins, {})
  BY <1>1, SpreadSelf DEF f
<1> QED
  BY <1>2 DEF SpreadBy, InsAt, SameInput

LEMMA InsAtMore ==
  ASSUME NEW tx \in Psbts, NEW ins \in Seq(Inputs), NEW t \in Seq(Inputs), NEW S,
         NEW f \in Embeddings(Len(tx.ins), Len(ins)), InsAt(tx, ins, f),
         Spread(ins, t, S), \A x \in S : Theirs(tx, x)
  PROVE  \E g \in Embeddings(Len(tx.ins), Len(t)) : InsAt(tx, t, g)
<1> DEFINE n == Len(tx.ins)
<1>1. n \in Nat /\ Len(ins) \in Nat /\ Len(t) \in Nat
  BY DEF Psbts
<1>2. PICK h \in Embeddings(Len(ins), Len(t)) : SpreadBy(h, ins, t, S)
  BY DEF Spread
<1>3. /\ \A i \in 1 .. Len(ins) : t[h[i]] = ins[i]
      /\ \A k \in 1 .. Len(t) : Misses(h, k) => t[k] \in S
  BY <1>2 DEF SpreadBy
<1> DEFINE g == Then(f, h)
<1>4. /\ g \in Embeddings(n, Len(t))
      /\ \A i \in 1 .. n : g[i] = h[f[i]] /\ f[i] \in 1 .. Len(ins)
      /\ \A k : Misses(g, k) =>
            Misses(h, k) \/ \E j \in 1 .. Len(ins) : h[j] = k /\ Misses(f, j)
  <2>1. \A i \in 1 .. n : f[i] \in 1 .. Len(ins)
    BY DEF Embeddings
  <2> QED
    BY <1>1, <1>2, <2>1, ThenIs
<1> HIDE DEF g
<1>5. ASSUME NEW i \in 1 .. n PROVE SameInput(t[g[i]], tx.ins[i])
  BY <1>3, <1>4 DEF InsAt
<1>6. ASSUME NEW k \in 1 .. Len(t), Misses(g, k) PROVE Theirs(tx, t[k])
  <2>1. CASE Misses(h, k)
    BY <1>3, <2>1
  <2>2. CASE \E j \in 1 .. Len(ins) : h[j] = k /\ Misses(f, j)
    BY <1>3, <2>2 DEF InsAt
  <2> QED
    BY <1>4, <1>6, <2>1, <2>2
<1> QED
  BY <1>4, <1>5, <1>6 DEF InsAt

(* What a walk over them by the coins they spend takes for the Original's.  *)
LEMMA CoinsMatch ==
  ASSUME NEW tx \in Psbts, NEW ins \in Seq(Inputs),
         NEW f \in Embeddings(Len(tx.ins), Len(ins)), InsAt(tx, ins, f),
         NEW k \in 1 .. Len(ins), NEW c \in 1 .. Len(tx.ins) + 1, Walked(f, k, c)
  PROVE  c <= Len(tx.ins) => (ins[k].coin = tx.ins[c].coin <=> f[c] = k)
<1> HAVE c <= Len(tx.ins)
<1>1. Len(tx.ins) \in Nat /\ Len(ins) \in Nat
  BY DEF Psbts
<1>2. c \in 1 .. Len(tx.ins)
  BY <1>1
<1>3. CASE f[c] = k
  BY <1>2, <1>3 DEF InsAt, SameInput
<1>4. CASE f[c] # k
  <2>1. Misses(f, k)
    BY <1>1, <1>4, WalkOn
  <2> QED
    BY <1>2, <1>4, <2>1 DEF InsAt, Theirs
<1> QED
  BY <1>3, <1>4

(* One step of the walk of MatchedInputs.                                   *)
Match(tx, ins, acc, i) ==
    IF /\ acc.next <= Len(tx.ins)
       /\ ins[i].coin = tx.ins[acc.next].coin
    THEN [next |-> acc.next + 1, at |-> acc.at \cup {i}]
    ELSE acc

(* How far it has come after k inputs.                                      *)
Matches(n, m) == [next : 1 .. n + 1, at : SUBSET (1 .. m)]
MatchedTo(tx, f, k, acc) ==
    /\ Walked(f, k + 1, acc.next)
    /\ \A i \in acc.at : i <= k
    /\ \A i \in 1 .. k : i \notin acc.at <=> Misses(f, i)

LEMMA MatchOne ==
  ASSUME NEW tx \in Psbts, NEW ins \in Seq(Inputs),
         NEW f \in Embeddings(Len(tx.ins), Len(ins)), InsAt(tx, ins, f),
         NEW k \in 0 .. Len(ins) - 1, NEW acc \in Matches(Len(tx.ins), Len(ins)),
         MatchedTo(tx, f, k, acc)
  PROVE  MatchedTo(tx, f, k + 1, Match(tx, ins, acc, k + 1))
<1> DEFINE n == Len(tx.ins)
           m == Len(ins)
           c == acc.next
<1>1. n \in Nat /\ m \in Nat /\ k + 1 \in 1 .. m /\ c \in 1 .. n + 1
  BY DEF Psbts, Matches
<1>2. acc.at \in SUBSET (1 .. m)
  BY DEF Matches
<1>3. /\ Walked(f, k + 1, c)
      /\ \A i \in acc.at : i <= k
      /\ \A i \in 1 .. k : i \notin acc.at <=> Misses(f, i)
  BY DEF MatchedTo
<1>4. c <= n => (ins[k + 1].coin = tx.ins[c].coin <=> f[c] = k + 1)
  BY <1>1, <1>3, CoinsMatch
<1>5. IF c <= n /\ f[c] = k + 1 THEN Walked(f, (k + 1) + 1, c + 1)
                                      ELSE Misses(f, k + 1) /\ Walked(f, (k + 1) + 1, c)
  <2> HIDE DEF c, n, m
  <2>1. f \in Embeddings(n, m)
    BY DEF n, m
  <2> QED
    BY <1>1, <1>3, <2>1, WalkOn
<1>6. CASE c <= n /\ f[c] = k + 1
  <2>1. Match(tx, ins, acc, k + 1) = [next |-> c + 1, at |-> acc.at \cup {k + 1}]
    BY <1>4, <1>6 DEF Match
  <2>2. ~Misses(f, k + 1)
    <3>1. c \in DOMAIN f
      BY <1>1, <1>6 DEF Embeddings
    <3> QED
      BY <1>6, <3>1 DEF Misses
  <2>3. \A i \in acc.at \cup {k + 1} : i <= k + 1
    BY <1>2, <1>3
  <2>4. \A i \in 1 .. k + 1 : i \notin acc.at \cup {k + 1} <=> Misses(f, i)
    <3> TAKE i \in 1 .. k + 1
    <3>1. i \in 1 .. k \/ i = k + 1
      OBVIOUS
    <3>2. i \in 1 .. k => i # k + 1
      OBVIOUS
    <3> QED
      BY <1>3, <2>2, <3>1, <3>2
  <2> QED
    BY <1>5, <1>6, <2>1, <2>3, <2>4 DEF MatchedTo
<1>7. CASE ~(c <= n /\ f[c] = k + 1)
  <2>1. Match(tx, ins, acc, k + 1) = acc
    BY <1>4, <1>7 DEF Match
  <2>2. \A i \in acc.at : i <= k + 1
    BY <1>2, <1>3
  <2>3. \A i \in 1 .. k + 1 : i \notin acc.at <=> Misses(f, i)
    <3> TAKE i \in 1 .. k + 1
    <3>1. i \in 1 .. k \/ i = k + 1
      OBVIOUS
    <3>2. k + 1 \notin acc.at
      BY <1>3
    <3> QED
      BY <1>3, <1>5, <1>7, <3>1, <3>2
  <2> QED
    BY <1>5, <1>7, <2>1, <2>2, <2>3 DEF MatchedTo
<1> QED
  BY <1>6, <1>7

LEMMA MatchedAre ==
  ASSUME NEW tx \in Psbts, NEW new \in Psbts,
         NEW f \in Embeddings(Len(tx.ins), Len(new.ins)), InsAt(tx, new.ins, f)
  PROVE  \A i \in 1 .. Len(new.ins) : i \notin MatchedInputs(tx, new) <=> Misses(f, i)
<1> DEFINE ins == new.ins
           n == Len(tx.ins)
           m == Len(ins)
           Q == Matches(n, m)
           list == [i \in 1 .. Len(new.ins) |-> i]
           base == [next |-> 1, at |-> {}]
           Step(acc, i) == Match(tx, ins, acc, i)
           iter == CHOOSE g : g = [t \in SUBSET (1 .. m) |->
                     IF t = {} THEN base ELSE Step(g[t \ {Max(t)}], list[Max(t)])]
           step == [p \in (1 .. m) \X Q |-> Step(p[2], p[1])]
<1>1. /\ n \in Nat /\ m \in Nat /\ DOMAIN list = 1 .. m
      /\ \A i \in 1 .. m : list[i] = i
  BY DEF Psbts
<1>2. MatchedInputs(tx, new) = iter[1 .. m].at
  BY <1>1 DEF MatchedInputs, FoldLeft, MapThenFoldSet, Match
<1>3. base \in Q /\ MatchedTo(tx, f, 0, base)
  <2>1. f \in [1 .. n -> 1 .. m]
    BY DEF Embeddings
  <2>2. Walked(f, 0 + 1, 1)
    BY <1>1, <2>1 DEF Walked
  <2>3. base \in Q
    BY <1>1 DEF Matches
  <2> QED
    BY <2>2, <2>3 DEF MatchedTo
<1>4. ins \in Seq(Inputs)
  BY DEF Psbts
<1>5. ASSUME NEW acc \in Q, NEW i \in 1 .. m PROVE Step(acc, i) \in Q
  BY <1>1 DEF Matches, Match
<1> HIDE DEF list, base, Step
<1>6. iter = [t \in SUBSET (1 .. m) |->
                IF t = {} THEN base ELSE Step(iter[t \ {Max(t)}], list[Max(t)])]
  <2>1. step \in [(1 .. m) \X Q -> Q]
    <3> HIDE DEF Q, m
    <3> QED
      BY <1>5
  <2>2. PICK g \in [SUBSET (1 .. m) -> Q] :
          \A t \in SUBSET (1 .. m) :
             g[t] = IF t = {} THEN base ELSE step[<<Max(t), g[t \ {Max(t)}]>>]
    <3> HIDE DEF step, m, Q
    <3>2. FoldSolutions(m, Q, base, step) # {}
      BY <1>1, <1>3, <2>1, FoldExists
    <3> QED
      BY <3>2 DEF FoldSolutions
  <2> HIDE DEF Q, m
  <2>3. ASSUME NEW t \in SUBSET (1 .. m)
        PROVE  g[t] = IF t = {} THEN base ELSE Step(g[t \ {Max(t)}], list[Max(t)])
    <3>1. CASE t = {}
      BY <2>2, <3>1
    <3>2. CASE t # {}
      <4>1. Max(t) \in 1 .. m
        BY <1>1, <3>2, MaxOfInterval
      <4>2. g[t \ {Max(t)}] \in Q
        OBVIOUS
      <4>3. <<Max(t), g[t \ {Max(t)}]>> \in (1 .. m) \X Q
        BY <4>1, <4>2
      <4> QED
        BY <1>1, <2>2, <3>2, <4>1, <4>3
    <3> QED
      BY <3>1, <3>2
  <2>4. g = [t \in SUBSET (1 .. m) |->
               IF t = {} THEN base ELSE Step(g[t \ {Max(t)}], list[Max(t)])]
    BY <2>3
  <2> QED
    BY <2>4
<1> HIDE DEF iter, Q
<1> DEFINE S == {k \in 0 .. m : iter[1 .. k] \in Q /\ MatchedTo(tx, f, k, iter[1 .. k])}
<1> HIDE DEF n, m, ins
<1>7. 0 \in S
  <2>1. 1 .. 0 \in SUBSET (1 .. m) /\ 1 .. 0 = {} /\ 0 \in 0 .. m
    BY <1>1
  <2>2. iter[1 .. 0] = base
    BY <1>6, <2>1
  <2> QED
    BY <1>3, <2>1, <2>2
<1>8. ASSUME NEW k \in 0 .. m - 1, k \in S PROVE k + 1 \in S
  <2>1. k \in Nat /\ 1 .. k + 1 \in SUBSET (1 .. m) /\ k + 1 \in 1 .. m /\ k + 1 \in 0 .. m
    BY <1>1
  <2>2. 1 .. k + 1 # {} /\ Max(1 .. k + 1) = k + 1 /\ (1 .. k + 1) \ {k + 1} = 1 .. k
    BY <2>1, IntervalGrows
  <2>3. iter[1 .. k + 1] = Step(iter[1 .. k], k + 1)
    <3>1. list[k + 1] = k + 1
      BY <1>1, <2>1
    <3>2. iter[1 .. k + 1] = Step(iter[1 .. k], list[k + 1])
      BY <1>6, <2>1, <2>2
    <3> QED
      BY <3>1, <3>2
  <2>4. iter[1 .. k] \in Q /\ MatchedTo(tx, f, k, iter[1 .. k])
    BY <1>8
  <2>5. Step(iter[1 .. k], k + 1) \in Q
    BY <1>5, <2>1, <2>4
  <2>6. MatchedTo(tx, f, k + 1, Step(iter[1 .. k], k + 1))
    BY <1>4, <2>4, MatchOne DEF Step, Q, n, m, ins
  <2> QED
    BY <2>1, <2>3, <2>5, <2>6
<1>9. m \in S
  <2>1. 0 .. m \subseteq S
    <3> HIDE DEF S
    <3> QED
      BY <1>1, <1>7, <1>8, UpTo
  <2> QED
    BY <1>1, <2>1
<1> QED
  BY <1>2, <1>9 DEF MatchedTo, m, ins

-----------------------------------------------------------------------------
(* What they weigh: those that spend the scripts of tx, and the others.     *)
Ours(tx, w) == [i \in Inputs |-> IF i.script \in SpentScripts(tx) THEN w[i.script] ELSE 0]
OursWeigh(tx, w, ins) == SumOf(Ours(tx, w), ins)

TheirsOf(tx) ==
    [i \in Inputs |-> IF i.script \in SpentScripts(tx) THEN 0 ELSE InWeight[i.script]]

SignedWeighs ==
    [i \in Inputs |-> IF i.final THEN InWeight[i.script] ELSE BareWeight[i.script]]

LEMMA WeighsInt ==
  ASSUME NEW tx
  PROVE  /\ \A w \in {InWeight, BareWeight} : Ours(tx, w) \in [Inputs -> Int]
         /\ TheirsOf(tx) \in [Inputs -> Int] /\ SignedWeighs \in [Inputs -> Int]
         /\ InWeighs \in [Inputs -> Int]
BY WeightsAssumption DEF Ours, TheirsOf, SignedWeighs, InWeighs, Inputs

LEMMA OursAdded ==
  ASSUME NEW tx, NEW w \in {InWeight, BareWeight}, NEW ins \in Seq(Inputs),
         NEW list \in Seq(Inputs), NEW last \in Nat, NEW t \in Inserted(ins, list, last),
         \A l \in 1 .. Len(list) : list[l].script \notin SpentScripts(tx)
  PROVE  OursWeigh(tx, w, t) = OursWeigh(tx, w, ins)
<1> DEFINE F == Ours(tx, w)
<1>1. F \in [Inputs -> Int]
  BY WeighsInt
<1>2. \A l \in 1 .. Len(list) : F[list[l]] = 0
  BY DEF Ours
<1> HIDE DEF F
<1>3. SumOf(F, t) = SumOf(F, ins) + SumOf(F, list)
  BY <1>1, SumOfInserted
<1>4. SumOf(F, list) = 0
  BY <1>1, <1>2, SumOfZeros
<1>5. SumOf(F, ins) \in Int
  BY <1>1, SumOfType
<1> QED
  BY <1>3, <1>4, <1>5 DEF OursWeigh, F

LEMMA OursSigned ==
  ASSUME NEW tx, NEW w \in {InWeight, BareWeight}, NEW ins \in Seq(Inputs),
         NEW t \in Seq(Inputs), Len(t) = Len(ins),
         \A k \in 1 .. Len(ins) : t[k].script = ins[k].script
  PROVE  OursWeigh(tx, w, t) = OursWeigh(tx, w, ins)
<1> DEFINE F == Ours(tx, w)
<1>1. F \in [Inputs -> Int]
  BY WeighsInt
<1>2. \A k \in 1 .. Len(ins) : F[ins[k]] = F[t[k]]
  <2> TAKE k \in 1 .. Len(ins)
  <2>1. ins[k] \in Inputs /\ t[k] \in Inputs
    OBVIOUS
  <2> QED
    BY <2>1 DEF Ours
<1> HIDE DEF F
<1>3. SumOf(F, ins) = SumOf(F, t)
  BY <1>1, <1>2, SumOfSame, ZenonT(60)
<1> QED
  BY <1>3 DEF OursWeigh, F

(* Two functions that agree on a sequence have one sum over it.             *)
LEMMA SumOfAgree ==
  ASSUME NEW F, NEW G, NEW s, \A i \in DOMAIN s : F[s[i]] = G[s[i]]
  PROVE  SumOf(F, s) = SumOf(G, s)
BY DEF SumOf, Values

LEMMA SumOfLeq ==
  ASSUME NEW D, NEW F \in [D -> Int], NEW G \in [D -> Int], NEW s \in Seq(D),
         \A i \in 1 .. Len(s) : F[s[i]] <= G[s[i]]
  PROVE  SumOf(F, s) <= SumOf(G, s)
<1>1. /\ Values(F, s) \in Seq(Int) /\ Len(Values(F, s)) = Len(s)
      /\ \A i \in 1 .. Len(s) : Values(F, s)[i] = F[s[i]]
  BY ValuesAre, SMTT(30)
<1>2. /\ Values(G, s) \in Seq(Int) /\ Len(Values(G, s)) = Len(s)
      /\ \A i \in 1 .. Len(s) : Values(G, s)[i] = G[s[i]]
  BY ValuesAre, SMTT(30)
<1>3. \A i \in 1 .. Len(Values(F, s)) : Values(F, s)[i] <= Values(G, s)[i]
  BY <1>1, <1>2
<1> QED
  BY <1>1, <1>2, <1>3, SumLeq DEF SumOf

LEMMA SpentScriptsAre ==
  ASSUME NEW tx \in Psbts
  PROVE  \A i \in 1 .. Len(tx.ins) : tx.ins[i] \in Inputs /\ tx.ins[i].script \in SpentScripts(tx)
BY DEF Psbts, SpentScripts

(* What both sides take for the weight of the receiver's inputs.            *)
LEMMA TheirsWeigh ==
  ASSUME NEW tx \in Psbts, NEW new \in Psbts,
         OursWeigh(tx, InWeight, new.ins) = OursWeigh(tx, InWeight, tx.ins)
  PROVE  SumOf(TheirsOf(tx), new.ins) = InputsWeight(new) - InputsWeight(tx)
<1> DEFINE F == Ours(tx, InWeight)
           G == TheirsOf(tx)
<1>1. F \in [Inputs -> Int] /\ G \in [Inputs -> Int]
  BY WeighsInt
<1>2. /\ tx.ins \in Seq(Inputs) /\ new.ins \in Seq(Inputs)
      /\ InputsWeight(tx) = SumOf(InWeighs, tx.ins)
      /\ InputsWeight(new) = SumOf(InWeighs, new.ins)
  BY TotalsAre
<1>3. InWeighs = Both(Inputs, F, G)
  <2>1. \A i \in Inputs : InWeight[i.script] \in Int
    BY WeightsAssumption DEF Inputs
  <2> QED
    BY <2>1 DEF InWeighs, Both, Ours, TheirsOf
<1>4. \A i \in DOMAIN tx.ins : F[tx.ins[i]] = InWeighs[tx.ins[i]]
  BY <1>2, SpentScriptsAre DEF Ours, InWeighs
<1> HIDE DEF F, G
<1>5. SumOf(InWeighs, new.ins) = SumOf(F, new.ins) + SumOf(G, new.ins)
  <2>1. F \in [Inputs -> Int] /\ G \in [Inputs -> Int] /\ new.ins \in Seq(Inputs)
    BY <1>1, <1>2
  <2>2. SumOf(Both(Inputs, F, G), new.ins) = SumOf(F, new.ins) + SumOf(G, new.ins)
    BY <2>1, SumOfPlus, SMTT(30)
  <2> QED
    BY <1>3, <2>2
<1>6. SumOf(F, tx.ins) = SumOf(InWeighs, tx.ins)
  BY <1>4, SumOfAgree
<1>7. SumOf(F, new.ins) \in Int /\ SumOf(G, new.ins) \in Int
  BY <1>1, <1>2, SumOfType
<1>8. SumOf(F, new.ins) = SumOf(F, tx.ins)
  BY DEF OursWeigh, F
<1> QED
  BY <1>2, <1>5, <1>6, <1>7, <1>8 DEF G

(* Without its signatures an Original weighs no more.                       *)
LEMMA SignedWeigh ==
  ASSUME NEW tx \in Psbts, NEW new \in Psbts,
         OursWeigh(tx, BareWeight, new.ins) = OursWeigh(tx, BareWeight, tx.ins),
         NEW f \in Embeddings(Len(tx.ins), Len(new.ins)),
         InsAt(tx, new.ins, f), SignedAt(new.ins, f)
  PROVE  /\ SumOf(SignedWeighs, new.ins) \in Int /\ SumOf(SignedWeighs, tx.ins) \in Int
         /\ SumOf(SignedWeighs, new.ins)
              <= SumOf(SignedWeighs, tx.ins) + SumOf(TheirsOf(tx), new.ins)
<1> DEFINE F == Ours(tx, BareWeight)
           G == TheirsOf(tx)
<1>1. F \in [Inputs -> Int] /\ G \in [Inputs -> Int] /\ SignedWeighs \in [Inputs -> Int]
  BY WeighsInt
<1>2. /\ tx.ins \in Seq(Inputs) /\ new.ins \in Seq(Inputs)
      /\ DOMAIN new.ins = 1 .. Len(new.ins) /\ Len(new.ins) \in Nat
  BY DEF Psbts
<1>3. ASSUME NEW k \in 1 .. Len(new.ins)
      PROVE  SignedWeighs[new.ins[k]] = Both(Inputs, F, G)[new.ins[k]]
  <2>1. new.ins[k] \in Inputs
    BY <1>2
  <2>2. /\ InWeight[new.ins[k].script] \in Int /\ BareWeight[new.ins[k].script] \in Int
    BY <2>1, WeightsAssumption DEF Inputs
  <2>3. Both(Inputs, F, G)[new.ins[k]]
          = IF new.ins[k].script \in SpentScripts(tx) THEN BareWeight[new.ins[k].script]
                                                      ELSE InWeight[new.ins[k].script]
    BY <2>1, <2>2 DEF Both, Ours, TheirsOf
  <2>4. new.ins[k].final <=> new.ins[k].script \notin SpentScripts(tx)
    <3>1. CASE Misses(f, k)
      BY <3>1 DEF InsAt, SignedAt, Theirs
    <3>2. CASE ~Misses(f, k)
      <4>1. PICK i \in 1 .. Len(tx.ins) : f[i] = k
        BY <3>2 DEF Misses, Embeddings
      <4>2. new.ins[k].script = tx.ins[i].script
        BY <4>1 DEF InsAt, SameInput
      <4> QED
        BY <3>2, <4>2, SpentScriptsAre DEF SignedAt
    <3> QED
      BY <3>1, <3>2
  <2> QED
    BY <2>1, <2>3, <2>4 DEF SignedWeighs
<1>4. ASSUME NEW i \in 1 .. Len(tx.ins) PROVE F[tx.ins[i]] <= SignedWeighs[tx.ins[i]]
  <2>1. tx.ins[i] \in Inputs /\ tx.ins[i].script \in SpentScripts(tx)
    BY SpentScriptsAre
  <2>2. LET s == tx.ins[i].script
        IN InWeight[s] \in Int /\ BareWeight[s] \in Int /\ BareWeight[s] <= InWeight[s]
    BY <2>1, WeightsAssumption DEF Inputs
  <2> QED
    BY <2>1, <2>2 DEF Ours, SignedWeighs
<1> HIDE DEF F, G
<1>5. SumOf(SignedWeighs, new.ins) = SumOf(Both(Inputs, F, G), new.ins)
  <2>1. \A k \in DOMAIN new.ins : SignedWeighs[new.ins[k]] = Both(Inputs, F, G)[new.ins[k]]
    BY <1>2, <1>3
  <2> QED
    BY <2>1, SumOfAgree
<1>6. SumOf(Both(Inputs, F, G), new.ins) = SumOf(F, new.ins) + SumOf(G, new.ins)
  <2>1. F \in [Inputs -> Int] /\ G \in [Inputs -> Int] /\ new.ins \in Seq(Inputs)
    BY <1>1, <1>2
  <2> QED
    BY <2>1, SumOfPlus, SMTT(30)
<1>7. SumOf(F, tx.ins) <= SumOf(SignedWeighs, tx.ins)
  BY <1>1, <1>2, <1>4, SumOfLeq
<1>8. /\ SumOf(F, new.ins) \in Int /\ SumOf(G, new.ins) \in Int
      /\ SumOf(SignedWeighs, new.ins) \in Int /\ SumOf(SignedWeighs, tx.ins) \in Int
  BY <1>1, <1>2, SumOfType
<1>9. SumOf(F, new.ins) = SumOf(F, tx.ins)
  BY DEF OursWeigh, F
<1> QED
  BY <1>5, <1>6, <1>7, <1>8, <1>9 DEF G

(* The sums of Weight and of TheirWeight.                                   *)
LEMMA WeightIs ==
  ASSUME NEW tx \in Psbts
  PROVE  /\ Weight(tx) = BaseWeight + OutputsWeight(tx) + SumOf(SignedWeighs, tx.ins)
         /\ Weight(tx) \in Nat \ {0}
<1>1. tx.ins \in Seq(Inputs) /\ OutputsWeight(tx) \in Nat
  BY TotalsAre
<1>2. Values(SignedWeighs, tx.ins)
        = [i \in DOMAIN tx.ins |-> IF tx.ins[i].final THEN InWeight[tx.ins[i].script]
                                                      ELSE BareWeight[tx.ins[i].script]]
  BY <1>1 DEF Values, SignedWeighs
<1>3. Weight(tx) = BaseWeight + OutputsWeight(tx) + SumOf(SignedWeighs, tx.ins)
  BY <1>2 DEF Weight, Total, SumOf
<1>4. SignedWeighs \in [Inputs -> Nat]
  BY WeightsAssumption DEF SignedWeighs, Inputs
<1>5. SumOf(SignedWeighs, tx.ins) \in Nat
  BY <1>1, <1>4, SumOfNat
<1> QED
  BY <1>1, <1>3, <1>5, WeightsAssumption

LEMMA TheirWeightIs ==
  ASSUME payjoin \in Psbts
  PROVE  Sender!TheirWeight = SumOf(TheirsOf(original), payjoin.ins)
<1>1. payjoin.ins \in Seq(Inputs)
  BY DEF Psbts
<1>2. Values(TheirsOf(original), payjoin.ins)
        = [i \in DOMAIN payjoin.ins |->
              IF payjoin.ins[i].script \in SpentScripts(original)
              THEN 0 ELSE InWeight[payjoin.ins[i].script]]
  BY <1>1 DEF Values, TheirsOf
<1>3. Sender!TheirWeight
        = Sum([i \in DOMAIN payjoin.ins |->
              IF payjoin.ins[i].script \in SpentScripts(original)
              THEN 0 ELSE InWeight[payjoin.ins[i].script]])
  BY DEF Sender!TheirWeight, Sender!SpentScripts, SpentScripts, Sender!Total, Sender!Sum,
         Sender!FoldLeft, Sender!MapThenFoldSet, Sender!Max, Sum, FoldLeft, MapThenFoldSet, Max
<1> QED
  BY <1>2, <1>3 DEF SumOf

LEMMA SendersMeasures ==
  /\ \A tx : Sender!Fee(tx) = Fee(tx) /\ Sender!Weight(tx) = Weight(tx)
  /\ \A fee, weight : Sender!RateOf(fee, weight) = RateOf(fee, weight)
  /\ \A rate, weight : Sender!FeeAt(rate, weight) = FeeAt(rate, weight)
BY DEF Sender!Fee, Fee, Sender!InTotal, InTotal, Sender!OutTotal, OutTotal,
       Sender!Weight, Weight, Sender!OutputsWeight, OutputsWeight,
       Sender!ValueOf, ValueOf, Sender!Total, Total, Sender!Sum, Sum,
       Sender!FoldLeft, FoldLeft, Sender!MapThenFoldSet, MapThenFoldSet,
       Sender!Max, Max, Sender!RateOf, RateOf, Sender!FeeAt, FeeAt

-----------------------------------------------------------------------------
(* The outputs.                                                             *)

OwnedOf(tx) == {i \in 1 .. Len(tx.outs) : tx.outs[i].script \in OwnedScripts}
SendersOf(tx) == 1 .. Len(tx.outs) \ OwnedOf(tx)

(* The outputs of tx are among outs where g says: the sender's own but for  *)
(* what its fee output has paid, the receiver's, where it may not replace   *)
(* them, but for what the output at cut has paid.  No other pays the sender.*)
OutsAt(tx, terms, outs, g, paid, cut) ==
    /\ g \in Embeddings(Len(tx.outs), Len(outs))
    /\ \A i \in SendersOf(tx) :
          /\ outs[g[i]].script = tx.outs[i].script
          /\ outs[g[i]].value
               = tx.outs[i].value - (IF i = terms.contribution.vout THEN paid ELSE 0)
    /\ terms.noSubst =>
          \A i \in OwnedOf(tx) :
             /\ outs[g[i]].script = tx.outs[i].script
             /\ g[i] # cut => outs[g[i]].value >= tx.outs[i].value
    /\ \A k \in 1 .. Len(outs) :
          outs[k].script \in SendersScripts(tx) => \E i \in SendersOf(tx) : g[i] = k

LEMMA OwnedIs ==
  ASSUME NEW tx \in Psbts
  PROVE  /\ tx.outs \in Seq(Outputs) /\ Len(tx.outs) \in Nat
         /\ DOMAIN tx.outs = 1 .. Len(tx.outs)
         /\ OwnedOf(tx) \subseteq 1 .. Len(tx.outs) /\ SendersOf(tx) \subseteq 1 .. Len(tx.outs)
         /\ \A i \in 1 .. Len(tx.outs) :
               /\ tx.outs[i] \in Outputs /\ tx.outs[i].value \in Nat
               /\ tx.outs[i].script \in SendersScripts(tx) <=> i \in SendersOf(tx)
               /\ i \in OwnedOf(tx) <=> i \notin SendersOf(tx)
<1>1. tx.outs \in Seq(Outputs)
  BY DEF Psbts
<1>2. DOMAIN tx.outs = 1 .. Len(tx.outs) /\ Len(tx.outs) \in Nat
  BY <1>1
<1>3. \A i \in 1 .. Len(tx.outs) : tx.outs[i] \in Outputs
  BY <1>1
<1>4. \A i \in 1 .. Len(tx.outs) : tx.outs[i].value \in Nat
  BY <1>3 DEF Outputs
<1>5. ASSUME NEW i \in 1 .. Len(tx.outs)
      PROVE  /\ tx.outs[i].script \in SendersScripts(tx) <=> i \in SendersOf(tx)
             /\ i \in OwnedOf(tx) <=> i \notin SendersOf(tx)
  BY <1>2 DEF SendersScripts, SendersOf, OwnedOf
<1> QED
  BY <1>1, <1>2, <1>3, <1>4, <1>5 DEF SendersOf, OwnedOf

LEMMA OutsAtStart ==
  ASSUME NEW tx \in Psbts, NEW terms
  PROVE  \E g \in Embeddings(Len(tx.outs), Len(tx.outs)) : OutsAt(tx, terms, tx.outs, g, 0, 0)
<1> DEFINE n == Len(tx.outs)
           g == [i \in 1 .. n |-> i]
<1>1. g \in Embeddings(n, n) /\ \A i \in 1 .. n : g[i] = i
  BY OwnedIs DEF Embeddings
<1> HIDE DEF g
<1>2. \A i \in 1 .. n : /\ tx.outs[g[i]] = tx.outs[i]
                        /\ tx.outs[i].value \in Nat
                        /\ tx.outs[i].value = tx.outs[i].value - 0
  BY <1>1, OwnedIs
<1>3. \A i \in SendersOf(tx) :
         /\ tx.outs[g[i]].script = tx.outs[i].script
         /\ tx.outs[g[i]].value
              = tx.outs[i].value - (IF i = terms.contribution.vout THEN 0 ELSE 0)
  BY <1>2, OwnedIs
<1>4. \A i \in OwnedOf(tx) : /\ tx.outs[g[i]].script = tx.outs[i].script
                             /\ tx.outs[g[i]].value >= tx.outs[i].value
  BY <1>2, OwnedIs
<1>5. \A k \in 1 .. n : tx.outs[k].script \in SendersScripts(tx) =>
         \E i \in SendersOf(tx) : g[i] = k
  BY <1>1, OwnedIs
<1> QED
  BY <1>1, <1>3, <1>4, <1>5 DEF OutsAt

(* A place is that of one element only.                                     *)
LEMMA OnePlace ==
  ASSUME NEW n \in Nat, NEW m \in Nat, NEW g \in Embeddings(n, m),
         NEW i \in 1 .. n, NEW j \in 1 .. n
  PROVE  /\ g[i] \in 1 .. m
         /\ g[i] = g[j] => i = j
         /\ i < j <=> g[i] < g[j]
<1>1. g \in [1 .. n -> 1 .. m] /\ \A a, b \in 1 .. n : a < b => g[a] < g[b]
  BY DEF Embeddings
<1>2. g[i] \in 1 .. m /\ g[j] \in 1 .. m
  BY <1>1
<1>3. (i < j => g[i] < g[j]) /\ (j < i => g[j] < g[i])
  BY <1>1
<1> QED
  BY <1>2, <1>3

(* Another value of an output that does not pay the sender.                 *)
LEMMA OutsAtChanged ==
  ASSUME NEW tx \in Psbts, NEW terms, NEW outs \in Seq(Outputs),
         NEW g \in Embeddings(Len(tx.outs), Len(outs)), NEW paid, NEW cut,
         OutsAt(tx, terms, outs, g, paid, cut),
         NEW c \in 1 .. Len(outs), outs[c].script \notin SendersScripts(tx),
         NEW v \in Nat, NEW less,
         (v >= outs[c].value /\ less = cut) \/ (cut = 0 /\ less = c)
  PROVE  OutsAt(tx, terms, WithValue(outs, c, v), g, paid, less)
<1> DEFINE t == WithValue(outs, c, v)
<1>1. /\ Len(t) = Len(outs)
      /\ \A k \in 1 .. Len(outs) : /\ t[k].script = outs[k].script
                                   /\ t[k].value = IF k = c THEN v ELSE outs[k].value
  BY ValueSet
<1> HIDE DEF t
<1>2. \A i \in 1 .. Len(tx.outs) : g[i] \in 1 .. Len(outs)
  BY DEF Embeddings
<1>3. \A k \in 1 .. Len(outs) : outs[k].value \in Nat
  <2>1. \A k \in 1 .. Len(outs) : outs[k] \in Outputs
    OBVIOUS
  <2> QED
    BY <2>1 DEF Outputs
<1>4. ASSUME NEW i \in SendersOf(tx)
      PROVE  /\ t[g[i]].script = tx.outs[i].script
             /\ t[g[i]].value
                  = tx.outs[i].value - (IF i = terms.contribution.vout THEN paid ELSE 0)
  <2>1. i \in 1 .. Len(tx.outs) /\ tx.outs[i].script \in SendersScripts(tx)
    BY OwnedIs
  <2>2. /\ outs[g[i]].script = tx.outs[i].script
        /\ outs[g[i]].value
             = tx.outs[i].value - (IF i = terms.contribution.vout THEN paid ELSE 0)
    BY DEF OutsAt
  <2>3. g[i] # c
    BY <2>1, <2>2
  <2> QED
    BY <1>1, <1>2, <2>1, <2>2, <2>3
<1>5. ASSUME terms.noSubst, NEW i \in OwnedOf(tx)
      PROVE  /\ t[g[i]].script = tx.outs[i].script
             /\ g[i] # less => t[g[i]].value >= tx.outs[i].value
  <2>1. i \in 1 .. Len(tx.outs) /\ g[i] \in 1 .. Len(outs) /\ tx.outs[i].value \in Nat
    BY <1>2, OwnedIs
  <2>2. /\ outs[g[i]].script = tx.outs[i].script
        /\ g[i] # cut => outs[g[i]].value >= tx.outs[i].value
    BY <1>5 DEF OutsAt
  <2>3. ASSUME g[i] # less PROVE t[g[i]].value >= tx.outs[i].value
    <3>1. g[i] # cut
      BY <2>1, <2>3
    <3>2. outs[g[i]].value >= tx.outs[i].value /\ outs[g[i]].value \in Nat
      BY <1>3, <2>1, <2>2, <3>1
    <3>3. CASE g[i] # c
      BY <1>1, <2>1, <3>2, <3>3
    <3>4. CASE g[i] = c
      <4>1. v >= outs[g[i]].value
        BY <2>3, <3>4
      <4> QED
        BY <1>1, <2>1, <3>2, <3>4, <4>1
    <3> QED
      BY <3>3, <3>4
  <2> QED
    BY <1>1, <2>1, <2>2, <2>3
<1>6. \A k \in 1 .. Len(t) : t[k].script \in SendersScripts(tx) =>
         \E i \in SendersOf(tx) : g[i] = k
  BY <1>1 DEF OutsAt
<1> QED
  BY <1>1, <1>4, <1>5, <1>6 DEF OutsAt, t

(* The fee output pays.                                                     *)
LEMMA OutsAtPaid ==
  ASSUME NEW tx \in Psbts, NEW terms, NEW outs \in Seq(Outputs),
         NEW g \in Embeddings(Len(tx.outs), Len(outs)), NEW cut,
         OutsAt(tx, terms, outs, g, 0, cut), NEW c \in SendersOf(tx),
         c = terms.contribution.vout, NEW paid \in Nat, outs[g[c]].value - paid \in Nat
  PROVE  OutsAt(tx, terms, WithValue(outs, g[c], outs[g[c]].value - paid), g, paid, cut)
<1> DEFINE v == outs[g[c]].value - paid
           t == WithValue(outs, g[c], v)
<1>0. Len(tx.outs) \in Nat /\ Len(outs) \in Nat /\ c \in 1 .. Len(tx.outs)
  BY OwnedIs
<1>1. \A i \in 1 .. Len(tx.outs) : g[i] \in 1 .. Len(outs) /\ (g[i] = g[c] => i = c)
  BY <1>0, OnePlace
<1>2. /\ Len(t) = Len(outs)
      /\ \A k \in 1 .. Len(outs) : /\ t[k].script = outs[k].script
                                   /\ t[k].value = IF k = g[c] THEN v ELSE outs[k].value
  <2>1. g[c] \in 1 .. Len(outs) /\ v \in Nat
    BY <1>0, <1>1
  <2> DEFINE w == g[c]
  <2> HIDE DEF v, w
  <2>2. w \in 1 .. Len(outs) /\ v \in Nat
    BY <2>1 DEF w
  <2>3. /\ Len(WithValue(outs, w, v)) = Len(outs)
        /\ \A k \in 1 .. Len(outs) :
              /\ WithValue(outs, w, v)[k].script = outs[k].script
              /\ WithValue(outs, w, v)[k].value = IF k = w THEN v ELSE outs[k].value
    BY <2>2, ValueSet
  <2> QED
    BY <2>3 DEF w
<1> HIDE DEF t
<1>4. ASSUME NEW i \in SendersOf(tx)
      PROVE  /\ t[g[i]].script = tx.outs[i].script
             /\ t[g[i]].value
                  = tx.outs[i].value - (IF i = terms.contribution.vout THEN paid ELSE 0)
  <2>1. /\ outs[g[i]].script = tx.outs[i].script
        /\ outs[g[i]].value = tx.outs[i].value - 0
    BY DEF OutsAt
  <2>2. i \in 1 .. Len(tx.outs) /\ g[i] \in 1 .. Len(outs) /\ tx.outs[i].value \in Nat
    BY <1>1, OwnedIs
  <2>3. t[g[i]].value = IF i = c THEN outs[g[i]].value - paid ELSE outs[g[i]].value
    BY <1>1, <1>2, <2>2
  <2> QED
    BY <1>2, <2>1, <2>2, <2>3
<1>5. ASSUME terms.noSubst, NEW i \in OwnedOf(tx)
      PROVE  /\ t[g[i]].script = tx.outs[i].script
             /\ g[i] # cut => t[g[i]].value >= tx.outs[i].value
  <2>1. i \in 1 .. Len(tx.outs) /\ i # c
    BY OwnedIs
  <2>2. g[i] \in 1 .. Len(outs) /\ g[i] # g[c]
    BY <1>1, <2>1
  <2>3. t[g[i]].script = outs[g[i]].script /\ t[g[i]].value = outs[g[i]].value
    BY <1>2, <2>2
  <2> QED
    BY <1>5, <2>3 DEF OutsAt
<1>6. \A k \in 1 .. Len(t) : t[k].script \in SendersScripts(tx) =>
         \E i \in SendersOf(tx) : g[i] = k
  BY <1>2 DEF OutsAt
<1> QED
  BY <1>2, <1>4, <1>5, <1>6 DEF OutsAt, t

(* What replace_receiver_outputs and interleave_shuffle leave in place.     *)
LEMMA OutsAtReplaced ==
  ASSUME original \in Psbts, owned = OwnedOf(original), params.noSubst = policy.noSubst,
         NEW new \in SUBSET Outputs, IsFiniteSet(new),
         \A o \in new : o.script \notin SendersScripts(original),
         NEW outs \in Replaced(new)
  PROVE  /\ outs \in Seq(Outputs)
         /\ \E g \in Embeddings(Len(original.outs), Len(outs)) :
               OutsAt(original, policy, outs, g, 0, 0)
<1> DEFINE n == Len(original.outs)
<1>1. PICK a \in Partly(n, new) : outs \in Interleavings(a.outs, a.left)
  BY ReplacedAre
<1>2. /\ a.outs \in Seq(Outputs) /\ a.left \subseteq new /\ Len(a.outs) = n
      /\ \A i \in 1 .. n : Placed(i, a.outs[i], new)
  BY DEF Partly, Accs
<1>3. IsFiniteSet(a.left)
  BY <1>2, FS_Subset
<1> DEFINE list == SetToSeq(a.left)
           last == Len(a.outs) + Cardinality(a.left)
<1>4. list \in Seq(a.left) /\ Cardinality(a.left) \in Nat
  BY <1>3, SetToSeqIs
<1>5. list \in Seq(Outputs) /\ \A l \in 1 .. Len(list) : list[l] \in new
  BY <1>2, <1>4
<1>6. last \in Nat /\ outs \in Inserted(a.outs, list, last)
  BY <1>1, <1>2, <1>4 DEF Interleavings
<1> HIDE DEF list, last
<1>7. outs \in Seq(Outputs) /\ Spread(a.outs, outs, {list[l] : l \in 1 .. Len(list)})
  BY <1>2, <1>5, <1>6, InsertedSpread
<1>8. PICK g \in Embeddings(n, Len(outs)) :
         /\ \A i \in 1 .. n : outs[g[i]] = a.outs[i]
         /\ \A k \in 1 .. Len(outs) : Misses(g, k) => outs[k] \in new
  <2> DEFINE S == {list[l] : l \in 1 .. Len(list)}
  <2>1. S \subseteq new
    BY <1>5
  <2>2. Spread(a.outs, outs, S)
    BY <1>7
  <2> HIDE DEF S
  <2>3. PICK g \in Embeddings(Len(a.outs), Len(outs)) : SpreadBy(g, a.outs, outs, S)
    BY <2>2 DEF Spread
  <2>4. /\ \A i \in 1 .. n : outs[g[i]] = a.outs[i]
        /\ \A k \in 1 .. Len(outs) : Misses(g, k) => outs[k] \in new
    BY <1>2, <2>1, <2>3 DEF SpreadBy
  <2> QED
    BY <1>2, <2>3, <2>4
<1>9. n \in Nat /\ Len(outs) \in Nat /\ g \in [1 .. n -> 1 .. Len(outs)]
  BY <1>7, OwnedIs DEF Embeddings
<1>10. ASSUME NEW i \in SendersOf(original)
       PROVE  /\ outs[g[i]].script = original.outs[i].script
              /\ outs[g[i]].value
                   = original.outs[i].value - (IF i = policy.contribution.vout THEN 0 ELSE 0)
  <2>1. i \in 1 .. n /\ i \notin owned /\ original.outs[i].value \in Nat
    BY OwnedIs
  <2>2. outs[g[i]] = original.outs[i]
    BY <1>2, <1>8, <2>1 DEF Placed
  <2> QED
    BY <2>1, <2>2
<1>11. ASSUME policy.noSubst, NEW i \in OwnedOf(original)
       PROVE  /\ outs[g[i]].script = original.outs[i].script
              /\ outs[g[i]].value >= original.outs[i].value
  <2>1. i \in 1 .. n
    BY OwnedIs
  <2> QED
    BY <1>2, <1>8, <1>11, <2>1 DEF Placed
<1>12. ASSUME NEW k \in 1 .. Len(outs), outs[k].script \in SendersScripts(original)
       PROVE  \E i \in SendersOf(original) : g[i] = k
  <2>1. PICK i \in 1 .. n : g[i] = k
    BY <1>8, <1>9, <1>12 DEF Misses
  <2>2. Placed(i, outs[k], new)
    BY <1>2, <1>8, <2>1
  <2>3. i \notin OwnedOf(original)
    BY <1>12, <2>2 DEF Placed
  <2> QED
    BY <2>1, <2>3, OwnedIs
<1>13. OutsAt(original, policy, outs, g, 0, 0)
  BY <1>8, <1>10, <1>11, <1>12 DEF OutsAt
<1> QED
  BY <1>7, <1>8, <1>13

-----------------------------------------------------------------------------
(* What the sender's builder settles about the outputs.                     *)

PayeeVout(tx) == VoutOf(tx, Payee)

(* The first output with a script is the first.                             *)
LEMMA VoutIsFirst ==
  ASSUME NEW tx \in Psbts, NEW i \in 1 .. Len(tx.outs)
  PROVE  /\ VoutOf(tx, tx.outs[i].script) \in 1 .. i
         /\ tx.outs[VoutOf(tx, tx.outs[i].script)].script = tx.outs[i].script
<1> DEFINE s == tx.outs[i].script
           I == {k \in 1 .. Len(tx.outs) : tx.outs[k].script = s}
<1>1. tx.outs \in Seq(Outputs) /\ Len(tx.outs) \in Nat
  BY DEF Psbts
<1>2. i \in I /\ I \in SUBSET (1 .. Len(tx.outs))
  BY <1>1
<1>3. VoutOf(tx, s) = Min(I)
  BY <1>2 DEF VoutOf, SelectInSeq
<1>4. Min(I) \in I /\ \A k \in I : Min(I) <= k
  <2> HIDE DEF I
  <2> QED
    BY <1>1, <1>2, MinOfInterval
<1>5. Min(I) \in 1 .. Len(tx.outs) /\ tx.outs[Min(I)].script = s /\ Min(I) <= i
  BY <1>2, <1>4
<1> HIDE DEF I
<1> QED
  BY <1>1, <1>3, <1>5

LEMMA OneOf ==
  ASSUME NEW n \in Nat, NEW S \in SUBSET (1 .. n), NEW p \in S, Cardinality(S) <= 1
  PROVE  S = {p}
<1>1. IsFiniteSet(S)
  <2>1. IsFiniteSet(1 .. n)
    BY FS_Interval
  <2> QED
    BY <2>1, FS_Subset
<1>2. ASSUME NEW q \in S, q # p PROVE FALSE
  <2>1. {p, q} \subseteq S
    OBVIOUS
  <2>2. Cardinality({p, q}) <= Cardinality(S)
    BY <1>1, <2>1, FS_Subset
  <2>3. IsFiniteSet({p}) /\ Cardinality({p}) = 1
    BY FS_Singleton
  <2>4. Cardinality({p} \cup {q}) = Cardinality({p}) + 1
    BY <1>2, <2>3, FS_AddElement
  <2>5. {p} \cup {q} = {p, q}
    OBVIOUS
  <2>6. Cardinality({p, q}) = 2
    BY <2>3, <2>4, <2>5
  <2>7. Cardinality(S) \in Nat
    BY <1>1, FS_CardinalityType
  <2> QED
    BY <2>2, <2>6, <2>7
<1> QED
  BY <1>2

(* The builder makes a policy of an Original that pays the payee once, with *)
(* another output for its fee output.                                       *)
LEMMA PolicyFacts ==
  ASSUME original \in Originals, policy \in SenderPolicies(original)
  PROVE  /\ original \in Psbts /\ policy.payee = Payee
         /\ PayeeVout(original) \in OwnedOf(original)
         /\ \A i \in 1 .. Len(original.outs) :
               original.outs[i].script = Payee <=> i = PayeeVout(original)
         /\ policy.contribution.vout # PayeeVout(original)
         /\ policy.contribution.vout # 0 =>
               policy.contribution.vout \in 1 .. Len(original.outs)
<1> DEFINE n == Len(original.outs)
           S == {i \in DOMAIN original.outs : original.outs[i].script = Payee}
<1>1. original \in Psbts /\ policy.payee = Payee
  BY PolicyTyped
<1>2. n \in Nat /\ DOMAIN original.outs = 1 .. n
  BY <1>1, OwnedIs
<1>3. PICK noSubst \in BOOLEAN, r \in SenderRates, c \in {NoContribution} \cup OfferedAt(original) :
         policy = [noSubst |-> noSubst, contribution |-> c, minRate |-> r, payee |-> Payee]
  BY PolicyIs
<1>5. SinglePayee(original, Payee)
  BY PolicyIs
<1>6. policy.contribution = c
  BY <1>3
<1>7. Cardinality(S) = 1
  BY <1>5 DEF SinglePayee
<1>8. S # {}
  <2> HIDE DEF S
  <2>1. Cardinality({}) = 0
    BY FS_EmptySet
  <2> QED
    BY <1>7, <2>1
<1>9. PICK q \in 1 .. n : q \in S
  BY <1>2, <1>8
<1>10. S = {q}
  <2>1. S \in SUBSET (1 .. n) /\ Cardinality(S) <= 1 /\ q \in S
    BY <1>2, <1>7, <1>9
  <2> HIDE DEF S
  <2> QED
    BY <1>2, <2>1, OneOf
<1>11. PayeeVout(original) \in S
  <2>1. original.outs[q].script = Payee
    BY <1>9
  <2>2. /\ PayeeVout(original) \in 1 .. q
        /\ original.outs[PayeeVout(original)].script = Payee
    BY <1>1, <1>9, <2>1, VoutIsFirst DEF PayeeVout
  <2>3. PayeeVout(original) \in 1 .. n
    BY <1>2, <1>9, <2>2
  <2> QED
    BY <1>2, <2>2, <2>3
<1>12. PayeeVout(original) = q
  BY <1>10, <1>11
<1>13. \A i \in 1 .. n : original.outs[i].script = Payee <=> i = PayeeVout(original)
  BY <1>2, <1>10, <1>12
<1>14. PayeeVout(original) \in OwnedOf(original)
  BY <1>9, <1>12, <1>13, ProposalAssumption DEF OwnedOf
<1>15. CASE c = NoContribution
  <2>1. policy.contribution.vout = 0
    BY <1>6, <1>15 DEF NoContribution
  <2> QED
    BY <1>1, <1>9, <1>12, <1>13, <1>14, <2>1
<1>16. CASE c \in OfferedAt(original)
  <2>1. PICK vout \in DOMAIN original.outs :
           policy.contribution.vout = vout /\ original.outs[vout].script # Payee
    BY <1>6, <1>16 DEF OfferedAt
  <2>2. vout # PayeeVout(original)
    BY <1>2, <1>13, <2>1
  <2> QED
    BY <1>1, <1>2, <1>13, <1>14, <2>1, <2>2
<1> QED
  BY <1>3, <1>15, <1>16

(* The script of the fee output leads apply_fee to that output, unless      *)
(* another with that script comes before it.                                *)
LEMMA FeeOutputFound ==
  ASSUME original \in Originals, policy \in SenderPolicies(original),
         NEW tx \in Psbts, NEW g \in Embeddings(Len(original.outs), Len(tx.outs)),
         NEW paid, NEW cut, OutsAt(original, policy, tx.outs, g, paid, cut),
         policy.contribution.vout \in SendersOf(original),
         ~(VoutOf(original, original.outs[policy.contribution.vout].script)
             < policy.contribution.vout)
  PROVE  VoutOf(tx, original.outs[policy.contribution.vout].script)
            = g[policy.contribution.vout]
<1> DEFINE c == policy.contribution.vout
           n == Len(original.outs)
           v == VoutOf(tx, original.outs[c].script)
<1>1. original \in Psbts /\ n \in Nat /\ Len(tx.outs) \in Nat /\ c \in 1 .. n
  BY PolicyFacts, OwnedIs
<1>2. g[c] \in 1 .. Len(tx.outs) /\ tx.outs[g[c]].script = original.outs[c].script
  <2>1. g[c] \in 1 .. Len(tx.outs)
    <3> HIDE DEF n, c
    <3> QED
      BY <1>1, OnePlace DEF n
  <2> QED
    BY <2>1 DEF OutsAt
<1>3. v \in 1 .. g[c] /\ tx.outs[v].script = original.outs[c].script
  BY <1>2, VoutIsFirst
<1>4. v \in 1 .. Len(tx.outs) /\ tx.outs[v].script \in SendersScripts(original)
  <2>1. original.outs[c].script \in SendersScripts(original)
    BY <1>1, OwnedIs
  <2>2. g[c] \in Nat /\ g[c] <= Len(tx.outs)
    BY <1>1, <1>2
  <2>3. v \in 1 .. Len(tx.outs)
    <3> HIDE DEF v, c
    <3> QED
      BY <1>1, <1>3, <2>2
  <2> QED
    BY <1>3, <2>1, <2>3
<1>5. PICK i \in SendersOf(original) : g[i] = v
  BY <1>4 DEF OutsAt
<1>6. i \in 1 .. n /\ original.outs[i].script # Payee
  <2>1. i \in 1 .. n /\ i \notin OwnedOf(original)
    BY <1>1, OwnedIs
  <2> QED
    BY <2>1, PolicyFacts
<1>7. ~(i < c)
  <2>1. original.outs[i].script = original.outs[c].script
    BY <1>3, <1>5 DEF OutsAt
  <2>2. VoutOf(original, original.outs[c].script) \in 1 .. i
    BY <1>1, <1>6, <2>1, VoutIsFirst
  <2> QED
    BY <1>1, <1>6, <2>2
<1>8. g[c] <= g[i]
  BY <1>1, <1>6, <1>7, OnePlace
<1> QED
  BY <1>2, <1>3, <1>5, <1>8

-----------------------------------------------------------------------------
(* The invariant.                                                           *)

(* What the receiver makes of an Original until it finalises.               *)
Fits(tx, terms, new) ==
    /\ new.header = tx.header
    /\ \E f \in Embeddings(Len(tx.ins), Len(new.ins)) : InsAt(tx, new.ins, f)
    /\ \A w \in {InWeight, BareWeight} :
          OursWeigh(tx, w, new.ins) = OursWeigh(tx, w, tx.ins)
    /\ \E g \in Embeddings(Len(tx.outs), Len(new.outs)) :
          OutsAt(tx, terms, new.outs, g, 0, 0)

(* How far the sender's two walks have come.                                *)
InputsWalked ==
    \E f \in Embeddings(Len(original.ins), Len(payjoin.ins)) :
        /\ InsAt(original, payjoin.ins, f) /\ SignedAt(payjoin.ins, f)
        /\ pc = "inputs" => Walked(f, at, next)

(* An output in the payee's place stands for the payee's, which may then    *)
(* come after it.                                                           *)
WalkedPast(g, p, k, c) ==
    \A i \in DOMAIN g : (i < c /\ i # p => g[i] < k) /\ (i >= c => g[i] >= k)

(* The receiver has no other output in the original, so that the sender     *)
(* takes none of them for its own.                                          *)
OnlyPayee == OwnedOf(original) = {PayeeVout(original)}

OutputsWalked ==
    \E g \in Embeddings(Len(original.outs), Len(payjoin.outs)),
       paid \in 0 .. policy.contribution.max :
        /\ OutsAt(original, policy, payjoin.outs, g, paid, changeVout)
        /\ paid <= FeeAt(rates.min, AddedInputs)
        /\ paid # 0 => HasContribution
        /\ OnlyPayee =>
              /\ feePaid \in {0, paid}
              /\ pc = "outputs" => WalkedPast(g, PayeeVout(original), at, next)

(* The outputs are followed where the fee comes from the fee output.        *)
OutputsFollowed == FeeFromAnother \/ OutputsWalked

Answered ==
    /\ payjoin.header = original.header
    /\ owned = OwnedOf(original)
    /\ changeVout \in 1 .. Len(payjoin.outs)
    /\ AddedInputs \in Nat /\ AddedOutputs \in Nat
    /\ params.minRate <= rates.min
    /\ \A w \in {InWeight, BareWeight} :
          OursWeigh(original, w, payjoin.ins) = OursWeigh(original, w, original.ins)
    /\ InputsWalked
    /\ OutputsFollowed

AcceptanceInv ==
    /\ ~Proposed => Fits(original, policy, payjoin)
    /\ Proposed => Answered
    /\ AcceptableProposal

LEMMA AcceptanceInit == NInit => AcceptanceInv
<1> SUFFICES ASSUME NInit PROVE AcceptanceInv
  OBVIOUS
<1>1. /\ original \in Originals /\ policy \in SenderPolicies(original) /\ payjoin = original
      /\ stage = "outputsUnknown"
  BY DEF NInit, Init
<1>2. original \in Psbts
  BY <1>1, PolicyTyped
<1>3. \E f \in Embeddings(Len(original.ins), Len(original.ins)) : InsAt(original, original.ins, f)
  BY <1>2, InsAtStart
<1>4. \E g \in Embeddings(Len(original.outs), Len(original.outs)) :
         OutsAt(original, policy, original.outs, g, 0, 0)
  BY <1>2, OutsAtStart
<1>5. Fits(original, policy, payjoin)
  BY <1>1, <1>3, <1>4 DEF Fits
<1> QED
  BY <1>1, <1>5 DEF AcceptanceInv, AcceptableProposal, Proposed

(* Until the proposal is there only what fits it matters.                   *)
LEMMA FitsStays ==
  ASSUME NegotiationInv, stage # "proposal", stage' # "proposal",
         UNCHANGED <<original, policy>>, UNCHANGED senderVars,
         Fits(original, policy, payjoin')
  PROVE  AcceptanceInv'
<1>1. Fits(original, policy, payjoin)'
  BY DEF Fits
<1>2. ~Proposed'
  BY DEF Proposed
<1> QED
  BY <1>1, <1>2 DEF AcceptanceInv, AcceptableProposal

(* A typestate that is handed on, or lost, with the PSBT as it is.          *)
LEMMA FitsHandedOn ==
  ASSUME NegotiationInv, AcceptanceInv, stage # "proposal", stage' # "proposal",
         UNCHANGED <<original, policy, payjoin>>, UNCHANGED senderVars
  PROVE  AcceptanceInv'
<1>1. Fits(original, policy, payjoin)
  BY DEF AcceptanceInv, Proposed
<1> QED
  BY <1>1, FitsStays

(* replace_receiver_outputs and substitute_receiver_script.                 *)
LEMMA FitsReplaced ==
  ASSUME NegotiationInv, AcceptanceInv, MayReplace, UNCHANGED senderVars,
         NEW new \in SUBSET Outputs, IsFiniteSet(new),
         \A o \in new : o.script \notin SendersScripts(original),
         NEW drain, ReplaceWith(new, drain)
  PROVE  AcceptanceInv'
<1>0. stage = "wantsOutputs" /\ TypeOK /\ Terms /\ owned = TheOwned
  BY DEF MayReplace, NegotiationInv, Settled
<1>1. CASE Become("failed")
  <2>1. UNCHANGED <<original, policy, payjoin>> /\ stage' = "failed"
    BY <1>1 DEF Become, Offer
  <2> QED
    BY <1>0, <2>1, FitsHandedOn
<1>2. CASE ~Become("failed")
  <2>1. PICK outs \in Replaced(new) :
          /\ payjoin' = [original EXCEPT !.outs = outs]
          /\ UNCHANGED <<original, policy, stage>>
    BY <1>2 DEF ReplaceWith, Offer
  <2>2. original \in Psbts /\ params.noSubst = policy.noSubst
    BY <1>0, Typed DEF Terms
  <2>3. owned = OwnedOf(original)
    BY <1>0, <2>2, OwnedIs DEF TheOwned, OwnedOf
  <2>4. /\ outs \in Seq(Outputs)
        /\ \E g \in Embeddings(Len(original.outs), Len(outs)) :
              OutsAt(original, policy, outs, g, 0, 0)
    BY <2>2, <2>3, OutsAtReplaced
  <2>5. /\ payjoin'.header = original.header /\ payjoin'.ins = original.ins
        /\ payjoin'.outs = outs
    BY <2>1, <2>2 DEF Psbts
  <2>6. \E f \in Embeddings(Len(original.ins), Len(original.ins)) :
           InsAt(original, original.ins, f)
    BY <2>2, InsAtStart
  <2>7. Fits(original, policy, payjoin')
    BY <2>4, <2>5, <2>6 DEF Fits
  <2> QED
    BY <1>0, <2>1, <2>7, FitsStays
<1> QED
  BY <1>1, <1>2

LEMMA ReplaceFits ==
  ASSUME NegotiationInv, AcceptanceInv, Replace \/ Substitute, UNCHANGED senderVars
  PROVE  AcceptanceInv'
<1>0. original \in Originals /\ MayReplace /\ stage = "wantsOutputs" /\ TypeOK /\ Terms
  BY DEF Replace, Substitute, MayReplace, NegotiationInv, Terms
<1>1. CASE Replace
  <2>1. PICK r \in Replacements : ReplaceWith(r.outs, r.drain)
    BY <1>1 DEF Replace
  <2>2. /\ r.outs \in SUBSET Outputs /\ IsFiniteSet(r.outs)
        /\ \A o \in r.outs : o.script \notin SendersScripts(original)
    BY <1>0, ProposalAssumption, OriginalsAssumption
  <2> QED
    BY <1>0, <2>1, <2>2, FitsReplaced
<1>2. CASE Substitute
  <2>1. PICK script \in NewScripts :
          IF changeVout \in DOMAIN original.outs
          THEN ReplaceWith({[script |-> script, value |-> original.outs[changeVout].value]},
                           script)
          ELSE Become("panicked")
    BY <1>2 DEF Substitute
  <2>2. CASE changeVout \in DOMAIN original.outs
    <3> DEFINE o == [script |-> script, value |-> original.outs[changeVout].value]
    <3>1. script \in Scripts /\ script \notin SendersScripts(original)
      BY <1>0, ProposalAssumption, OriginalsAssumption
    <3>2. o \in Outputs
      <4>1. original.outs \in Seq(Outputs)
        BY <1>0, Typed
      <4>2. original.outs[changeVout] \in Outputs
        BY <2>2, <4>1
      <4> QED
        BY <3>1, <4>2 DEF Outputs
    <3>3. o.script = script /\ ReplaceWith({o}, script)
      BY <2>1, <2>2
    <3> HIDE DEF o
    <3>4. {o} \in SUBSET Outputs /\ IsFiniteSet({o})
      BY <3>2, FS_Singleton
    <3> QED
      BY <1>0, <3>1, <3>3, <3>4, FitsReplaced
  <2>3. CASE changeVout \notin DOMAIN original.outs
    <3>1. UNCHANGED <<original, policy, payjoin>> /\ stage' = "panicked"
      BY <2>1, <2>3 DEF Become, Offer
    <3> QED
      BY <1>0, <3>1, FitsHandedOn
  <2> QED
    BY <2>2, <2>3
<1> QED
  BY <1>1, <1>2

(* contribute_inputs: the change is no less than the output was.            *)
LEMMA FitsContributed ==
  ASSUME NegotiationInv, AcceptanceInv, stage = "wantsInputs", UNCHANGED senderVars,
         NEW list \in Seq(Inputs), \A l \in 1 .. Len(list) : Theirs(original, list[l]),
         Contribute(list)
  PROVE  AcceptanceInv'
<1>0. TypeOK /\ Terms /\ Settled /\ Fits(original, policy, payjoin)
  BY DEF NegotiationInv, AcceptanceInv, Proposed
<1>1. CASE Total(ValueOf, list) < MinInputAmount
  <2>1. UNCHANGED <<original, policy, payjoin>> /\ stage' = "failed"
    BY <1>1 DEF Contribute, Become, Offer
  <2> QED
    BY <2>1, FitsHandedOn
<1>2. CASE ~(Total(ValueOf, list) < MinInputAmount)
  <2>1. PICK ins \in Inserted(payjoin.ins, list, Len(payjoin.ins) + 1) :
          /\ payjoin' = [payjoin EXCEPT
                !.ins = ins,
                !.outs[changeVout].value = @ + Total(ValueOf, list) - MinInputAmount]
          /\ UNCHANGED <<original, policy, stage>>
    BY <1>2 DEF Contribute, Offer
  <2>2. /\ payjoin \in Psbts /\ payjoin.outs \in Seq(Outputs) /\ original \in Psbts
        /\ payjoin.ins \in Seq(Inputs) /\ Len(payjoin.ins) + 1 \in Nat
        /\ AllIn(payjoin.outs) \in Nat /\ AllIn(original.outs) \in Nat
        /\ OutTotal(payjoin) = AllIn(payjoin.outs) /\ OutTotal(original) = AllIn(original.outs)
    BY <1>0, Typed, SMTT(40)
  <2>3. /\ changeVout \in 1 .. Len(payjoin.outs)
        /\ payjoin.outs[changeVout].script \notin SendersScripts(original)
    BY <1>0, <2>2 DEF Settled
  <2>4. payjoin.outs[changeVout].value \in Nat
    <3>1. payjoin.outs[changeVout] \in Outputs
      BY <2>2, <2>3
    <3> QED
      BY <3>1 DEF Outputs
  <2>5. Total(ValueOf, list) = SumOf(InValue, list) /\ SumOf(InValue, list) \in Nat
    BY ListTotal
  <2>6. MinInputAmount \in Nat
    BY <2>2 DEF MinInputAmount
  <2> DEFINE v == Change(list)
  <2>7. /\ v \in Nat /\ v >= payjoin.outs[changeVout].value
        /\ v = payjoin.outs[changeVout].value + SumOf(InValue, list) - MinInputAmount
    BY <1>2, <2>4, <2>5, <2>6, SMTT(30) DEF Change
  <2>8. /\ payjoin'.header = payjoin.header /\ payjoin'.ins = ins
        /\ payjoin'.outs = WithValue(payjoin.outs, changeVout, v)
    <3>1. payjoin' = [payjoin EXCEPT !.ins = ins, !.outs[changeVout].value = v]
      BY <2>1, <2>5, <2>7
    <3> HIDE DEF v
    <3> QED
      BY <2>2, <3>1 DEF WithValue, Psbts
  <2> HIDE DEF v
  <2>9. \E f \in Embeddings(Len(original.ins), Len(ins)) : InsAt(original, ins, f)
    <3> DEFINE S == {list[l] : l \in 1 .. Len(list)}
    <3>1. ins \in Seq(Inputs) /\ Spread(payjoin.ins, ins, S)
      BY <2>1, <2>2, InsertedSpread
    <3>2. \A x \in S : Theirs(original, x)
      OBVIOUS
    <3>3. PICK f \in Embeddings(Len(original.ins), Len(payjoin.ins)) :
             InsAt(original, payjoin.ins, f)
      BY <1>0 DEF Fits
    <3> HIDE DEF S
    <3> QED
      BY <2>2, <3>1, <3>2, <3>3, InsAtMore
  <2>10. ASSUME NEW w \in {InWeight, BareWeight}
         PROVE  OursWeigh(original, w, ins) = OursWeigh(original, w, original.ins)
    <3>1. \A l \in 1 .. Len(list) : list[l].script \notin SpentScripts(original)
      BY DEF Theirs
    <3>2. OursWeigh(original, w, ins) = OursWeigh(original, w, payjoin.ins)
      <4> DEFINE last == Len(payjoin.ins) + 1
      <4>1. last \in Nat /\ ins \in Inserted(payjoin.ins, list, last)
        BY <2>1, <2>2
      <4>2. payjoin.ins \in Seq(Inputs)
        BY <2>2
      <4> HIDE DEF last
      <4> QED
        BY <3>1, <4>1, <4>2, OursAdded, SMTT(60)
    <3> QED
      BY <1>0, <3>2 DEF Fits
  <2>11. PICK g \in Embeddings(Len(original.outs), Len(payjoin.outs)) :
            OutsAt(original, policy, payjoin.outs, g, 0, 0)
    BY <1>0 DEF Fits
  <2>12. OutsAt(original, policy, WithValue(payjoin.outs, changeVout, v), g, 0, 0)
    BY <2>2, <2>3, <2>7, <2>11, OutsAtChanged
  <2>13. Len(WithValue(payjoin.outs, changeVout, v)) = Len(payjoin.outs)
    BY <2>2, <2>3, <2>7, ValueSet
  <2>14. Fits(original, policy, payjoin')
    BY <1>0, <2>8, <2>9, <2>10, <2>11, <2>12, <2>13 DEF Fits
  <2> QED
    BY <2>1, <2>14, FitsStays
<1> QED
  BY <1>1, <1>2

LEMMA ContributeFits ==
  ASSUME NegotiationInv, AcceptanceInv, ContributeInputs, UNCHANGED senderVars
  PROVE  AcceptanceInv'
<1>0. /\ original \in Originals /\ TypeOK /\ Terms /\ stage = "wantsInputs"
      /\ Fits(original, policy, payjoin)
  BY DEF NegotiationInv, Terms, ContributeInputs, AcceptanceInv, Proposed
<1>1. PICK list \in InputLists :
         Contribute([i \in DOMAIN list |-> [list[i] EXCEPT !.seq = original.ins[1].seq]])
  BY DEF ContributeInputs
<1>2. list \in Seq(Unspent)
  <2>1. Selected \subseteq Unspent
    BY DEF Selected
  <2>2. CASE list = <<>>
    BY <2>2
  <2>3. CASE \E c \in Selected : list = <<c>>
    BY <2>1, <2>3
  <2>4. CASE \E p \in Unspent \X Unspent : list = <<p[1], p[2]>>
    BY <2>4
  <2> QED
    BY <1>1, <2>2, <2>3, <2>4 DEF InputLists
<1>3. original.ins \in Seq(Inputs) /\ original.ins[1].seq \in SequenceNos
  <2>1. original.ins \in Seq(Inputs) /\ original.ins # <<>>
    BY <1>0, Typed, OriginalsAssumption
  <2>2. original.ins[1] \in Inputs
    BY <2>1
  <2> QED
    BY <2>1, <2>2 DEF Inputs
<1>4. PICK f \in Embeddings(Len(original.ins), Len(payjoin.ins)) :
         InsAt(original, payjoin.ins, f)
  BY <1>0 DEF Fits
<1>5. DOMAIN payjoin.ins = 1 .. Len(payjoin.ins)
  <2>1. payjoin.ins \in Seq(Inputs)
    BY <1>0, Typed
  <2> QED
    BY <2>1
<1>6. ASSUME NEW c \in Unspent
      PROVE  LET x == [c EXCEPT !.seq = original.ins[1].seq]
             IN x \in Inputs /\ Theirs(original, x)
  <2> DEFINE x == [c EXCEPT !.seq = original.ins[1].seq]
  <2>1. c \in Candidates /\ c \in Inputs
    BY ProposalAssumption DEF Unspent
  <2>2. /\ x \in Inputs /\ x.coin = c.coin /\ x.script = c.script
        /\ x.seq = original.ins[1].seq
    BY <1>3, <2>1 DEF Inputs
  <2> HIDE DEF x
  <2>3. c.script \notin SpentScripts(original)
    BY <1>0, <2>1, OriginalsAssumption
  <2>4. ASSUME NEW i \in 1 .. Len(original.ins) PROVE c.coin # original.ins[i].coin
    <3>1. f[i] \in 1 .. Len(payjoin.ins)
      BY DEF Embeddings
    <3>2. payjoin.ins[f[i]].coin = original.ins[i].coin
      BY <1>4 DEF InsAt, SameInput
    <3> QED
      BY <1>5, <3>1, <3>2 DEF Unspent
  <2>5. Theirs(original, x)
    BY <2>2, <2>3, <2>4 DEF Theirs
  <2> QED
    BY <2>2, <2>5 DEF x
<1> DEFINE same == [i \in DOMAIN list |-> [list[i] EXCEPT !.seq = original.ins[1].seq]]
<1>7. DOMAIN list = 1 .. Len(list) /\ Len(list) \in Nat /\ \A i \in 1 .. Len(list) : list[i] \in Unspent
  BY <1>2
<1>8. \A i \in 1 .. Len(list) : same[i] \in Inputs /\ Theirs(original, same[i])
  BY <1>6, <1>7
<1>9. same \in Seq(Inputs) /\ Len(same) = Len(list)
  BY <1>7, <1>8
<1>10. Contribute(same)
  BY <1>1
<1> HIDE DEF same
<1> QED
  BY <1>0, <1>8, <1>9, <1>10, FitsContributed

-----------------------------------------------------------------------------
(* finalize_proposal.                                                       *)

(* Both fees taken, the sender's from its fee output.                       *)
LEMMA FeesLeave ==
  ASSUME NegotiationInv, AcceptanceInv, stage = "provisional", AddedOutputs >= 0,
         NEW rate \in Nat,
         ~(HasContribution /\ payjoin.outs[SenderFeeVout].value < SenderFee(rate)),
         ~(SenderFeeTaken(rate)[changeVout].value < ReceiverFee(rate)),
         ~(/\ HasContribution /\ SenderFee(rate) # 0
           /\ VoutOf(original, original.outs[params.contribution.vout].script)
                < params.contribution.vout)
  PROVE  \E g \in Embeddings(Len(original.outs), Len(payjoin.outs)) :
            OutsAt(original, policy, FeesTaken(rate), g, SenderFee(rate), changeVout)
<1> DEFINE taken == SenderFeeTaken(rate)
           c == policy.contribution.vout
<1>1. /\ SenderFee(rate) \in Nat /\ ReceiverFee(rate) \in Nat
      /\ SenderFee(rate) # 0 => HasContribution
  BY FeesAre
<1>2. /\ TypeOK /\ Terms /\ changeVout \in DOMAIN payjoin.outs
      /\ payjoin.outs[changeVout].script \notin SendersScripts(original)
      /\ Fits(original, policy, payjoin)
  BY DEF NegotiationInv, Settled, AcceptanceInv, Proposed
<1>3. /\ payjoin \in Psbts /\ payjoin.outs \in Seq(Outputs) /\ original \in Psbts
      /\ changeVout \in 1 .. Len(payjoin.outs)
  <2>1. payjoin \in Psbts /\ payjoin.outs \in Seq(Outputs) /\ original \in Psbts
    BY <1>2, Typed
  <2> QED
    BY <1>2, <2>1
<1>4. PICK g \in Embeddings(Len(original.outs), Len(payjoin.outs)) :
         OutsAt(original, policy, payjoin.outs, g, 0, 0)
  BY <1>2 DEF Fits
<1>5. /\ taken \in Seq(Outputs) /\ Len(taken) = Len(payjoin.outs)
      /\ taken[changeVout].script \notin SendersScripts(original)
      /\ OutsAt(original, policy, taken, g, SenderFee(rate), 0)
  <2>1. CASE SenderFee(rate) = 0
    BY <1>2, <1>3, <1>4, <2>1 DEF SenderFeeTaken
  <2>2. CASE SenderFee(rate) # 0
    <3>1. HasContribution /\ params.contribution = policy.contribution
      BY <1>1, <1>2, <2>2 DEF Terms, HasContribution, NoContribution
    <3>2. /\ c \in DOMAIN original.outs
          /\ original.outs[c].script \in SendersScripts(original)
      BY <3>1 DEF NegotiationInv, Settled
    <3>3. c \in SendersOf(original) /\ c \in 1 .. Len(original.outs)
      BY <1>3, <3>2, OwnedIs
    <3>4. SenderFeeVout = g[c]
      <4>1. SenderFeeVout = VoutOf(payjoin, original.outs[c].script)
        BY <3>1 DEF SenderFeeVout
      <4> QED
        BY <1>2, <1>3, <1>4, <2>2, <3>1, <3>3, <4>1, FeeOutputFound DEF Terms
    <3>5. g[c] \in 1 .. Len(payjoin.outs)
      BY <3>3 DEF Embeddings
    <3>6. payjoin.outs[g[c]].value \in Nat
      <4>1. payjoin.outs[g[c]] \in Outputs
        BY <1>3, <3>5
      <4> QED
        BY <4>1 DEF Outputs
    <3> DEFINE v == payjoin.outs[g[c]].value - SenderFee(rate)
    <3>7. v \in Nat
      BY <1>1, <3>1, <3>4, <3>6, SMTT(40)
    <3>8. taken = WithValue(payjoin.outs, g[c], v)
      BY <2>2, <3>4 DEF SenderFeeTaken, WithValue
    <3>9. OutsAt(original, policy, WithValue(payjoin.outs, g[c], v), g, SenderFee(rate), 0)
      BY <1>1, <1>3, <1>4, <3>3, <3>7, OutsAtPaid
    <3> HIDE DEF v, taken
    <3>10. /\ taken \in Seq(Outputs) /\ Len(taken) = Len(payjoin.outs)
           /\ \A k \in 1 .. Len(payjoin.outs) : taken[k].script = payjoin.outs[k].script
      BY <1>3, <3>5, <3>7, <3>8, ValueSet
    <3> QED
      BY <1>2, <1>3, <3>8, <3>9, <3>10
  <2> QED
    BY <2>1, <2>2
<1>6. FeesTaken(rate) = WithValue(taken, changeVout, taken[changeVout].value - ReceiverFee(rate))
  BY DEF FeesTaken, WithValue
<1>7. ~(taken[changeVout].value < ReceiverFee(rate))
  OBVIOUS
<1> HIDE DEF taken, c
<1>8. taken[changeVout].value \in Nat
  <2>1. taken[changeVout] \in Outputs
    BY <1>3, <1>5
  <2> QED
    BY <2>1 DEF Outputs
<1>9. taken[changeVout].value - ReceiverFee(rate) \in Nat
  BY <1>1, <1>7, <1>8
<1> DEFINE v == taken[changeVout].value - ReceiverFee(rate)
<1> HIDE DEF v
<1>10. v \in Nat
  BY <1>9 DEF v
<1>11. g \in Embeddings(Len(original.outs), Len(taken)) /\ changeVout \in 1 .. Len(taken)
  BY <1>3, <1>5
<1>12. OutsAt(original, policy, WithValue(taken, changeVout, v), g, SenderFee(rate), changeVout)
  BY <1>3, <1>5, <1>10, <1>11, OutsAtChanged
<1> QED
  BY <1>6, <1>12 DEF v

(* The wallet signs what the walk over the Original's inputs has left out.  *)
LEMMA SignedFit ==
  ASSUME NEW tx \in Psbts, NEW new \in Psbts,
         NEW f \in Embeddings(Len(tx.ins), Len(new.ins)), InsAt(tx, new.ins, f)
  PROVE  LET t == [i \in DOMAIN new.ins |->
                      [new.ins[i] EXCEPT !.final = i \notin MatchedInputs(tx, new)]] IN
         /\ t \in Seq(Inputs) /\ Len(t) = Len(new.ins)
         /\ \A i \in 1 .. Len(new.ins) : t[i].script = new.ins[i].script
         /\ InsAt(tx, t, f) /\ SignedAt(t, f)
<1> DEFINE S == MatchedInputs(tx, new)
           x(i) == [new.ins[i] EXCEPT !.final = i \notin S]
           t == [i \in DOMAIN new.ins |-> x(i)]
<1>1. \A i \in 1 .. Len(new.ins) : i \notin S <=> Misses(f, i)
  BY MatchedAre
<1>2. /\ new.ins \in Seq(Inputs) /\ DOMAIN new.ins = 1 .. Len(new.ins)
      /\ Len(new.ins) \in Nat /\ Len(tx.ins) \in Nat
  BY DEF Psbts
<1> HIDE DEF S
<1>3. ASSUME NEW i \in 1 .. Len(new.ins)
      PROVE  /\ x(i) \in Inputs /\ x(i).coin = new.ins[i].coin
             /\ x(i).script = new.ins[i].script /\ x(i).seq = new.ins[i].seq
             /\ x(i).final = (i \notin S)
  <2>1. new.ins[i] \in Inputs
    BY <1>2
  <2> DEFINE b == i \notin S
  <2>2. b \in BOOLEAN /\ x(i) = [new.ins[i] EXCEPT !.final = b]
    OBVIOUS
  <2> HIDE DEF b, x
  <2>3. /\ x(i) \in Inputs /\ x(i).coin = new.ins[i].coin
        /\ x(i).script = new.ins[i].script /\ x(i).seq = new.ins[i].seq
        /\ x(i).final = b
    BY <2>1, <2>2 DEF Inputs
  <2> QED
    BY <2>3 DEF b
<1> HIDE DEF x
<1>4. /\ t \in Seq(Inputs) /\ Len(t) = Len(new.ins)
      /\ \A i \in 1 .. Len(new.ins) : t[i] = x(i)
  BY <1>2, <1>3
<1> HIDE DEF t
<1>5. InsAt(tx, t, f)
  <2>1. ASSUME NEW i \in 1 .. Len(tx.ins) PROVE SameInput(t[f[i]], tx.ins[i])
    <3>1. f[i] \in 1 .. Len(new.ins)
      BY DEF Embeddings
    <3>2. SameInput(new.ins[f[i]], tx.ins[i])
      BY DEF InsAt
    <3> QED
      BY <1>3, <1>4, <3>1, <3>2 DEF SameInput
  <2>2. ASSUME NEW k \in 1 .. Len(t), Misses(f, k) PROVE Theirs(tx, t[k])
    <3>1. k \in 1 .. Len(new.ins) /\ Theirs(tx, new.ins[k])
      BY <1>4, <2>2 DEF InsAt
    <3> QED
      BY <1>3, <1>4, <3>1 DEF Theirs
  <2> QED
    BY <1>4, <2>1, <2>2 DEF InsAt
<1>6. SignedAt(t, f)
  <2> SUFFICES ASSUME NEW k \in 1 .. Len(t) PROVE t[k].final <=> Misses(f, k)
    BY DEF SignedAt
  <2>1. k \in 1 .. Len(new.ins)
    BY <1>4
  <2>2. t[k].final = (k \notin S)
    BY <1>3, <1>4, <2>1
  <2> QED
    BY <1>1, <2>1, <2>2
<1> QED
  BY <1>3, <1>4, <1>5, <1>6 DEF t, x, S

LEMMA AnswerFits ==
  ASSUME NegotiationInv, AcceptanceInv, stage = "provisional", AddedOutputs >= 0,
         UNCHANGED senderVars, NEW rate \in Nat, NEW max \in Nat, params.minRate <= rate,
         Finish(rate, max),
         ~(HasContribution /\ payjoin.outs[SenderFeeVout].value < SenderFee(rate)),
         ~(SenderFeeTaken(rate)[changeVout].value < ReceiverFee(rate))
  PROVE  AcceptanceInv'
<1>0. /\ TypeOK /\ Terms /\ payjoin \in Psbts /\ original \in Psbts
      /\ policy.contribution.max \in Nat
      /\ owned = TheOwned /\ changeVout \in DOMAIN payjoin.outs
      /\ AddedInputs \in Nat /\ AddedOutputs \in Nat
      /\ Fits(original, policy, payjoin)
      /\ pc = "basic" /\ feePaid = 0
  BY Typed DEF NegotiationInv, Settled, Balanced, AcceptanceInv, Proposed, Waiting, Sender!Start
<1>1. CASE Become("failed")
  <2>1. UNCHANGED <<original, policy, payjoin>> /\ stage' = "failed"
    BY <1>1 DEF Become, Offer
  <2> QED
    BY <2>1, FitsHandedOn
<1>2. CASE ~Become("failed")
  <2> DEFINE ins == [i \in DOMAIN payjoin.ins |-> [payjoin.ins[i] EXCEPT
                          !.final = i \notin MatchedInputs(original, payjoin)]]
             tx == Finished(rate)
  <2>1. /\ stage' = "proposal"
        /\ payjoin' = [payjoin EXCEPT !.outs = FeesTaken(rate), !.ins = ins]
        /\ rates' = [min |-> rate, max |-> max]
        /\ UNCHANGED <<original, policy, params, changeVout, owned>>
    BY <1>2 DEF Finish, Offer
  <2>2. UNCHANGED <<pc, at, next, feePaid>>
    BY DEF senderVars
  <2>3. tx = [header |-> payjoin.header, ins |-> ins, outs |-> FeesTaken(rate)]
    BY DEF Finished
  <2> HIDE DEF ins, tx
  <2>4. payjoin' = tx
    <3>1. [payjoin EXCEPT !.outs = FeesTaken(rate), !.ins = ins]
            = [header |-> payjoin.header, ins |-> ins, outs |-> FeesTaken(rate)]
      BY <1>0, BothSet
    <3> QED
      BY <2>1, <2>3, <3>1
  <2>5. Falls(payjoin.outs, FeesTaken(rate), SenderFee(rate), SenderFee(rate) + ReceiverFee(rate))
    BY FeesTakenAre
  <2>6. /\ tx \in Psbts /\ Len(FeesTaken(rate)) = Len(payjoin.outs)
        /\ InputsWeight(tx) = InputsWeight(payjoin)
        /\ OutputsWeight(tx) = OutputsWeight(payjoin)
    BY <1>0, <2>5, FinishedIs DEF Falls, tx
  <2>7. AddedInputs' = AddedInputs /\ AddedOutputs' = AddedOutputs
    BY <2>1, <2>4, <2>6 DEF AddedInputs, AddedOutputs
  <2>8. /\ payjoin'.header = original.header /\ payjoin'.ins = ins
        /\ payjoin'.outs = FeesTaken(rate)
    BY <1>0, <2>3, <2>4 DEF Fits
  <2>9. PICK f \in Embeddings(Len(original.ins), Len(payjoin.ins)) :
           InsAt(original, payjoin.ins, f)
    BY <1>0 DEF Fits
  <2>10. /\ ins \in Seq(Inputs) /\ Len(ins) = Len(payjoin.ins)
         /\ \A i \in 1 .. Len(payjoin.ins) : ins[i].script = payjoin.ins[i].script
         /\ InsAt(original, ins, f) /\ SignedAt(ins, f)
    BY <1>0, <2>9, SignedFit DEF ins
  <2>11. InputsWalked'
    BY <1>0, <2>1, <2>2, <2>8, <2>9, <2>10 DEF InputsWalked
  <2>12. ASSUME NEW w \in {InWeight, BareWeight}
         PROVE  OursWeigh(original, w, ins) = OursWeigh(original, w, original.ins)
    <3>1. payjoin.ins \in Seq(Inputs)
      BY <1>0 DEF Psbts
    <3>2. OursWeigh(original, w, ins) = OursWeigh(original, w, payjoin.ins)
      BY <2>10, <3>1, OursSigned
    <3> QED
      BY <1>0, <3>2 DEF Fits
  <2>13. ASSUME ~FeeFromAnother' PROVE OutputsWalked'
    <3>0. ~(/\ HasContribution /\ SenderFee(rate) # 0
            /\ VoutOf(original, original.outs[params.contribution.vout].script)
                 < params.contribution.vout)
      <4>1. /\ rates'.min = rate /\ params' = params /\ original' = original
            /\ SenderFee(rates.min)' = SenderFee(rate) /\ HasContribution' = HasContribution
        BY <2>1, <2>7 DEF SenderFee, HasContribution
      <4> QED
        BY <2>13, <4>1 DEF FeeFromAnother
    <3>1. PICK g \in Embeddings(Len(original.outs), Len(payjoin.outs)) :
             OutsAt(original, policy, FeesTaken(rate), g, SenderFee(rate), changeVout)
      BY <3>0, FeesLeave
    <3>2. /\ SenderFee(rate) \in Nat /\ SenderFee(rate) <= policy.contribution.max
          /\ SenderFee(rate) <= FeeAt(rate, AddedInputs)
          /\ SenderFee(rate) # 0 => HasContribution
      BY FeesAre
    <3>3. SenderFee(rate) \in 0 .. policy.contribution.max
      BY <1>0, <3>2
    <3> DEFINE paid == SenderFee(rate)
               outs == FeesTaken(rate)
    <3>4. /\ payjoin'.outs = outs /\ Len(outs) = Len(payjoin.outs) /\ rates'.min = rate
          /\ feePaid' \in {0, paid} /\ pc' # "outputs"
          /\ HasContribution' = HasContribution
      BY <1>0, <2>1, <2>2, <2>6, <2>8 DEF HasContribution
    <3> HIDE DEF paid, outs
    <3>5. /\ g \in Embeddings(Len(original'.outs), Len(payjoin'.outs))
          /\ paid \in 0 .. policy'.contribution.max
          /\ OutsAt(original', policy', payjoin'.outs, g, paid, changeVout')
          /\ paid <= FeeAt(rates'.min, AddedInputs')
          /\ paid # 0 => HasContribution'
          /\ feePaid' \in {0, paid} /\ pc' # "outputs"
      BY <2>1, <2>7, <3>1, <3>2, <3>3, <3>4 DEF paid, outs
    <3> QED
      BY <3>5 DEF OutputsWalked
  <2>14. changeVout \in 1 .. Len(payjoin.outs) /\ owned = OwnedOf(original)
    <3>1. payjoin.outs \in Seq(Outputs)
      BY <1>0 DEF Psbts
    <3> QED
      BY <1>0, <3>1, OwnedIs DEF TheOwned, OwnedOf
  <2>15. Answered'
    BY <1>0, <2>1, <2>6, <2>7, <2>8, <2>11, <2>12, <2>13, <2>14 DEF Answered, OutputsFollowed
  <2>16. AcceptableProposal'
    BY <1>0, <2>2 DEF AcceptableProposal, Sender!Rejected
  <2>17. Proposed'
    BY <2>1 DEF Proposed
  <2> QED
    BY <2>15, <2>16, <2>17 DEF AcceptanceInv
<1> QED
  BY <1>1, <1>2

LEMMA FinalizeFits ==
  ASSUME NegotiationInv, AcceptanceInv, FinalizeProposal, UNCHANGED senderVars
  PROVE  AcceptanceInv'
<1>1. PICK min \in MinRates, max \in MaxRates : Finalize(min, max)
  BY DEF FinalizeProposal
<1> DEFINE rate == IF min < params.minRate THEN params.minRate ELSE min
<1>2. params.minRate \in Nat /\ min \in Nat /\ max \in Nat /\ AddedOutputs \in Int
  BY Typed, ProposalAssumption DEF NegotiationInv, TypeOK
<1>3. rate \in Nat /\ params.minRate <= rate
  BY <1>2
<1>4. /\ stage = "provisional"
      /\ IF HasContribution /\ payjoin.outs[SenderFeeVout].value < SenderFee(rate)
         THEN Become("panicked")
         ELSE IF AddedOutputs < 0 THEN Become("panicked") \/ Become("failed")
         ELSE IF ReceiverFee(rate) > FeeAt(max, AddedInputs + AddedOutputs)
         THEN Become("failed")
         ELSE IF SenderFeeTaken(rate)[changeVout].value < ReceiverFee(rate)
         THEN Become("panicked")
         ELSE Finish(rate, max)
  BY <1>1 DEF Finalize
<1> HIDE DEF rate
<1>5. CASE Become("panicked") \/ Become("failed")
  <2>1. UNCHANGED <<original, policy, payjoin>> /\ stage' # "proposal"
    BY <1>5 DEF Become, Offer
  <2> QED
    BY <1>4, <2>1, FitsHandedOn
<1>6. CASE ~(Become("panicked") \/ Become("failed"))
  <2>1. /\ ~(HasContribution /\ payjoin.outs[SenderFeeVout].value < SenderFee(rate))
        /\ AddedOutputs >= 0
        /\ ~(SenderFeeTaken(rate)[changeVout].value < ReceiverFee(rate))
        /\ Finish(rate, max)
    BY <1>2, <1>4, <1>6
  <2> QED
    BY <1>2, <1>3, <1>4, <2>1, AnswerFits
<1> QED
  BY <1>5, <1>6

LEMMA ReceiveFits ==
  ASSUME NegotiationInv, AcceptanceInv, Receive
  PROVE  AcceptanceInv'
<1>0. UNCHANGED senderVars
  BY DEF Receive
<1>1. CASE Identify
  <2>1. UNCHANGED <<original, policy, payjoin>> /\ stage # "proposal" /\ stage' # "proposal"
    BY <1>1 DEF Identify, Become, Offer
  <2> QED
    BY <1>0, <2>1, FitsHandedOn
<1>2. CASE Replace \/ Substitute
  BY <1>0, <1>2, ReplaceFits
<1>3. CASE CommitOutputs \/ CommitInputs
  <2>1. UNCHANGED <<original, policy, payjoin>> /\ stage # "proposal" /\ stage' # "proposal"
    BY <1>3 DEF CommitOutputs, CommitInputs, Become, Offer
  <2> QED
    BY <1>0, <2>1, FitsHandedOn
<1>4. CASE ContributeInputs
  BY <1>0, <1>4, ContributeFits
<1>5. CASE FinalizeProposal
  BY <1>0, <1>5, FinalizeFits
<1> QED
  BY <1>1, <1>2, <1>3, <1>4, <1>5 DEF Receive, Next

-----------------------------------------------------------------------------
(* The sender's checks.                                                     *)

(* Why the sender may refuse.                                               *)
Excused == Explained \/ (policy.noSubst /\ NewOutputForPayee)

(* What the sender's steps leave alone.                                     *)
Still == UNCHANGED <<original, policy, payjoin, stage, params, changeVout, owned, rates,
                     wanted, contributed>>

LEMMA InputsStand ==
  ASSUME InputsWalked, Still, pc' # "inputs"
  PROVE  InputsWalked'
BY DEF InputsWalked, Still

LEMMA FeeStands ==
  ASSUME Still
  PROVE  FeeFromAnother' = FeeFromAnother
<1>1. /\ AddedInputs' = AddedInputs /\ HasContribution' = HasContribution
      /\ original' = original /\ params' = params /\ rates' = rates
  BY DEF Still, AddedInputs, HasContribution
<1>2. SenderFee(rates.min)' = SenderFee(rates.min)
  BY <1>1 DEF SenderFee
<1> QED
  BY <1>1, <1>2 DEF FeeFromAnother

LEMMA OutputsStand ==
  ASSUME OutputsFollowed, Still, UNCHANGED feePaid, pc' # "outputs"
  PROVE  OutputsFollowed'
<1>0. SUFFICES ASSUME OutputsWalked PROVE OutputsWalked'
  BY FeeStands DEF OutputsFollowed
<1>1. PICK g \in Embeddings(Len(original.outs), Len(payjoin.outs)),
           paid \in 0 .. policy.contribution.max :
        /\ OutsAt(original, policy, payjoin.outs, g, paid, changeVout)
        /\ paid <= FeeAt(rates.min, AddedInputs)
        /\ paid # 0 => HasContribution
        /\ OnlyPayee => feePaid \in {0, paid}
  BY <1>0 DEF OutputsWalked
<1>2. AddedInputs' = AddedInputs /\ HasContribution' = HasContribution /\ OnlyPayee' = OnlyPayee
  BY DEF Still, AddedInputs, HasContribution, OnlyPayee
<1>3. /\ OutsAt(original, policy, payjoin.outs, g, paid, changeVout)'
      /\ (paid <= FeeAt(rates.min, AddedInputs))'
      /\ (paid # 0 => HasContribution)'
      /\ (OnlyPayee => feePaid \in {0, paid})'
      /\ paid \in 0 .. policy'.contribution.max
      /\ g \in Embeddings(Len(original'.outs), Len(payjoin'.outs))
  BY <1>1, <1>2 DEF Still
<1> QED
  BY <1>3 DEF OutputsWalked

LEMMA CheckGoesOn ==
  ASSUME NegotiationInv, AcceptanceInv, Proposed, Still, InputsWalked', OutputsFollowed',
         pc' = "rejected" => Excused
  PROVE  AcceptanceInv'
<1>1. Proposed' = Proposed
  BY DEF Still, Proposed
<1>2. AddedInputs' = AddedInputs /\ AddedOutputs' = AddedOutputs
  BY DEF Still, AddedInputs, AddedOutputs
<1>3. Answered'
  <2>1. Answered
    BY DEF AcceptanceInv
  <2> QED
    BY <1>2, <2>1 DEF Answered, Still
<1>4. Explained' = Explained
  <2>1. /\ UNCHANGED <<original, policy, payjoin, owned, changeVout, wanted, contributed, params,
                       rates>>
    BY DEF Still
  <2>2. RateAboveOriginal' = RateAboveOriginal
    BY <2>1 DEF RateAboveOriginal, HasContribution
  <2>3. Uncovered' = Uncovered
    BY <2>1 DEF Uncovered
  <2>4. PaymentCut' = PaymentCut
    BY <2>1 DEF PaymentCut, PaysPayee
  <2> QED
    BY <2>1, <2>2, <2>3, <2>4, FeeStands DEF Explained
<1>5. (policy.noSubst /\ NewOutputForPayee)' = (policy.noSubst /\ NewOutputForPayee)
  BY DEF Still, NewOutputForPayee, InPayeesPlace, PaysPayee
<1>6. AcceptableProposal'
  BY <1>4, <1>5 DEF AcceptableProposal, Excused, Sender!Rejected
<1> QED
  BY <1>1, <1>3, <1>6 DEF AcceptanceInv

LEMMA CheckedFacts ==
  ASSUME NegotiationInv, AcceptanceInv, Check
  PROVE  /\ Still /\ Proposed /\ Answered /\ Terms
         /\ original \in Psbts /\ payjoin \in Psbts /\ policy \in Policies
         /\ policy.contribution.max \in Nat
         /\ InputsWalked /\ OutputsFollowed
         /\ pc = "inputs" => /\ at \in 1 .. Len(payjoin.ins) + 1
                             /\ next \in 1 .. Len(original.ins) + 1
         /\ pc = "outputs" => /\ at \in 1 .. Len(payjoin.outs) + 1
                              /\ next \in 1 .. Len(original.outs) + 1
<1>1. /\ stage = "proposal" /\ Sender!Next
      /\ UNCHANGED <<stage, params, changeVout, owned, rates, replaced, wanted, contributed>>
  BY DEF Check
<1>2. UNCHANGED <<original, policy, payjoin>>
  BY <1>1 DEF Sender!Next, Sender!BasicChecks, Sender!OurInput, Sender!TheirInput,
              Sender!InputsDone, Sender!FeeOutput, Sender!PayeeOutput, Sender!OurOutput,
              Sender!AdditionalOutput, Sender!OutputsDone, Sender!CheckFees,
              Sender!Ensure, Sender!Goto, Sender!Pass, Sender!Same
<1>3. TypeOK /\ Terms /\ Sender!TypeOK
  BY DEF NegotiationInv, TypeOK
<1>4. /\ original \in Psbts /\ payjoin \in Psbts /\ policy \in Policies
      /\ policy.contribution.max \in Nat
  BY <1>3, Typed
<1>5. /\ pc = "inputs" => /\ at \in 1 .. Len(payjoin.ins) + 1
                          /\ next \in 1 .. Len(original.ins) + 1
      /\ pc = "outputs" => /\ at \in 1 .. Len(payjoin.outs) + 1
                           /\ next \in 1 .. Len(original.outs) + 1
  BY <1>3 DEF Sender!TypeOK, Sender!Within
<1>6. Proposed /\ Answered
  BY <1>1 DEF Proposed, AcceptanceInv
<1>7. InputsWalked /\ OutputsFollowed
  BY <1>6 DEF Answered
<1>8. Still
  BY <1>1, <1>2 DEF Still
<1> QED
  BY <1>3, <1>4, <1>5, <1>6, <1>7, <1>8

LEMMA BasicChecksPass ==
  ASSUME NegotiationInv, AcceptanceInv, Check, Sender!BasicChecks
  PROVE  AcceptanceInv'
<1>1. Still /\ Proposed /\ Answered /\ InputsWalked /\ OutputsFollowed
  BY CheckedFacts
<1>2. pc' = "inputs" /\ at' = 1 /\ next' = 1 /\ UNCHANGED feePaid
  BY <1>1 DEF Sender!BasicChecks, Sender!Ensure, Sender!Goto, Answered
<1>3. PICK f \in Embeddings(Len(original.ins), Len(payjoin.ins)) :
         InsAt(original, payjoin.ins, f) /\ SignedAt(payjoin.ins, f)
  BY <1>1 DEF InputsWalked
<1>4. Walked(f, 1, 1)
  BY DEF Walked, Embeddings
<1>5. InputsWalked'
  BY <1>1, <1>2, <1>3, <1>4 DEF InputsWalked, Still
<1>6. OutputsFollowed'
  BY <1>1, <1>2, OutputsStand
<1> QED
  BY <1>1, <1>2, <1>5, <1>6, CheckGoesOn

(* The walk over the inputs takes for the sender's what is the sender's.    *)
LEMMA InputPasses ==
  ASSUME NegotiationInv, AcceptanceInv, Check, Sender!OurInput \/ Sender!TheirInput
  PROVE  AcceptanceInv'
<1> DEFINE n == Len(original.ins)
           m == Len(payjoin.ins)
<1>1. /\ Still /\ Proposed /\ Answered /\ InputsWalked /\ OutputsFollowed
      /\ original \in Psbts /\ payjoin \in Psbts
  BY CheckedFacts
<1>2. /\ pc = "inputs" /\ at \in 1 .. m /\ next \in 1 .. n + 1
      /\ n \in Nat /\ m \in Nat /\ payjoin.ins \in Seq(Inputs)
  <2>1. pc = "inputs" /\ at <= m
    BY DEF Sender!OurInput, Sender!TheirInput, Sender!InputsLeft
  <2>2. n \in Nat /\ m \in Nat /\ payjoin.ins \in Seq(Inputs)
    BY <1>1 DEF Psbts
  <2>3. at \in 1 .. m + 1 /\ next \in 1 .. n + 1
    BY <2>1, CheckedFacts
  <2> QED
    BY <2>1, <2>2, <2>3
<1>3. PICK f \in Embeddings(n, m) :
         /\ InsAt(original, payjoin.ins, f) /\ SignedAt(payjoin.ins, f)
         /\ Walked(f, at, next)
  BY <1>1, <1>2 DEF InputsWalked
<1>4. next <= n => (payjoin.ins[at].coin = original.ins[next].coin <=> f[next] = at)
  BY <1>1, <1>2, <1>3, CoinsMatch
<1>5. Sender!IsOurs <=> next <= n /\ f[next] = at
  BY <1>4 DEF Sender!IsOurs
<1>6. IF next <= n /\ f[next] = at THEN Walked(f, at + 1, next + 1)
                                   ELSE Misses(f, at) /\ Walked(f, at + 1, next)
  <2> HIDE DEF n, m
  <2> QED
    BY <1>2, <1>3, WalkOn
<1>7. CASE Sender!IsOurs
  <2>1. next \in 1 .. n /\ f[next] = at
    BY <1>2, <1>5, <1>7
  <2>2. SameInput(payjoin.ins[at], original.ins[next])
    BY <1>3, <2>1 DEF InsAt
  <2>3. ~Misses(f, at)
    BY <2>1 DEF Misses, Embeddings
  <2>4. ~payjoin.ins[at].final
    BY <1>2, <1>3, <2>3 DEF SignedAt
  <2>5. pc' = pc /\ at' = at + 1 /\ next' = next + 1 /\ UNCHANGED feePaid
    BY <1>7, <2>2, <2>4 DEF Sender!OurInput, Sender!TheirInput, Sender!Pass, SameInput
  <2>6. InputsWalked'
    BY <1>1, <1>2, <1>3, <1>5, <1>6, <1>7, <2>5 DEF InputsWalked, Still
  <2>7. OutputsFollowed'
    BY <1>1, <1>2, <2>5, OutputsStand
  <2> QED
    BY <1>1, <1>2, <2>5, <2>6, <2>7, CheckGoesOn
<1>8. CASE ~Sender!IsOurs
  <2>1. Misses(f, at) /\ Walked(f, at + 1, next)
    BY <1>5, <1>6, <1>8
  <2>2. Theirs(original, payjoin.ins[at])
    BY <1>2, <1>3, <2>1 DEF InsAt
  <2>3. payjoin.ins[at].final
    BY <1>2, <1>3, <2>1 DEF SignedAt
  <2>5. pc' = pc /\ at' = at + 1 /\ next' = next + 0 /\ UNCHANGED feePaid
    BY <1>8, <2>2, <2>3 DEF Sender!OurInput, Sender!TheirInput, Sender!Pass, Theirs
  <2>6. next' = next
    BY <1>2, <2>5
  <2>7. InputsWalked'
    BY <1>1, <1>2, <1>3, <2>1, <2>5, <2>6 DEF InputsWalked, Still
  <2>8. OutputsFollowed'
    BY <1>1, <1>2, <2>5, OutputsStand
  <2> QED
    BY <1>1, <1>2, <2>5, <2>7, <2>8, CheckGoesOn
<1> QED
  BY <1>7, <1>8

LEMMA InputsPass ==
  ASSUME NegotiationInv, AcceptanceInv, Check, Sender!InputsDone
  PROVE  AcceptanceInv'
<1> DEFINE n == Len(original.ins)
           m == Len(payjoin.ins)
<1>1. /\ Still /\ Proposed /\ Answered /\ InputsWalked /\ OutputsFollowed
      /\ original \in Psbts /\ payjoin \in Psbts
  BY CheckedFacts
<1>2. /\ pc = "inputs" /\ at = m + 1 /\ next \in 1 .. n + 1
      /\ n \in Nat /\ m \in Nat
  <2>1. pc = "inputs" /\ at > m
    BY DEF Sender!InputsDone
  <2>2. n \in Nat /\ m \in Nat
    BY <1>1 DEF Psbts
  <2>3. at \in 1 .. m + 1 /\ next \in 1 .. n + 1
    BY <2>1, CheckedFacts
  <2> QED
    BY <2>1, <2>2, <2>3
<1>3. PICK f \in Embeddings(n, m) : Walked(f, at, next)
  BY <1>1, <1>2 DEF InputsWalked
<1>4. next = n + 1
  <2> HIDE DEF n, m
  <2> QED
    BY <1>2, <1>3, WalkEnds
<1>5. pc' = "outputs" /\ at' = 1 /\ next' = 1 /\ UNCHANGED feePaid
  BY <1>2, <1>4 DEF Sender!InputsDone, Sender!Ensure, Sender!Goto
<1>8. ASSUME OutputsWalked PROVE OutputsWalked'
  <2>2. PICK g \in Embeddings(Len(original.outs), Len(payjoin.outs)),
             paid \in 0 .. policy.contribution.max :
          /\ OutsAt(original, policy, payjoin.outs, g, paid, changeVout)
          /\ paid <= FeeAt(rates.min, AddedInputs)
          /\ paid # 0 => HasContribution
          /\ OnlyPayee => feePaid \in {0, paid}
    BY <1>8 DEF OutputsWalked
  <2>3. WalkedPast(g, PayeeVout(original), 1, 1)
    BY DEF WalkedPast, Embeddings
  <2>1. /\ AddedInputs' = AddedInputs /\ HasContribution' = HasContribution
        /\ OnlyPayee' = OnlyPayee /\ original' = original /\ policy' = policy
        /\ payjoin' = payjoin /\ rates' = rates /\ changeVout' = changeVout
    BY <1>1 DEF Still, AddedInputs, HasContribution, OnlyPayee
  <2> QED
    BY <1>5, <2>1, <2>2, <2>3 DEF OutputsWalked
<1>9. OutputsFollowed'
  BY <1>1, <1>8, FeeStands DEF OutputsFollowed
<1>10. InputsWalked'
  BY <1>1, <1>5, InputsStand
<1> QED
  BY <1>1, <1>5, <1>9, <1>10, CheckGoesOn

(* The walk over the outputs, where the payee's is the receiver's only one: *)
(* of the sender's it takes each for itself,                                *)
LEMMA ScriptsMatch ==
  ASSUME NEW tx \in Psbts, NEW terms, NEW outs \in Seq(Outputs),
         NEW g \in Embeddings(Len(tx.outs), Len(outs)), NEW paid, NEW cut,
         OutsAt(tx, terms, outs, g, paid, cut), NEW p, OwnedOf(tx) = {p},
         NEW k \in 1 .. Len(outs), NEW c \in 1 .. Len(tx.outs), c # p,
         WalkedPast(g, p, k, c)
  PROVE  outs[k].script = tx.outs[c].script <=> g[c] = k
<1> DEFINE n == Len(tx.outs)
<1>1. n \in Nat /\ Len(outs) \in Nat /\ DOMAIN g = 1 .. n
  BY OwnedIs DEF Embeddings
<1>2. c \in SendersOf(tx) /\ tx.outs[c].script \in SendersScripts(tx)
  BY OwnedIs
<1>3. ASSUME outs[k].script = tx.outs[c].script PROVE g[c] = k
  <2>1. PICK i \in SendersOf(tx) : g[i] = k
    BY <1>2, <1>3 DEF OutsAt
  <2>2. i \in 1 .. n /\ i # p
    BY OwnedIs
  <2>3. ~(i < c) /\ g[c] >= k
    BY <1>1, <2>1, <2>2 DEF WalkedPast
  <2>4. g[c] <= g[i]
    <3> HIDE DEF n
    <3>1. (c < i => g[c] < g[i]) /\ g[i] \in 1 .. Len(outs) /\ g[c] \in 1 .. Len(outs)
      BY <1>1, <2>2, OnePlace DEF n
    <3>2. c < i \/ c = i
      BY <1>1, <2>2, <2>3 DEF n
    <3> QED
      BY <3>1, <3>2
  <2>5. g[c] \in 1 .. Len(outs)
    BY DEF Embeddings
  <2> QED
    BY <2>1, <2>3, <2>4, <2>5
<1>4. ASSUME g[c] = k PROVE outs[k].script = tx.outs[c].script
  BY <1>2, <1>4 DEF OutsAt
<1> QED
  BY <1>3, <1>4

(* and it goes on past each.                                                *)
LEMMA PastOn ==
  ASSUME NEW n \in Nat, NEW m \in Nat, NEW g \in Embeddings(n, m), NEW p,
         NEW k \in 1 .. m, NEW c \in 1 .. n + 1, WalkedPast(g, p, k, c)
  PROVE  /\ c <= n /\ (c = p \/ g[c] = k) => WalkedPast(g, p, k + 1, c + 1)
         /\ (c <= n => g[c] # k) => WalkedPast(g, p, k + 1, c)
<1>1. DOMAIN g = 1 .. n /\ \A i \in 1 .. n : g[i] \in 1 .. m
  BY DEF Embeddings
<1>2. \A i \in 1 .. n : (i < c /\ i # p => g[i] < k) /\ (i >= c => g[i] >= k)
  BY <1>1 DEF WalkedPast
<1>3. ASSUME c <= n, c = p \/ g[c] = k PROVE WalkedPast(g, p, k + 1, c + 1)
  <2>1. c \in 1 .. n
    BY <1>3
  <2>2. ASSUME NEW i \in 1 .. n, i < c + 1, i # p PROVE g[i] < k + 1
    <3>1. CASE i = c
      BY <1>3, <2>2, <3>1
    <3>2. CASE i # c
      <4>1. i < c
        BY <2>2, <3>2
      <4> QED
        BY <1>1, <1>2, <2>2, <4>1
    <3> QED
      BY <3>1, <3>2
  <2>3. ASSUME NEW i \in 1 .. n, i >= c + 1 PROVE g[i] >= k + 1
    <3>1. c < i
      BY <2>3
    <3>2. g[c] < g[i] /\ g[c] \in 1 .. m /\ g[i] \in 1 .. m
      BY <2>1, <3>1, OnePlace
    <3>3. g[c] >= k
      BY <1>2, <2>1
    <3> QED
      BY <3>2, <3>3
  <2> QED
    BY <1>1, <2>2, <2>3 DEF WalkedPast
<1>4. ASSUME c <= n => g[c] # k PROVE WalkedPast(g, p, k + 1, c)
  <2>1. ASSUME NEW i \in 1 .. n, i < c, i # p PROVE g[i] < k + 1
    BY <1>1, <1>2, <2>1
  <2>2. ASSUME NEW i \in 1 .. n, i >= c PROVE g[i] >= k + 1
    <3>1. c \in 1 .. n /\ (c < i \/ c = i)
      BY <2>2
    <3>2. g[c] >= k /\ g[c] # k /\ g[c] \in 1 .. m
      BY <1>1, <1>2, <1>4, <3>1
    <3>3. (c < i => g[c] < g[i]) /\ g[i] \in 1 .. m
      BY <3>1, OnePlace
    <3> QED
      BY <3>1, <3>2, <3>3
  <2> QED
    BY <1>1, <2>1, <2>2 DEF WalkedPast
<1> QED
  BY <1>3, <1>4

SendersBefore(tx, outs, k) == {j \in 1 .. k - 1 : outs[j].script \in SendersScripts(tx)}

(* Before a place up to the payee's output there are as many of the         *)
(* sender's as in the original.                                             *)
LEMMA PlacesBefore ==
  ASSUME NEW tx \in Psbts, NEW terms, NEW outs \in Seq(Outputs),
         NEW g \in Embeddings(Len(tx.outs), Len(outs)), NEW paid, NEW cut,
         OutsAt(tx, terms, outs, g, paid, cut),
         NEW p \in 1 .. Len(tx.outs), OwnedOf(tx) = {p},
         NEW k \in 1 .. Len(outs),
         \A i \in 1 .. Len(tx.outs) : (i < p => g[i] < k) /\ (i >= p => g[i] >= k)
  PROVE  Cardinality(SendersBefore(tx, outs, k)) = p - 1
<1> DEFINE n == Len(tx.outs)
           S == {j \in 1 .. k - 1 : outs[j].script \in SendersScripts(tx)}
           h == [i \in 1 .. p - 1 |-> g[i]]
<1>1. n \in Nat /\ Len(outs) \in Nat /\ \A i \in 1 .. n : g[i] \in 1 .. Len(outs)
  BY OwnedIs DEF Embeddings
<1>2. p - 1 \in Nat /\ \A i \in 1 .. p - 1 : i \in 1 .. n /\ i < p /\ i # p
  BY <1>1
<1>3. ASSUME NEW i \in 1 .. p - 1 PROVE g[i] \in S
  <2>1. i \in SendersOf(tx)
    BY <1>2, OwnedIs
  <2>2. outs[g[i]].script = tx.outs[i].script /\ tx.outs[i].script \in SendersScripts(tx)
    BY <1>2, <2>1, OwnedIs DEF OutsAt
  <2>3. g[i] \in 1 .. k - 1
    BY <1>1, <1>2
  <2> QED
    BY <2>2, <2>3
<1>4. ASSUME NEW j \in S PROVE \E i \in 1 .. p - 1 : g[i] = j
  <2>1. j \in 1 .. Len(outs) /\ j < k /\ outs[j].script \in SendersScripts(tx)
    BY <1>1
  <2>2. PICK i \in SendersOf(tx) : g[i] = j
    BY <2>1 DEF OutsAt
  <2>3. i \in 1 .. n
    BY OwnedIs
  <2>4. ~(i >= p)
    BY <1>1, <2>1, <2>2, <2>3
  <2>5. i \in 1 .. p - 1
    BY <1>1, <2>3, <2>4
  <2> QED
    BY <2>2, <2>5
<1>5. \A i, j \in 1 .. p - 1 : g[i] = g[j] => i = j
  <2> HIDE DEF n
  <2> TAKE i, j \in 1 .. p - 1
  <2>1. i \in 1 .. n /\ j \in 1 .. n
    BY <1>2
  <2> QED
    BY <1>1, <2>1, OnePlace DEF n
<1> HIDE DEF S
<1>6. h \in [1 .. p - 1 -> S] /\ \A i \in 1 .. p - 1 : h[i] = g[i]
  BY <1>3
<1> HIDE DEF h
<1>7. h \in Bijection(1 .. p - 1, S)
  <2>1. h \in Injection(1 .. p - 1, S)
    BY <1>5, <1>6 DEF Injection, IsInjective
  <2>2. \A j \in S : \E i \in 1 .. p - 1 : h[i] = j
    BY <1>4, <1>6
  <2> QED
    BY <1>6, <2>1, <2>2 DEF Bijection, Surjection
<1>8. ExistsBijection(1 .. p - 1, S)
  BY <1>7 DEF ExistsBijection
<1>9. Cardinality(S) = p - 1
  BY <1>2, <1>8, FS_CountingElements
<1> QED
  BY <1>9 DEF S, SendersBefore

(* More than the payee's output is the receiver's.                          *)
LEMMA MoreThanPayee ==
  ASSUME NegotiationInv, AcceptanceInv, Proposed, ~OnlyPayee
  PROVE  Excused
<1>1. Answered /\ original \in Originals /\ policy \in SenderPolicies(original)
  BY DEF AcceptanceInv, NegotiationInv, Terms
<1>2. /\ original \in Psbts /\ PayeeVout(original) \in OwnedOf(original)
      /\ owned = OwnedOf(original) /\ Len(original.outs) \in Nat
      /\ owned \in SUBSET (1 .. Len(original.outs))
  BY <1>1, PolicyFacts, OwnedIs DEF Answered
<1>3. ~(Cardinality(owned) <= 1)
  BY <1>2, OneOf DEF OnlyPayee
<1>4. Cardinality(owned) \in Nat
  <2>1. IsFiniteSet(1 .. Len(original.outs))
    BY <1>2, FS_Interval
  <2>2. IsFiniteSet(owned)
    BY <1>2, <2>1, FS_Subset
  <2> QED
    BY <2>2, FS_CardinalityType
<1> QED
  BY <1>3, <1>4 DEF Excused, Explained

(* A step of the walk over the outputs.                                     *)
OutputStep ==
    Sender!FeeOutput \/ Sender!PayeeOutput \/ Sender!OurOutput \/ Sender!AdditionalOutput

LEMMA OutputOfMany ==
  ASSUME NegotiationInv, AcceptanceInv, Check, ~OnlyPayee \/ FeeFromAnother,
         OutputStep \/ Sender!OutputsDone
  PROVE  AcceptanceInv'
<1>1. Still /\ Proposed /\ InputsWalked /\ OutputsFollowed
  BY CheckedFacts
<1>2. pc = "outputs" /\ pc' # "inputs"
  BY DEF OutputStep, Sender!FeeOutput, Sender!PayeeOutput, Sender!OurOutput,
         Sender!AdditionalOutput, Sender!OutputsDone, Sender!OutputsLeft, Sender!Pass,
         Sender!Goto, Sender!Ensure
<1>4. ASSUME OutputsWalked, ~OnlyPayee PROVE OutputsWalked'
  <2>2. PICK g \in Embeddings(Len(original.outs), Len(payjoin.outs)),
             paid \in 0 .. policy.contribution.max :
          /\ OutsAt(original, policy, payjoin.outs, g, paid, changeVout)
          /\ paid <= FeeAt(rates.min, AddedInputs)
          /\ paid # 0 => HasContribution
    BY <1>4 DEF OutputsWalked
  <2>1. /\ AddedInputs' = AddedInputs /\ HasContribution' = HasContribution
        /\ ~OnlyPayee' /\ original' = original /\ policy' = policy
        /\ payjoin' = payjoin /\ rates' = rates /\ changeVout' = changeVout
    BY <1>1, <1>4 DEF Still, AddedInputs, HasContribution, OnlyPayee
  <2> QED
    BY <2>1, <2>2 DEF OutputsWalked
<1>5. OutputsFollowed'
  BY <1>1, <1>4, FeeStands DEF OutputsFollowed
<1>6. InputsWalked'
  BY <1>1, <1>2, InputsStand
<1>7. Excused
  BY <1>1, MoreThanPayee DEF Excused, Explained
<1> QED
  BY <1>1, <1>5, <1>6, <1>7, CheckGoesOn

(* An output passes.                                                        *)
LEMMA OutputTaken ==
  ASSUME NegotiationInv, AcceptanceInv, Check, OnlyPayee, pc = "outputs", UNCHANGED pc,
         NEW g \in Embeddings(Len(original.outs), Len(payjoin.outs)),
         NEW paid \in 0 .. policy.contribution.max,
         OutsAt(original, policy, payjoin.outs, g, paid, changeVout),
         paid <= FeeAt(rates.min, AddedInputs), paid # 0 => HasContribution,
         feePaid' \in {0, paid}, WalkedPast(g, PayeeVout(original), at', next')
  PROVE  AcceptanceInv'
<1>1. Still /\ Proposed /\ InputsWalked
  BY CheckedFacts
<1>2. OutputsWalked'
  <2>1. /\ AddedInputs' = AddedInputs /\ HasContribution' = HasContribution
        /\ OnlyPayee' = OnlyPayee /\ original' = original /\ policy' = policy
        /\ payjoin' = payjoin /\ rates' = rates /\ changeVout' = changeVout
    BY <1>1 DEF Still, AddedInputs, HasContribution, OnlyPayee
  <2> QED
    BY <2>1 DEF OutputsWalked
<1>3. InputsWalked' /\ OutputsFollowed'
  BY <1>1, <1>2, InputsStand DEF OutputsFollowed
<1> QED
  BY <1>1, <1>3, CheckGoesOn

(* What stands in the payee's place and is not its output.                  *)
LEMMA PayeeMissed ==
  ASSUME original \in Originals, policy \in SenderPolicies(original), payjoin \in Psbts,
         policy.noSubst, OnlyPayee,
         NEW g \in Embeddings(Len(original.outs), Len(payjoin.outs)), NEW paid,
         OutsAt(original, policy, payjoin.outs, g, paid, changeVout),
         at \in 1 .. Len(payjoin.outs), next = PayeeVout(original),
         WalkedPast(g, PayeeVout(original), at, next), ~PaysPayee(payjoin.outs[at])
  PROVE  Excused
<1> DEFINE p == PayeeVout(original)
           n == Len(original.outs)
           m == Len(payjoin.outs)
<1>1. /\ original \in Psbts /\ OwnedOf(original) = {p} /\ p \in OwnedOf(original)
      /\ p \in 1 .. n /\ n \in Nat /\ original.outs[p].script = Payee
  BY PolicyFacts, OwnedIs DEF OnlyPayee
<1>2. /\ m \in Nat /\ DOMAIN payjoin.outs = 1 .. m /\ g \in [1 .. n -> 1 .. m]
      /\ payjoin.outs \in Seq(Outputs)
  BY OwnedIs DEF Embeddings, Psbts
<1>3. g[p] \in 1 .. m
  BY <1>1, <1>2
<1>4. /\ payjoin.outs[g[p]].script = Payee
      /\ g[p] # changeVout => PaysPayee(payjoin.outs[g[p]])
  BY <1>1 DEF OutsAt, PaysPayee, PayeeVout
<1>5. CASE ~PaysPayee(payjoin.outs[g[p]])
  BY <1>4, <1>5 DEF Excused, Explained, PaymentCut
<1>6. CASE PaysPayee(payjoin.outs[g[p]])
  <2>1. \A i \in 1 .. n : (i < p /\ i # p => g[i] < at) /\ (i >= p => g[i] >= at)
    BY <1>2 DEF WalkedPast
  <2>2. at # g[p] /\ g[p] >= at
    BY <1>1, <1>6, <2>1
  <2>3. at < g[p]
    BY <1>2, <1>3, <2>2
  <2>4. \A i \in 1 .. n : (i < p => g[i] < at) /\ (i >= p => g[i] >= at)
    BY <1>1, <2>1
  <2>5. \A i \in 1 .. n : (i < p => g[i] < g[p]) /\ (i >= p => g[i] >= g[p])
    <3> TAKE i \in 1 .. n
    <3>1. (i < p => g[i] < g[p]) /\ (p < i => g[p] < g[i])
      BY <1>1 DEF Embeddings
    <3>2. g[i] \in 1 .. m
      BY <1>2
    <3>3. i >= p => p < i \/ i = p
      BY <1>1
    <3> QED
      BY <1>3, <3>1, <3>2, <3>3
  <2>6. InPayeesPlace(at) /\ InPayeesPlace(g[p])
    <3> DEFINE Before(k) == SendersBefore(original, payjoin.outs, k)
    <3>1. ASSUME NEW k \in 1 .. m,
                 \A i \in 1 .. n : (i < p => g[i] < k) /\ (i >= p => g[i] >= k)
          PROVE  Cardinality(Before(k)) = p - 1
      <4>1. /\ original \in Psbts /\ payjoin.outs \in Seq(Outputs)
            /\ p \in 1 .. n /\ OwnedOf(original) = {p}
        BY <1>1, <1>2
      <4> HIDE DEF p
      <4> QED
        BY <3>1, <4>1, PlacesBefore
    <3>2. \A k : InPayeesPlace(k) <=> Cardinality(Before(k)) = p - 1
      BY DEF InPayeesPlace, PayeeVout, SendersBefore
    <3> HIDE DEF Before, p
    <3> QED
      BY <1>3, <2>4, <2>5, <3>1, <3>2
  <2>7. NewOutputForPayee
    BY <1>2, <1>3, <1>6, <2>3, <2>6 DEF NewOutputForPayee
  <2> QED
    BY <2>7 DEF Excused
<1> QED
  BY <1>5, <1>6

LEMMA OutputPasses ==
  ASSUME NegotiationInv, AcceptanceInv, Check, OnlyPayee, ~FeeFromAnother, OutputStep
  PROVE  AcceptanceInv'
<1> DEFINE n == Len(original.outs)
           m == Len(payjoin.outs)
           p == PayeeVout(original)
<1>1. /\ Still /\ Proposed /\ InputsWalked /\ OutputsFollowed /\ OutputsWalked
      /\ original \in Psbts /\ payjoin \in Psbts /\ policy.contribution.max \in Nat
      /\ original \in Originals /\ policy \in SenderPolicies(original)
  BY CheckedFacts DEF Terms, OutputsFollowed
<1>2. /\ pc = "outputs" /\ at \in 1 .. m /\ next \in 1 .. n + 1
      /\ n \in Nat /\ m \in Nat /\ payjoin.outs \in Seq(Outputs)
  <2>1. pc = "outputs" /\ at <= m
    BY DEF OutputStep, Sender!FeeOutput, Sender!PayeeOutput, Sender!OurOutput,
           Sender!AdditionalOutput, Sender!OutputsLeft
  <2>2. n \in Nat /\ m \in Nat /\ payjoin.outs \in Seq(Outputs)
    BY <1>1 DEF Psbts
  <2>3. at \in 1 .. m + 1 /\ next \in 1 .. n + 1
    BY <2>1, CheckedFacts
  <2> QED
    BY <2>1, <2>2, <2>3
<1>3. PICK g \in Embeddings(n, m), paid \in 0 .. policy.contribution.max :
        /\ OutsAt(original, policy, payjoin.outs, g, paid, changeVout)
        /\ paid <= FeeAt(rates.min, AddedInputs)
        /\ paid # 0 => HasContribution
        /\ feePaid \in {0, paid} /\ WalkedPast(g, p, at, next)
  BY <1>1, <1>2 DEF OutputsWalked
<1>4. /\ OwnedOf(original) = {p} /\ p \in 1 .. n /\ policy.payee = Payee
      /\ \A i \in 1 .. n : original.outs[i].script = Payee <=> i = p
      /\ policy.contribution.vout # p
  BY <1>1, PolicyFacts, OwnedIs DEF OnlyPayee
<1>5. Sender!IsPayee <=> next = p
  BY <1>2, <1>4 DEF Sender!IsPayee, Sender!Peeked
<1>6. next # p => (Sender!SameScript <=> next <= n /\ g[next] = at)
  <2>1. ASSUME next # p, next <= n
        PROVE  payjoin.outs[at].script = original.outs[next].script <=> g[next] = at
    <3>1. next \in 1 .. n
      BY <1>2, <2>1
    <3> HIDE DEF p
    <3> QED
      BY <1>1, <1>2, <1>3, <1>4, <2>1, <3>1, ScriptsMatch
  <2> QED
    BY <2>1 DEF Sender!SameScript, Sender!Peeked
<1>7. /\ next <= n /\ (next = p \/ g[next] = at) => WalkedPast(g, p, at + 1, next + 1)
      /\ (next <= n => g[next] # at) => WalkedPast(g, p, at + 1, next)
  <2> HIDE DEF n, m, p
  <2> QED
    BY <1>2, <1>3, PastOn
<1>8. ASSUME next # p, next \in 1 .. n, g[next] = at
      PROVE  LET v == original.outs[next].value
             IN /\ payjoin.outs[at].value = v - (IF next = policy.contribution.vout
                                                 THEN paid ELSE 0)
                /\ v \in Nat /\ paid \in Nat
  <2>1. next \in SendersOf(original) /\ original.outs[next].value \in Nat
    BY <1>1, <1>4, <1>8, OwnedIs
  <2> QED
    BY <1>1, <1>3, <1>8, <2>1 DEF OutsAt
<1>9. CASE Sender!FeeOutput
  <2>1. Sender!IsFeeOutput
    BY <1>9 DEF Sender!FeeOutput
  <2>2. /\ next = policy.contribution.vout /\ next # p /\ next \in 1 .. n /\ g[next] = at
    BY <1>2, <1>4, <1>6, <2>1 DEF Sender!IsFeeOutput
  <2>3. original.outs[next].value - payjoin.outs[at].value = paid /\ paid \in Nat
    BY <1>8, <2>2
  <2>4. paid <= policy.contribution.max
    BY <1>1, <1>3
  <2>5. pc' = pc /\ at' = at + 1 /\ next' = next + 1 /\ feePaid' \in {0, paid}
    BY <1>3, <1>9, <2>3, <2>4 DEF Sender!FeeOutput, Sender!Pass
  <2> QED
    BY <1>2, <1>3, <1>7, <2>2, <2>5, OutputTaken
<1>10. CASE Sender!PayeeOutput
  <2>1. next = p /\ next <= n
    BY <1>4, <1>5, <1>10 DEF Sender!PayeeOutput
  <2>2. CASE policy.noSubst => /\ Sender!SameScript
                               /\ payjoin.outs[at].value >= original.outs[next].value
    <3>1. pc' = pc /\ at' = at + 1 /\ next' = next + 1 /\ UNCHANGED feePaid
      BY <1>10, <2>2 DEF Sender!PayeeOutput, Sender!Pass
    <3> QED
      BY <1>2, <1>3, <1>7, <2>1, <3>1, OutputTaken
  <2>3. CASE ~(policy.noSubst => /\ Sender!SameScript
                                 /\ payjoin.outs[at].value >= original.outs[next].value)
    <3>1. pc' = "rejected" /\ UNCHANGED feePaid
      BY <1>10, <2>3 DEF Sender!PayeeOutput, Sender!Goto
    <3>2. ~PaysPayee(payjoin.outs[at])
      <4>1. original.outs[next].script = Payee /\ next = VoutOf(original, Payee)
        BY <1>4, <2>1 DEF PayeeVout
      <4> QED
        BY <2>1, <2>3, <4>1 DEF PaysPayee, Sender!SameScript, Sender!Peeked
    <3>3. Excused
      BY <1>1, <1>2, <1>3, <2>1, <2>3, <3>2, PayeeMissed
    <3>4. InputsWalked' /\ OutputsFollowed'
      BY <1>1, <3>1, InputsStand, OutputsStand
    <3> QED
      BY <1>1, <3>3, <3>4, CheckGoesOn
  <2> QED
    BY <2>2, <2>3
<1>11. CASE Sender!OurOutput
  <2>1. ~Sender!IsFeeOutput /\ next # p /\ Sender!SameScript
    BY <1>5, <1>11 DEF Sender!OurOutput
  <2>2. next \in 1 .. n /\ g[next] = at /\ next # policy.contribution.vout
    BY <1>2, <1>6, <2>1 DEF Sender!IsFeeOutput
  <2>3. payjoin.outs[at].value >= original.outs[next].value
    BY <1>8, <2>1, <2>2
  <2>4. pc' = pc /\ at' = at + 1 /\ next' = next + 1 /\ UNCHANGED feePaid
    BY <1>11, <2>3 DEF Sender!OurOutput, Sender!Pass
  <2> QED
    BY <1>2, <1>3, <1>7, <2>2, <2>4, OutputTaken
<1>12. CASE Sender!AdditionalOutput
  <2>1. next # p /\ ~Sender!SameScript
    BY <1>5, <1>12 DEF Sender!AdditionalOutput
  <2>2. next <= n => g[next] # at
    BY <1>6, <2>1
  <2>3. pc' = pc /\ at' = at + 1 /\ next' = next + 0 /\ UNCHANGED feePaid
    BY <1>12 DEF Sender!AdditionalOutput, Sender!Pass
  <2>4. next' = next
    BY <1>2, <2>3
  <2> QED
    BY <1>2, <1>3, <1>7, <2>2, <2>3, <2>4, OutputTaken
<1> QED
  BY <1>9, <1>10, <1>11, <1>12 DEF OutputStep

LEMMA OutputsPass ==
  ASSUME NegotiationInv, AcceptanceInv, Check, OnlyPayee, ~FeeFromAnother, Sender!OutputsDone
  PROVE  AcceptanceInv'
<1> DEFINE n == Len(original.outs)
           m == Len(payjoin.outs)
<1>1. /\ Still /\ Proposed /\ InputsWalked /\ OutputsFollowed /\ OutputsWalked
      /\ original \in Psbts /\ payjoin \in Psbts
  BY CheckedFacts DEF OutputsFollowed
<1>2. /\ pc = "outputs" /\ at = m + 1 /\ next \in 1 .. n + 1
      /\ n \in Nat /\ m \in Nat
  <2>1. pc = "outputs" /\ at > m
    BY DEF Sender!OutputsDone
  <2>2. n \in Nat /\ m \in Nat
    BY <1>1 DEF Psbts
  <2>3. at \in 1 .. m + 1 /\ next \in 1 .. n + 1
    BY <2>1, CheckedFacts
  <2> QED
    BY <2>1, <2>2, <2>3
<1>3. PICK g \in Embeddings(n, m) : WalkedPast(g, PayeeVout(original), at, next)
  BY <1>1, <1>2 DEF OutputsWalked
<1>4. next > n
  <2>1. ASSUME next <= n PROVE FALSE
    <3>1. next \in 1 .. n
      BY <1>2, <2>1
    <3>2. g[next] \in 1 .. m /\ g[next] >= m + 1
      BY <1>2, <1>3, <3>1 DEF WalkedPast, Embeddings
    <3> QED
      BY <1>2, <3>2
  <2> QED
    BY <1>2, <2>1
<1>5. pc' = "fees" /\ UNCHANGED feePaid
  BY <1>4 DEF Sender!OutputsDone, Sender!Ensure, Sender!Goto
<1>6. InputsWalked' /\ OutputsFollowed'
  BY <1>1, <1>5, InputsStand, OutputsStand
<1> QED
  BY <1>1, <1>5, <1>6, CheckGoesOn

-----------------------------------------------------------------------------
(* The fees.                                                                *)

(* A transaction that grows by two weights and pays for each at a rate, or  *)
(* at a higher one, keeps the rate.                                         *)
LEMMA RateStays ==
  ASSUME NEW rate \in Nat, NEW more \in Nat, rate <= more,
         NEW ins \in Nat, NEW outs \in Nat, NEW old \in Int, NEW fee \in Int,
         NEW weight \in Nat \ {0}, NEW new \in Nat \ {0},
         rate <= RateOf(old, weight), new <= weight + ins + outs,
         fee >= old + FeeAt(more, ins) + FeeAt(more, outs)
  PROVE  rate <= RateOf(fee, new)
<1> DEFINE fi == FeeAt(more, ins)
           fo == FeeAt(more, outs)
<1>1. Unit \in Nat \ {0} /\ fi \in Nat /\ fo \in Nat
  BY FeeCovers, WeightsAssumption
<1>2. rate * weight <= old * Unit
  BY RateIsMost
<1>3. rate * ins <= fi * Unit
  <2>1. rate * ins <= more * ins /\ more * ins <= fi * Unit
    BY FeeCovers, TimesMonotone
  <2>2. rate * ins \in Int /\ more * ins \in Int /\ fi * Unit \in Int
    BY <1>1
  <2> HIDE DEF fi
  <2> QED
    BY <2>1, <2>2
<1>4. rate * outs <= fo * Unit
  <2>1. rate * outs <= more * outs /\ more * outs <= fo * Unit
    BY FeeCovers, TimesMonotone
  <2>2. rate * outs \in Int /\ more * outs \in Int /\ fo * Unit \in Int
    BY <1>1
  <2> HIDE DEF fo
  <2> QED
    BY <2>1, <2>2
<1> HIDE DEF fi, fo
<1>5. rate * new <= rate * (weight + ins + outs)
  <2>1. weight + ins + outs \in Nat
    OBVIOUS
  <2>2. new * rate <= (weight + ins + outs) * rate
    BY <2>1, TimesMonotone
  <2> QED
    BY <2>1, <2>2
<1>6. rate * (weight + ins + outs) = rate * weight + rate * ins + rate * outs
  OBVIOUS
<1>7. (old + fi + fo) * Unit = old * Unit + fi * Unit + fo * Unit
  BY <1>1
<1>8. (old + fi + fo) * Unit <= fee * Unit
  <2>1. fee - (old + fi + fo) \in Nat
    BY <1>1 DEF fi, fo
  <2>2. (fee - (old + fi + fo)) * Unit >= 0
    BY <1>1, <2>1
  <2>3. (fee - (old + fi + fo)) * Unit = fee * Unit - (old + fi + fo) * Unit
    BY <1>1
  <2>4. fee * Unit \in Int /\ (old + fi + fo) * Unit \in Int
    BY <1>1
  <2> QED
    BY <2>2, <2>3, <2>4
<1>9. rate * new <= fee * Unit
  <2>1. /\ rate * new \in Int /\ rate * weight \in Int /\ rate * ins \in Int
        /\ rate * outs \in Int /\ fi * Unit \in Int /\ fo * Unit \in Int
        /\ old * Unit \in Int /\ fee * Unit \in Int
    BY <1>1
  <2> QED
    BY <1>2, <1>3, <1>4, <1>5, <1>6, <1>7, <1>8, <2>1
<1> QED
  BY <1>9, RateIsMost

(* What the sender takes for the receiver's inputs, and for the proposal.   *)
LEMMA ProposalWeighs ==
  ASSUME NegotiationInv, AcceptanceInv, Proposed
  PROVE  /\ Sender!TheirWeight = AddedInputs
         /\ Weight(payjoin) \in Nat \ {0} /\ Weight(original) \in Nat \ {0}
         /\ Weight(payjoin) <= Weight(original) + AddedInputs + AddedOutputs
<1>1. /\ original \in Psbts /\ payjoin \in Psbts /\ Answered
  BY Typed DEF NegotiationInv, AcceptanceInv
<1>2. PICK f \in Embeddings(Len(original.ins), Len(payjoin.ins)) :
         InsAt(original, payjoin.ins, f) /\ SignedAt(payjoin.ins, f)
  BY <1>1 DEF Answered, InputsWalked
<1>3. /\ OursWeigh(original, InWeight, payjoin.ins) = OursWeigh(original, InWeight, original.ins)
      /\ OursWeigh(original, BareWeight, payjoin.ins)
           = OursWeigh(original, BareWeight, original.ins)
  BY <1>1 DEF Answered
<1>4. SumOf(TheirsOf(original), payjoin.ins) = AddedInputs
  BY <1>1, <1>3, TheirsWeigh DEF AddedInputs
<1>5. Sender!TheirWeight = AddedInputs
  BY <1>1, <1>4, TheirWeightIs
<1>6. /\ SumOf(SignedWeighs, payjoin.ins) \in Int /\ SumOf(SignedWeighs, original.ins) \in Int
      /\ SumOf(SignedWeighs, payjoin.ins)
           <= SumOf(SignedWeighs, original.ins) + SumOf(TheirsOf(original), payjoin.ins)
  BY <1>1, <1>2, <1>3, SignedWeigh
<1>7. /\ Weight(payjoin)
           = BaseWeight + OutputsWeight(payjoin) + SumOf(SignedWeighs, payjoin.ins)
      /\ Weight(original)
           = BaseWeight + OutputsWeight(original) + SumOf(SignedWeighs, original.ins)
      /\ Weight(payjoin) \in Nat \ {0} /\ Weight(original) \in Nat \ {0}
  BY <1>1, WeightIs
<1>8. /\ BaseWeight \in Nat /\ OutputsWeight(payjoin) \in Nat
      /\ OutputsWeight(original) \in Nat /\ AddedInputs \in Nat
  BY <1>1, TotalsAre, WeightsAssumption DEF Answered
<1> QED
  BY <1>4, <1>5, <1>6, <1>7, <1>8, SMTT(40) DEF AddedOutputs

(* The last check: a fee that is due to the rates both sides asked for.     *)
LEMMA FeesPass ==
  ASSUME NegotiationInv, AcceptanceInv, Proposed, OnlyPayee, ~Excused
  PROVE  /\ Fee(original) <= Fee(payjoin)
         /\ feePaid <= Fee(payjoin) - Fee(original)
         /\ feePaid <= FeeAt(RateOf(Fee(original), Weight(original)), AddedInputs)
         /\ RateOf(Fee(payjoin), Weight(payjoin)) >= policy.minRate
<1> DEFINE was == Fee(original)
           is == Fee(payjoin)
           rate == RateOf(was, Weight(original))
           ins == FeeAt(rates.min, AddedInputs)
           outs == FeeAt(rates.min, AddedOutputs)
<1>1. /\ Answered /\ Terms /\ TypeOK
      /\ original \in Psbts /\ payjoin \in Psbts
      /\ policy.minRate \in Nat /\ params.minRate \in Nat /\ rates.min \in Nat
      /\ policy.contribution.max \in Nat
  BY Typed DEF NegotiationInv, AcceptanceInv, TypeOK
<1>2. AddedInputs \in Nat /\ AddedOutputs \in Nat /\ policy.minRate <= rates.min
  BY <1>1 DEF Answered, Terms
<1>3. was \in Int /\ is \in Int /\ ins \in Nat /\ outs \in Nat
  BY <1>1, <1>2, FeeInt, FeeCovers
<1>4. is >= was + ins + outs
  BY DEF NegotiationInv, Kept, FeeRateKept, Excused, Explained
<1>5. PICK paid \in 0 .. policy.contribution.max :
        paid <= ins /\ (paid # 0 => HasContribution) /\ feePaid \in {0, paid}
  BY <1>1 DEF Answered, OutputsFollowed, OutputsWalked, Excused, Explained
<1>6. paid \in Nat
  BY <1>1
<1>7. rate \in Int /\ ~(policy.minRate > rate) /\ (HasContribution => ~(rates.min > rate))
  <2>1. rate \in Int
    BY <1>1, <1>3, ProposalWeighs, RateIsMost
  <2>2. ~RateAboveOriginal
    BY DEF Excused, Explained
  <2> QED
    BY <2>1, <2>2 DEF RateAboveOriginal
<1> HIDE DEF was, is, rate, ins, outs
<1>8. rate \in Nat /\ policy.minRate <= rate
  BY <1>1, <1>7
<1>9. was <= is /\ feePaid <= is - was
  BY <1>3, <1>4, <1>5, <1>6
<1>10. feePaid <= FeeAt(rate, AddedInputs)
  <2>1. FeeAt(rate, AddedInputs) \in Nat
    BY <1>2, <1>8, FeeCovers
  <2>2. CASE feePaid = 0
    BY <2>1, <2>2
  <2>3. CASE feePaid # 0
    <3>1. feePaid = paid /\ HasContribution
      BY <1>5, <2>3
    <3>2. rates.min <= rate
      BY <1>1, <1>7, <3>1
    <3>3. ins <= FeeAt(rate, AddedInputs)
      BY <1>1, <1>2, <1>8, <3>2, FeeMonotone DEF ins
    <3> QED
      BY <1>3, <1>5, <1>6, <2>1, <3>1, <3>3
  <2> QED
    BY <2>2, <2>3
<1>11. policy.minRate <= RateOf(is, Weight(payjoin))
  <2>1. /\ Weight(payjoin) \in Nat \ {0} /\ Weight(original) \in Nat \ {0}
        /\ Weight(payjoin) <= Weight(original) + AddedInputs + AddedOutputs
    BY ProposalWeighs
  <2> QED
    BY <1>1, <1>2, <1>3, <1>4, <1>8, <2>1, RateStays DEF rate, ins, outs
<1>12. RateOf(is, Weight(payjoin)) \in Int
  BY <1>1, <1>3, ProposalWeighs, RateIsMost
<1> QED
  BY <1>1, <1>9, <1>10, <1>11, <1>12 DEF was, is, rate

LEMMA FeesChecked ==
  ASSUME NegotiationInv, AcceptanceInv, Check, Sender!CheckFees
  PROVE  AcceptanceInv'
<1>1. Still /\ Proposed /\ InputsWalked /\ OutputsFollowed
  BY CheckedFacts
<1> DEFINE Ok == /\ Fee(original) <= Fee(payjoin)
                 /\ feePaid <= Fee(payjoin) - Fee(original)
                 /\ feePaid <= FeeAt(RateOf(Fee(original), Weight(original)), AddedInputs)
                 /\ policy.minRate > 0 =>
                       RateOf(Fee(payjoin), Weight(payjoin)) >= policy.minRate
<1>2. Sender!Ensure(Ok, "accepted")
  <2>1. Sender!TheirWeight = AddedInputs
    BY <1>1, ProposalWeighs
  <2> QED
    BY <2>1, SendersMeasures DEF Sender!CheckFees
<1> HIDE DEF Ok
<1>3. /\ pc' = IF Ok THEN "accepted" ELSE "rejected"
      /\ UNCHANGED feePaid
  BY <1>2 DEF Sender!Ensure, Sender!Goto
<1>4. ~Excused => Ok
  BY <1>1, MoreThanPayee, FeesPass DEF Ok
<1>5. pc' # "inputs" /\ pc' # "outputs" /\ (pc' = "rejected" => Excused)
  BY <1>3, <1>4
<1>6. InputsWalked' /\ OutputsFollowed'
  BY <1>1, <1>3, <1>5, InputsStand, OutputsStand
<1> QED
  BY <1>1, <1>5, <1>6, CheckGoesOn

-----------------------------------------------------------------------------

LEMMA CheckFits ==
  ASSUME NegotiationInv, AcceptanceInv, Check
  PROVE  AcceptanceInv'
<1>1. CASE Sender!BasicChecks
  BY <1>1, BasicChecksPass
<1>2. CASE Sender!OurInput \/ Sender!TheirInput
  BY <1>2, InputPasses
<1>3. CASE Sender!InputsDone
  BY <1>3, InputsPass
<1>4. CASE OutputStep \/ Sender!OutputsDone
  BY <1>4, OutputOfMany, OutputPasses, OutputsPass
<1>5. CASE Sender!CheckFees
  BY <1>5, FeesChecked
<1> QED
  BY <1>1, <1>2, <1>3, <1>4, <1>5 DEF Check, Sender!Next, OutputStep

LEMMA AcceptanceStep ==
  NegotiationInv /\ AcceptanceInv /\ [Receive \/ Check]_vars => AcceptanceInv'
<1> SUFFICES ASSUME NegotiationInv, AcceptanceInv, [Receive \/ Check]_vars
             PROVE  AcceptanceInv'
  OBVIOUS
<1>1. CASE UNCHANGED vars
  <2>1. UNCHANGED <<original, policy, stage, payjoin, params, changeVout, owned, rates, replaced,
                    wanted, contributed, pc, at, next, feePaid>>
    BY <1>1 DEF vars, receiverVars, senderVars
  <2>2. CASE Proposed
    <3>1. Still /\ InputsWalked /\ OutputsFollowed
      BY <2>1, <2>2 DEF Still, AcceptanceInv, Answered
    <3>2. InputsWalked'
      BY <2>1, <3>1 DEF InputsWalked
    <3>3. OutputsFollowed'
      <4>1. AddedInputs' = AddedInputs /\ HasContribution' = HasContribution
            /\ OnlyPayee' = OnlyPayee
        BY <2>1 DEF AddedInputs, HasContribution, OnlyPayee
      <4>2. OutputsWalked' = OutputsWalked
        BY <2>1, <4>1 DEF OutputsWalked
      <4> QED
        BY <3>1, <4>2, FeeStands DEF OutputsFollowed
    <3>4. pc' = "rejected" => Excused
      BY <2>1, <2>2 DEF AcceptanceInv, AcceptableProposal, Excused, Sender!Rejected
    <3> QED
      BY <2>2, <3>1, <3>2, <3>3, <3>4, CheckGoesOn
  <2>3. CASE ~Proposed
    <3>1. stage # "proposal" /\ stage' # "proposal"
      BY <2>1, <2>3 DEF Proposed
    <3> QED
      BY <2>1, <3>1, FitsHandedOn DEF senderVars
  <2> QED
    BY <2>2, <2>3
<1>2. CASE Receive
  BY <1>2, ReceiveFits
<1>3. CASE Check
  BY <1>3, CheckFits
<1> QED
  BY <1>1, <1>2, <1>3

(* In every state before the proposal the receiver's PSBT has the           *)
(* Original's inputs and outputs in their order, as contribute_inputs and   *)
(* replace_receiver_outputs leave them; the proposal answers for each       *)
(* check of process_proposal, and each of its walks takes the sender's      *)
(* inputs and outputs for the sender's, unless the fee came from another    *)
(* output with the fee output's script.                                     *)
THEOREM AcceptanceHolds == Spec => []AcceptanceInv
BY AcceptanceInit, AcceptanceStep, InvHolds, PTL DEF Spec

(* finalize_proposal makes what process_proposal accepts: an honest sender  *)
(* refuses only for a rate above its Original's, a fee taken from another   *)
(* output with the fee output's script, outputs worth more than the inputs  *)
(* cover, a payment cut by apply_fee, or another output of the receiver's   *)
(* that it takes for its own or for the payee's.                            *)
THEOREM ProposalAccepted == Spec => []AcceptableProposal
<1>1. AcceptanceInv => AcceptableProposal
  BY DEF AcceptanceInv
<1> QED
  BY <1>1, AcceptanceHolds, PTL
=============================================================================
