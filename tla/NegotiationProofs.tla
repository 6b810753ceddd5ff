-------------------------- MODULE NegotiationProofs --------------------------
(***************************************************************************)
(* What the receiver's construction guarantees, for every Original, every  *)
(* policy its sender's builder makes, and every choice of the receiver.    *)
(***************************************************************************)
EXTENDS Negotiation, TransactionsProofs

SP == INSTANCE SenderChecksProofs
          WITH proposal <- payjoin, Offers <- {}, Answers <- [o \in {} |-> {}]

(* What outputs pay to the sender, and all that they pay.                   *)
SentIn(outs) == SumOf(Pays(SendersScripts(original)), outs)
AllIn(outs)  == SumOf(OutValue, outs)

(* What lists of inputs are worth.                                          *)
ListValue == [list \in Seq(Inputs) |-> SumOf(InValue, list)]
GivenIn(lists) == SumOf(ListValue, lists)

HasScript(outs, s) == \E i \in DOMAIN outs : outs[i].script = s

Terms ==
    /\ original \in Originals /\ policy \in SenderPolicies(original)
    /\ params.noSubst = policy.noSubst /\ policy.minRate <= params.minRate
    /\ params.contribution \in {policy.contribution, NoContribution}

Waiting == stage # "proposal" => Sender!Start

Begun == stage = "outputsUnknown" => payjoin = original

TheOwned == {i \in DOMAIN original.outs : original.outs[i].script \in OwnedScripts}

(* The output that takes the receiver's change and fee is not the sender's, *)
(* the one that pays the contribution is, and the sender has all its own.   *)
Settled ==
    stage \in {"wantsOutputs", "wantsInputs", "provisional"} =>
        /\ owned = TheOwned
        /\ changeVout \in DOMAIN payjoin.outs
        /\ payjoin.outs[changeVout].script \notin SendersScripts(original)
        /\ HasContribution =>
              /\ params.contribution.vout \in DOMAIN original.outs
              /\ original.outs[params.contribution.vout].script \in SendersScripts(original)
        /\ \A s \in SendersScripts(original) : HasScript(payjoin.outs, s)

(* What goes in and out until the fees are applied.                         *)
Balanced ==
    stage # "proposal" =>
        /\ SentIn(payjoin.outs) = SentIn(original.outs)
        /\ InTotal(payjoin) = InTotal(original) + GivenIn(contributed)
        /\ AddedInputs >= 0
        /\ wanted \in Nat
        /\ contributed = <<>> => payjoin.ins = original.ins /\ AllIn(payjoin.outs) = wanted
        /\ Len(contributed) = 1 =>
              AllIn(payjoin.outs) = GivenIn(contributed) + (IF wanted > OutTotal(original)
                                                            THEN OutTotal(original) ELSE wanted)
        /\ contributed # <<>> => Fee(payjoin) >= Fee(original)
        /\ stage \in {"outputsUnknown", "wantsOutputs"} => contributed = <<>>

Kept == SenderPaysAtMost /\ FeeRateKept /\ ReceiverKeepsValue

NegotiationInv == TypeOK /\ Terms /\ Waiting /\ Begun /\ Settled /\ Balanced /\ Kept
-----------------------------------------------------------------------------

(* The sequences after one more insertion.                                  *)
OneMore(acc, x, last) ==
    UNION {{InsertAt(t, j, x) : j \in {j \in 1 .. last : j <= Len(t) + 1}} : t \in acc}

(* The sequences after each insertion, as the fold goes through the list.   *)
InsertionRuns(D, s, list, last) ==
    {f \in [0 .. Len(list) -> SUBSET Seq(D)] :
        /\ f[0] = {s}
        /\ \A k \in 0 .. Len(list) - 1 : f[k + 1] = OneMore(f[k], list[k + 1], last)}

LEMMA InsertedSteps ==
  ASSUME NEW D, NEW s \in Seq(D), NEW list \in Seq(D), NEW last \in Nat
  PROVE  \E f \in InsertionRuns(D, s, list, last) : Inserted(s, list, last) = f[Len(list)]
<1> DEFINE n == Len(list)
           Q == SUBSET Seq(D)
           More(acc, x) == OneMore(acc, x, last)
           iter == CHOOSE g : g = [t \in SUBSET (1 .. n) |->
                     IF t = {} THEN {s} ELSE More(g[t \ {Max(t)}], list[Max(t)])]
           step == [p \in (1 .. n) \X Q |-> More(p[2], list[p[1]])]
<1>1. n \in Nat /\ DOMAIN list = 1 .. n /\ \A k \in 1 .. n : list[k] \in D
  OBVIOUS
<1>2. Inserted(s, list, last) = iter[1 .. n]
  BY <1>1 DEF Inserted, FoldLeft, MapThenFoldSet, OneMore
<1>0. \A acc \in Q, x \in D : More(acc, x) \in Q
  <2> SUFFICES ASSUME NEW acc \in Q, NEW x \in D, NEW t \in acc, NEW j \in 1 .. last,
                      j <= Len(t) + 1
               PROVE  InsertAt(t, j, x) \in Seq(D)
    BY DEF OneMore
  <2>1. t \in Seq(D) /\ j \in 1 .. Len(t) + 1
    OBVIOUS
  <2> QED
    BY <2>1, InsertedElements
<1> HIDE DEF More
<1>3. iter = [t \in SUBSET (1 .. n) |->
                IF t = {} THEN {s} ELSE More(iter[t \ {Max(t)}], list[Max(t)])]
  <2>1. step \in [(1 .. n) \X Q -> Q]
    <3> HIDE DEF Q
    <3> QED
      BY <1>0, <1>1
  <2>2. PICK g \in [SUBSET (1 .. n) -> Q] :
          \A t \in SUBSET (1 .. n) :
             g[t] = IF t = {} THEN {s} ELSE step[<<Max(t), g[t \ {Max(t)}]>>]
    <3>0. {s} \in Q
      OBVIOUS
    <3> HIDE DEF step, n, Q
    <3>2. FoldSolutions(n, Q, {s}, step) # {}
      BY <1>1, <2>1, <3>0, FoldExists
    <3> QED
      BY <3>2 DEF FoldSolutions
  <2> HIDE DEF Q
  <2>3. ASSUME NEW t \in SUBSET (1 .. n)
        PROVE  g[t] = IF t = {} THEN {s} ELSE More(g[t \ {Max(t)}], list[Max(t)])
    <3>1. CASE t = {}
      BY <2>2, <3>1
    <3>2. CASE t # {}
      <4>1. Max(t) \in 1 .. n
        BY <1>1, <3>2, MaxOfInterval
      <4>2. g[t \ {Max(t)}] \in Q
        OBVIOUS
      <4>3. <<Max(t), g[t \ {Max(t)}]>> \in (1 .. n) \X Q
        BY <4>1, <4>2
      <4> QED
        BY <2>2, <3>2, <4>3
    <3> QED
      BY <3>1, <3>2
  <2>4. g = [t \in SUBSET (1 .. n) |->
               IF t = {} THEN {s} ELSE More(g[t \ {Max(t)}], list[Max(t)])]
    BY <2>3
  <2> QED
    BY <2>4
<1> HIDE DEF iter, Q
<1>4. iter[1 .. 0] = {s}
  <2>1. 1 .. 0 \in SUBSET (1 .. n) /\ 1 .. 0 = {}
    OBVIOUS
  <2> QED
    BY <1>3, <2>1
<1>5. ASSUME NEW k \in 0 .. n - 1 PROVE iter[1 .. k + 1] = More(iter[1 .. k], list[k + 1])
  <2>1. k \in Nat /\ 1 .. k + 1 \in SUBSET (1 .. n)
    BY <1>1
  <2>2. 1 .. k + 1 # {} /\ Max(1 .. k + 1) = k + 1 /\ (1 .. k + 1) \ {k + 1} = 1 .. k
    BY <2>1, IntervalGrows
  <2> QED
    BY <1>3, <2>1, <2>2
<1> DEFINE f == [k \in 0 .. n |-> iter[1 .. k]]
<1>6. /\ f[0] = {s} /\ Inserted(s, list, last) = f[n]
      /\ \A k \in 0 .. n - 1 : f[k + 1] = More(f[k], list[k + 1])
  BY <1>1, <1>2, <1>4, <1>5
<1>7. f \in [0 .. n -> Q]
  <2> DEFINE S == {k \in 0 .. n : f[k] \in Q}
  <2>0. {s} \in Q
    BY DEF Q
  <2> HIDE DEF f, n
  <2>4. ASSUME NEW k \in 0 .. n - 1, k \in S PROVE k + 1 \in S
    <3>1. k + 1 \in 1 .. n
      BY <1>1
    <3>2. list[k + 1] \in D
      BY <1>1, <3>1
    <3> QED
      BY <1>0, <1>1, <1>6, <2>4, <3>1, <3>2
  <2>5. 0 \in S
    <3>1. 0 \in 0 .. n
      BY <1>1
    <3>2. f[0] \in Q
      BY <1>6, <2>0
    <3> QED
      BY <3>1, <3>2
  <2>1. 0 \in S /\ \A k \in 0 .. n - 1 : k \in S => k + 1 \in S
    <3> HIDE DEF S
    <3> QED
      BY <2>4, <2>5
  <2>2. 0 .. n \subseteq S
    <3> HIDE DEF S
    <3> QED
      BY <1>1, <2>1, UpTo
  <2>3. DOMAIN f = 0 .. n /\ f = [k \in DOMAIN f |-> f[k]]
    BY DEF f
  <2> QED
    BY <2>2, <2>3
<1>8. f \in InsertionRuns(D, s, list, last)
  <2> HIDE DEF f
  <2> QED
    BY <1>6, <1>7 DEF More, Q, InsertionRuns
<1> QED
  BY <1>6, <1>8

(* What each insertion keeps holds of all the results.                      *)
LEMMA InsertedAll ==
  ASSUME NEW D, NEW s \in Seq(D), NEW list \in Seq(D), NEW last \in Nat,
         NEW P, s \in P[0],
         \A k \in 0 .. Len(list) - 1 : \A t \in P[k] \cap Seq(D) : \A i \in 1 .. Len(t) + 1 :
            InsertAt(t, i, list[k + 1]) \in P[k + 1]
  PROVE  Inserted(s, list, last) \subseteq P[Len(list)] \cap Seq(D)
<1>0. PICK f \in InsertionRuns(D, s, list, last) : Inserted(s, list, last) = f[Len(list)]
  BY InsertedSteps
<1> DEFINE n == Len(list)
<1>1. /\ f \in [0 .. n -> SUBSET Seq(D)]
      /\ f[0] = {s}
      /\ \A k \in 0 .. n - 1 : f[k + 1] = OneMore(f[k], list[k + 1], last)
      /\ Inserted(s, list, last) = f[n]
  BY <1>0 DEF InsertionRuns
<1>2. n \in Nat
  OBVIOUS
<1> DEFINE S == {k \in 0 .. n : f[k] \subseteq P[k]}
<1>3. 0 \in S
  BY <1>1, <1>2
<1>4. ASSUME NEW k \in 0 .. n - 1, f[k] \subseteq P[k] PROVE f[k + 1] \subseteq P[k + 1]
  <2>0. f[k + 1] = OneMore(f[k], list[k + 1], last)
    BY <1>1
  <2> SUFFICES ASSUME NEW t \in f[k], NEW j \in 1 .. last, j <= Len(t) + 1
               PROVE  InsertAt(t, j, list[k + 1]) \in P[k + 1]
    BY <2>0 DEF OneMore
  <2>1. t \in P[k] /\ t \in Seq(D)
    <3>1. k \in 0 .. n
      BY <1>2
    <3>2. f[k] \in SUBSET Seq(D)
      BY <1>1, <3>1
    <3> QED
      BY <1>4, <3>2
  <2>2. j \in 1 .. Len(t) + 1
    BY <2>1
  <2> QED
    BY <2>1, <2>2
<1>5. 0 .. n \subseteq S
  <2>1. \A k \in 0 .. n - 1 : k \in S => k + 1 \in S
    BY <1>2, <1>4
  <2> HIDE DEF S, n
  <2> QED
    BY <1>2, <1>3, <2>1, UpTo
<1>6. n \in S
  BY <1>2, <1>5
<1> QED
  BY <1>1, <1>2, <1>6

(* Insertions add to a sum, and lose nothing.                               *)
LEMMA SumOfInserted ==
  ASSUME NEW D, NEW F \in [D -> Int], NEW s \in Seq(D), NEW list \in Seq(D), NEW last \in Nat,
         NEW t \in Inserted(s, list, last)
  PROVE  /\ t \in Seq(D)
         /\ SumOf(F, t) = SumOf(F, s) + SumOf(F, list)
<1> DEFINE Sums(k) == {u \in Seq(D) : SumOf(F, u) = SumOf(F, s) + SumOf(F, First(list, k))}
           P == [k \in 0 .. Len(list) |-> Sums(k)]
<1>0. \A u \in Seq(D), x \in D : \A i \in 1 .. Len(u) + 1 :
         /\ InsertAt(u, i, x) \in Seq(D)
         /\ SumOf(F, InsertAt(u, i, x)) = SumOf(F, u) + F[x]
  BY SumOfInsert
<1>1. SumOf(F, s) \in Int
  BY SumOfType
<1>2. /\ SumOf(F, First(list, 0)) = 0
      /\ \A k \in 0 .. Len(list) - 1 :
             /\ SumOf(F, First(list, k)) \in Int
             /\ SumOf(F, First(list, k + 1)) = SumOf(F, First(list, k)) + F[list[k + 1]]
      /\ SumOf(F, First(list, Len(list))) = SumOf(F, list)
  BY SumOfFirst
<1>3. s \in P[0]
  BY <1>1, <1>2
<1>4. ASSUME NEW k \in 0 .. Len(list) - 1, NEW u \in P[k], NEW i \in 1 .. Len(u) + 1
      PROVE  InsertAt(u, i, list[k + 1]) \in P[k + 1]
  <2>1. u \in Seq(D) /\ list[k + 1] \in D /\ k \in 0 .. Len(list) /\ k + 1 \in 0 .. Len(list)
    OBVIOUS
  <2>2. SumOf(F, u) = SumOf(F, s) + SumOf(F, First(list, k))
    BY <2>1
  <2>3. /\ InsertAt(u, i, list[k + 1]) \in Seq(D)
        /\ SumOf(F, InsertAt(u, i, list[k + 1])) = SumOf(F, u) + F[list[k + 1]]
    BY <1>0, <2>1
  <2>4. F[list[k + 1]] \in Int
    BY <2>1
  <2>5. SumOf(F, InsertAt(u, i, list[k + 1])) = SumOf(F, s) + SumOf(F, First(list, k + 1))
    BY <1>1, <1>2, <2>2, <2>3, <2>4, SMTT(30)
  <2> QED
    BY <2>1, <2>3, <2>5
<1> HIDE DEF P
<1>5. t \in P[Len(list)]
  BY <1>3, <1>4, InsertedAll
<1>6. Len(list) \in 0 .. Len(list)
  OBVIOUS
<1> QED
  BY <1>2, <1>5, <1>6 DEF P

Includes(s, t) == \A i \in 1 .. Len(s) : \E j \in 1 .. Len(t) : t[j] = s[i]

LEMMA InsertedIncludes ==
  ASSUME NEW D, NEW s \in Seq(D), NEW list \in Seq(D), NEW last \in Nat,
         NEW t \in Inserted(s, list, last)
  PROVE  t \in Seq(D) /\ Includes(s, t)
<1> DEFINE P == [k \in 0 .. Len(list) |-> {u \in Seq(D) : Includes(s, u)}]
<1>1. s \in P[0]
  BY DEF Includes
<1>2. ASSUME NEW k \in 0 .. Len(list) - 1, NEW u \in P[k], NEW i \in 1 .. Len(u) + 1
      PROVE  InsertAt(u, i, list[k + 1]) \in P[k + 1]
  <2>1. u \in Seq(D) /\ list[k + 1] \in D /\ Includes(s, u)
    OBVIOUS
  <2> DEFINE v == InsertAt(u, i, list[k + 1])
  <2>2. /\ v \in Seq(D) /\ Len(v) = Len(u) + 1
        /\ \A m \in 1 .. Len(u) + 1 :
              v[m] = IF m < i THEN u[m] ELSE IF m = i THEN list[k + 1] ELSE u[m - 1]
    <3> HIDE DEF P
    <3> QED
      BY <2>1, InsertedElements, SMTT(30)
  <2> HIDE DEF v
  <2>3. ASSUME NEW j \in 1 .. Len(u) PROVE \E m \in 1 .. Len(v) : v[m] = u[j]
    <3>1. CASE j < i
      <4>1. j \in 1 .. Len(u) + 1
        OBVIOUS
      <4> QED
        BY <2>2, <3>1, <4>1
    <3>2. CASE ~(j < i)
      <4>1. j + 1 \in 1 .. Len(u) + 1 /\ ~(j + 1 < i) /\ j + 1 # i /\ (j + 1) - 1 = j
        BY <3>2
      <4> QED
        BY <2>2, <4>1
    <3> QED
      BY <3>1, <3>2
  <2>4. Includes(s, v)
    BY <2>1, <2>3 DEF Includes
  <2>5. k + 1 \in 0 .. Len(list)
    OBVIOUS
  <2> QED
    BY <2>2, <2>4, <2>5 DEF v
<1> HIDE DEF P
<1>3. t \in P[Len(list)]
  BY <1>1, <1>2, InsertedAll
<1>4. Len(list) \in 0 .. Len(list)
  OBVIOUS
<1> QED
  BY <1>3, <1>4 DEF P

-----------------------------------------------------------------------------
(* replace_receiver_outputs.                                                *)

LEMMA SetToSeqIs ==
  ASSUME NEW S, IsFiniteSet(S)
  PROVE  /\ SetToSeq(S) \in Seq(S) /\ Len(SetToSeq(S)) = Cardinality(S)
         /\ Cardinality(S) \in Nat
<1>1. Cardinality(S) \in Nat /\ ExistsBijection(1 .. Cardinality(S), S)
  BY FS_CardinalityType
<1>2. PICK f \in [1 .. Cardinality(S) -> S] : IsInjective(f)
  BY <1>1 DEF ExistsBijection, Bijection, Injection, IsInjective
<1>3. SetToSeq(S) \in [1 .. Cardinality(S) -> S]
  BY <1>2 DEF SetToSeq
<1> QED
  BY <1>1, <1>3

(* What the loop of replace_receiver_outputs has built after k outputs, and *)
(* the replacements it has left.                                            *)
Accs == [outs : Seq(Outputs), left : SUBSET Outputs]

Placed(i, o, new) ==
    IF i \in owned
    THEN /\ o \in new
         /\ params.noSubst =>
               o.script = original.outs[i].script /\ o.value >= original.outs[i].value
    ELSE o = original.outs[i]

Partly(k, new) ==
    {a \in Accs : /\ Len(a.outs) = k /\ a.left \subseteq new
                  /\ \A i \in 1 .. k : Placed(i, a.outs[i], new)}

OnePlaced(acc, i) ==
    UNION {IF i \in owned THEN Substitutes(a, original.outs[i])
           ELSE {[a EXCEPT !.outs = Append(@, original.outs[i])]} : a \in acc}

LEMMA PlaceOne ==
  ASSUME original \in Psbts, NEW a \in Accs, NEW i \in 1 .. Len(original.outs),
         NEW b \in IF i \in owned THEN Substitutes(a, original.outs[i])
                   ELSE {[a EXCEPT !.outs = Append(@, original.outs[i])]}
  PROVE  \E o \in Outputs : /\ Placed(i, o, a.left)
                            /\ b.outs = Append(a.outs, o) /\ b.left \subseteq a.left
                            /\ b \in Accs
<1>1. original.outs[i] \in Outputs
  BY DEF Psbts
<1>2. a.outs \in Seq(Outputs) /\ a.left \in SUBSET Outputs
  BY DEF Accs
<1>3. CASE i \in owned
  <2>1. PICK r \in a.left :
           /\ params.noSubst => /\ r.script = original.outs[i].script
                                /\ r.value >= original.outs[i].value
           /\ b = [outs |-> Append(a.outs, r), left |-> a.left \ {r}]
    BY <1>3 DEF Substitutes
  <2>2. r \in Outputs
    BY <1>2
  <2>3. Append(a.outs, r) \in Seq(Outputs)
    BY <1>2, <2>2
  <2>4. a.left \ {r} \in SUBSET Outputs
    BY <1>2
  <2> QED
    BY <1>3, <2>1, <2>2, <2>3, <2>4 DEF Placed, Accs
<1>4. CASE i \notin owned
  <2>1. b = [a EXCEPT !.outs = Append(@, original.outs[i])]
    BY <1>4
  <2>2. Append(a.outs, original.outs[i]) \in Seq(Outputs)
    BY <1>1, <1>2
  <2>3. /\ b.outs = Append(a.outs, original.outs[i]) /\ b.left = a.left
        /\ b = [outs |-> b.outs, left |-> b.left]
    BY <2>1 DEF Accs
  <2> QED
    BY <1>1, <1>2, <1>4, <2>2, <2>3 DEF Placed, Accs
<1> QED
  BY <1>3, <1>4

LEMMA OnePlacedTyped ==
  ASSUME original \in Psbts, NEW i \in 1 .. Len(original.outs), NEW acc \in SUBSET Accs
  PROVE  OnePlaced(acc, i) \in SUBSET Accs
BY PlaceOne DEF OnePlaced

LEMMA OnePlacedIs ==
  ASSUME original \in Psbts, NEW new \in SUBSET Outputs,
         NEW k \in 0 .. Len(original.outs) - 1, NEW acc \in SUBSET Partly(k, new)
  PROVE  OnePlaced(acc, k + 1) \subseteq Partly(k + 1, new)
<1>0. original.outs \in Seq(Outputs) /\ k + 1 \in 1 .. Len(original.outs)
  BY DEF Psbts
<1> SUFFICES ASSUME NEW a \in acc,
                    NEW b \in IF k + 1 \in owned THEN Substitutes(a, original.outs[k + 1])
                              ELSE {[a EXCEPT !.outs = Append(@, original.outs[k + 1])]}
             PROVE  b \in Partly(k + 1, new)
  BY DEF OnePlaced
<1>2. /\ a \in Accs /\ a.outs \in Seq(Outputs) /\ a.left \subseteq new /\ Len(a.outs) = k
      /\ \A i \in 1 .. k : Placed(i, a.outs[i], new)
  BY DEF Partly, Accs
<1>3. PICK o \in Outputs : /\ Placed(k + 1, o, a.left)
                           /\ b.outs = Append(a.outs, o) /\ b.left \subseteq a.left
                           /\ b \in Accs
  BY <1>0, <1>2, PlaceOne
<1>4. /\ Len(b.outs) = k + 1 /\ b.outs[k + 1] = o
      /\ \A i \in 1 .. k : b.outs[i] = a.outs[i]
  BY <1>2, <1>3
<1>5. Placed(k + 1, o, new)
  BY <1>2, <1>3 DEF Placed
<1>6. \A i \in 1 .. k + 1 : Placed(i, b.outs[i], new)
  <2> TAKE i \in 1 .. k + 1
  <2>1. i \in 1 .. k \/ i = k + 1
    OBVIOUS
  <2> QED
    BY <1>2, <1>4, <1>5, <2>1
<1>7. b.left \subseteq new
  BY <1>2, <1>3
<1> QED
  BY <1>3, <1>4, <1>6, <1>7 DEF Partly

(* The loop replaces each of the receiver's outputs, and only those.        *)
LEMMA ReplacedAre ==
  ASSUME original \in Psbts, NEW new \in SUBSET Outputs, NEW outs \in Replaced(new)
  PROVE  \E a \in Partly(Len(original.outs), new) : outs \in Interleavings(a.outs, a.left)
<1> DEFINE n == Len(original.outs)
           Q == SUBSET Accs
           list == [i \in DOMAIN original.outs |-> i]
           base == {[outs |-> <<>>, left |-> new]}
           iter == CHOOSE g : g = [t \in SUBSET (1 .. n) |->
                     IF t = {} THEN base ELSE OnePlaced(g[t \ {Max(t)}], list[Max(t)])]
           step == [p \in (1 .. n) \X Q |-> OnePlaced(p[2], p[1])]
<1>1. /\ n \in Nat /\ DOMAIN original.outs = 1 .. n /\ DOMAIN list = 1 .. n
      /\ \A i \in 1 .. n : list[i] = i
  BY DEF Psbts
<1>2. Replaced(new) = UNION {Interleavings(a.outs, a.left) : a \in iter[1 .. n]}
  BY <1>1 DEF Replaced, FoldLeft, MapThenFoldSet, OnePlaced
<1>3. base \in Q /\ base \subseteq Partly(0, new)
  <2>1. <<>> \in Seq(Outputs) /\ Len(<<>>) = 0
    OBVIOUS
  <2> QED
    BY <2>1 DEF Accs, Partly
<1> HIDE DEF list, base
<1>4. iter = [t \in SUBSET (1 .. n) |->
                IF t = {} THEN base ELSE OnePlaced(iter[t \ {Max(t)}], list[Max(t)])]
  <2>1. step \in [(1 .. n) \X Q -> Q]
    <3>1. \A acc \in Q, i \in 1 .. n : OnePlaced(acc, i) \in Q
      BY OnePlacedTyped
    <3> HIDE DEF Q, n
    <3> QED
      BY <3>1
  <2>2. PICK g \in [SUBSET (1 .. n) -> Q] :
          \A t \in SUBSET (1 .. n) :
             g[t] = IF t = {} THEN base ELSE step[<<Max(t), g[t \ {Max(t)}]>>]
    <3> HIDE DEF step, n, Q
    <3>2. FoldSolutions(n, Q, base, step) # {}
      BY <1>1, <1>3, <2>1, FoldExists
    <3> QED
      BY <3>2 DEF FoldSolutions
  <2> HIDE DEF Q, n
  <2>3. ASSUME NEW t \in SUBSET (1 .. n)
        PROVE  g[t] = IF t = {} THEN base ELSE OnePlaced(g[t \ {Max(t)}], list[Max(t)])
    <3>1. CASE t = {}
      BY <2>2, <3>1
    <3>2. CASE t # {}
      <4>1. Max(t) \in 1 .. n
        BY <1>1, <3>2, MaxOfInterval
      <4>2. g[t \ {Max(t)}] \in Q
        OBVIOUS
      <4>3. <<Max(t), g[t \ {Max(t)}]>> \in (1 .. n) \X Q
        BY <4>1, <4>2
      <4> QED
        BY <1>1, <2>2, <3>2, <4>1, <4>3
    <3> QED
      BY <3>1, <3>2
  <2>4. g = [t \in SUBSET (1 .. n) |->
               IF t = {} THEN base ELSE OnePlaced(g[t \ {Max(t)}], list[Max(t)])]
    BY <2>3
  <2> QED
    BY <2>4
<1> HIDE DEF iter, Q, n
<1> DEFINE S == {k \in 0 .. n : iter[1 .. k] \subseteq Partly(k, new)}
<1>5. 0 \in S
  <2>1. 1 .. 0 \in SUBSET (1 .. n) /\ 1 .. 0 = {} /\ 0 \in 0 .. n
    BY <1>1
  <2>2. iter[1 .. 0] = base
    BY <1>4, <2>1
  <2> QED
    BY <1>3, <2>1, <2>2
<1>6. ASSUME NEW k \in 0 .. n - 1, k \in S PROVE k + 1 \in S
  <2>1. k \in Nat /\ 1 .. k + 1 \in SUBSET (1 .. n) /\ k + 1 \in 1 .. n
    BY <1>1
  <2>2. 1 .. k + 1 # {} /\ Max(1 .. k + 1) = k + 1 /\ (1 .. k + 1) \ {k + 1} = 1 .. k
    BY <2>1, IntervalGrows
  <2>3. iter[1 .. k + 1] = OnePlaced(iter[1 .. k], k + 1)
    <3>1. list[k + 1] = k + 1
      BY <1>1, <2>1
    <3>2. iter[1 .. k + 1] = OnePlaced(iter[1 .. k], list[k + 1])
      BY <1>4, <2>1, <2>2
    <3> QED
      BY <3>1, <3>2
  <2>4. OnePlaced(iter[1 .. k], k + 1) \subseteq Partly(k + 1, new)
    <3>1. iter[1 .. k] \in SUBSET Partly(k, new)
      BY <1>6
    <3> QED
      BY <3>1, OnePlacedIs DEF n
  <2>5. k + 1 \in 0 .. n
    BY <2>1
  <2> QED
    BY <2>3, <2>4, <2>5
<1>7. n \in S
  <2>1. 0 .. n \subseteq S
    <3> HIDE DEF S
    <3> QED
      BY <1>1, <1>5, <1>6, UpTo
  <2> QED
    BY <1>1, <2>1
<1> QED
  BY <1>2, <1>7 DEF n

(* What they pay the sender they paid it before, and each of the sender's   *)
(* scripts is still there.                                                  *)
LEMMA ReplacedPays ==
  ASSUME original \in Psbts, owned = TheOwned,
         NEW new \in SUBSET Outputs, IsFiniteSet(new),
         \A o \in new : o.script \notin SendersScripts(original),
         NEW outs \in Replaced(new)
  PROVE  /\ outs \in Seq(Outputs)
         /\ SentIn(outs) = SentIn(original.outs)
         /\ \A s \in SendersScripts(original) : HasScript(outs, s)
<1> DEFINE mine == SendersScripts(original)
           F == Pays(mine)
<1>1. PICK a \in Partly(Len(original.outs), new) : outs \in Interleavings(a.outs, a.left)
  BY ReplacedAre
<1>2. /\ a.outs \in Seq(Outputs) /\ a.left \subseteq new /\ Len(a.outs) = Len(original.outs)
      /\ \A i \in 1 .. Len(original.outs) : Placed(i, a.outs[i], new)
  BY DEF Partly, Accs
<1>3. original.outs \in Seq(Outputs)
  BY DEF Psbts
<1>4. IsFiniteSet(a.left)
  BY <1>2, FS_Subset
<1> DEFINE list == SetToSeq(a.left)
           last == Len(a.outs) + Cardinality(a.left)
<1>5. list \in Seq(a.left) /\ Cardinality(a.left) \in Nat
  BY <1>4, SetToSeqIs
<1>6. list \in Seq(Outputs) /\ \A i \in 1 .. Len(list) : list[i] \in new
  BY <1>2, <1>5
<1>7. last \in Nat
  BY <1>2, <1>5
<1>8. outs \in Inserted(a.outs, list, last)
  BY <1>1 DEF Interleavings
<1>9. F \in [Outputs -> Int]
  BY PaysNat
<1> HIDE DEF list, last
<1>10. /\ outs \in Seq(Outputs)
       /\ SumOf(F, outs) = SumOf(F, a.outs) + SumOf(F, list)
  <2> HIDE DEF F
  <2> QED
    BY <1>2, <1>6, <1>7, <1>8, <1>9, SumOfInserted
<1>11. \A o \in new : F[o] = 0
  BY DEF Pays
<1>12. SumOf(F, list) = 0
  <2>1. \A i \in 1 .. Len(list) : F[list[i]] = 0
    BY <1>6, <1>11
  <2> HIDE DEF F
  <2> QED
    BY <1>6, <1>9, <2>1, SumOfZeros
<1>13. ASSUME NEW i \in 1 .. Len(original.outs)
       PROVE  /\ F[a.outs[i]] = F[original.outs[i]]
              /\ original.outs[i].script \in mine => a.outs[i] = original.outs[i]
  <2>1. Placed(i, a.outs[i], new) /\ original.outs[i] \in Outputs
    BY <1>2, <1>3
  <2>2. CASE i \in owned
    <3>1. original.outs[i].script \notin mine
      BY <2>2 DEF TheOwned, SendersScripts
    <3>2. F[original.outs[i]] = 0
      BY <2>1, <3>1 DEF Pays
    <3>3. F[a.outs[i]] = 0
      BY <1>11, <2>1, <2>2 DEF Placed
    <3> QED
      BY <3>1, <3>2, <3>3
  <2>3. CASE i \notin owned
    BY <2>1, <2>3 DEF Placed
  <2> QED
    BY <2>2, <2>3
<1>14. SumOf(F, a.outs) = SumOf(F, original.outs) /\ SumOf(F, original.outs) \in Int
  <2> HIDE DEF F, mine
  <2> QED
    BY <1>2, <1>3, <1>9, <1>13, SumOfSame, SumOfType, ZenonT(60)
<1>15. SentIn(outs) = SentIn(original.outs)
  <2> HIDE DEF F
  <2>1. SumOf(F, outs) = SumOf(F, original.outs)
    BY <1>10, <1>12, <1>14
  <2> QED
    BY <2>1 DEF SentIn, F
<1>16. Includes(a.outs, outs)
  BY <1>2, <1>6, <1>7, <1>8, InsertedIncludes
<1>17. ASSUME NEW s \in mine PROVE HasScript(outs, s)
  <2>1. PICK i \in 1 .. Len(original.outs) : original.outs[i].script = s
    BY <1>3, <1>17 DEF SendersScripts
  <2>2. a.outs[i].script = s
    BY <1>13, <1>17, <2>1
  <2>3. PICK j \in 1 .. Len(outs) : outs[j] = a.outs[i]
    BY <1>2, <1>16 DEF Includes
  <2> QED
    BY <1>10, <2>2, <2>3 DEF HasScript
<1> QED
  BY <1>10, <1>15, <1>17

-----------------------------------------------------------------------------
(* The sender's side.                                                       *)

LEMMA SenderAssumptions == SP!WeightsAssumption /\ SP!SenderAssumption
BY WeightsAssumption DEF SP!WeightsAssumption, SP!SenderAssumption

LEMMA SameTypes == Sender!TypeOK <=> SP!TypeOK
BY DEF Sender!TypeOK, SP!TypeOK, Sender!Psbts, SP!Psbts, Sender!Policies, SP!Policies,
       Sender!Inputs, SP!Inputs, Sender!Outputs, SP!Outputs, Sender!Contributions,
       SP!Contributions, Sender!Checks, SP!Checks, Sender!Within, SP!Within

LEMMA SameTypesNext == (Sender!TypeOK)' <=> (SP!TypeOK)'
BY DEF Sender!TypeOK, SP!TypeOK, Sender!Psbts, SP!Psbts, Sender!Policies, SP!Policies,
       Sender!Inputs, SP!Inputs, Sender!Outputs, SP!Outputs, Sender!Contributions,
       SP!Contributions, Sender!Checks, SP!Checks, Sender!Within, SP!Within

LEMMA SameFees ==
  /\ \A tx : Sender!Fee(tx) = SP!Fee(tx) /\ Sender!Weight(tx) = SP!Weight(tx)
  /\ Sender!TheirWeight = SP!TheirWeight
BY DEF Sender!Fee, SP!Fee, Sender!InTotal, SP!InTotal, Sender!OutTotal, SP!OutTotal,
       Sender!Weight, SP!Weight, Sender!OutputsWeight, SP!OutputsWeight,
       Sender!TheirWeight, SP!TheirWeight, Sender!SpentScripts, SP!SpentScripts,
       Sender!ValueOf, SP!ValueOf, Sender!Total, SP!Total, Sender!Sum, SP!Sum,
       Sender!FoldLeft, SP!FoldLeft, Sender!MapThenFoldSet, SP!MapThenFoldSet,
       Sender!Max, SP!Max

LEMMA SameSteps == Sender!Next => SP!Next
<1>1. /\ Sender!BasicChecks => SP!BasicChecks
      /\ Sender!InputsDone => SP!InputsDone
      /\ Sender!OutputsDone => SP!OutputsDone
      /\ Sender!OurInput => SP!OurInput
      /\ Sender!TheirInput => SP!TheirInput
  BY DEF Sender!BasicChecks, SP!BasicChecks, Sender!InputsDone, SP!InputsDone,
         Sender!OutputsDone, SP!OutputsDone, Sender!OurInput, SP!OurInput,
         Sender!TheirInput, SP!TheirInput, Sender!Ensure, SP!Ensure, Sender!Goto, SP!Goto,
         Sender!Pass, SP!Pass, Sender!Same, SP!Same, Sender!InputsLeft, SP!InputsLeft,
         Sender!IsOurs, SP!IsOurs
<1>2. /\ Sender!FeeOutput => SP!FeeOutput
      /\ Sender!PayeeOutput => SP!PayeeOutput
      /\ Sender!OurOutput => SP!OurOutput
      /\ Sender!AdditionalOutput => SP!AdditionalOutput
  BY DEF Sender!FeeOutput, SP!FeeOutput, Sender!PayeeOutput, SP!PayeeOutput, Sender!OurOutput,
         SP!OurOutput, Sender!AdditionalOutput, SP!AdditionalOutput, Sender!Goto, SP!Goto,
         Sender!Pass, SP!Pass, Sender!Same, SP!Same, Sender!OutputsLeft, SP!OutputsLeft,
         Sender!Peeked, SP!Peeked, Sender!SameScript, SP!SameScript, Sender!IsFeeOutput,
         SP!IsFeeOutput, Sender!IsPayee, SP!IsPayee
<1>3. Sender!CheckFees => SP!CheckFees
  <2>1. /\ Sender!Fee(original) = SP!Fee(original) /\ Sender!Fee(payjoin) = SP!Fee(payjoin)
        /\ Sender!Weight(original) = SP!Weight(original)
        /\ Sender!Weight(payjoin) = SP!Weight(payjoin)
        /\ Sender!TheirWeight = SP!TheirWeight
    BY SameFees
  <2>2. /\ Sender!RateOf(Sender!Fee(original), Sender!Weight(original))
             = SP!RateOf(SP!Fee(original), SP!Weight(original))
        /\ Sender!RateOf(Sender!Fee(payjoin), Sender!Weight(payjoin))
             = SP!RateOf(SP!Fee(payjoin), SP!Weight(payjoin))
    BY <2>1 DEF Sender!RateOf, SP!RateOf
  <2>3. Sender!FeeAt(Sender!RateOf(Sender!Fee(original), Sender!Weight(original)),
                     Sender!TheirWeight)
          = SP!FeeAt(SP!RateOf(SP!Fee(original), SP!Weight(original)), SP!TheirWeight)
    BY <2>1, <2>2 DEF Sender!FeeAt, SP!FeeAt
  <2> DEFINE Ok(fee, more, cap, rate) == /\ fee <= more /\ feePaid <= more - fee
                                         /\ feePaid <= cap
                                         /\ policy.minRate > 0 => rate >= policy.minRate
             Ours == Ok(SP!Fee(original), SP!Fee(payjoin),
                        SP!FeeAt(SP!RateOf(SP!Fee(original), SP!Weight(original)),
                                 SP!TheirWeight),
                        SP!RateOf(SP!Fee(payjoin), SP!Weight(payjoin)))
             result == IF Ours THEN "accepted" ELSE "rejected"
  <2>4. Sender!CheckFees => pc = "fees" /\ Sender!Goto(result)
    BY <2>1, <2>2, <2>3 DEF Sender!CheckFees, Sender!Ensure
  <2>5. SP!CheckFees <=> pc = "fees" /\ SP!Goto(result)
    BY DEF SP!CheckFees, SP!Ensure
  <2> HIDE DEF result
  <2>6. Sender!Goto(result) <=> SP!Goto(result)
    BY DEF Sender!Goto, SP!Goto, Sender!Same, SP!Same
  <2> QED
    BY <2>4, <2>5, <2>6
<1> QED
  BY <1>1, <1>2, <1>3 DEF Sender!Next, SP!Next

LEMMA SenderTyped ==
  Sender!TypeOK <=>
    /\ original \in Psbts /\ payjoin \in Psbts /\ policy \in Policies
    /\ pc \in Sender!Checks \cup {"accepted", "rejected"}
    /\ pc = "inputs" => Sender!Within(payjoin.ins, original.ins)
    /\ pc = "outputs" => Sender!Within(payjoin.outs, original.outs)
    /\ pc \notin {"inputs", "outputs"} => at = 1 /\ next = 1
    /\ feePaid \in 0 .. policy.contribution.max
BY DEF Sender!TypeOK, Sender!Psbts, Psbts, Sender!Policies, Policies, Sender!Inputs, Inputs,
       Sender!Outputs, Outputs, Sender!Contributions, Contributions

LEMMA PaidToIs ==
  ASSUME NEW tx \in Psbts, NEW scripts
  PROVE  Sender!PaidTo(tx, scripts) = SumOf(Pays(scripts), tx.outs)
<1>1. tx.outs \in Seq(Outputs)
  BY DEF Psbts
<1>2. \A i \in DOMAIN tx.outs : tx.outs[i] \in Outputs
  BY <1>1
<1>3. Values(Pays(scripts), tx.outs)
      = [i \in DOMAIN tx.outs |->
            IF tx.outs[i].script \in scripts THEN tx.outs[i].value ELSE 0]
  BY <1>2 DEF Values, Pays
<1>4. Sender!PaidTo(tx, scripts)
      = Sum([i \in DOMAIN tx.outs |->
            IF tx.outs[i].script \in scripts THEN tx.outs[i].value ELSE 0])
  BY DEF Sender!PaidTo, Sender!Total, Sender!Sum, Sender!FoldLeft, Sender!MapThenFoldSet,
         Sender!Max, Sum, FoldLeft, MapThenFoldSet, Max
<1> QED
  BY <1>3, <1>4 DEF SumOf

(* The contributions for an output of the Original that does not pay the    *)
(* payee.                                                                   *)
OfferedAt(tx) ==
  UNION {{[max |-> max, vout |-> vout] : max \in Nat} :
            vout \in {i \in DOMAIN tx.outs : tx.outs[i].script # Payee}}

(* determine_fee_contribution finds such an output, or none.                *)
LEMMA ContributionIs ==
  ASSUME NEW tx \in Psbts, NEW fee \in Nat, NEW vout \in Nat, NEW clamp \in BOOLEAN
  PROVE  Contribution(tx, Payee, [max |-> fee, vout |-> vout], clamp)
            \subseteq {NoContribution} \cup OfferedAt(tx)
<1>1. tx.outs \in Seq(Outputs) /\ DOMAIN tx.outs = 1 .. Len(tx.outs)
  BY DEF Psbts
<1>2. ASSUME NEW i \in DOMAIN tx.outs, tx.outs[i].script # Payee
      PROVE  FeeOutputs(tx, i, fee, clamp) \subseteq OfferedAt(tx)
  <2>1. tx.outs[i] \in Outputs
    BY <1>1
  <2>2. tx.outs[i].value \in Nat
    BY <2>1 DEF Outputs
  <2>3. {n \in {fee, tx.outs[i].value} :
            IF tx.outs[i].value < fee THEN clamp /\ n < fee ELSE n = fee} \subseteq Nat
    BY <2>2
  <2> QED
    BY <1>2, <2>3 DEF FeeOutputs, OfferedAt
<1>3. GivenOutput(tx, Payee, fee, vout, clamp) \subseteq OfferedAt(tx)
  BY <1>2 DEF GivenOutput
<1>4. ChangeOutputs(tx, Payee, fee, clamp) \subseteq {NoContribution} \cup OfferedAt(tx)
  <2>1. CASE Len(tx.outs) = 2
    <3>1. 1 .. 2 = DOMAIN tx.outs
      BY <1>1, <2>1
    <3>2. ChangeOutputs(tx, Payee, fee, clamp)
            = UNION {FeeOutputs(tx, i, fee, clamp) :
                        i \in {i \in 1 .. 2 : /\ tx.outs[i].script # Payee
                                              /\ i = 2 => tx.outs[1].script = Payee}}
      BY <2>1 DEF ChangeOutputs
    <3> QED
      BY <1>2, <3>1, <3>2
  <2>2. CASE Len(tx.outs) # 2
    BY <2>2 DEF ChangeOutputs
  <2> QED
    BY <2>1, <2>2
<1> QED
  BY <1>3, <1>4 DEF Contribution

(* Every method of the builder makes a policy with such a contribution.     *)
LEMMA PolicyIs ==
  ASSUME original \in Originals, policy \in SenderPolicies(original)
  PROVE  /\ SinglePayee(original, Payee)
         /\ \E n \in BOOLEAN, r \in SenderRates,
               c \in {NoContribution} \cup OfferedAt(original) :
               policy = [noSubst |-> n, contribution |-> c, minRate |-> r, payee |-> Payee]
<1> DEFINE Offers == {NoContribution} \cup OfferedAt(original)
           Made(n, r) == /\ SinglePayee(original, Payee)
                         /\ \E c \in Offers :
                               policy = [noSubst |-> n, contribution |-> c, minRate |-> r,
                                         payee |-> Payee]
<1>1. original \in Psbts /\ original.ins \in Seq(Inputs)
  BY ProposalAssumption DEF Psbts
<1>2. original.ins[1] \in Inputs
  <2>1. original.ins # <<>>
    BY OriginalsAssumption
  <2>2. 1 \in 1 .. Len(original.ins)
    BY <1>1, <2>1
  <2> QED
    BY <1>1, <2>2
<1>3. ASSUME NEW n \in BOOLEAN, NEW r \in SenderRates, NEW C \in SUBSET Offers,
             policy \in Policy(original, Payee, n, r, C)
      PROVE  Made(n, r)
  <2>1. SinglePayee(original, Payee)
    BY <1>3 DEF Policy
  <2>2. PICK c \in C : policy = [noSubst |-> n, contribution |-> c, minRate |-> r,
                                 payee |-> Payee]
    BY <1>3 DEF Policy
  <2> QED
    BY <2>1, <2>2
<1>4. ASSUME NEW n \in BOOLEAN, NEW r \in SenderRates,
             policy \in NonIncentivizing(original, Payee, n, r)
      PROVE  Made(n, r)
  <2>1. {NoContribution} \in SUBSET Offers
    OBVIOUS
  <2> HIDE DEF Offers, Made
  <2> QED
    BY <1>3, <1>4, <2>1 DEF NonIncentivizing
<1>5. ASSUME NEW n \in BOOLEAN, NEW r \in SenderRates, NEW fee \in Nat, NEW vout \in Nat,
             NEW clamp \in BOOLEAN,
             policy \in WithAdditionalFee(original, Payee, n, r, [max |-> fee, vout |-> vout],
                                          clamp)
      PROVE  Made(n, r)
  <2>1. Contribution(original, Payee, [max |-> fee, vout |-> vout], clamp) \in SUBSET Offers
    BY <1>1, ContributionIs
  <2> HIDE DEF Offers, Made
  <2> QED
    BY <1>3, <1>5, <2>1 DEF WithAdditionalFee
<1>6. ASSUME NEW n \in BOOLEAN, NEW r \in SenderRates,
             policy \in Recommended(original, Payee, n, r)
      PROVE  Made(n, r)
  <2> DEFINE vout == IF original.outs[1].script # Payee THEN 1 ELSE 2
             fee  == FeeAt(r, InWeight[original.ins[1].script])
  <2>1. fee \in Nat
    <3>1. InWeight[original.ins[1].script] \in Nat /\ r \in Nat
      BY <1>2, WeightsAssumption, ProposalAssumption DEF Inputs
    <3> QED
      BY <3>1, FeeCovers
  <2>2. vout \in Nat
    OBVIOUS
  <2>3. \/ policy \in NonIncentivizing(original, Payee, n, r)
        \/ policy \in WithAdditionalFee(original, Payee, n, r, [max |-> fee, vout |-> vout], TRUE)
    BY <1>6 DEF Recommended
  <2> HIDE DEF fee, vout, Offers, Made
  <2> QED
    BY <1>4, <1>5, <2>1, <2>2, <2>3
<1>7. ASSUME NEW n \in BOOLEAN, NEW r \in SenderRates, NEW q \in FeeRequests(original),
             NEW clamp \in BOOLEAN,
             policy \in WithAdditionalFee(original, Payee, n, r, q, clamp)
      PROVE  Made(n, r)
  <2>1. q \in [max : FeeOffers, vout : 0 .. Len(original.outs)]
    BY DEF FeeRequests
  <2>2. Len(original.outs) \in Nat /\ FeeOffers \subseteq Nat
    BY <1>1, ProposalAssumption DEF Psbts
  <2>3. q = [max |-> q.max, vout |-> q.vout] /\ q.max \in Nat /\ q.vout \in Nat
    <3> DEFINE n1 == Len(original.outs)
    <3> HIDE DEF n1
    <3>1. q \in [max : FeeOffers, vout : 0 .. n1] /\ n1 \in Nat
      BY <2>1, <2>2 DEF n1
    <3>2. q = [max |-> q.max, vout |-> q.vout] /\ q.max \in FeeOffers /\ q.vout \in 0 .. n1
      BY <3>1
    <3>3. q.max \in Nat
      BY <2>2, <3>2
    <3>4. q.vout \in Nat
      BY <3>1, <3>2
    <3> QED
      BY <3>2, <3>3, <3>4
  <2> HIDE DEF Offers, Made
  <2> QED
    BY <1>5, <1>7, <2>3
<1>8. ASSUME NEW n \in BOOLEAN, NEW r \in SenderRates, policy \in PoliciesAt(original, n, r)
      PROVE  Made(n, r)
  <2> HIDE DEF Offers, Made
  <2>1. CASE policy \in Recommended(original, Payee, n, r)
    BY <1>6, <2>1
  <2>2. CASE policy \in NonIncentivizing(original, Payee, n, r)
    BY <1>4, <2>2
  <2>3. CASE \E q \in FeeRequests(original), clamp \in BOOLEAN :
                policy \in WithAdditionalFee(original, Payee, n, r, q, clamp)
    BY <1>7, <2>3
  <2> QED
    BY <1>8, <2>1, <2>2, <2>3 DEF PoliciesAt
<1>9. PICK n \in BOOLEAN, r \in SenderRates : policy \in PoliciesAt(original, n, r)
  BY DEF SenderPolicies
<1>10. Made(n, r)
  <2> HIDE DEF Offers, Made
  <2> QED
    BY <1>8, <1>9
<1> QED
  BY <1>10

(* What a sender's builder makes of an Original.                            *)
LEMMA PolicyTyped ==
  ASSUME original \in Originals, policy \in SenderPolicies(original)
  PROVE  /\ original \in Psbts /\ policy \in Policies /\ policy.payee = Payee
         /\ \/ policy.contribution = NoContribution
            \/ policy.contribution.vout \in DOMAIN original.outs
<1>1. original \in Psbts /\ original.ins \in Seq(Inputs) /\ original.outs \in Seq(Outputs)
  BY ProposalAssumption DEF Psbts
<1>3. PICK n \in BOOLEAN, r \in SenderRates, c \in {NoContribution} \cup OfferedAt(original) :
         policy = [noSubst |-> n, contribution |-> c, minRate |-> r, payee |-> Payee]
  BY PolicyIs
<1>4. CASE c = NoContribution
  <2>1. c \in Contributions
    BY <1>4 DEF NoContribution, Contributions
  <2> QED
    BY <1>1, <1>3, <1>4, <2>1, ProposalAssumption DEF Policies
<1>5. CASE c \in OfferedAt(original)
  <2>1. PICK vout \in DOMAIN original.outs, max \in Nat :
           c = [max |-> max, vout |-> vout]
    BY <1>5 DEF OfferedAt
  <2>2. vout \in Nat
    BY <1>1
  <2>3. c \in Contributions /\ c.vout = vout
    BY <2>1, <2>2 DEF Contributions
  <2> QED
    BY <1>1, <1>3, <2>1, <2>3, ProposalAssumption DEF Policies
<1> QED
  BY <1>3, <1>4, <1>5

LEMMA ScriptsAre ==
  ASSUME original \in Originals, policy \in SenderPolicies(original)
  PROVE  SenderScripts = SendersScripts(original)
<1>1. policy.payee = Payee /\ Payee \in OwnedScripts
  BY PolicyTyped, ProposalAssumption
<1> QED
  BY <1>1 DEF SenderScripts, SendersScripts, Sender!OurScripts

(* What outputs pay, split into the sender's and the receiver's.            *)
LEMMA SidesAre ==
  ASSUME original \in Originals, policy \in SenderPolicies(original), NEW tx \in Psbts
  PROVE  /\ Sent(tx) = SentIn(tx.outs) /\ Sent(tx) \in Nat
         /\ Mine(tx) = AllIn(tx.outs) - SentIn(tx.outs)
         /\ AllIn(tx.outs) = OutTotal(tx) /\ AllIn(tx.outs) \in Nat
<1> DEFINE S == SendersScripts(original)
           F == Pays(S)
           G == Pays(Scripts \ S)
<1>1. F \in [Outputs -> Nat] /\ G \in [Outputs -> Nat] /\ OutValue \in [Outputs -> Nat]
  BY PaysNat, MeasuresNat
<1>2. tx.outs \in Seq(Outputs) /\ OutTotal(tx) = SumOf(OutValue, tx.outs) /\ OutTotal(tx) \in Nat
  BY TotalsAre
<1>3. Sent(tx) = SumOf(F, tx.outs) /\ Mine(tx) = SumOf(G, tx.outs)
  BY PaidToIs, ScriptsAre DEF Sent, Mine
<1>4. \A o \in Outputs : OutValue[o] = F[o] + G[o]
  BY DEF OutValue, Pays, Outputs
<1> HIDE DEF F, G
<1>5. SumOf(OutValue, tx.outs) = SumOf(F, tx.outs) + SumOf(G, tx.outs)
  <2>1. F \in [Outputs -> Int] /\ G \in [Outputs -> Int] /\ tx.outs \in Seq(Outputs)
    BY <1>1, <1>2
  <2>2. OutValue = Both(Outputs, F, G)
    BY <1>1, <1>4 DEF Both
  <2> QED
    BY <2>1, <2>2, SumOfPlus, SMTT(30)
<1>6. SumOf(F, tx.outs) \in Nat /\ SumOf(G, tx.outs) \in Nat
  BY <1>1, <1>2, SumOfNat
<1> QED
  BY <1>2, <1>3, <1>5, <1>6 DEF SentIn, AllIn, F

-----------------------------------------------------------------------------
(* What the receiver contributes.                                           *)

LEMMA ListTotal ==
  ASSUME NEW list \in Seq(Inputs)
  PROVE  Total(ValueOf, list) = SumOf(InValue, list) /\ SumOf(InValue, list) \in Nat
<1>1. \A i \in DOMAIN list : list[i] \in Inputs
  OBVIOUS
<1>2. Values(InValue, list) = [i \in DOMAIN list |-> ValueOf(list[i])]
  BY <1>1 DEF Values, InValue, ValueOf
<1>3. SumOf(InValue, list) \in Nat
  BY MeasuresNat, SumOfNat
<1> QED
  BY <1>2, <1>3 DEF Total, SumOf

LEMMA OutsTotal ==
  ASSUME NEW outs \in Seq(Outputs)
  PROVE  Total(ValueOf, outs) = AllIn(outs) /\ AllIn(outs) \in Nat
<1>1. \A i \in DOMAIN outs : outs[i] \in Outputs
  OBVIOUS
<1>2. Values(OutValue, outs) = [i \in DOMAIN outs |-> ValueOf(outs[i])]
  BY <1>1 DEF Values, OutValue, ValueOf
<1>3. SumOf(OutValue, outs) \in Nat
  BY MeasuresNat, SumOfNat
<1> QED
  BY <1>2, <1>3 DEF Total, SumOf, AllIn

LEMMA ListValueNat == ListValue \in [Seq(Inputs) -> Nat]
BY ListTotal DEF ListValue

LEMMA GivenIs ==
  ASSUME NEW lists \in Seq(Seq(Inputs))
  PROVE  /\ Total(LAMBDA list : Total(ValueOf, list), lists) = GivenIn(lists)
         /\ GivenIn(lists) \in Nat
<1>1. \A i \in DOMAIN lists : lists[i] \in Seq(Inputs)
  OBVIOUS
<1>2. Values(ListValue, lists) = [i \in DOMAIN lists |-> Total(ValueOf, lists[i])]
  BY <1>1, ListTotal DEF Values, ListValue
<1>3. SumOf(ListValue, lists) \in Nat
  BY ListValueNat, SumOfNat
<1> QED
  BY <1>2, <1>3 DEF Total, SumOf, GivenIn

LEMMA OneMoreGiven ==
  ASSUME NEW lists \in Seq(Seq(Inputs)), NEW list \in Seq(Inputs)
  PROVE  /\ Append(lists, list) \in Seq(Seq(Inputs))
         /\ GivenIn(Append(lists, list)) = GivenIn(lists) + SumOf(InValue, list)
<1>1. ListValue \in [Seq(Inputs) -> Int]
  BY ListValueNat
<1>2. ListValue[list] = SumOf(InValue, list)
  BY DEF ListValue
<1>3. SumOf(ListValue, Append(lists, list)) = SumOf(ListValue, lists) + ListValue[list]
  BY <1>1, SumOfAppend
<1> QED
  BY <1>2, <1>3 DEF GivenIn

LEMMA NoneGiven == GivenIn(<<>>) = 0
BY SumOfNone DEF GivenIn

-----------------------------------------------------------------------------
(* The invariant.                                                           *)

(* What the initial states and the steps need of the types.                 *)
LEMMA Typed ==
  ASSUME TypeOK, Terms
  PROVE  /\ original \in Psbts /\ payjoin \in Psbts /\ policy \in Policies
         /\ original.ins \in Seq(Inputs) /\ original.outs \in Seq(Outputs)
         /\ payjoin.ins \in Seq(Inputs) /\ payjoin.outs \in Seq(Outputs)
         /\ policy.contribution \in Contributions /\ policy.contribution.max \in Nat
         /\ params.contribution \in Contributions /\ params.contribution.max \in Nat
         /\ params.minRate \in Nat /\ policy.minRate \in Nat
         /\ contributed \in Seq(Seq(Inputs)) /\ GivenIn(contributed) \in Nat
         /\ AllIn(payjoin.outs) \in Nat /\ SentIn(payjoin.outs) \in Nat
         /\ AllIn(original.outs) \in Nat /\ SentIn(original.outs) \in Nat
         /\ InTotal(payjoin) \in Nat /\ InTotal(original) \in Nat
         /\ OutTotal(payjoin) = AllIn(payjoin.outs) /\ OutTotal(original) = AllIn(original.outs)
         /\ AddedInputs \in Int /\ AddedOutputs \in Int
<1>1. original \in Psbts /\ payjoin \in Psbts /\ policy \in Policies
  BY SenderTyped DEF TypeOK
<1>2. /\ original.ins \in Seq(Inputs) /\ original.outs \in Seq(Outputs)
      /\ payjoin.ins \in Seq(Inputs) /\ payjoin.outs \in Seq(Outputs)
  BY <1>1 DEF Psbts
<1>3. /\ policy.contribution \in Contributions /\ policy.contribution.max \in Nat
      /\ policy.minRate \in Nat
  BY <1>1 DEF Policies, Contributions
<1>4. /\ params.contribution \in Contributions /\ params.contribution.max \in Nat
      /\ params.minRate \in Nat /\ contributed \in Seq(Seq(Inputs))
  BY DEF TypeOK, Contributions
<1>5. GivenIn(contributed) \in Nat
  BY <1>4, GivenIs
<1>6. \A tx \in Psbts : /\ AllIn(tx.outs) \in Nat /\ OutTotal(tx) = AllIn(tx.outs)
                        /\ InTotal(tx) \in Nat
                        /\ InputsWeight(tx) \in Nat /\ OutputsWeight(tx) \in Nat
  BY TotalsAre DEF AllIn
<1>7. SentIn(payjoin.outs) \in Nat /\ SentIn(original.outs) \in Nat
  BY <1>2, PaysNat, SumOfNat DEF SentIn
<1>8. AddedInputs \in Int /\ AddedOutputs \in Int
  BY <1>1, <1>6 DEF AddedInputs, AddedOutputs
<1> QED
  BY <1>1, <1>2, <1>3, <1>4, <1>5, <1>6, <1>7, <1>8

LEMMA InvInit == NInit => NegotiationInv
<1> SUFFICES ASSUME NInit PROVE NegotiationInv
  OBVIOUS
<1>1. /\ original \in Originals /\ policy \in SenderPolicies(original)
      /\ params = ParamsOf(policy) /\ payjoin = original /\ stage = "outputsUnknown"
      /\ changeVout = 0 /\ owned = {} /\ rates = [min |-> 0, max |-> 0]
      /\ replaced = 0 /\ wanted = OutTotal(original) /\ contributed = <<>> /\ Sender!Start
  BY DEF NInit, Init
<1>2. original \in Psbts /\ policy \in Policies /\ policy.payee = Payee
  BY <1>1, PolicyTyped
<1>3. policy.contribution.max \in Nat /\ policy.minRate \in Nat
  BY <1>2 DEF Policies, Contributions
<1>4. Sender!TypeOK
  BY <1>1, <1>2, <1>3, SenderTyped DEF Sender!Start, Sender!Checks
<1>5. params \in [noSubst : BOOLEAN, contribution : Contributions, minRate : Nat]
  BY <1>1, <1>2, ProposalAssumption DEF ParamsOf, Policies
<1>6. changeVout \in 0 .. Len(payjoin.outs)
  BY <1>1, <1>2 DEF Psbts
<1>7. TypeOK
  BY <1>1, <1>4, <1>5, <1>6, ProposalAssumption DEF TypeOK, Stages
<1>8. Terms
  BY <1>1, <1>3, ProposalAssumption DEF Terms, ParamsOf
<1>9. Waiting /\ Begun /\ Settled /\ Kept
  BY <1>1 DEF Waiting, Begun, Settled, Kept, SenderPaysAtMost, FeeRateKept, ReceiverKeepsValue,
              Proposed
<1>10. Balanced
  <2>1. /\ SentIn(payjoin.outs) = SentIn(original.outs)
        /\ InTotal(payjoin) = InTotal(original) + GivenIn(contributed)
        /\ wanted \in Nat /\ AllIn(payjoin.outs) = wanted
        /\ AddedInputs >= 0
    <3>1. InTotal(original) \in Nat /\ InputsWeight(original) \in Nat /\ OutTotal(original) \in Nat
          /\ OutTotal(original) = AllIn(original.outs)
      BY <1>2, TotalsAre DEF AllIn
    <3> QED
      BY <1>1, <3>1, NoneGiven DEF AddedInputs
  <2> QED
    BY <1>1, <2>1 DEF Balanced
<1> QED
  BY <1>7, <1>8, <1>9, <1>10 DEF NegotiationInv

(* The sender waits while the receiver works on the proposal.               *)
LEMMA SenderIdle ==
  ASSUME Sender!TypeOK, Sender!Start, payjoin' \in Psbts,
         UNCHANGED <<original, policy, pc, at, next, feePaid>>
  PROVE  (Sender!TypeOK)' /\ (Sender!Start)'
<1>1. /\ (Sender!Psbts)' = Psbts /\ Sender!Psbts = Psbts
      /\ (Sender!Policies)' = Sender!Policies /\ (Sender!Checks)' = Sender!Checks
  BY DEF Sender!Psbts, Psbts, Sender!Inputs, Inputs, Sender!Outputs, Outputs
<1>2. (Sender!Start)'
  BY DEF Sender!Start
<1>3. pc = "basic" /\ at = 1 /\ next = 1
  BY DEF Sender!Start
<1> QED
  BY <1>1, <1>2, <1>3 DEF Sender!TypeOK

LEMMA SenderWaits ==
  ASSUME NegotiationInv, stage # "proposal", payjoin' \in Psbts,
         UNCHANGED <<original, policy>>, UNCHANGED senderVars
  PROVE  (Sender!TypeOK)' /\ (Sender!Start)'
<1>1. Sender!TypeOK /\ Sender!Start
  BY DEF NegotiationInv, TypeOK, Waiting
<1>2. UNCHANGED <<original, policy, pc, at, next, feePaid>>
  BY DEF senderVars
<1> QED
  BY <1>1, <1>2, SenderIdle

(* A typestate that is handed on, or lost, with all its fields as they are. *)
LEMMA Stands ==
  ASSUME NegotiationInv, NEW s \in Stages, Become(s), UNCHANGED senderVars,
         stage # "proposal", s \notin {"proposal", "outputsUnknown", "wantsOutputs"},
         s \in {"wantsInputs", "provisional"} =>
            stage \in {"wantsOutputs", "wantsInputs", "provisional"}
  PROVE  NegotiationInv'
<1>1. /\ UNCHANGED <<original, policy, payjoin, params, changeVout, owned, rates, replaced, wanted,
                      contributed, pc, at, next, feePaid>>
      /\ stage' = s
  BY DEF Become, Offer, senderVars
<1>2. TypeOK'
  <2>1. (Sender!TypeOK)'
    BY <1>1 DEF NegotiationInv, TypeOK, Sender!TypeOK, Sender!Within
  <2> QED
    BY <1>1, <2>1 DEF NegotiationInv, TypeOK
<1>3. Terms' /\ Begun'
  BY <1>1 DEF NegotiationInv, Terms, Begun
<1>4. Waiting'
  BY <1>1 DEF NegotiationInv, Waiting, Sender!Start
<1>5. Settled'
  <2>1. /\ TheOwned' = TheOwned /\ SendersScripts(original)' = SendersScripts(original)
        /\ HasContribution' = HasContribution
        /\ \A script \in SendersScripts(original) :
              HasScript(payjoin'.outs, script) <=> HasScript(payjoin.outs, script)
    BY <1>1 DEF TheOwned, SendersScripts, HasContribution
  <2>2. Settled
    BY DEF NegotiationInv
  <2> QED
    BY <1>1, <2>1, <2>2 DEF Settled
<1>6. Balanced'
  BY <1>1 DEF NegotiationInv, Balanced, SentIn, AllIn, AddedInputs
<1>7. Kept'
  BY <1>1 DEF Kept, SenderPaysAtMost, FeeRateKept, ReceiverKeepsValue, Proposed
<1> QED
  BY <1>2, <1>3, <1>4, <1>5, <1>6, <1>7 DEF NegotiationInv

(* identify_receiver_outputs.                                               *)
LEMMA Identified ==
  ASSUME NegotiationInv, Identify, UNCHANGED senderVars
  PROVE  NegotiationInv'
<1>0. stage = "outputsUnknown" /\ payjoin = original
  BY DEF Identify, NegotiationInv, Begun
<1>1. CASE TheOwned = {}
  <2>1. Become("failed")
    BY <1>1 DEF Identify, TheOwned
  <2> QED
    BY <1>0, <2>1, Stands DEF Stages
<1>2. CASE TheOwned # {}
  <2>1. /\ stage' = "wantsOutputs" /\ owned' = TheOwned
        /\ changeVout' = CHOOSE i \in TheOwned : \A j \in TheOwned : i <= j
        /\ params' = IF params.contribution.vout \in TheOwned
                     THEN [params EXCEPT !.contribution = NoContribution]
                     ELSE params
        /\ UNCHANGED <<original, policy, payjoin, rates, replaced, wanted, contributed,
                        pc, at, next, feePaid>>
    BY <1>2 DEF Identify, TheOwned, Offer, senderVars
  <2>2. TypeOK /\ Terms
    BY DEF NegotiationInv
  <2>3. changeVout' \in TheOwned /\ changeVout' \in 1 .. Len(original.outs)
    <3>1. original.outs \in Seq(Outputs)
      BY <2>2, Typed
    <3>2. Len(original.outs) \in Nat /\ TheOwned \in SUBSET (1 .. Len(original.outs))
      BY <3>1 DEF TheOwned
    <3>3. Min(TheOwned) \in TheOwned
      BY <1>2, <3>2, MinOfInterval
    <3>4. changeVout' = Min(TheOwned)
      BY <2>1 DEF Min
    <3> QED
      BY <3>2, <3>3, <3>4
  <2>4. /\ params' \in [noSubst : BOOLEAN, contribution : Contributions, minRate : Nat]
        /\ params'.noSubst = params.noSubst /\ params'.minRate = params.minRate
        /\ params'.contribution \in {params.contribution, NoContribution}
        /\ params'.contribution.vout \notin TheOwned
    <3>1. NoContribution \in Contributions /\ NoContribution.vout \notin TheOwned
      BY <2>2, Typed DEF NoContribution, Contributions, TheOwned
    <3> QED
      BY <2>1, <2>2, <3>1 DEF TypeOK
  <2>5. TypeOK'
    <3>1. (Sender!TypeOK)'
      <4>1. payjoin' \in Psbts
        BY <2>1, <2>2, Typed
      <4>2. UNCHANGED <<original, policy>>
        BY <2>1
      <4>3. stage # "proposal"
        BY <1>0
      <4> QED
        BY <4>1, <4>2, <4>3, SenderWaits
    <3>2. owned' \subseteq DOMAIN original.outs /\ changeVout' \in 0 .. Len(payjoin'.outs)
      <4>1. payjoin' = original /\ owned' = TheOwned
        BY <1>0, <2>1
      <4>2. TheOwned \subseteq DOMAIN original.outs
        BY DEF TheOwned
      <4>3. Len(original.outs) \in Nat
        BY <2>2, Typed
      <4>4. changeVout' \in 0 .. Len(original.outs)
        BY <2>3, <4>3
      <4> QED
        BY <4>1, <4>2, <4>4
    <3> QED
      BY <2>1, <2>2, <2>4, <3>1, <3>2 DEF TypeOK, Stages
  <2>6. Terms' /\ Begun'
    BY <2>1, <2>2, <2>4 DEF Terms, Begun
  <2>7. Waiting'
    BY <1>0, <2>1 DEF NegotiationInv, Waiting, Sender!Start
  <2>8. Settled'
    <3>1. /\ TheOwned' = TheOwned /\ SendersScripts(original)' = SendersScripts(original)
          /\ payjoin' = original
      BY <1>0, <2>1 DEF TheOwned, SendersScripts
    <3>2. /\ owned' = TheOwned'
          /\ changeVout' \in DOMAIN payjoin'.outs
          /\ payjoin'.outs[changeVout'].script \notin SendersScripts(original)
      BY <2>1, <2>3, <3>1 DEF TheOwned, SendersScripts
    <3>3. ASSUME HasContribution'
          PROVE  /\ params'.contribution.vout \in DOMAIN original.outs
                 /\ original.outs[params'.contribution.vout].script \in SendersScripts(original)
      <4>1. params'.contribution # NoContribution
        BY <3>3 DEF HasContribution, NoContribution
      <4>2. params'.contribution = policy.contribution
        BY <2>2, <2>4, <4>1 DEF Terms
      <4>3. params'.contribution.vout \in DOMAIN original.outs
        BY <2>2, <4>1, <4>2, PolicyTyped DEF Terms
      <4> QED
        BY <2>4, <4>3 DEF TheOwned, SendersScripts
    <3>4. \A s \in SendersScripts(original) : HasScript(payjoin'.outs, s)
      BY <3>1 DEF SendersScripts, HasScript
    <3> QED
      BY <2>1, <3>1, <3>2, <3>3, <3>4 DEF Settled
  <2>9. Balanced'
    BY <1>0, <2>1 DEF NegotiationInv, Balanced, SentIn, AllIn, AddedInputs
  <2>10. Kept'
    BY <2>1 DEF Kept, SenderPaysAtMost, FeeRateKept, ReceiverKeepsValue, Proposed
  <2> QED
    BY <2>5, <2>6, <2>7, <2>8, <2>9, <2>10 DEF NegotiationInv
<1> QED
  BY <1>1, <1>2

(* replace_receiver_outputs and substitute_receiver_script.                 *)
LEMMA ReplacedWith ==
  ASSUME NegotiationInv, MayReplace, UNCHANGED senderVars,
         NEW new \in SUBSET Outputs, IsFiniteSet(new),
         \A o \in new : o.script \notin SendersScripts(original),
         NEW drain \in Scripts, drain \notin SendersScripts(original), ReplaceWith(new, drain)
  PROVE  NegotiationInv'
<1>0. /\ stage = "wantsOutputs" /\ replaced < MaxReplacements /\ contributed = <<>>
      /\ TypeOK /\ Terms /\ owned = TheOwned
  BY DEF MayReplace, NegotiationInv, Balanced, Settled
<1>1. CASE Become("failed")
  BY <1>0, <1>1, Stands DEF Stages
<1>2. CASE ~Become("failed")
  <2>1. PICK outs \in Replaced(new) :
          /\ \E i \in DOMAIN outs : outs[i].script = drain
          /\ payjoin' = [original EXCEPT !.outs = outs]
          /\ changeVout' = SelectInSeq(outs, LAMBDA o : o.script = drain)
          /\ replaced' = replaced + 1
          /\ wanted' = Total(ValueOf, outs)
          /\ UNCHANGED <<original, policy, stage, params, owned, rates, contributed>>
    BY <1>2 DEF ReplaceWith, Offer
  <2>2. UNCHANGED <<pc, at, next, feePaid>>
    BY DEF senderVars
  <2>3. original \in Psbts
    BY <1>0, Typed
  <2>4. /\ outs \in Seq(Outputs) /\ SentIn(outs) = SentIn(original.outs)
        /\ \A s \in SendersScripts(original) : HasScript(outs, s)
    BY <1>0, <2>3, ReplacedPays
  <2>5. /\ payjoin' \in Psbts /\ payjoin'.outs = outs /\ payjoin'.ins = original.ins
        /\ payjoin' = [header |-> original.header, ins |-> original.ins, outs |-> outs]
    BY <2>1, <2>3, <2>4 DEF Psbts
  <2>6. changeVout' \in 1 .. Len(outs) /\ outs[changeVout'].script = drain
    <3>1. changeVout' = VoutOf(payjoin', drain)
      BY <2>1, <2>5 DEF VoutOf
    <3>2. \E i \in DOMAIN (payjoin').outs : (payjoin').outs[i].script = drain
      BY <2>1, <2>5
    <3> QED
      BY <2>5, <3>1, <3>2, VoutIs
  <2>7. TypeOK'
    <3>1. (Sender!TypeOK)' /\ (Sender!Start)'
      BY <1>0, <2>1, <2>2, <2>5, SenderIdle DEF NegotiationInv, TypeOK, Waiting
    <3>2. changeVout' \in 0 .. Len(payjoin'.outs)
      BY <2>4, <2>5, <2>6
    <3>3. replaced' \in 0 .. MaxReplacements
      BY <1>0, <2>1, ProposalAssumption DEF TypeOK
    <3> QED
      BY <1>0, <2>1, <3>1, <3>2, <3>3 DEF TypeOK
  <2>8. Terms' /\ Begun'
    BY <1>0, <2>1 DEF Terms, Begun
  <2>9. Waiting'
    BY <1>0, <2>1, <2>2 DEF NegotiationInv, Waiting, Sender!Start
  <2>10. Settled'
    <3>1. TheOwned' = TheOwned /\ SendersScripts(original)' = SendersScripts(original)
      BY <2>1 DEF TheOwned, SendersScripts
    <3>2. /\ changeVout' \in DOMAIN payjoin'.outs
          /\ payjoin'.outs[changeVout'].script \notin SendersScripts(original)
      BY <2>4, <2>5, <2>6
    <3>3. HasContribution' = HasContribution
      BY <2>1 DEF HasContribution
    <3>4. HasContribution =>
             /\ params.contribution.vout \in DOMAIN original.outs
             /\ original.outs[params.contribution.vout].script \in SendersScripts(original)
      BY <1>0 DEF NegotiationInv, Settled
    <3> QED
      BY <1>0, <2>1, <2>4, <2>5, <3>1, <3>2, <3>3, <3>4 DEF Settled
  <2>11. Balanced'
    <3>1. (SentIn(payjoin.outs) = SentIn(original.outs))'
      BY <2>1, <2>4, <2>5 DEF SentIn, SendersScripts
    <3>2. (wanted \in Nat /\ AllIn(payjoin.outs) = wanted)'
      BY <2>1, <2>4, <2>5, OutsTotal DEF AllIn
    <3>3. InTotal(payjoin') = InTotal(original) /\ InTotal(original) \in Nat
          /\ InputsWeight(payjoin') = InputsWeight(original) /\ InputsWeight(original) \in Nat
      BY <2>3, <2>5, TotalsAre
    <3>4. GivenIn(contributed') = 0
      BY <1>0, <2>1, NoneGiven
    <3>5. AddedInputs' >= 0
      BY <2>1, <3>3 DEF AddedInputs
    <3>6. (InTotal(payjoin) = InTotal(original) + GivenIn(contributed))'
      BY <2>1, <3>3, <3>4
    <3>7. (contributed = <<>> /\ payjoin.ins = original.ins /\ Len(contributed) # 1)'
      BY <1>0, <2>1, <2>5
    <3> QED
      BY <3>1, <3>2, <3>5, <3>6, <3>7 DEF Balanced
  <2>12. Kept'
    BY <1>0, <2>1 DEF Kept, SenderPaysAtMost, FeeRateKept, ReceiverKeepsValue, Proposed
  <2> QED
    BY <2>7, <2>8, <2>9, <2>10, <2>11, <2>12 DEF NegotiationInv
<1> QED
  BY <1>1, <1>2

LEMMA ReplaceKeeps ==
  ASSUME NegotiationInv, Replace \/ Substitute, UNCHANGED senderVars
  PROVE  NegotiationInv'
<1>0. original \in Originals /\ MayReplace /\ stage = "wantsOutputs" /\ TypeOK /\ Terms
  BY DEF Replace, Substitute, MayReplace, NegotiationInv, Terms
<1>1. CASE Replace
  <2>1. PICK r \in Replacements : ReplaceWith(r.outs, r.drain)
    BY <1>1 DEF Replace
  <2>2. /\ r.outs \in SUBSET Outputs /\ IsFiniteSet(r.outs) /\ r.drain \in Scripts
        /\ r.drain \notin SendersScripts(original)
        /\ \A o \in r.outs : o.script \notin SendersScripts(original)
    BY <1>0, ProposalAssumption, OriginalsAssumption
  <2> QED
    BY <1>0, <2>1, <2>2, ReplacedWith
<1>2. CASE Substitute
  <2>1. PICK script \in NewScripts :
          IF changeVout \in DOMAIN original.outs
          THEN ReplaceWith({[script |-> script, value |-> original.outs[changeVout].value]},
                           script)
          ELSE Become("panicked")
    BY <1>2 DEF Substitute
  <2>2. CASE changeVout \in DOMAIN original.outs
    <3> DEFINE o == [script |-> script, value |-> original.outs[changeVout].value]
    <3>1. script \in Scripts /\ script \notin SendersScripts(original)
      BY <1>0, ProposalAssumption, OriginalsAssumption
    <3>2. o \in Outputs
      <4>1. original.outs \in Seq(Outputs)
        BY <1>0, Typed
      <4>2. original.outs[changeVout] \in Outputs
        BY <2>2, <4>1
      <4> QED
        BY <3>1, <4>2 DEF Outputs
    <3>3. o.script = script /\ ReplaceWith({o}, script)
      BY <2>1, <2>2
    <3> HIDE DEF o
    <3>4. {o} \in SUBSET Outputs /\ IsFiniteSet({o})
      BY <3>2, FS_Singleton
    <3> QED
      BY <1>0, <3>1, <3>3, <3>4, ReplacedWith
  <2>3. CASE changeVout \notin DOMAIN original.outs
    BY <1>0, <2>1, <2>3, Stands DEF Stages
  <2> QED
    BY <2>2, <2>3
<1> QED
  BY <1>1, <1>2

-----------------------------------------------------------------------------
(* contribute_inputs.                                                       *)

(* What a contribution makes of the PSBT.                                   *)
WithInputs(ins, v) ==
    [header |-> payjoin.header, ins |-> ins, outs |-> WithValue(payjoin.outs, changeVout, v)]

(* The value of the change output after it.                                 *)
Change(list) == payjoin.outs[changeVout].value + SumOf(InValue, list) - MinInputAmount

LEMMA InputsAdded ==
  ASSUME payjoin \in Psbts, changeVout \in 1 .. Len(payjoin.outs),
         payjoin.outs[changeVout].script \notin SendersScripts(original),
         NEW list \in Seq(Inputs), NEW v \in Nat,
         NEW ins \in Inserted(payjoin.ins, list, Len(payjoin.ins) + 1)
  PROVE  LET tx == WithInputs(ins, v) IN
         /\ tx \in Psbts
         /\ InTotal(tx) = InTotal(payjoin) + SumOf(InValue, list)
         /\ InputsWeight(tx) >= InputsWeight(payjoin)
         /\ AllIn(tx.outs) = AllIn(payjoin.outs) - payjoin.outs[changeVout].value + v
         /\ SentIn(tx.outs) = SentIn(payjoin.outs)
         /\ Len(tx.outs) = Len(payjoin.outs)
         /\ \A k \in 1 .. Len(payjoin.outs) : tx.outs[k].script = payjoin.outs[k].script
<1> DEFINE tx == WithInputs(ins, v)
           outs == WithValue(payjoin.outs, changeVout, v)
<1>0. payjoin.outs \in Seq(Outputs) /\ payjoin.ins \in Seq(Inputs) /\ payjoin.header \in Headers
  BY DEF Psbts
<1>1. Len(payjoin.ins) + 1 \in Nat
  BY <1>0
<1>2. /\ ins \in Seq(Inputs)
      /\ SumOf(InValue, ins) = SumOf(InValue, payjoin.ins) + SumOf(InValue, list)
      /\ SumOf(InWeighs, ins) = SumOf(InWeighs, payjoin.ins) + SumOf(InWeighs, list)
  <2>1. ASSUME NEW F \in [Inputs -> Int]
        PROVE  ins \in Seq(Inputs) /\ SumOf(F, ins) = SumOf(F, payjoin.ins) + SumOf(F, list)
    BY <1>0, <1>1, SumOfInserted
  <2>2. InValue \in [Inputs -> Int] /\ InWeighs \in [Inputs -> Int]
    BY MeasuresInt
  <2> QED
    BY <2>1, <2>2
<1>3. SumOf(InWeighs, list) \in Nat
  BY MeasuresNat, SumOfNat
<1>4. /\ outs \in Seq(Outputs) /\ Len(outs) = Len(payjoin.outs)
      /\ \A k \in 1 .. Len(payjoin.outs) : outs[k].script = payjoin.outs[k].script
      /\ SumOf(OutValue, outs)
           = SumOf(OutValue, payjoin.outs) - payjoin.outs[changeVout].value + v
  BY <1>0, ValueSet
<1>5. SumOf(Pays(SendersScripts(original)), outs)
        = SumOf(Pays(SendersScripts(original)), payjoin.outs)
  <2>1. SumOf(Pays(SendersScripts(original)), payjoin.outs) \in Nat
    BY <1>0, PaysNat, SumOfNat
  <2> QED
    BY <1>0, <2>1, ValueSet
<1>6. tx.ins = ins /\ tx.outs = outs /\ tx \in Psbts
  BY <1>0, <1>2, <1>4 DEF WithInputs, Psbts
<1> HIDE DEF tx, outs
<1>7. /\ InTotal(tx) = SumOf(InValue, tx.ins) /\ InTotal(payjoin) = SumOf(InValue, payjoin.ins)
      /\ InputsWeight(tx) = SumOf(InWeighs, tx.ins)
      /\ InputsWeight(payjoin) = SumOf(InWeighs, payjoin.ins) /\ InputsWeight(payjoin) \in Nat
  BY <1>6, TotalsAre
<1>8. /\ InTotal(tx) = InTotal(payjoin) + SumOf(InValue, list)
      /\ InputsWeight(tx) >= InputsWeight(payjoin)
  BY <1>2, <1>3, <1>6, <1>7
<1>9. /\ AllIn(tx.outs) = AllIn(payjoin.outs) - payjoin.outs[changeVout].value + v
      /\ SentIn(tx.outs) = SentIn(payjoin.outs)
  BY <1>4, <1>5, <1>6 DEF AllIn, SentIn
<1> QED
  BY <1>4, <1>6, <1>8, <1>9 DEF tx

LEMMA Contributed ==
  ASSUME NegotiationInv, stage = "wantsInputs", Len(contributed) < MaxContributions,
         UNCHANGED senderVars, NEW list \in Seq(Inputs), Contribute(list)
  PROVE  NegotiationInv'
<1>0. TypeOK /\ Terms /\ Settled /\ Balanced
  BY DEF NegotiationInv
<1>1. CASE Total(ValueOf, list) < MinInputAmount
  BY <1>1, Stands DEF Contribute, Stages
<1>2. CASE ~(Total(ValueOf, list) < MinInputAmount)
  <2>1. PICK ins \in Inserted(payjoin.ins, list, Len(payjoin.ins) + 1) :
          /\ payjoin' = [payjoin EXCEPT
                !.ins = ins,
                !.outs[changeVout].value = @ + Total(ValueOf, list) - MinInputAmount]
          /\ contributed' = Append(contributed, list)
          /\ UNCHANGED <<original, policy, stage, params, changeVout, owned, rates, replaced,
                         wanted>>
    BY <1>2 DEF Contribute, Offer
  <2>2. /\ payjoin \in Psbts /\ payjoin.outs \in Seq(Outputs) /\ original \in Psbts
        /\ contributed \in Seq(Seq(Inputs)) /\ GivenIn(contributed) \in Nat
        /\ AllIn(payjoin.outs) \in Nat /\ AllIn(original.outs) \in Nat
        /\ OutTotal(payjoin) = AllIn(payjoin.outs) /\ OutTotal(original) = AllIn(original.outs)
        /\ InTotal(payjoin) \in Nat /\ InTotal(original) \in Nat
    BY <1>0, Typed
  <2>3. /\ changeVout \in 1 .. Len(payjoin.outs)
        /\ payjoin.outs[changeVout].script \notin SendersScripts(original)
    BY <1>0, <2>2 DEF Settled
  <2>4. payjoin.outs[changeVout].value \in Nat
    <3>1. payjoin.outs[changeVout] \in Outputs
      BY <2>2, <2>3
    <3> QED
      BY <3>1 DEF Outputs
  <2>5. Total(ValueOf, list) = SumOf(InValue, list) /\ SumOf(InValue, list) \in Nat
    BY ListTotal
  <2>6. /\ MinInputAmount \in Nat
        /\ MinInputAmount = IF AllIn(payjoin.outs) > AllIn(original.outs)
                            THEN AllIn(payjoin.outs) - AllIn(original.outs) ELSE 0
    BY <2>2 DEF MinInputAmount
  <2> DEFINE v == Change(list)
             tx == WithInputs(ins, v)
  <2>7. v \in Nat /\ v = payjoin.outs[changeVout].value + SumOf(InValue, list) - MinInputAmount
    BY <1>2, <2>4, <2>5, <2>6, SMTT(30) DEF Change
  <2>8. payjoin' = tx
    <3>1. payjoin' = [payjoin EXCEPT !.ins = ins, !.outs[changeVout].value = v]
      BY <2>1, <2>5, <2>7
    <3> HIDE DEF v
    <3> QED
      BY <2>2, <3>1 DEF WithInputs, WithValue, Psbts
  <2> HIDE DEF v, tx
  <2>9. /\ tx \in Psbts
        /\ InTotal(tx) = InTotal(payjoin) + SumOf(InValue, list)
        /\ InputsWeight(tx) >= InputsWeight(payjoin)
        /\ AllIn(tx.outs) = AllIn(payjoin.outs) - payjoin.outs[changeVout].value + v
        /\ SentIn(tx.outs) = SentIn(payjoin.outs)
        /\ Len(tx.outs) = Len(payjoin.outs)
        /\ \A k \in 1 .. Len(payjoin.outs) : tx.outs[k].script = payjoin.outs[k].script
    BY <2>2, <2>3, <2>7, InputsAdded DEF tx
  <2>10. /\ contributed' \in Seq(Seq(Inputs)) /\ Len(contributed') = Len(contributed) + 1
         /\ contributed' # <<>> /\ Len(contributed) \in Nat
         /\ GivenIn(contributed') = GivenIn(contributed) + SumOf(InValue, list)
    BY <2>1, <2>2, OneMoreGiven
  <2>11. TypeOK'
    <3>1. (Sender!TypeOK)'
      <4>1. payjoin' \in Psbts
        BY <2>8, <2>9
      <4>2. UNCHANGED <<original, policy>>
        BY <2>1
      <4> QED
        BY <4>1, <4>2, SenderWaits
    <3>2. changeVout' \in 0 .. Len(payjoin'.outs)
      BY <2>1, <2>3, <2>8, <2>9
    <3>3. Len(contributed') <= MaxContributions
      BY <2>10, ProposalAssumption
    <3> QED
      BY <1>0, <2>1, <2>10, <3>1, <3>2, <3>3 DEF TypeOK
  <2>12. Terms' /\ Begun'
    BY <1>0, <2>1 DEF Terms, Begun
  <2>13. Waiting'
    BY <2>1 DEF NegotiationInv, Waiting, Sender!Start, senderVars
  <2>14. Settled'
    <3>1. TheOwned' = TheOwned /\ SendersScripts(original)' = SendersScripts(original)
      BY <2>1 DEF TheOwned, SendersScripts
    <3>2. /\ changeVout' \in DOMAIN payjoin'.outs
          /\ payjoin'.outs[changeVout'].script \notin SendersScripts(original)
      <4>1. tx.outs \in Seq(Outputs)
        BY <2>9 DEF Psbts
      <4> QED
        BY <2>1, <2>3, <2>8, <2>9, <4>1
    <3>3. ASSUME NEW s \in SendersScripts(original) PROVE HasScript(payjoin'.outs, s)
      <4>1. tx.outs \in Seq(Outputs)
        BY <2>9 DEF Psbts
      <4>2. PICK i \in DOMAIN payjoin.outs : payjoin.outs[i].script = s
        BY <1>0, <3>3, SMTT(30) DEF Settled, HasScript
      <4>3. i \in 1 .. Len(payjoin.outs) /\ i \in DOMAIN tx.outs
        BY <2>2, <2>9, <4>1, <4>2
      <4> QED
        BY <2>8, <2>9, <4>2, <4>3 DEF HasScript
    <3>4. HasContribution' = HasContribution
      BY <2>1 DEF HasContribution
    <3>5. /\ owned = TheOwned
          /\ HasContribution =>
             /\ params.contribution.vout \in DOMAIN original.outs
             /\ original.outs[params.contribution.vout].script \in SendersScripts(original)
      BY <1>0 DEF Settled
    <3> QED
      BY <2>1, <3>1, <3>2, <3>3, <3>4, <3>5 DEF Settled
  <2>15. Balanced'
    <3>1. /\ SentIn(payjoin.outs) = SentIn(original.outs)
          /\ InTotal(payjoin) = InTotal(original) + GivenIn(contributed)
          /\ AddedInputs >= 0 /\ wanted \in Nat
          /\ contributed = <<>> => AllIn(payjoin.outs) = wanted
      BY <1>0 DEF Balanced
    <3>2. (SentIn(payjoin.outs) = SentIn(original.outs))'
      BY <2>1, <2>8, <2>9, <3>1 DEF SentIn, SendersScripts
    <3>3. (InTotal(payjoin) = InTotal(original) + GivenIn(contributed))'
      BY <2>1, <2>2, <2>5, <2>8, <2>9, <2>10, <3>1
    <3>4. (AddedInputs >= 0)'
      <4>1. InputsWeight(tx) \in Nat /\ InputsWeight(payjoin) \in Nat
            /\ InputsWeight(original) \in Nat
        BY <2>2, <2>9, TotalsAre
      <4> QED
        BY <2>1, <2>8, <2>9, <3>1, <4>1 DEF AddedInputs
    <3>5. AllIn(payjoin.outs)' = AllIn(payjoin.outs) + SumOf(InValue, list) - MinInputAmount
      <4>1. AllIn(payjoin.outs)' = AllIn(tx.outs)
        BY <2>8 DEF AllIn
      <4>2. AllIn(tx.outs) = AllIn(payjoin.outs) - payjoin.outs[changeVout].value + v
        BY <2>9
      <4>3. AllIn(payjoin.outs) \in Int /\ payjoin.outs[changeVout].value \in Int
            /\ SumOf(InValue, list) \in Int /\ MinInputAmount \in Int
        BY <2>2, <2>4, <2>5, <2>6
      <4>4. AllIn(tx.outs) = AllIn(payjoin.outs) + SumOf(InValue, list) - MinInputAmount
        BY <2>7, <4>2, <4>3
      <4> QED
        BY <4>1, <4>4
    <3>6. (Len(contributed) = 1 =>
              AllIn(payjoin.outs) = GivenIn(contributed) + (IF wanted > OutTotal(original)
                                                            THEN OutTotal(original) ELSE wanted))'
      <4>1. CASE contributed = <<>>
        <5>1. GivenIn(contributed') = SumOf(InValue, list)
          BY <2>5, <2>10, <4>1, NoneGiven
        <5>2. AllIn(payjoin.outs)' = AllIn(payjoin.outs) + SumOf(InValue, list)
                                     - (IF AllIn(payjoin.outs) > AllIn(original.outs)
                                        THEN AllIn(payjoin.outs) - AllIn(original.outs) ELSE 0)
          BY <2>6, <3>5
        <5>3. AllIn(payjoin.outs)' = SumOf(InValue, list)
                                     + (IF wanted > OutTotal(original)
                                        THEN OutTotal(original) ELSE wanted)
          BY <2>2, <2>5, <3>1, <4>1, <5>2
        <5>4. wanted' = wanted /\ OutTotal(original)' = OutTotal(original)
          BY <2>1
        <5> QED
          BY <5>1, <5>3, <5>4
      <4>2. CASE contributed # <<>>
        <5>1. Len(contributed) # 0
          BY <2>2, <4>2
        <5>2. Len(contributed') # 1
          BY <2>10, <5>1
        <5> QED
          BY <5>2
      <4> QED
        BY <4>1, <4>2
    <3>7. (Fee(payjoin) >= Fee(original))'
      <4>1. OutTotal(tx) = AllIn(tx.outs)
        BY <2>9, TotalsAre DEF AllIn
      <4>2. /\ InTotal(payjoin)' = InTotal(payjoin) + SumOf(InValue, list)
            /\ OutTotal(payjoin)' = AllIn(payjoin.outs) + SumOf(InValue, list) - MinInputAmount
        BY <2>8, <2>9, <3>5, <4>1
      <4>3. Fee(payjoin)' = InTotal(payjoin) - AllIn(payjoin.outs) + MinInputAmount
        <5>1. Fee(payjoin)' = InTotal(payjoin)' - OutTotal(payjoin)'
          BY DEF Fee
        <5>2. /\ InTotal(payjoin) \in Int /\ AllIn(payjoin.outs) \in Int
              /\ SumOf(InValue, list) \in Int /\ MinInputAmount \in Int
          BY <2>2, <2>5, <2>6
        <5> QED
          BY <4>2, <5>1, <5>2
      <4>4. Fee(original)' = InTotal(original) - AllIn(original.outs)
        BY <2>1, <2>2 DEF Fee
      <4>5. MinInputAmount >= AllIn(payjoin.outs) - AllIn(original.outs)
        BY <2>2, <2>6
      <4>6. InTotal(payjoin) >= InTotal(original)
        BY <2>2, <3>1
      <4> QED
        BY <2>2, <2>6, <4>3, <4>4, <4>5, <4>6
    <3>8. (wanted \in Nat /\ contributed # <<>> /\ stage \notin {"outputsUnknown", "wantsOutputs"})'
      BY <2>1, <2>10, <3>1
    <3> QED
      BY <3>2, <3>3, <3>4, <3>6, <3>7, <3>8 DEF Balanced
  <2>16. Kept'
    BY <2>1 DEF Kept, SenderPaysAtMost, FeeRateKept, ReceiverKeepsValue, Proposed
  <2> QED
    BY <2>11, <2>12, <2>13, <2>14, <2>15, <2>16 DEF NegotiationInv
<1> QED
  BY <1>1, <1>2

LEMMA ContributeKeeps ==
  ASSUME NegotiationInv, ContributeInputs, UNCHANGED senderVars
  PROVE  NegotiationInv'
<1>0. original \in Originals /\ TypeOK /\ Terms
  BY DEF NegotiationInv, Terms
<1>1. stage = "wantsInputs" /\ Len(contributed) < MaxContributions
  BY DEF ContributeInputs
<1>2. PICK list \in InputLists :
         Contribute([i \in DOMAIN list |-> [list[i] EXCEPT !.seq = original.ins[1].seq]])
  BY DEF ContributeInputs
<1>3. list \in Seq(Inputs)
  <2>1. Unspent \subseteq Inputs /\ Selected \subseteq Inputs
    BY ProposalAssumption DEF Unspent, Selected
  <2>2. CASE list = <<>>
    BY <2>2
  <2>3. CASE \E c \in Selected : list = <<c>>
    BY <2>1, <2>3
  <2>4. CASE \E p \in Unspent \X Unspent : list = <<p[1], p[2]>>
    BY <2>1, <2>4
  <2> QED
    BY <1>2, <2>2, <2>3, <2>4 DEF InputLists
<1>4. original.ins[1].seq \in SequenceNos
  <2>1. original.ins \in Seq(Inputs) /\ original.ins # <<>>
    BY <1>0, Typed, OriginalsAssumption
  <2>2. original.ins[1] \in Inputs
    BY <2>1
  <2> QED
    BY <2>2 DEF Inputs
<1> DEFINE same == [i \in DOMAIN list |-> [list[i] EXCEPT !.seq = original.ins[1].seq]]
<1>5. same \in Seq(Inputs)
  <2>1. ASSUME NEW i \in DOMAIN list PROVE [list[i] EXCEPT !.seq = original.ins[1].seq] \in Inputs
    <3>1. list[i] \in Inputs
      BY <1>3
    <3> QED
      BY <1>4, <3>1 DEF Inputs
  <2>2. DOMAIN list = 1 .. Len(list) /\ Len(list) \in Nat
    BY <1>3
  <2> QED
    BY <2>1, <2>2
<1>6. Contribute(same)
  BY <1>2
<1> HIDE DEF same
<1> QED
  BY <1>1, <1>5, <1>6, Contributed

-----------------------------------------------------------------------------
(* finalize_proposal.                                                       *)

(* What the fees come to.                                                   *)
LEMMA FeesAre ==
  ASSUME NegotiationInv, stage # "proposal", AddedOutputs >= 0, NEW rate \in Nat
  PROVE  /\ FeeAt(rate, AddedInputs) \in Nat /\ FeeAt(rate, AddedOutputs) \in Nat
         /\ SenderFee(rate) \in Nat
         /\ SenderFee(rate) <= FeeAt(rate, AddedInputs)
         /\ SenderFee(rate) <= policy.contribution.max
         /\ SenderFee(rate) # 0 => HasContribution
         /\ ReceiverFee(rate) \in Nat
         /\ SenderFee(rate) + ReceiverFee(rate)
              = FeeAt(rate, AddedInputs) + FeeAt(rate, AddedOutputs)
<1>1. TypeOK /\ Terms /\ AddedInputs >= 0
  BY DEF NegotiationInv, Balanced
<1>2. AddedInputs \in Nat /\ AddedOutputs \in Nat
  BY <1>1, Typed
<1>3. FeeAt(rate, AddedInputs) \in Nat /\ FeeAt(rate, AddedOutputs) \in Nat
  BY <1>2, FeeCovers
<1>4. params.contribution.max \in Nat /\ policy.contribution.max \in Nat
  BY <1>1, Typed
<1>5. HasContribution => params.contribution.max <= policy.contribution.max
  BY <1>1, <1>4 DEF Terms, HasContribution, NoContribution
<1> DEFINE in  == FeeAt(rate, AddedInputs)
           out == FeeAt(rate, AddedOutputs)
           max == params.contribution.max
<1>6. /\ SenderFee(rate) = IF ~HasContribution THEN 0 ELSE IF max < in THEN max ELSE in
      /\ ReceiverFee(rate) = in - SenderFee(rate) + out
  BY DEF SenderFee, ReceiverFee
<1>7. in \in Nat /\ out \in Nat /\ max \in Nat
  BY <1>3, <1>4
<1> HIDE DEF in, out, max
<1>8. /\ SenderFee(rate) \in Nat /\ SenderFee(rate) <= in
      /\ SenderFee(rate) # 0 => HasContribution
      /\ SenderFee(rate) = 0 \/ SenderFee(rate) <= max
  BY <1>6, <1>7
<1>9. SenderFee(rate) <= policy.contribution.max
  BY <1>4, <1>5, <1>7, <1>8 DEF max
<1>10. ReceiverFee(rate) \in Nat /\ SenderFee(rate) + ReceiverFee(rate) = in + out
  BY <1>6, <1>7, <1>8
<1> QED
  BY <1>3, <1>8, <1>9, <1>10 DEF in, out

(* What is left of a list of outputs when the sender's and all that is paid *)
(* fall by these amounts and the weights stay.                              *)
Falls(outs, t, sent, all) ==
    /\ t \in Seq(Outputs) /\ Len(t) = Len(outs)
    /\ \A k \in 1 .. Len(outs) : t[k].script = outs[k].script
    /\ AllIn(t) = AllIn(outs) - all
    /\ SentIn(t) = SentIn(outs) - sent
    /\ SumOf(OutWeighs, t) = SumOf(OutWeighs, outs)

LEMMA ValueFalls ==
  ASSUME NEW outs \in Seq(Outputs), NEW i \in 1 .. Len(outs), NEW n \in Nat,
         ~(outs[i].value < n)
  PROVE  Falls(outs, [outs EXCEPT ![i].value = @ - n],
               IF outs[i].script \in SendersScripts(original) THEN n ELSE 0, n)
<1>1. outs[i].value \in Nat
  <2>1. outs[i] \in Outputs
    OBVIOUS
  <2> QED
    BY <2>1 DEF Outputs
<1> DEFINE v == outs[i].value - n
           t == WithValue(outs, i, v)
<1>2. v \in Nat /\ v - outs[i].value = 0 - n
  BY <1>1
<1>3. t = [outs EXCEPT ![i].value = @ - n]
  BY DEF WithValue
<1> HIDE DEF v
<1>4. /\ t \in Seq(Outputs) /\ Len(t) = Len(outs)
      /\ \A k \in 1 .. Len(outs) : t[k].script = outs[k].script
      /\ SumOf(OutValue, t) = SumOf(OutValue, outs) - outs[i].value + v
      /\ SumOf(OutWeighs, t) = SumOf(OutWeighs, outs)
      /\ SumOf(Pays(SendersScripts(original)), t)
           = SumOf(Pays(SendersScripts(original)), outs)
             + (IF outs[i].script \in SendersScripts(original) THEN v - outs[i].value ELSE 0)
  BY <1>2, ValueSet
<1> HIDE DEF t
<1>5. AllIn(outs) \in Nat /\ SentIn(outs) \in Nat
  BY OutsTotal, PaysNat, SumOfNat DEF SentIn
<1>6. AllIn(t) = AllIn(outs) - n
  <2>1. AllIn(t) = AllIn(outs) - outs[i].value + v
    BY <1>4 DEF AllIn
  <2> QED
    BY <1>1, <1>2, <1>5, <2>1
<1>7. SentIn(t) = SentIn(outs) - (IF outs[i].script \in SendersScripts(original) THEN n ELSE 0)
  <2>1. SentIn(t) = SentIn(outs) + (IF outs[i].script \in SendersScripts(original)
                                    THEN v - outs[i].value ELSE 0)
    BY <1>4 DEF SentIn
  <2> QED
    BY <1>2, <1>5, <2>1
<1> QED
  BY <1>3, <1>4, <1>6, <1>7 DEF Falls

LEMMA FeesTakenAre ==
  ASSUME NegotiationInv, stage = "provisional", AddedOutputs >= 0, NEW rate \in Nat,
         ~(HasContribution /\ payjoin.outs[SenderFeeVout].value < SenderFee(rate)),
         ~(SenderFeeTaken(rate)[changeVout].value < ReceiverFee(rate))
  PROVE  Falls(payjoin.outs, FeesTaken(rate), SenderFee(rate),
               SenderFee(rate) + ReceiverFee(rate))
<1> DEFINE taken == SenderFeeTaken(rate)
<1>1. /\ SenderFee(rate) \in Nat /\ ReceiverFee(rate) \in Nat
      /\ SenderFee(rate) # 0 => HasContribution
  BY FeesAre
<1>2. /\ TypeOK /\ Terms /\ changeVout \in DOMAIN payjoin.outs
      /\ payjoin.outs[changeVout].script \notin SendersScripts(original)
  BY DEF NegotiationInv, Settled
<1>3. /\ payjoin \in Psbts /\ payjoin.outs \in Seq(Outputs)
      /\ AllIn(payjoin.outs) \in Nat /\ SentIn(payjoin.outs) \in Nat
  BY <1>2, Typed
<1>4. changeVout \in 1 .. Len(payjoin.outs)
  BY <1>2, <1>3
<1>5. Falls(payjoin.outs, taken, SenderFee(rate), SenderFee(rate))
  <2>1. CASE SenderFee(rate) = 0
    <3>1. taken = payjoin.outs
      BY <2>1 DEF SenderFeeTaken
    <3> HIDE DEF taken
    <3> QED
      BY <1>3, <2>1, <3>1 DEF Falls
  <2>2. CASE SenderFee(rate) # 0
    <3> DEFINE s == original.outs[params.contribution.vout].script
    <3>1. HasContribution
      BY <1>1, <2>2
    <3>2. s \in SendersScripts(original) /\ HasScript(payjoin.outs, s)
      BY <3>1 DEF NegotiationInv, Settled
    <3>3. SenderFeeVout = VoutOf(payjoin, s)
      BY DEF SenderFeeVout
    <3> HIDE DEF s
    <3>4. SenderFeeVout \in 1 .. Len(payjoin.outs) /\ payjoin.outs[SenderFeeVout].script = s
      BY <1>3, <3>2, <3>3, VoutIs DEF HasScript
    <3>5. ~(payjoin.outs[SenderFeeVout].value < SenderFee(rate))
      BY <3>1
    <3>6. taken = [payjoin.outs EXCEPT ![SenderFeeVout].value = @ - SenderFee(rate)]
      BY <2>2 DEF SenderFeeTaken
    <3> HIDE DEF taken
    <3>7. Falls(payjoin.outs, taken,
                IF payjoin.outs[SenderFeeVout].script \in SendersScripts(original)
                THEN SenderFee(rate) ELSE 0, SenderFee(rate))
      BY <1>1, <1>3, <3>4, <3>5, <3>6, ValueFalls
    <3> QED
      BY <3>2, <3>4, <3>7
  <2> QED
    BY <2>1, <2>2
<1>6. FeesTaken(rate) = [taken EXCEPT ![changeVout].value = @ - ReceiverFee(rate)]
  BY DEF FeesTaken
<1>7. ~(taken[changeVout].value < ReceiverFee(rate))
  OBVIOUS
<1> HIDE DEF taken
<1>8. /\ taken \in Seq(Outputs) /\ changeVout \in 1 .. Len(taken)
      /\ taken[changeVout].script \notin SendersScripts(original)
  BY <1>2, <1>4, <1>5 DEF Falls
<1>9. Falls(taken, FeesTaken(rate), 0, ReceiverFee(rate))
  BY <1>1, <1>6, <1>7, <1>8, ValueFalls
<1>10. /\ AllIn(FeesTaken(rate)) = AllIn(payjoin.outs) - SenderFee(rate) - ReceiverFee(rate)
       /\ SentIn(FeesTaken(rate)) = SentIn(payjoin.outs) - SenderFee(rate) - 0
  BY <1>5, <1>9 DEF Falls
<1>11. /\ AllIn(FeesTaken(rate)) = AllIn(payjoin.outs) - (SenderFee(rate) + ReceiverFee(rate))
       /\ SentIn(FeesTaken(rate)) = SentIn(payjoin.outs) - SenderFee(rate)
  BY <1>1, <1>3, <1>10
<1> QED
  BY <1>5, <1>9, <1>11 DEF Falls

(* The wallet's signatures change neither what is spent nor its weight.     *)
LEMMA Signed ==
  ASSUME NEW ins \in Seq(Inputs), NEW S
  PROVE  LET t == [i \in DOMAIN ins |-> [ins[i] EXCEPT !.final = i \notin S]] IN
         /\ t \in Seq(Inputs)
         /\ SumOf(InValue, t) = SumOf(InValue, ins)
         /\ SumOf(InWeighs, t) = SumOf(InWeighs, ins)
<1> DEFINE x(i) == [ins[i] EXCEPT !.final = i \notin S]
           t == [i \in DOMAIN ins |-> x(i)]
<1>1. ASSUME NEW i \in DOMAIN ins
      PROVE  /\ ins[i] \in Inputs /\ x(i) \in Inputs
             /\ x(i).value = ins[i].value /\ x(i).script = ins[i].script
  <2>1. ins[i] \in Inputs
    OBVIOUS
  <2> DEFINE b == i \notin S
  <2>2. b \in BOOLEAN /\ x(i) = [ins[i] EXCEPT !.final = b]
    OBVIOUS
  <2> HIDE DEF b, x
  <2> QED
    BY <2>1, <2>2 DEF Inputs
<1>2. DOMAIN ins = 1 .. Len(ins) /\ Len(ins) \in Nat
  OBVIOUS
<1> HIDE DEF x
<1>3. t \in Seq(Inputs) /\ Len(t) = Len(ins)
  BY <1>1, <1>2
<1>4. \A i \in 1 .. Len(ins) : InValue[ins[i]] = InValue[t[i]]
  BY <1>1, <1>2 DEF InValue
<1>5. \A i \in 1 .. Len(ins) : InWeighs[ins[i]] = InWeighs[t[i]]
  BY <1>1, <1>2 DEF InWeighs
<1>6. SumOf(InValue, t) = SumOf(InValue, ins)
  <2> HIDE DEF t
  <2> QED
    BY <1>3, <1>4, MeasuresInt, SumOfSame, ZenonT(60)
<1>7. SumOf(InWeighs, t) = SumOf(InWeighs, ins)
  <2> HIDE DEF t
  <2> QED
    BY <1>3, <1>5, MeasuresInt, SumOfSame, ZenonT(60)
<1> QED
  BY <1>3, <1>6, <1>7 DEF t, x

(* The proposal that the receiver finalises.                                *)
Finished(rate) ==
    [header |-> payjoin.header,
     ins    |-> [i \in DOMAIN payjoin.ins |->
                    [payjoin.ins[i] EXCEPT !.final = i \notin MatchedInputs(original, payjoin)]],
     outs   |-> FeesTaken(rate)]

LEMMA FinishedIs ==
  ASSUME payjoin \in Psbts, NEW rate,
         NEW sent, NEW all, Falls(payjoin.outs, FeesTaken(rate), sent, all)
  PROVE  /\ Finished(rate) \in Psbts
         /\ Finished(rate).outs = FeesTaken(rate)
         /\ InTotal(Finished(rate)) = InTotal(payjoin)
         /\ InputsWeight(Finished(rate)) = InputsWeight(payjoin)
         /\ OutputsWeight(Finished(rate)) = OutputsWeight(payjoin)
<1> DEFINE S == MatchedInputs(original, payjoin)
           ins == [i \in DOMAIN payjoin.ins |-> [payjoin.ins[i] EXCEPT !.final = i \notin S]]
           tx == Finished(rate)
<1>1. payjoin.ins \in Seq(Inputs) /\ payjoin.header \in Headers
  BY DEF Psbts
<1>2. /\ ins \in Seq(Inputs) /\ SumOf(InValue, ins) = SumOf(InValue, payjoin.ins)
      /\ SumOf(InWeighs, ins) = SumOf(InWeighs, payjoin.ins)
  <2> HIDE DEF S
  <2> QED
    BY <1>1, Signed
<1>3. FeesTaken(rate) \in Seq(Outputs)
      /\ SumOf(OutWeighs, FeesTaken(rate)) = SumOf(OutWeighs, payjoin.outs)
  BY DEF Falls
<1>4. tx = [header |-> payjoin.header, ins |-> ins, outs |-> FeesTaken(rate)]
  BY DEF Finished
<1> HIDE DEF ins, tx
<1>5. tx \in Psbts /\ tx.ins = ins /\ tx.outs = FeesTaken(rate)
  BY <1>1, <1>2, <1>3, <1>4 DEF Psbts
<1>6. /\ InTotal(tx) = SumOf(InValue, tx.ins) /\ InTotal(payjoin) = SumOf(InValue, payjoin.ins)
      /\ InputsWeight(tx) = SumOf(InWeighs, tx.ins)
      /\ InputsWeight(payjoin) = SumOf(InWeighs, payjoin.ins)
      /\ OutputsWeight(tx) = SumOf(OutWeighs, tx.outs)
      /\ OutputsWeight(payjoin) = SumOf(OutWeighs, payjoin.outs)
  BY <1>5, TotalsAre
<1> QED
  BY <1>2, <1>3, <1>5, <1>6 DEF tx

LEMMA SomeLen ==
  ASSUME NEW D, NEW s \in Seq(D), s # <<>>
  PROVE  Len(s) <= 1 => Len(s) = 1
<1>1. Len(s) \in Nat /\ s \in [1 .. Len(s) -> D]
  OBVIOUS
<1>2. Len(s) = 0 => s = <<>>
  BY <1>1
<1> QED
  BY <1>1, <1>2

(* The three properties, of a proposal with both fees taken.                *)
LEMMA FinishedKeeps ==
  ASSUME NegotiationInv, stage = "provisional", AddedOutputs >= 0,
         NEW rate \in Nat, NEW max \in Nat,
         ~(HasContribution /\ payjoin.outs[SenderFeeVout].value < SenderFee(rate)),
         ~(ReceiverFee(rate) > FeeAt(max, AddedInputs + AddedOutputs)),
         ~(SenderFeeTaken(rate)[changeVout].value < ReceiverFee(rate))
  PROVE  LET tx == Finished(rate)
             loss == Sent(original) - Sent(tx)
         IN /\ tx \in Psbts
            /\ Len(tx.outs) = Len(payjoin.outs)
            /\ InputsWeight(tx) = InputsWeight(payjoin)
            /\ OutputsWeight(tx) = OutputsWeight(payjoin)
            /\ loss <= policy.contribution.max /\ loss <= FeeAt(rate, AddedInputs)
            /\ Len(contributed) <= 1 /\ wanted >= OutTotal(original) =>
                  Mine(tx) >= Mine(original) + Given - FeeAt(max, AddedInputs + AddedOutputs)
            /\ ~Uncovered =>
                  Fee(tx) >= Fee(original) + FeeAt(rate, AddedInputs) + FeeAt(rate, AddedOutputs)
<1> DEFINE tx == Finished(rate)
           SF == SenderFee(rate)
           RF == ReceiverFee(rate)
           cap == FeeAt(max, AddedInputs + AddedOutputs)
<1>1. /\ FeeAt(rate, AddedInputs) \in Nat /\ FeeAt(rate, AddedOutputs) \in Nat
      /\ SF \in Nat /\ SF <= FeeAt(rate, AddedInputs) /\ SF <= policy.contribution.max
      /\ RF \in Nat
      /\ SF + RF = FeeAt(rate, AddedInputs) + FeeAt(rate, AddedOutputs)
  BY FeesAre
<1>2. Falls(payjoin.outs, FeesTaken(rate), SF, SF + RF)
  BY FeesTakenAre
<1>3. /\ TypeOK /\ Terms /\ Balanced
      /\ original \in Originals /\ policy \in SenderPolicies(original)
  BY DEF NegotiationInv, Terms
<1>4. /\ payjoin \in Psbts /\ original \in Psbts /\ policy.contribution.max \in Nat
      /\ contributed \in Seq(Seq(Inputs)) /\ GivenIn(contributed) \in Nat
      /\ AllIn(payjoin.outs) \in Nat /\ SentIn(payjoin.outs) \in Nat
      /\ AllIn(original.outs) \in Nat /\ SentIn(original.outs) \in Nat
      /\ InTotal(payjoin) \in Nat /\ InTotal(original) \in Nat
      /\ OutTotal(payjoin) = AllIn(payjoin.outs) /\ OutTotal(original) = AllIn(original.outs)
      /\ AddedInputs \in Int /\ AddedOutputs \in Int
  BY <1>3, Typed
<1>5. cap \in Nat
  <2>1. AddedInputs + AddedOutputs \in Nat
    BY <1>3, <1>4 DEF Balanced
  <2> QED
    BY <2>1, FeeCovers
<1>6. RF <= cap
  BY <1>1, <1>5
<1> HIDE DEF SF, RF, cap
<1>7. /\ tx \in Psbts /\ tx.outs = FeesTaken(rate)
      /\ InTotal(tx) = InTotal(payjoin)
      /\ InputsWeight(tx) = InputsWeight(payjoin)
      /\ OutputsWeight(tx) = OutputsWeight(payjoin)
  BY <1>2, <1>4, FinishedIs
<1> HIDE DEF tx
<1>8. /\ AllIn(tx.outs) = AllIn(payjoin.outs) - (SF + RF)
      /\ SentIn(tx.outs) = SentIn(payjoin.outs) - SF
      /\ Len(tx.outs) = Len(payjoin.outs)
  BY <1>2, <1>7 DEF Falls
<1>9. /\ Sent(tx) = SentIn(tx.outs) /\ Mine(tx) = AllIn(tx.outs) - SentIn(tx.outs)
      /\ OutTotal(tx) = AllIn(tx.outs)
      /\ Sent(original) = SentIn(original.outs)
      /\ Mine(original) = AllIn(original.outs) - SentIn(original.outs)
  BY <1>3, <1>4, <1>7, SidesAre
<1>10. Given = GivenIn(contributed)
  BY <1>4, GivenIs DEF Given
<1>11. /\ SentIn(payjoin.outs) = SentIn(original.outs)
       /\ InTotal(payjoin) = InTotal(original) + GivenIn(contributed) /\ wanted \in Nat
       /\ contributed = <<>> => AllIn(payjoin.outs) = wanted
       /\ Len(contributed) = 1 =>
             AllIn(payjoin.outs) = GivenIn(contributed) + (IF wanted > OutTotal(original)
                                                           THEN OutTotal(original) ELSE wanted)
       /\ contributed # <<>> => Fee(payjoin) >= Fee(original)
  BY <1>3 DEF Balanced
<1>12. Sent(original) - Sent(tx) = SF
  <2>1. Sent(original) - Sent(tx) = SentIn(original.outs) - (SentIn(original.outs) - SF)
    BY <1>8, <1>9, <1>11
  <2>2. SentIn(original.outs) \in Int /\ SF \in Int
    BY <1>1, <1>4
  <2> QED
    BY <2>1, <2>2
<1>13. ASSUME Len(contributed) <= 1, wanted >= OutTotal(original)
       PROVE  Mine(tx) >= Mine(original) + Given - cap
  <2>1. Mine(tx) = AllIn(payjoin.outs) - RF - SentIn(original.outs)
    <3>1. Mine(tx) = AllIn(payjoin.outs) - (SF + RF) - (SentIn(original.outs) - SF)
      BY <1>8, <1>9, <1>11
    <3>2. /\ AllIn(payjoin.outs) \in Int /\ SentIn(original.outs) \in Int
          /\ SF \in Int /\ RF \in Int
      BY <1>1, <1>4
    <3> QED
      BY <3>1, <3>2
  <2>2. AllIn(payjoin.outs) >= AllIn(original.outs) + GivenIn(contributed)
    <3>1. CASE contributed = <<>>
      <4>1. GivenIn(contributed) = 0
        BY <3>1, NoneGiven
      <4>2. AllIn(payjoin.outs) = wanted /\ wanted >= AllIn(original.outs)
        BY <1>4, <1>11, <1>13, <3>1
      <4> QED
        BY <1>4, <4>1, <4>2
    <3>2. CASE contributed # <<>>
      <4>0. contributed \in Seq(Seq(Inputs))
        BY <1>4
      <4>1. Len(contributed) <= 1 => Len(contributed) = 1
        BY <3>2, <4>0, SomeLen
      <4>3. Len(contributed) = 1
        BY <1>13, <4>1
      <4> QED
        BY <1>4, <1>11, <1>13, <4>3
    <3> QED
      BY <3>1, <3>2
  <2>3. Mine(original) + Given - cap
          = AllIn(original.outs) - SentIn(original.outs) + GivenIn(contributed) - cap
    BY <1>9, <1>10
  <2>4. /\ AllIn(payjoin.outs) \in Int /\ AllIn(original.outs) \in Int
        /\ SentIn(original.outs) \in Int /\ GivenIn(contributed) \in Int
        /\ RF \in Int /\ cap \in Int /\ RF <= cap
    BY <1>1, <1>4, <1>5, <1>6
  <2> QED
    BY <2>1, <2>2, <2>3, <2>4
<1>14. ASSUME ~Uncovered
       PROVE  Fee(tx) >= Fee(original) + FeeAt(rate, AddedInputs) + FeeAt(rate, AddedOutputs)
  <2>1. Fee(tx) = Fee(payjoin) + (SF + RF)
    <3>1. Fee(tx) = InTotal(payjoin) - (AllIn(payjoin.outs) - (SF + RF))
      BY <1>7, <1>8, <1>9 DEF Fee
    <3>2. Fee(payjoin) = InTotal(payjoin) - AllIn(payjoin.outs)
      BY <1>4 DEF Fee
    <3>3. /\ InTotal(payjoin) \in Int /\ AllIn(payjoin.outs) \in Int
          /\ SF \in Int /\ RF \in Int
      BY <1>1, <1>4
    <3> QED
      BY <3>1, <3>2, <3>3
  <2>2. Fee(payjoin) >= Fee(original)
    <3>1. CASE contributed = <<>>
      <4>1. wanted <= AllIn(original.outs)
        BY <1>4, <1>11, <1>14, <3>1 DEF Uncovered
      <4>2. InTotal(payjoin) = InTotal(original)
        BY <1>4, <1>11, <3>1, NoneGiven
      <4> QED
        BY <1>4, <1>11, <3>1, <4>1, <4>2 DEF Fee
    <3>2. CASE contributed # <<>>
      BY <1>11, <3>2
    <3> QED
      BY <3>1, <3>2
  <2>3. Fee(payjoin) \in Int /\ Fee(original) \in Int
    BY <1>4, FeeInt
  <2> QED
    BY <1>1, <2>1, <2>2, <2>3
<1>15. /\ Sent(original) - Sent(tx) <= policy.contribution.max
       /\ Sent(original) - Sent(tx) <= FeeAt(rate, AddedInputs)
  BY <1>1, <1>12
<1> QED
  BY <1>7, <1>8, <1>13, <1>14, <1>15 DEF tx, cap

LEMMA BothSet ==
  ASSUME NEW tx \in Psbts, NEW ins, NEW outs
  PROVE  [tx EXCEPT !.outs = outs, !.ins = ins]
           = [header |-> tx.header, ins |-> ins, outs |-> outs]
<1> DEFINE t == [tx EXCEPT !.outs = outs]
<1>1. t = [header |-> tx.header, ins |-> tx.ins, outs |-> outs]
  BY DEF Psbts
<1>2. [tx EXCEPT !.outs = outs, !.ins = ins] = [t EXCEPT !.ins = ins]
  OBVIOUS
<1> HIDE DEF t
<1> QED
  BY <1>1, <1>2

LEMMA Finishes ==
  ASSUME NegotiationInv, stage = "provisional", AddedOutputs >= 0, UNCHANGED senderVars,
         NEW rate \in Nat, NEW max \in Nat, Finish(rate, max),
         ~(HasContribution /\ payjoin.outs[SenderFeeVout].value < SenderFee(rate)),
         ~(ReceiverFee(rate) > FeeAt(max, AddedInputs + AddedOutputs)),
         ~(SenderFeeTaken(rate)[changeVout].value < ReceiverFee(rate))
  PROVE  NegotiationInv'
<1>0. TypeOK /\ Terms /\ payjoin \in Psbts
  BY Typed DEF NegotiationInv
<1>1. CASE Become("failed")
  BY <1>1, Stands DEF Stages
<1>2. CASE ~Become("failed")
  <2>1. /\ stage' = "proposal"
        /\ payjoin' = [payjoin EXCEPT
             !.outs = FeesTaken(rate),
             !.ins = [i \in DOMAIN @ |->
                         [@[i] EXCEPT !.final = i \notin MatchedInputs(original, payjoin)]]]
        /\ rates' = [min |-> rate, max |-> max]
        /\ UNCHANGED <<original, policy, params, changeVout, owned, replaced, wanted, contributed>>
    BY <1>2 DEF Finish, Offer
  <2> DEFINE tx == Finished(rate)
  <2>2. payjoin' = tx
    <3> DEFINE ins == [i \in DOMAIN payjoin.ins |-> [payjoin.ins[i] EXCEPT
                          !.final = i \notin MatchedInputs(original, payjoin)]]
    <3>1. payjoin' = [payjoin EXCEPT !.outs = FeesTaken(rate), !.ins = ins]
      BY <2>1
    <3>2. tx = [header |-> payjoin.header, ins |-> ins, outs |-> FeesTaken(rate)]
      BY DEF Finished
    <3> HIDE DEF ins, tx
    <3>3. [payjoin EXCEPT !.outs = FeesTaken(rate), !.ins = ins]
            = [header |-> payjoin.header, ins |-> ins, outs |-> FeesTaken(rate)]
      BY <1>0, BothSet
    <3> QED
      BY <3>1, <3>2, <3>3
  <2>3. /\ tx \in Psbts /\ Len(tx.outs) = Len(payjoin.outs)
        /\ InputsWeight(tx) = InputsWeight(payjoin)
        /\ OutputsWeight(tx) = OutputsWeight(payjoin)
        /\ Sent(original) - Sent(tx) <= policy.contribution.max
        /\ Sent(original) - Sent(tx) <= FeeAt(rate, AddedInputs)
        /\ Len(contributed) <= 1 /\ wanted >= OutTotal(original) =>
              Mine(tx) >= Mine(original) + Given - FeeAt(max, AddedInputs + AddedOutputs)
        /\ ~Uncovered =>
              Fee(tx) >= Fee(original) + FeeAt(rate, AddedInputs) + FeeAt(rate, AddedOutputs)
    BY FinishedKeeps
  <2> HIDE DEF tx
  <2>4. TypeOK'
    <3>1. (Sender!TypeOK)'
      <4>1. payjoin' \in Psbts
        BY <2>2, <2>3
      <4>2. UNCHANGED <<original, policy>>
        BY <2>1
      <4>3. stage # "proposal"
        OBVIOUS
      <4> QED
        BY <4>1, <4>2, <4>3, SenderWaits
    <3>2. changeVout' \in 0 .. Len(payjoin'.outs)
      BY <1>0, <2>1, <2>2, <2>3 DEF TypeOK
    <3>3. rates' \in [min : Nat, max : Nat]
      BY <2>1
    <3> QED
      BY <1>0, <2>1, <3>1, <3>2, <3>3 DEF TypeOK, Stages
  <2>5. Terms' /\ Begun'
    BY <1>0, <2>1 DEF Terms, Begun
  <2>6. Waiting' /\ Settled' /\ Balanced'
    BY <2>1 DEF Waiting, Settled, Balanced
  <2>7. /\ AddedInputs' = AddedInputs /\ AddedOutputs' = AddedOutputs
        /\ rates'.min = rate /\ rates'.max = max
    BY <2>1, <2>2, <2>3 DEF AddedInputs, AddedOutputs
  <2>8. /\ Sent(original)' = Sent(original) /\ Sent(payjoin)' = Sent(tx)
        /\ Mine(original)' = Mine(original) /\ Mine(payjoin)' = Mine(tx)
    BY <2>1, <2>2 DEF Sent, Mine, SenderScripts, Sender!OurScripts
  <2>9. SenderPaysAtMost'
    <3>1. (LET loss == Sent(original) - Sent(payjoin)
           IN loss <= policy.contribution.max /\ loss <= FeeAt(rates.min, AddedInputs))'
      BY <2>1, <2>3, <2>7, <2>8
    <3> QED
      BY <3>1 DEF SenderPaysAtMost
  <2>10. ReceiverKeepsValue'
    <3>1. Given' = Given /\ OutTotal(original)' = OutTotal(original)
      BY <2>1 DEF Given, Total, ValueOf
    <3> QED
      BY <2>1, <2>3, <2>7, <2>8, <3>1 DEF ReceiverKeepsValue
  <2>11. FeeRateKept'
    <3>1. Uncovered' = Uncovered /\ Fee(original)' = Fee(original) /\ Fee(payjoin)' = Fee(tx)
      BY <2>1, <2>2 DEF Uncovered
    <3> QED
      BY <2>1, <2>3, <2>7, <3>1 DEF FeeRateKept
  <2> QED
    BY <2>4, <2>5, <2>6, <2>9, <2>10, <2>11 DEF NegotiationInv, Kept
<1> QED
  BY <1>1, <1>2

LEMMA FinalizeKeeps ==
  ASSUME NegotiationInv, FinalizeProposal, UNCHANGED senderVars
  PROVE  NegotiationInv'
<1>1. PICK min \in MinRates, max \in MaxRates : Finalize(min, max)
  BY DEF FinalizeProposal
<1> DEFINE rate == IF min < params.minRate THEN params.minRate ELSE min
<1>2. rate \in Nat /\ max \in Nat
  BY ProposalAssumption DEF NegotiationInv, TypeOK
<1>3. AddedOutputs \in Int
  BY Typed DEF NegotiationInv
<1>4. /\ stage = "provisional"
      /\ IF HasContribution /\ payjoin.outs[SenderFeeVout].value < SenderFee(rate)
         THEN Become("panicked")
         ELSE IF AddedOutputs < 0 THEN Become("panicked") \/ Become("failed")
         ELSE IF ReceiverFee(rate) > FeeAt(max, AddedInputs + AddedOutputs)
         THEN Become("failed")
         ELSE IF SenderFeeTaken(rate)[changeVout].value < ReceiverFee(rate)
         THEN Become("panicked")
         ELSE Finish(rate, max)
  BY <1>1 DEF Finalize
<1> HIDE DEF rate
<1>5. CASE Become("panicked") \/ Become("failed")
  BY <1>4, <1>5, Stands DEF Stages
<1>6. CASE ~(Become("panicked") \/ Become("failed"))
  <2>1. /\ ~(HasContribution /\ payjoin.outs[SenderFeeVout].value < SenderFee(rate))
        /\ AddedOutputs >= 0
        /\ ~(ReceiverFee(rate) > FeeAt(max, AddedInputs + AddedOutputs))
        /\ ~(SenderFeeTaken(rate)[changeVout].value < ReceiverFee(rate))
        /\ Finish(rate, max)
    BY <1>3, <1>4, <1>6
  <2> QED
    BY <1>2, <1>4, <2>1, Finishes
<1> QED
  BY <1>5, <1>6

-----------------------------------------------------------------------------
(* The sender's checks, and the theorems.                                   *)

(* The sender looks at the proposal and changes nothing of it.              *)
LEMMA CheckKeeps ==
  ASSUME NegotiationInv, Check
  PROVE  NegotiationInv'
<1>1. /\ stage = "proposal" /\ Sender!Next
      /\ UNCHANGED <<stage, params, changeVout, owned, rates, replaced, wanted, contributed>>
  BY DEF Check
<1>2. UNCHANGED <<original, policy, payjoin>>
  BY <1>1 DEF Sender!Next, Sender!BasicChecks, Sender!OurInput, Sender!TheirInput,
              Sender!InputsDone, Sender!FeeOutput, Sender!PayeeOutput, Sender!OurOutput,
              Sender!AdditionalOutput, Sender!OutputsDone, Sender!CheckFees,
              Sender!Ensure, Sender!Goto, Sender!Pass, Sender!Same
<1>3. TypeOK'
  <2>1. SP!TypeOK /\ SP!Next
    BY <1>1, SameTypes, SameSteps DEF NegotiationInv, TypeOK
  <2>2. (Sender!TypeOK)'
    <3>1. SP!TypeOK'
      BY <2>1, SenderAssumptions, SP!TypeStep
    <3> QED
      BY <3>1, SameTypesNext
  <2> QED
    BY <1>1, <1>2, <2>2 DEF NegotiationInv, TypeOK
<1>4. Terms'
  BY <1>1, <1>2 DEF NegotiationInv, Terms
<1>5. Waiting' /\ Begun' /\ Settled' /\ Balanced'
  BY <1>1 DEF Waiting, Begun, Settled, Balanced
<1>6. Kept'
  <2>1. /\ Sent(original)' = Sent(original) /\ Sent(payjoin)' = Sent(payjoin)
        /\ Mine(original)' = Mine(original) /\ Mine(payjoin)' = Mine(payjoin)
    BY <1>2 DEF Sent, Mine, SenderScripts, Sender!OurScripts
  <2>2. /\ AddedInputs' = AddedInputs /\ AddedOutputs' = AddedOutputs
        /\ Given' = Given /\ Uncovered' = Uncovered
        /\ Proposed' = Proposed
    <3>1. AddedInputs' = AddedInputs /\ AddedOutputs' = AddedOutputs
      BY <1>2 DEF AddedInputs, AddedOutputs
    <3>2. Given' = Given
      BY <1>1 DEF Given, Total, ValueOf
    <3>3. Uncovered' = Uncovered /\ Proposed' = Proposed
      BY <1>1, <1>2 DEF Uncovered, Proposed
    <3> QED
      BY <3>1, <3>2, <3>3
  <2> QED
    BY <1>1, <1>2, <2>1, <2>2
       DEF NegotiationInv, Kept, SenderPaysAtMost, ReceiverKeepsValue, FeeRateKept
<1> QED
  BY <1>3, <1>4, <1>5, <1>6 DEF NegotiationInv

LEMMA InvStep == NegotiationInv /\ [Receive \/ Check]_vars => NegotiationInv'
<1> SUFFICES ASSUME NegotiationInv, [Receive \/ Check]_vars PROVE NegotiationInv'
  OBVIOUS
<1>1. CASE Receive
  <2>0. UNCHANGED senderVars
    BY <1>1 DEF Receive
  <2>1. CASE Identify
    BY <2>0, <2>1, Identified
  <2>2. CASE Replace \/ Substitute
    BY <2>0, <2>2, ReplaceKeeps
  <2>3. CASE CommitOutputs
    <3>1. stage = "wantsOutputs" /\ Become("wantsInputs")
      BY <2>3 DEF CommitOutputs
    <3> QED
      BY <2>0, <3>1, Stands DEF Stages
  <2>4. CASE ContributeInputs
    BY <2>0, <2>4, ContributeKeeps
  <2>5. CASE CommitInputs
    <3>1. stage = "wantsInputs" /\ Become("provisional")
      BY <2>5 DEF CommitInputs
    <3> QED
      BY <2>0, <3>1, Stands DEF Stages
  <2>6. CASE FinalizeProposal
    BY <2>0, <2>6, FinalizeKeeps
  <2> QED
    BY <1>1, <2>1, <2>2, <2>3, <2>4, <2>5, <2>6 DEF Receive, Next
<1>2. CASE Check
  BY <1>2, CheckKeeps
<1>3. CASE UNCHANGED vars
  <2>1. UNCHANGED <<original, policy, stage, payjoin, params, changeVout, owned, rates, replaced,
                    wanted, contributed, pc, at, next, feePaid>>
    BY <1>3 DEF vars, receiverVars, senderVars
  <2>2. TypeOK'
    BY <2>1 DEF NegotiationInv, TypeOK, Sender!TypeOK, Sender!Within
  <2>3. Terms' /\ Begun'
    BY <2>1 DEF NegotiationInv, Terms, Begun
  <2>4. Waiting'
    BY <2>1 DEF NegotiationInv, Waiting, Sender!Start
  <2>5. Settled'
    BY <2>1 DEF NegotiationInv, Settled, HasContribution, HasScript, SendersScripts, TheOwned
  <2>6. Balanced'
    BY <2>1 DEF NegotiationInv, Balanced, SentIn, AllIn, AddedInputs
  <2>7. Kept'
    <3>1. /\ Sent(original)' = Sent(original) /\ Sent(payjoin)' = Sent(payjoin)
          /\ Mine(original)' = Mine(original) /\ Mine(payjoin)' = Mine(payjoin)
      BY <2>1 DEF Sent, Mine, SenderScripts, Sender!OurScripts
    <3>2. AddedInputs' = AddedInputs /\ AddedOutputs' = AddedOutputs
      BY <2>1 DEF AddedInputs, AddedOutputs
    <3>3. Given' = Given
      BY <2>1 DEF Given, Total, ValueOf
    <3>4. Uncovered' = Uncovered /\ Proposed' = Proposed
      BY <2>1 DEF Uncovered, Proposed
    <3> QED
      BY <2>1, <3>1, <3>2, <3>3, <3>4
         DEF NegotiationInv, Kept, SenderPaysAtMost, ReceiverKeepsValue, FeeRateKept
  <2> QED
    BY <2>2, <2>3, <2>4, <2>5, <2>6, <2>7 DEF NegotiationInv
<1> QED
  BY <1>1, <1>2, <1>3

(* In every state the receiver's and the sender's typestates hold what      *)
(* their fields may, the invariant above holds of them with it, and so do   *)
(* the three properties of a finished proposal.                             *)
THEOREM InvHolds == Spec => []NegotiationInv
BY InvInit, InvStep, PTL DEF Spec

(* The fields of the receiver's typestates and of the sender's context keep *)
(* their types: every method of receive/v1 hands on a PSBT it can compute   *)
(* with, change_vout points into its outputs, and the walks of send/mod.rs  *)
(* stay within the two lists.                                               *)
THEOREM TypeCorrect == Spec => []TypeOK
<1>1. NegotiationInv => TypeOK
  BY DEF NegotiationInv
<1> QED
  BY <1>1, InvHolds, PTL

(* apply_fee never takes more from the sender's output than the sender has  *)
(* offered, nor more than the weight of the receiver's inputs costs at the  *)
(* rate it finalises with, and nothing the receiver does before it takes    *)
(* anything from what the sender is paid.                                   *)
THEOREM SenderPaysOnlyTheFee == Spec => []SenderPaysAtMost
<1>1. NegotiationInv => SenderPaysAtMost
  BY DEF NegotiationInv, Kept
<1> QED
  BY <1>1, InvHolds, PTL

(* contribute_inputs gives the receiver back all that its inputs bring, and *)
(* apply_fee takes no more of it than its maximum rate allows.              *)
THEOREM ReceiverLosesOnlyTheFee == Spec => []ReceiverKeepsValue
<1>1. NegotiationInv => ReceiverKeepsValue
  BY DEF NegotiationInv, Kept
<1> QED
  BY <1>1, InvHolds, PTL

(* The two subtractions of apply_fee add up to what the added inputs and    *)
(* outputs cost at the rate, on top of the fee of the Original, whatever    *)
(* was contributed before them.                                             *)
THEOREM RateIsKept == Spec => []FeeRateKept
<1>1. NegotiationInv => FeeRateKept
  BY DEF NegotiationInv, Kept
<1> QED
  BY <1>1, InvHolds, PTL

=============================================================================
