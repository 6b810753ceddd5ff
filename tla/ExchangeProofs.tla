--------------------------- MODULE ExchangeProofs ---------------------------
(***************************************************************************)
(* That the exchange keeps its types and its safety properties, for every  *)
(* set of receivers and senders, every way keys are hashed and every size; *)
(* and what the parameters of a fragment are after a receiver has set its  *)
(* own, for every fragment.                                                *)
(***************************************************************************)
EXTENDS Exchange, SequenceTheorems, WellFoundedInduction, TLAPS

-----------------------------------------------------------------------------
(* A set of natural numbers has a least one.                                *)
LEMMA HasMinimal ==
  ASSUME NEW R, IsWellFoundedOn(R, Nat), NEW S \in SUBSET Nat, S # {}
  PROVE  \E i \in S : \A j \in S : ~(<<j, i>> \in R)
<1>1. \A A, U, T : IsWellFoundedOn(A, U) /\ T \subseteq U /\ T # {} =>
         \E x \in T : \A y \in T : ~(<<y, x>> \in A)
  BY WFMin
<1>2. S \subseteq Nat
  OBVIOUS
<1> QED BY <1>1, <1>2

LEMMA HasLeast ==
  ASSUME NEW S \in SUBSET Nat, S # {}
  PROVE  Least(S) \in S /\ \A j \in S : Least(S) <= j
<1>1. IsWellFoundedOn(OpToRel(<, Nat), Nat)
  BY NatLessThanWellFounded
<1>2. \A x, y \in Nat : x < y => <<x, y>> \in OpToRel(<, Nat)
  BY DEF OpToRel
<1>3. PICK i \in S : \A j \in S : ~(<<j, i>> \in OpToRel(<, Nat))
  BY <1>1, HasMinimal, Zenon
<1>4. ASSUME NEW j \in S
      PROVE  i <= j
  <2>1. i \in Nat /\ j \in Nat
    OBVIOUS
  <2>2. ~(j < i)
    BY <1>2, <1>3, <2>1, Zenon
  <2> QED BY <2>1, <2>2
<1> QED BY <1>4 DEF Least

-----------------------------------------------------------------------------
(* A fragment's parameters.                                                 *)

(* What get_param may read of a parameter.                                  *)
ValuesIn(f, key, V) == \A i \in Places(f, key) : f[i].value \in V

LEMMA GetIn ==
  ASSUME NEW f \in Seq(Parts), NEW key, NEW V, Has(f, key), ValuesIn(f, key, V)
  PROVE  GetParam(f, key) \in V
<1>1. Places(f, key) \in SUBSET Nat
  BY LenProperties DEF Places
<1>2. Least(Places(f, key)) \in Places(f, key)
  BY <1>1, HasLeast DEF Has
<1> QED BY <1>2 DEF GetParam, ValuesIn

(* A parameter by itself is a part that holds no other.                     *)
LEMMA ParamParts ==
  ASSUME NEW key \in Prefixes, NEW value \in Keys \cup Nat
  PROVE  /\ Param(key, value) \in Parts
         /\ Param(key, value).key = key /\ Param(key, value).value = value
         /\ Param(key, value).holds = <<>>
<1> DEFINE none == <<>>
<1>1. none \in Seq(Prefixes) /\ none = <<>>
  OBVIOUS
<1> HIDE DEF none
<1>2. Param(key, value) = [key |-> key, value |-> value, holds |-> none]
  BY <1>1 DEF Param
<1> QED BY <1>1, <1>2 DEF Parts

(* Taking a parameter out of a part leaves a part, which begins as it did   *)
(* or is blank, and holds no more than it did.                              *)
LEMMA CutPart ==
  ASSUME NEW part \in Parts, NEW key, Occurs(part, key)
  PROVE  /\ Cut(part, key) \in Parts
         /\ part.key = key => Cut(part, key) = Blank
         /\ part.key # key => /\ Cut(part, key).key = part.key
                              /\ Cut(part, key).value = part.value
         /\ \A k : k # Blank.key /\ Occurs(Cut(part, key), k) => Occurs(part, k)
<1>0. Blank \in Parts /\ Blank.holds = <<>>
  <2>1. "" \in Prefixes
    BY DEF Prefixes
  <2>2. 0 \in Keys \cup Nat
    OBVIOUS
  <2> QED BY <2>1, <2>2, ParamParts, Zenon DEF Blank
<1>1. CASE part.key = key
  <2>1. \A k : HeldAt(Blank, k) = {}
    BY <1>0 DEF HeldAt
  <2>2. Cut(part, key) = Blank
    BY <1>1 DEF Cut
  <2> QED BY <1>0, <1>1, <2>1, <2>2 DEF Occurs
<1>2. CASE part.key # key
  <2> DEFINE n == Least(HeldAt(part, key))
             h == part.holds
             g == SubSeq(h, 1, n - 1)
  <2>1. h \in Seq(Prefixes) /\ Len(h) \in Nat /\ DOMAIN h = 1 .. Len(h)
    BY LenProperties DEF Parts
  <2>2. HeldAt(part, key) # {} /\ HeldAt(part, key) \in SUBSET (1 .. Len(h))
    BY <1>2, <2>1 DEF Occurs, HeldAt
  <2>3. n \in 1 .. Len(h)
    <3>1. HeldAt(part, key) \in SUBSET Nat
      BY <2>1, <2>2
    <3>2. n \in HeldAt(part, key)
      BY <2>2, <3>1, HasLeast
    <3> QED BY <2>2, <3>2
  <2> HIDE DEF n
  <2>4. g \in Seq(Prefixes) /\ Len(g) = n - 1 /\ \A i \in 1 .. n - 1 : g[i] = h[i]
    <3>1. \A i \in 1 .. n - 1 : h[i] \in Prefixes
      BY <2>1, <2>3, ElementOfSeq
    <3> QED BY <2>1, <2>3, <3>1, SubSeqProperties
  <2>5. DOMAIN g = 1 .. n - 1
    BY <2>3, <2>4, LenProperties
  <2> DEFINE c == [part EXCEPT !.holds = g]
  <2>6. Cut(part, key) = c
    BY <1>2 DEF Cut, n
  <2> HIDE DEF g
  <2>7. c \in Parts /\ c.key = part.key /\ c.value = part.value /\ c.holds = g
    BY <2>4 DEF Parts
  <2> HIDE DEF c
  <2>8. ASSUME NEW k, Occurs(c, k)
        PROVE  Occurs(part, k)
    <3>1. CASE c.key = k
      BY <2>7, <3>1 DEF Occurs
    <3>2. CASE HeldAt(c, k) # {}
      <4>1. PICK i \in 1 .. n - 1 : g[i] = k
        BY <2>5, <2>7, <3>2 DEF HeldAt
      <4>2. i \in DOMAIN part.holds /\ part.holds[i] = k
        BY <2>1, <2>3, <2>4, <4>1
      <4> QED BY <4>2 DEF Occurs, HeldAt
    <3> QED BY <2>8, <3>1, <3>2 DEF Occurs
  <2> QED BY <1>2, <2>6, <2>7, <2>8
<1> QED BY <1>1, <1>2

(* What clearing a parameter does to each: its own first place is gone, if  *)
(* that is where its prefix was found, and the others are where they were.  *)
LEMMA ClearedPlaces ==
  ASSUME NEW f \in Seq(Parts), NEW key, NEW k, k # Blank.key
  PROVE  /\ Cleared(f, key) \in Seq(Parts)
         /\ Places(Cleared(f, key), k) \subseteq Places(f, k)
         /\ k # key => Places(Cleared(f, key), k) = Places(f, k)
         /\ k = key /\ Readable(f, key) => Places(Cleared(f, key), k) = {}
         /\ \A i \in Places(Cleared(f, key), k) : Cleared(f, key)[i].value = f[i].value
         /\ Found(Cleared(f, key), k) \subseteq Found(f, k)
<1> DEFINE S   == Found(f, key)
           n   == Least(S)
           cut == [f EXCEPT ![n] = Cut(f[n], key)]
<1>1. Len(f) \in Nat /\ DOMAIN f = 1 .. Len(f) /\ \A i \in 1 .. Len(f) : f[i] \in Parts
  BY LenProperties, ElementOfSeq
<1>2. CASE S = {}
  <2>1. Cleared(f, key) = f
    BY <1>2 DEF Cleared
  <2>2. Places(f, key) = {}
    BY <1>2 DEF Found, Places, Occurs
  <2> QED BY <2>1, <2>2
<1>3. CASE S # {}
  <2>1. n \in S /\ \A j \in S : n <= j
    <3>1. S \in SUBSET Nat
      BY <1>1 DEF Found
    <3> QED BY <1>3, <3>1, HasLeast
  <2>2. n \in 1 .. Len(f) /\ Occurs(f[n], key)
    BY <1>1, <2>1 DEF Found
  <2>3. Cleared(f, key) = IF Len(f) > 1 /\ cut[Len(f)] = Blank
                          THEN SubSeq(cut, 1, Len(f) - 1) ELSE cut
    BY <1>3 DEF Cleared
  <2> DEFINE c == Cut(f[n], key)
  <2>4. /\ c \in Parts
        /\ f[n].key = key => c = Blank
        /\ f[n].key # key => c.key = f[n].key /\ c.value = f[n].value
        /\ Occurs(c, k) => Occurs(f[n], k)
    BY <1>1, <2>2, CutPart
  <2>5. /\ cut \in Seq(Parts) /\ Len(cut) = Len(f)
        /\ \A i \in 1 .. Len(f) : cut[i] = IF i = n THEN c ELSE f[i]
    BY <2>2, <2>4, ExceptSeq
  <2> HIDE DEF S, n, c, cut
  <2>6. DOMAIN cut = 1 .. Len(f)
    BY <2>5, LenProperties
  <2>7. /\ Places(cut, k) = IF f[n].key = key THEN Places(f, k) \ {n} ELSE Places(f, k)
        /\ \A i \in Places(cut, k) : cut[i].value = f[i].value
        /\ Found(cut, k) \subseteq Found(f, k)
    <3>1. CASE f[n].key = key
      BY <1>1, <2>2, <2>4, <2>5, <2>6, <3>1 DEF Places, Found
    <3>2. CASE f[n].key # key
      BY <1>1, <2>2, <2>4, <2>5, <2>6, <3>2 DEF Places, Found
    <3> QED BY <3>1, <3>2
  <2>8. k # key => Places(cut, k) = Places(f, k)
    BY <2>7 DEF Places
  <2>9. k = key /\ Readable(f, key) => Places(cut, k) = {}
    <3> SUFFICES ASSUME k = key, Readable(f, key), NEW i \in Places(cut, k)
                 PROVE  FALSE
      OBVIOUS
    <3>1. i \in Places(f, key) /\ (f[n].key = key => i # n)
      BY <2>7
    <3>2. i \in S /\ i \in Nat
      BY <1>1, <3>1 DEF S, Found, Places, Occurs
    <3>3. n <= i /\ i <= n
      BY <2>1, <3>1, <3>2 DEF Readable, S
    <3>4. i = n /\ f[n].key = key
      BY <2>2, <3>1, <3>2, <3>3, <1>1 DEF Places
    <3> QED BY <3>1, <3>4
  <2>10. CASE Len(f) > 1 /\ cut[Len(f)] = Blank
    <3> DEFINE g == SubSeq(cut, 1, Len(f) - 1)
    <3>1. g \in Seq(Parts) /\ Len(g) = Len(f) - 1 /\ \A i \in 1 .. Len(f) - 1 : g[i] = cut[i]
      <4>1. \A i \in 1 .. Len(f) - 1 : cut[i] \in Parts
        BY <1>1, <2>5, ElementOfSeq
      <4> QED BY <1>1, <2>5, <2>10, <4>1, SubSeqProperties
    <3>2. DOMAIN g = 1 .. Len(f) - 1
      BY <1>1, <2>10, <3>1, LenProperties
    <3>3. Cleared(f, key) = g
      BY <2>3, <2>10
    <3> HIDE DEF g
    <3>4. Places(g, k) = Places(cut, k) /\ Found(g, k) \subseteq Found(cut, k)
      BY <1>1, <2>6, <2>10, <3>1, <3>2 DEF Places, Found
    <3>5. \A i \in Places(g, k) : g[i] = cut[i]
      BY <3>1, <3>2 DEF Places
    <3> QED BY <2>7, <2>8, <2>9, <3>1, <3>3, <3>4, <3>5
  <2>11. CASE ~(Len(f) > 1 /\ cut[Len(f)] = Blank)
    BY <2>3, <2>5, <2>7, <2>8, <2>9, <2>11
  <2> QED BY <2>10, <2>11
<1> QED BY <1>2, <1>3
(* What setting a parameter does: it is there, with its value alone if what *)
(* was there could be read; the others are as they were.                    *)
LEMMA SetPlaces ==
  ASSUME NEW f \in Seq(Parts), NEW p \in Parts, p.key # Blank.key, p.holds = <<>>,
         NEW k, k # Blank.key
  PROVE  /\ SetParam(f, p) \in Seq(Parts)
         /\ k = p.key =>
               /\ Has(SetParam(f, p), k)
               /\ Readable(f, k) => ValuesIn(SetParam(f, p), k, {p.value})
         /\ k # p.key =>
               /\ Has(f, k) => Has(SetParam(f, p), k)
               /\ Readable(f, k) => Readable(SetParam(f, p), k)
         /\ \A V : ValuesIn(f, k, V) /\ (k = p.key => p.value \in V) =>
               ValuesIn(SetParam(f, p), k, V)
<1> DEFINE c == Cleared(f, p.key)
           g == SetParam(f, p)
<1>1. /\ c \in Seq(Parts)
      /\ Places(c, k) \subseteq Places(f, k)
      /\ k # p.key => Places(c, k) = Places(f, k)
      /\ k = p.key /\ Readable(f, p.key) => Places(c, k) = {}
      /\ \A i \in Places(c, k) : c[i].value = f[i].value
      /\ Found(c, k) \subseteq Found(f, k)
  <2> HIDE DEF c
  <2>1. \A key : /\ Cleared(f, key) \in Seq(Parts)
                 /\ Places(Cleared(f, key), k) \subseteq Places(f, k)
                 /\ k # key => Places(Cleared(f, key), k) = Places(f, k)
                 /\ k = key /\ Readable(f, key) => Places(Cleared(f, key), k) = {}
                 /\ \A i \in Places(Cleared(f, key), k) :
                       Cleared(f, key)[i].value = f[i].value
                 /\ Found(Cleared(f, key), k) \subseteq Found(f, k)
    BY ClearedPlaces
  <2>2. c = Cleared(f, p.key)
    BY DEF c
  <2> QED BY <2>1, <2>2
<1>2. g = IF c = <<Blank>> THEN <<p>> ELSE Append(c, p)
  BY DEF SetParam
<1> HIDE DEF c, g
<1>3. PICK d \in Seq(Parts) :
        /\ g = Append(d, p)
        /\ Places(d, k) = Places(c, k) /\ Found(d, k) \subseteq Found(c, k)
        /\ \A i \in Places(d, k) : d[i] = c[i]
  <2>1. CASE c = <<Blank>>
    <3>1. <<>> \in Seq(Parts) /\ Places(<<>>, k) = {} /\ Found(<<>>, k) = {}
      BY DEF Places, Found
    <3>2. Places(c, k) = {}
      BY <2>1 DEF Places
    <3>3. g = Append(<<>>, p)
      BY <1>2, <2>1
    <3> QED BY <3>1, <3>2, <3>3
  <2>2. CASE c # <<Blank>>
    BY <1>1, <1>2, <2>2
  <2> QED BY <2>1, <2>2
<1>4. /\ Len(d) \in Nat /\ DOMAIN d = 1 .. Len(d) /\ g \in Seq(Parts)
      /\ DOMAIN g = 1 .. Len(d) + 1
      /\ \A i \in 1 .. Len(d) + 1 : g[i] = IF i = Len(d) + 1 THEN p ELSE d[i]
  <2>1. Append(d, p) \in Seq(Parts) /\ Len(Append(d, p)) = Len(d) + 1 /\ Len(d) \in Nat
    BY LenProperties
  <2>2. DOMAIN d = 1 .. Len(d) /\ DOMAIN Append(d, p) = 1 .. Len(d) + 1
    BY <2>1, LenProperties
  <2> QED BY <1>3, <2>1, <2>2
<1>5. Places(g, k) = Places(d, k) \cup {i \in {Len(d) + 1} : p.key = k}
  BY <1>4 DEF Places
<1>6. \A i \in Places(d, k) : g[i].value = f[i].value /\ i \in Places(f, k)
  BY <1>1, <1>3, <1>4 DEF Places
<1>7. g[Len(d) + 1] = p
  BY <1>4
<1>8. k = p.key => /\ Has(g, k)
                   /\ Readable(f, k) => ValuesIn(g, k, {p.value})
  BY <1>1, <1>3, <1>5, <1>7 DEF Has, ValuesIn
<1>9. k # p.key => (Places(g, k) = Places(f, k) /\ Found(g, k) \subseteq Found(f, k))
  <2> SUFFICES ASSUME k # p.key
               PROVE  Places(g, k) = Places(f, k) /\ Found(g, k) \subseteq Found(f, k)
    OBVIOUS
  <2>1. Places(g, k) = Places(f, k)
    BY <1>1, <1>3, <1>5
  <2>2. ~Occurs(p, k)
    BY DEF Occurs, HeldAt
  <2>3. Found(g, k) \subseteq Found(d, k)
    BY <1>4, <2>2 DEF Found
  <2> QED BY <1>1, <1>3, <2>1, <2>3
<1>10. k # p.key => /\ Has(f, k) => Has(g, k)
                    /\ Readable(f, k) => Readable(g, k)
  BY <1>9 DEF Has, Readable
<1>11. \A V : ValuesIn(f, k, V) /\ (k = p.key => p.value \in V) => ValuesIn(g, k, V)
  BY <1>5, <1>6, <1>7 DEF ValuesIn
<1> QED BY <1>4, <1>8, <1>10, <1>11 DEF g

(* The fragment of a receiver's URI: what a sender reads from it is what    *)
(* the receiver put there, whatever else was in the fragment before, if no  *)
(* prefix of the receiver's is twice there or in another part before; and   *)
(* it is something that was put there as such, if one is.                   *)
THEOREM FragmentRead ==
  ASSUME NEW f \in Seq(Parts), NEW rs \in Keys, NEW keys \in Nat, NEW limit,
         Seconds(limit) \in Nat
  PROVE  LET g == ReceiverFragment(f, rs, keys, limit) IN
         /\ Clean(f) => /\ GetParam(g, "RK") = rs
                        /\ GetParam(g, "OH") = keys
                        /\ GetParam(g, "EX") = Seconds(limit)
         /\ \A V : ValuesIn(f, "RK", V) /\ rs \in V => GetParam(g, "RK") \in V
         /\ \A V : ValuesIn(f, "OH", V) /\ keys \in V => GetParam(g, "OH") \in V
         /\ \A V : ValuesIn(f, "EX", V) /\ Seconds(limit) \in V => GetParam(g, "EX") \in V
<1> DEFINE p1 == Param("RK", rs)
           p2 == Param("OH", keys)
           p3 == Param("EX", Seconds(limit))
           f1 == SetParam(f, p1)
           f2 == SetParam(f1, p2)
           f3 == SetParam(f2, p3)
<1>1. /\ p1 \in Parts /\ p1.key = "RK" /\ p1.value = rs /\ p1.holds = <<>>
      /\ p2 \in Parts /\ p2.key = "OH" /\ p2.value = keys /\ p2.holds = <<>>
      /\ p3 \in Parts /\ p3.key = "EX" /\ p3.value = Seconds(limit) /\ p3.holds = <<>>
  <2>1. "RK" \in Prefixes /\ "OH" \in Prefixes /\ "EX" \in Prefixes
    BY DEF Prefixes, ReceiverKeys
  <2>2. /\ rs \in Keys \cup Nat /\ keys \in Keys \cup Nat /\ Seconds(limit) \in Keys \cup Nat
    OBVIOUS
  <2> QED BY <2>1, <2>2, ParamParts, Zenon
<1>2. Blank.key # "RK" /\ Blank.key # "OH" /\ Blank.key # "EX"
  BY Zenon DEF Blank, Param
<1> HIDE DEF p1, p2, p3
<1>3. /\ f1 \in Seq(Parts) /\ Has(f1, "RK")
      /\ Readable(f, "RK") => ValuesIn(f1, "RK", {rs})
      /\ Readable(f, "OH") => Readable(f1, "OH")
      /\ Readable(f, "EX") => Readable(f1, "EX")
      /\ \A V : ValuesIn(f, "RK", V) /\ rs \in V => ValuesIn(f1, "RK", V)
      /\ \A V : ValuesIn(f, "OH", V) => ValuesIn(f1, "OH", V)
      /\ \A V : ValuesIn(f, "EX", V) => ValuesIn(f1, "EX", V)
  BY <1>1, <1>2, SetPlaces
<1> HIDE DEF f1
<1>4. /\ f2 \in Seq(Parts) /\ Has(f2, "RK") /\ Has(f2, "OH")
      /\ Readable(f1, "OH") => ValuesIn(f2, "OH", {keys})
      /\ Readable(f1, "EX") => Readable(f2, "EX")
      /\ \A V : ValuesIn(f1, "RK", V) => ValuesIn(f2, "RK", V)
      /\ \A V : ValuesIn(f1, "OH", V) /\ keys \in V => ValuesIn(f2, "OH", V)
      /\ \A V : ValuesIn(f1, "EX", V) => ValuesIn(f2, "EX", V)
  BY <1>1, <1>2, <1>3, SetPlaces
<1> HIDE DEF f2
<1>5. /\ f3 \in Seq(Parts) /\ Has(f3, "RK") /\ Has(f3, "OH") /\ Has(f3, "EX")
      /\ Readable(f2, "EX") => ValuesIn(f3, "EX", {Seconds(limit)})
      /\ \A V : ValuesIn(f2, "RK", V) => ValuesIn(f3, "RK", V)
      /\ \A V : ValuesIn(f2, "OH", V) => ValuesIn(f3, "OH", V)
      /\ \A V : ValuesIn(f2, "EX", V) /\ Seconds(limit) \in V => ValuesIn(f3, "EX", V)
  BY <1>1, <1>2, <1>4, SetPlaces
<1> HIDE DEF f3
<1>6. \A V : \A key \in ReceiverKeys : ValuesIn(f3, key, V) => GetParam(f3, key) \in V
  BY <1>5, GetIn DEF ReceiverKeys
<1>7. Clean(f) => /\ GetParam(f3, "RK") = rs
                 /\ GetParam(f3, "OH") = keys
                 /\ GetParam(f3, "EX") = Seconds(limit)
  <2> SUFFICES ASSUME Readable(f, "RK"), Readable(f, "OH"), Readable(f, "EX")
               PROVE  /\ GetParam(f3, "RK") = rs
                      /\ GetParam(f3, "OH") = keys
                      /\ GetParam(f3, "EX") = Seconds(limit)
    BY DEF Clean, ReceiverKeys
  <2>1. /\ ValuesIn(f3, "RK", {rs}) /\ ValuesIn(f3, "OH", {keys})
        /\ ValuesIn(f3, "EX", {Seconds(limit)})
    BY <1>3, <1>4, <1>5
  <2>2. /\ GetParam(f3, "RK") \in {rs} /\ GetParam(f3, "OH") \in {keys}
        /\ GetParam(f3, "EX") \in {Seconds(limit)}
    BY <1>6, <2>1 DEF ReceiverKeys
  <2> QED BY <2>2
<1>8. /\ \A V : ValuesIn(f, "RK", V) /\ rs \in V => GetParam(f3, "RK") \in V
      /\ \A V : ValuesIn(f, "OH", V) /\ keys \in V => GetParam(f3, "OH") \in V
      /\ \A V : ValuesIn(f, "EX", V) /\ Seconds(limit) \in V => GetParam(f3, "EX") \in V
  BY <1>3, <1>4, <1>5, <1>6 DEF ReceiverKeys
<1>9. ReceiverFragment(f, rs, keys, limit) = f3
  BY DEF ReceiverFragment, f3, f2, f1, p1, p2, p3
<1> QED BY <1>7, <1>8, <1>9
-----------------------------------------------------------------------------
(* The exchange.                                                            *)

(* A message fits a response.                                               *)
LEMMA Fits == ResponseFits(PADDED_MESSAGE_BYTES)
BY WireAssumption DEF ResponseFits

(* The time in whole seconds is not after it, and less than one before it.  *)
LEMMA SecondsBelow ==
  ASSUME NEW time \in Nat
  PROVE  /\ Seconds(time) \in Nat /\ Seconds(time) * TicksPerSecond \in Nat
         /\ Seconds(time) * TicksPerSecond <= time
         /\ time < Seconds(time) * TicksPerSecond + TicksPerSecond
BY PjUriAssumption DEF Seconds

(* A path that is served is one segment: of an endpoint under the root, and *)
(* of what is beside it.                                                    *)
LEMMA PushServed ==
  ASSUME NEW S, NEW d \in Seq(S), NEW i
  PROVE  /\ Served(Push(d, i)) <=> d = <<>>
         /\ d = <<>> => Push(d, i)[1] = i
BY DEF Served, Push

(* What is joined to a path of one segment replaces it.                     *)
LEMMA JoinServed ==
  ASSUME NEW S, NEW d \in Seq(S), NEW i, Served(Join(d, i))
  PROVE  Join(d, i)[1] = i
<1>1. CASE d = <<>>
  BY <1>1 DEF Served, Join
<1>2. CASE d # <<>>
  <2>1. Len(Join(d, i)) = Len(d) /\ Len(d) = 1
    BY <1>2 DEF Served, Join
  <2> QED BY <1>2, <2>1 DEF Join
<1> QED BY <1>1, <1>2

(* What is joined to an endpoint is served where the endpoint is.           *)
LEMMA Beside ==
  ASSUME NEW S, NEW d \in Seq(S), NEW i, NEW j
  PROVE  /\ Served(Join(Push(d, i), j)) <=> d = <<>>
         /\ d = <<>> => Join(Push(d, i), j)[1] = j
<1> DEFINE g == Push(d, i)
           n == Len(d) + 1
<1>1. Len(d) \in Nat /\ g \in Seq(S \cup {i, j}) /\ Len(g) = n /\ g # <<>>
  <2>1. d \in Seq(S \cup {i, j})
    OBVIOUS
  <2> QED BY <2>1 DEF Push
<1>2. d = <<>> <=> n = 1
  BY EmptySeq
<1> HIDE DEF g, n
<1>3. n \in Nat /\ n >= 1
  BY <1>1 DEF n
<1>4. Join(g, j) = [g EXCEPT ![n] = j]
  BY <1>1 DEF Join
<1>5. Len([g EXCEPT ![n] = j]) = n /\ [g EXCEPT ![n] = j][n] = j
  BY <1>1, <1>3, ExceptSeq
<1>6. Served(Join(g, j)) <=> n = 1
  BY <1>4, <1>5 DEF Served
<1>7. n = 1 => Join(g, j)[1] = j
  BY <1>4, <1>5
<1> QED BY <1>2, <1>6, <1>7 DEF g

(* The parameters of a shared URI, as a sender reads them.                  *)
LEMMA SharedRead ==
  ASSUME NEW r \in Receivers
  PROVE  ParsedEndpoint(Shared(r)) = Endpoint(r) /\ ~ParsedNoSubst(Shared(r))
<1> DEFINE pjos == Param("pjos", "0")
           pj == Param("pj", Endpoint(r))
           ps == <<pjos, pj>>
<1>1. Shared(r) = ps
  BY DEF Shared, SerializeParams
<1>2. /\ pjos.key = "pjos" /\ pjos.value = "0"
      /\ pj.key = "pj" /\ pj.value = Endpoint(r)
  BY DEF Param
<1> HIDE DEF pjos, pj
<1>3. Places(ps, "pjos") = {1} /\ Places(ps, "pj") = {2} /\ ps[1] = pjos /\ ps[2] = pj
  BY <1>2 DEF Places
<1> HIDE DEF ps
<1>4. Least({1}) = 1 /\ Least({2}) = 2
  <2>1. {1} \in SUBSET Nat /\ {2} \in SUBSET Nat
    OBVIOUS
  <2> QED BY <2>1, HasLeast
<1>5. GetParam(ps, "pjos") = "0" /\ GetParam(ps, "pj") = Endpoint(r)
  BY <1>2, <1>3, <1>4 DEF GetParam
<1> QED BY <1>1, <1>5 DEF ParsedEndpoint, ParsedNoSubst

(* The directory that is used is one of those assumed.                      *)
LEMMA DirectoryHere ==
  ASSUME TypeOK
  PROVE  /\ directory.path \in Seq(STRING) /\ directory.framing \in Nat
         /\ directory.fragment \in Seq(Parts)
         /\ ValuesIn(directory.fragment, "RK", Receivers)
         /\ ValuesIn(directory.fragment, "OH", Nat)
         /\ ValuesIn(directory.fragment, "EX", Nat)
         /\ \A k \in Keys : idOf[k] \in Ids
BY DirectoriesAssumption DEF TypeOK, ValuesIn, Places

(* What a sender reads from the URI that a receiver shares.                 *)
LEMMA UriRead ==
  ASSUME TypeOK, NEW r \in Receivers
  PROVE  LET u == ParsedUri(Shared(r)) IN
         /\ u \in Uris
         /\ u.path = Push(directory.path, idOf[r]) /\ u.noSubst = FALSE
         /\ Clean(directory.fragment) =>
               /\ u.rs = r /\ u.ohttp = ohttp[r]
               /\ u.exp = Seconds(expiry[r]) * TicksPerSecond
<1> DEFINE f == directory.fragment
           g == ReceiverFragment(f, r, ohttp[r], expiry[r])
           u == ParsedUri(Shared(r))
<1>1. r \in Keys /\ expiry[r] \in Nat /\ ohttp[r] \in Nat /\ idOf[r] \in Ids
  BY DEF TypeOK, Keys
<1>2. Seconds(expiry[r]) \in Nat
  BY <1>1, SecondsBelow
<1>3. /\ Clean(f) => /\ GetParam(g, "RK") = r /\ GetParam(g, "OH") = ohttp[r]
                     /\ GetParam(g, "EX") = Seconds(expiry[r])
      /\ GetParam(g, "RK") \in Receivers
      /\ GetParam(g, "OH") \in Nat /\ GetParam(g, "EX") \in Nat
  <2>1. /\ f \in Seq(Parts) /\ ValuesIn(f, "RK", Receivers)
        /\ ValuesIn(f, "OH", Nat) /\ ValuesIn(f, "EX", Nat)
    BY DirectoryHere
  <2> HIDE DEF f
  <2>2. /\ Clean(f) => /\ GetParam(g, "RK") = r /\ GetParam(g, "OH") = ohttp[r]
                       /\ GetParam(g, "EX") = Seconds(expiry[r])
        /\ \A V : ValuesIn(f, "RK", V) /\ r \in V => GetParam(g, "RK") \in V
        /\ \A V : ValuesIn(f, "OH", V) /\ ohttp[r] \in V => GetParam(g, "OH") \in V
        /\ \A V : ValuesIn(f, "EX", V) /\ Seconds(expiry[r]) \in V => GetParam(g, "EX") \in V
    BY <1>1, <1>2, <2>1, FragmentRead
  <2> HIDE DEF g
  <2> QED BY <1>1, <1>2, <2>1, <2>2
<1>4. /\ Endpoint(r).fragment = g
      /\ Endpoint(r).path = Push(directory.path, idOf[r])
  BY DEF Endpoint
<1> HIDE DEF g
<1>5. u = [rs |-> GetParam(g, "RK"), ohttp |-> GetParam(g, "OH"),
           exp |-> GetParam(g, "EX") * TicksPerSecond,
           path |-> Push(directory.path, idOf[r]), noSubst |-> FALSE]
  <2>1. /\ ParsedEndpoint(Shared(r)) = Endpoint(r)
        /\ ParsedNoSubst(Shared(r)) = FALSE
    BY SharedRead
  <2>2. u = [rs |-> GetParam(Endpoint(r).fragment, "RK"),
             ohttp |-> GetParam(Endpoint(r).fragment, "OH"),
             exp |-> Expiry(Endpoint(r).fragment), path |-> Endpoint(r).path,
             noSubst |-> FALSE]
    BY <2>1, Zenon DEF ParsedUri
  <2>3. Expiry(Endpoint(r).fragment) = GetParam(g, "EX") * TicksPerSecond
    BY <1>4 DEF Expiry
  <2> QED BY <1>4, <2>2, <2>3
<1> HIDE DEF u
<1>6. u \in Uris
  <2>1. directory.path \in Seq(STRING \cup Ids)
    BY DirectoryHere
  <2>2. Push(directory.path, idOf[r]) \in Seq(STRING \cup Ids)
    BY <1>1, <2>1 DEF Push
  <2>3. GetParam(g, "EX") * TicksPerSecond \in Nat
    BY <1>3, PjUriAssumption
  <2> QED BY <1>3, <1>5, <2>2, <2>3 DEF Uris
<1>7. /\ u.path = Push(directory.path, idOf[r]) /\ u.noSubst = FALSE
      /\ Clean(f) => /\ u.rs = r /\ u.ohttp = ohttp[r]
                     /\ u.exp = Seconds(expiry[r]) * TicksPerSecond
  BY <1>3, <1>5
<1> QED BY <1>6, <1>7 DEF u

-----------------------------------------------------------------------------
(* The inductive invariant.                                                 *)

(* What a sender has read is what a receiver is known by for good, and an   *)
(* Original was encrypted before the expiry that was read.                  *)
UriInv ==
    \A s \in Senders :
        /\ sstate[s] \in {"new", "unparsed"} => uri[s] = None /\ opened[s] = None
        /\ uri[s] # None =>
               /\ \E r \in Receivers : uri[s].path = Push(directory.path, idOf[r])
               /\ uri[s].noSubst = FALSE
               /\ Clean(directory.fragment) =>
                     LET r == uri[s].rs IN
                     /\ rstate[r] # "none" /\ uri[s].ohttp = ohttp[r]
                     /\ uri[s].path = Push(directory.path, idOf[r])
                     /\ uri[s].exp = Seconds(expiry[r]) * TicksPerSecond
        /\ s \in inClear => uri[s] # None
        /\ sealedAt[s] = 0 \/ (uri[s] # None /\ sealedAt[s] <= uri[s].exp)

(* Where a post goes that the directory takes: to the mailbox of the key it *)
(* is for, wherever the directory is.                                       *)
LEMMA ReceiverPaths ==
  ASSUME TypeOK, NEW k \in Keys
  PROVE  /\ Served(Push(directory.path, idOf[k])) <=> directory.path = <<>>
         /\ directory.path = <<>> => Push(directory.path, idOf[k])[1] = idOf[k]
         /\ Served(Join(directory.path, idOf[k])) =>
               /\ Join(directory.path, idOf[k])[1] = idOf[k]
BY DirectoryHere, PushServed, JoinServed

(* The same of the path that a sender has read from a URI.                  *)
LEMMA SenderPaths ==
  ASSUME TypeOK, UriInv, NEW s \in Senders, uri[s] # None
  PROVE  /\ uri[s] \in Uris /\ uri[s].rs \in Receivers
         /\ Served(uri[s].path) <=> directory.path = <<>>
         /\ directory.path = <<>> =>
               \E r \in Receivers : /\ uri[s].path = Push(directory.path, idOf[r])
                                    /\ uri[s].path[1] = idOf[r]
         /\ Served(Join(uri[s].path, idOf[s])) <=> directory.path = <<>>
         /\ directory.path = <<>> => Join(uri[s].path, idOf[s])[1] = idOf[s]
<1>1. uri[s] \in Uris /\ uri[s].rs \in Receivers
  BY DEF TypeOK, Uris
<1>2. PICK r \in Receivers : uri[s].path = Push(directory.path, idOf[r])
  BY DEF UriInv
<1>3. r \in Keys
  BY DEF Keys
<1> QED BY <1>1, <1>2, <1>3, ReceiverPaths, DirectoryHere, Beside
-----------------------------------------------------------------------------
(* What a step does.                                                        *)

(* A step is a receiver's, a sender's or neither's.                         *)
ReceiverActs(r) ==
    NewSession(r) \/ Ask(r) \/ Poll(r) \/ PollOn(r) \/ Reload(r) \/ Answer(r)
SenderActs(s) ==
    \/ Parse(s) \/ PostV1(s) \/ ExtractV2(s) \/ PostV2(s) \/ Get(s) \/ Wait(s)
    \/ Resume(s)

LEMMA Acts ==
  ASSUME Next
  PROVE  \/ \E r \in Receivers : ReceiverActs(r)
         \/ \E s \in Senders : SenderActs(s)
         \/ Tick \/ Restart
BY DEF Next, ReceiverActs, SenderActs

(* What each leaves as it is.                                               *)
LEMMA ReceiverActsLeave ==
  ASSUME NEW r \in Receivers, ReceiverActs(r)
  PROVE  Fixed /\ UNCHANGED clock /\ UNCHANGED senders
BY DEF ReceiverActs, NewSession, Ask, Poll, PollOn, Reload, Answer, ProcessRes, Takes, Stops,
   Rests, AnswerV2, AnswerV1, Refuse, Fails, Delivered

LEMMA SenderActsLeave ==
  ASSUME NEW s \in Senders, SenderActs(s)
  PROVE  Fixed /\ UNCHANGED clock /\ UNCHANGED receivers /\ UNCHANGED boxV1
BY DEF SenderActs, Parse, PostV1, ExtractV2, PostV2, PostsV1, Get, Wait, Resume, Others, mail

LEMMA ClockLeaves ==
  ASSUME Tick \/ Restart
  PROVE  /\ Fixed /\ UNCHANGED mail /\ UNCHANGED receivers /\ UNCHANGED senders
         /\ TypeOK => dirKey' \in Nat /\ now' \in Nat /\ dirKey <= dirKey'
BY DEF Tick, Restart, TypeOK

(* The directory, the hashes and the senders are what they were, and the    *)
(* directory's keys only get newer.                                         *)
LEMMA FixedFacts ==
  ASSUME Next
  PROVE  /\ directory' = directory /\ idOf' = idOf /\ garbled' = garbled
         /\ TypeOK => dirKey' \in Nat /\ now' \in Nat /\ dirKey <= dirKey'
<1>1. Fixed /\ (UNCHANGED clock \/ Tick \/ Restart)
  BY Acts, ReceiverActsLeave, SenderActsLeave, ClockLeaves
<1>2. UNCHANGED clock /\ TypeOK => dirKey' \in Nat /\ now' \in Nat /\ dirKey <= dirKey'
  BY DEF clock, TypeOK
<1> QED BY <1>1, <1>2, ClockLeaves DEF Fixed

(* What a step does to one receiver.                                        *)
Kept(r) == expiry'[r] = expiry[r] /\ ohttp'[r] = ohttp[r]

Stays(r) == rstate'[r] = rstate[r] /\ e'[r] = e[r] /\ got'[r] = got[r] /\ Kept(r)

Starts(r) ==
    /\ rstate[r] = "none" /\ rstate'[r] \in {"polling", "panicked"}
    /\ ohttp'[r] = dirKey /\ e'[r] = e[r] /\ got'[r] = got[r]

TakesOf(r, s, key) ==
    /\ rstate[r] = "asking" /\ Kept(r) /\ e'[r] = key
    /\ \/ rstate'[r] = "erred" /\ got'[r] = got[r]
       \/ rstate'[r] = "working" /\ got'[r] = s

TakesMail(r) ==
    LET m == box[idOf[r]] IN
    /\ directory.path = <<>> /\ m # None
    /\ \/ m.kind = "original" /\ TakesOf(r, m.of, e[r])
       \/ OpensA(m, r) /\ TakesOf(r, m.reply, m.reply)

Turns(r) ==
    /\ rstate[r] # "none"
    /\ rstate'[r] \in {"asking", "polling", "expired", "erred", "failed", "refused"}
    /\ Kept(r) /\ e'[r] \in {e[r], None} /\ got'[r] \in {got[r], None}

Ends(r) ==
    /\ rstate[r] = "working" /\ rstate'[r] = "answered"
    /\ Kept(r) /\ e'[r] = e[r] /\ got'[r] = got[r]
    /\ \/ e[r] # None /\ box' = [box EXCEPT ![idOf[e[r]]] = MessageB(r, e[r], got[r])]
       \/ e[r] = None /\ boxV1' = [boxV1 EXCEPT ![idOf[r]] = got[r]]

ReceiverMoves(r) == Stays(r) \/ Starts(r) \/ TakesMail(r) \/ Turns(r) \/ Ends(r)

(* The answers that arrive, and where.                                      *)
LEMMA DeliveredStep ==
  ASSUME TypeOK, NEW r \in Receivers, rstate[r] = "working", NEW state \in {"answered", "refused"},
         Delivered(r, state)
  PROVE  /\ rstate'[r] \in {state, "failed"} /\ Kept(r) /\ e'[r] = e[r]
         /\ rstate'[r] = state => got'[r] = got[r]
         /\ rstate'[r] = "failed" => got'[r] \in {got[r], None}
BY DEF Delivered, Becomes, Rests, Kept, TypeOK

(* Every step does one of these to each receiver.                           *)
LEMMA StopsMoves ==
  ASSUME TypeOK, NEW r \in Receivers, NEW state, Stops(r, state), rstate[r] # "none",
         state \in {"asking", "polling", "expired", "erred", "failed", "refused"}
  PROVE  Turns(r)
BY DEF Stops, Becomes, Rests, Turns, Kept, TypeOK

LEMMA ReceiverStep ==
  ASSUME TypeOK, Next, NEW r \in Receivers
  PROVE  ReceiverMoves(r)
<1>1. ASSUME UNCHANGED receivers
      PROVE  ReceiverMoves(r)
  BY <1>1 DEF receivers, ReceiverMoves, Stays, Kept
<1>2. ASSUME NEW q \in Receivers, q # r, ReceiverActs(q)
      PROVE  Stays(r)
  BY <1>2 DEF ReceiverActs, Stays, Kept, NewSession, Ask, Poll, PollOn, Reload, ProcessRes,
     Takes, Stops, Rests, Answer, AnswerV2, AnswerV1, Refuse, Fails, Delivered, Becomes, TypeOK
<1>3. CASE NewSession(r)
  BY <1>3 DEF NewSession, Becomes, ReceiverMoves, Starts, TypeOK
<1>4. CASE Poll(r)
  <2> DEFINE m == box[idOf[r]]
  <2>1. /\ rstate[r] = "asking"
        /\ \/ Stops(r, "erred") \/ Stops(r, "polling")
           \/ /\ Served(Push(directory.path, idOf[r])) /\ m # None
              /\ \/ Stops(r, "erred")
                 \/ m.kind = "original" /\ Takes(r, m.of, e[r])
                 \/ OpensA(m, r) /\ Takes(r, m.reply, m.reply)
    BY <1>4 DEF Poll, Outcome, ProcessRes
  <2>2. Served(Push(directory.path, idOf[r])) => directory.path = <<>>
    BY ReceiverPaths DEF Keys
  <2>3. ASSUME NEW s, NEW key, Takes(r, s, key)
        PROVE  TakesOf(r, s, key)
    BY <2>1, <2>3 DEF Takes, TakesOf, Rests, Becomes, Kept, TypeOK
  <2>4. Stops(r, "erred") \/ Stops(r, "polling") => Turns(r)
    BY <2>1, StopsMoves
  <2>5. CASE directory.path = <<>> /\ m # None /\ m.kind = "original" /\ Takes(r, m.of, e[r])
    BY <2>3, <2>5 DEF ReceiverMoves, TakesMail
  <2>6. CASE directory.path = <<>> /\ m # None /\ OpensA(m, r) /\ Takes(r, m.reply, m.reply)
    BY <2>3, <2>6 DEF ReceiverMoves, TakesMail
  <2> QED BY <2>1, <2>2, <2>4, <2>5, <2>6 DEF ReceiverMoves
<1>5. CASE Ask(r) \/ PollOn(r) \/ Fails(r)
  <2>1. /\ rstate[r] # "none"
        /\ \E state \in {"asking", "polling", "expired", "failed"} : Stops(r, state)
    BY <1>5 DEF Ask, PollOn, Fails, Stopped
  <2> QED BY <2>1, StopsMoves DEF ReceiverMoves
<1>6. CASE Reload(r)
  BY <1>6 DEF Reload, Becomes, Rests, ReceiverMoves, Turns, Kept, TypeOK, Stopped
<1>7. CASE AnswerV2(r)
  <2> DEFINE path == Join(directory.path, idOf[e[r]])
  <2>1. /\ rstate[r] = "working" /\ e[r] # None /\ Delivered(r, "answered")
        /\ Served(path) /\ box' = [box EXCEPT ![path[1]] = MessageB(r, e[r], got[r])]
    BY <1>7 DEF AnswerV2, Outcome
  <2>2. e[r] \in Keys
    BY <2>1 DEF TypeOK, Keys
  <2>3. path[1] = idOf[e[r]]
    BY <2>1, <2>2, ReceiverPaths
  <2> HIDE DEF path
  <2>4. /\ rstate'[r] \in {"answered", "failed"} /\ Kept(r) /\ e'[r] = e[r]
        /\ rstate'[r] = "answered" => got'[r] = got[r]
        /\ rstate'[r] = "failed" => got'[r] \in {got[r], None}
    BY <2>1, DeliveredStep
  <2> QED BY <2>1, <2>3, <2>4 DEF ReceiverMoves, Ends, Turns
<1>8. CASE AnswerV1(r)
  <2> DEFINE path == Join(directory.path, idOf[r])
  <2>1. /\ rstate[r] = "working" /\ e[r] = None /\ Delivered(r, "answered")
        /\ Served(path) /\ boxV1' = [boxV1 EXCEPT ![path[1]] = got[r]]
    BY <1>8 DEF AnswerV1, Outcome
  <2>2. path[1] = idOf[r]
    BY <2>1, ReceiverPaths DEF Keys
  <2> HIDE DEF path
  <2>3. /\ rstate'[r] \in {"answered", "failed"} /\ Kept(r) /\ e'[r] = e[r]
        /\ rstate'[r] = "answered" => got'[r] = got[r]
        /\ rstate'[r] = "failed" => got'[r] \in {got[r], None}
    BY <2>1, DeliveredStep
  <2> QED BY <2>1, <2>2, <2>3 DEF ReceiverMoves, Ends, Turns
<1>9. CASE Refuse(r)
  <2>1. rstate[r] = "working" /\ Delivered(r, "refused")
    BY <1>9 DEF Refuse
  <2>2. /\ rstate'[r] \in {"refused", "failed"} /\ Kept(r) /\ e'[r] = e[r]
        /\ rstate'[r] = "refused" => got'[r] = got[r]
        /\ rstate'[r] = "failed" => got'[r] \in {got[r], None}
    BY <2>1, DeliveredStep
  <2> QED BY <2>1, <2>2 DEF ReceiverMoves, Turns
<1>10. ReceiverActs(r) => ReceiverMoves(r)
  BY <1>3, <1>4, <1>5, <1>6, <1>7, <1>8, <1>9 DEF ReceiverActs, Answer
<1> QED BY <1>1, <1>2, <1>10, Acts, SenderActsLeave, ClockLeaves DEF ReceiverMoves

-----------------------------------------------------------------------------
(* What a step posts.                                                       *)
Posted(k, m) ==
    \/ \E r \in Receivers : rstate[r] = "working" /\ e[r] = k /\ m = MessageB(r, k, got[r])
    \/ k \in Receivers /\ m = ErrorJson
    \/ /\ k \in Receivers
       /\ \E s \in Senders :
             /\ uri[s] # None /\ uri[s].path = Push(directory.path, idOf[k])
             /\ \/ m = MessageA(uri[s].rs, s)
                \/ s \in inClear' /\ \E n \in OriginalSizes : m = Plaintext(s, n)

BoxMoves ==
    \/ box' = box
    \/ \E k \in Keys, m \in Messages : Posted(k, m) /\ box' = [box EXCEPT ![idOf[k]] = m]

(* What is posted is a message.                                             *)
LEMMA AreMessages ==
  /\ ErrorJson \in Messages
  /\ \A r \in Receivers, s, t \in Senders : MessageB(r, s, t) \in Messages
  /\ \A r \in Receivers, s \in Senders : MessageA(r, s) \in Messages
  /\ \A s \in Senders, n \in OriginalSizes : Plaintext(s, n) \in Messages
BY ExchangeAssumption DEF Messages, MessageB, MessageA, Plaintext

(* A sender posts to the mailbox of the endpoint it has read.               *)
LEMMA SenderPosts ==
  ASSUME TypeOK, UriInv, NEW s \in Senders, uri[s] # None, NEW m \in Messages,
         Served(uri[s].path), box' = [box EXCEPT ![uri[s].path[1]] = m],
         \/ m = MessageA(uri[s].rs, s)
         \/ s \in inClear' /\ \E n \in OriginalSizes : m = Plaintext(s, n)
  PROVE  BoxMoves
<1>1. PICK r \in Receivers : /\ uri[s].path = Push(directory.path, idOf[r])
                             /\ uri[s].path[1] = idOf[r]
  BY SenderPaths
<1>2. r \in Keys
  BY DEF Keys
<1>3. box' = [box EXCEPT ![idOf[r]] = m]
  BY <1>1
<1>4. Posted(r, m)
  BY <1>1 DEF Posted
<1> QED BY <1>2, <1>3, <1>4 DEF BoxMoves

(* Every step that posts to the default column is one of these.             *)
LEMMA BoxStep ==
  ASSUME TypeOK, UriInv, Next
  PROVE  BoxMoves
<1>0. /\ \A r \in Receivers : r \in Keys /\ e[r] \in Senders \cup {None}
      /\ \A r \in Receivers : rstate[r] = "working" => got[r] \in Senders
      /\ \A s \in Senders : s \in Keys
  BY DEF TypeOK, Keys
<1>1. ASSUME NEW r \in Receivers,
             NewSession(r) \/ Ask(r) \/ Poll(r) \/ PollOn(r) \/ Reload(r) \/ Fails(r)
      PROVE  BoxMoves
  BY <1>1 DEF NewSession, Ask, Poll, PollOn, Reload, Fails, ProcessRes, Takes, Stops, mail,
     BoxMoves
<1>2. ASSUME NEW r \in Receivers, AnswerV2(r)
      PROVE  BoxMoves
  <2> DEFINE path == Join(directory.path, idOf[e[r]])
             m    == MessageB(r, e[r], got[r])
  <2>1. /\ rstate[r] = "working" /\ e[r] # None
        /\ Served(path) /\ box' = [box EXCEPT ![path[1]] = m]
    BY <1>2 DEF AnswerV2, Outcome
  <2>2. e[r] \in Keys /\ m \in Messages
    BY <1>0, <2>1, AreMessages
  <2>3. box' = [box EXCEPT ![idOf[e[r]]] = m]
    BY <2>1, <2>2, ReceiverPaths
  <2> QED BY <2>1, <2>2, <2>3 DEF BoxMoves, Posted
<1>3. ASSUME NEW r \in Receivers, AnswerV1(r)
      PROVE  BoxMoves
  BY <1>3 DEF AnswerV1, BoxMoves
<1>4. ASSUME NEW r \in Receivers, Refuse(r)
      PROVE  BoxMoves
  <2> DEFINE path == Push(directory.path, idOf[r])
  <2>1. Served(path) /\ box' = [box EXCEPT ![path[1]] = ErrorJson]
    BY <1>4 DEF Refuse, Outcome
  <2>2. box' = [box EXCEPT ![idOf[r]] = ErrorJson]
    BY <1>0, <2>1, ReceiverPaths
  <2> QED BY <1>0, <2>2, AreMessages DEF BoxMoves, Posted
<1>5. ASSUME NEW s \in Senders, Parse(s) \/ Get(s) \/ Wait(s) \/ Resume(s)
      PROVE  BoxMoves
  BY <1>5 DEF Parse, Get, Wait, Resume, mail, BoxMoves
<1>6. ASSUME NEW s \in Senders, NEW size \in OriginalSizes, sstate[s] = "ready", PostsV1(s, size)
      PROVE  BoxMoves
  <2>1. uri[s] # None
    BY <1>6 DEF TypeOK
  <2>2. CASE box' = box
    BY <2>2 DEF BoxMoves
  <2>3. CASE box' # box
    <3> DEFINE m == Plaintext(s, size)
    <3>1. /\ Served(uri[s].path) /\ s \in inClear'
          /\ box' = [box EXCEPT ![uri[s].path[1]] = m]
      BY <1>6, <2>3 DEF PostsV1
    <3>2. m \in Messages
      BY AreMessages
    <3> QED BY <2>1, <3>1, <3>2, SenderPosts
  <2> QED BY <2>2, <2>3
<1>7. ASSUME NEW s \in Senders, PostV1(s) \/ ExtractV2(s)
      PROVE  BoxMoves
  <2>1. sstate[s] = "ready" /\ (box' = box \/ \E size \in OriginalSizes : PostsV1(s, size))
    BY <1>7 DEF PostV1, ExtractV2, mail
  <2> QED BY <1>6, <2>1 DEF BoxMoves
<1>8. ASSUME NEW s \in Senders, PostV2(s)
      PROVE  BoxMoves
  <2>1. uri[s] # None
    BY <1>8 DEF TypeOK, PostV2
  <2>2. CASE box' = box
    BY <2>2 DEF BoxMoves
  <2>3. CASE box' # box
    <3> DEFINE m == MessageA(uri[s].rs, s)
    <3>1. Served(uri[s].path) /\ box' = [box EXCEPT ![uri[s].path[1]] = m]
      BY <1>8, <2>3 DEF PostV2, Outcome
    <3>2. m \in Messages
      BY <2>1, SenderPaths, AreMessages
    <3> QED BY <2>1, <3>1, <3>2, SenderPosts
  <2> QED BY <2>2, <2>3
<1>9. CASE Tick \/ Restart
  BY <1>9 DEF Tick, Restart, mail, BoxMoves
<1> QED BY <1>1, <1>2, <1>3, <1>4, <1>5, <1>7, <1>8, <1>9, Acts
       DEF ReceiverActs, SenderActs, Answer

(* And to the v1 column.                                                    *)
BoxV1Moves ==
    \/ boxV1' = boxV1
    \/ \E r \in Receivers :
          rstate[r] = "working" /\ boxV1' = [boxV1 EXCEPT ![idOf[r]] = got[r]]

LEMMA BoxV1Step ==
  ASSUME TypeOK, Next
  PROVE  BoxV1Moves
<1>1. ASSUME NEW r \in Receivers, AnswerV1(r)
      PROVE  BoxV1Moves
  <2> DEFINE path == Join(directory.path, idOf[r])
  <2>1. /\ rstate[r] = "working" /\ Served(path)
        /\ boxV1' = [boxV1 EXCEPT ![path[1]] = got[r]]
    BY <1>1 DEF AnswerV1, Outcome
  <2>2. path[1] = idOf[r]
    BY <2>1, ReceiverPaths DEF Keys
  <2> QED BY <2>1, <2>2 DEF BoxV1Moves
<1>2. ASSUME NEW r \in Receivers, ReceiverActs(r), ~AnswerV1(r)
      PROVE  boxV1' = boxV1
  BY <1>2 DEF ReceiverActs, NewSession, Ask, Poll, PollOn, Reload, Answer, AnswerV2, Refuse,
     Fails, ProcessRes, Takes, Stops, mail
<1> QED BY <1>1, <1>2, Acts, SenderActsLeave, ClockLeaves DEF BoxV1Moves, mail

-----------------------------------------------------------------------------
(* The types of the next state.                                             *)
LEMMA BoxTyped ==
  ASSUME TypeOK, UriInv, Next
  PROVE  /\ box' \in [Ids -> Messages \cup {None}]
         /\ boxV1' \in [Ids -> Senders \cup {None}]
<1>1. BoxMoves /\ BoxV1Moves
  BY BoxStep, BoxV1Step
<1>2. \A k \in Keys, m \in Messages :
         [box EXCEPT ![idOf[k]] = m] \in [Ids -> Messages \cup {None}]
  BY DEF TypeOK
<1>3. \A r \in Receivers : rstate[r] = "working" =>
         [boxV1 EXCEPT ![idOf[r]] = got[r]] \in [Ids -> Senders \cup {None}]
  BY DEF TypeOK
<1> QED BY <1>1, <1>2, <1>3 DEF BoxMoves, BoxV1Moves, TypeOK

RStates ==
    Stopped \cup {"none", "panicked", "polling", "asking", "expired"}

(* The types of what receivers keep.                                        *)
LEMMA ReceiversTyped ==
  ASSUME TypeOK, Next
  PROVE  /\ rstate' \in [Receivers -> RStates]
         /\ expiry' \in [Receivers -> Nat] /\ ohttp' \in [Receivers -> Nat]
         /\ e' \in [Receivers -> Senders \cup {None}]
         /\ got' \in [Receivers -> Senders \cup {None}]
         /\ \A r \in Receivers : rstate'[r] = "working" => got'[r] # None
<1> DEFINE T == /\ rstate' \in [Receivers -> RStates]
                /\ expiry' \in [Receivers -> Nat] /\ ohttp' \in [Receivers -> Nat]
                /\ e' \in [Receivers -> Senders \cup {None}]
                /\ got' \in [Receivers -> Senders \cup {None}]
                /\ \A r \in Receivers : rstate'[r] = "working" => got'[r] # None
<1>1. \A s \in Senders : s # None
  BY ExchangeAssumption DEF Keys
<1>2. ASSUME NEW r \in Receivers, NewSession(r)
      PROVE  T
  <2>1. PICK life \in Lifetimes[r] :
          /\ expiry' = [expiry EXCEPT ![r] = now + life]
          /\ Becomes(r, IF ExpiryFits(now + life) THEN "polling" ELSE "panicked")
    BY <1>2 DEF NewSession
  <2>2. life \in Nat
    BY ExchangeAssumption
  <2> QED BY <1>2, <2>1, <2>2 DEF TypeOK, NewSession, Becomes, RStates
<1>3. ASSUME NEW r \in Receivers, NEW s \in Senders, NEW key \in Senders \cup {None},
             Takes(r, s, key)
      PROVE  T
  BY <1>1, <1>3 DEF TypeOK, Takes, Becomes, Rests, RStates, Stopped
<1>4. ASSUME NEW r \in Receivers, NEW state \in RStates \ {"working"}, Stops(r, state)
      PROVE  T
  BY <1>4 DEF TypeOK, Stops, Becomes, Rests, RStates
<1>5. ASSUME NEW r \in Receivers, Poll(r)
      PROVE  T
  <2> DEFINE m == box[idOf[r]]
  <2>1. \/ Stops(r, "erred") \/ Stops(r, "polling")
        \/ /\ m # None
           /\ \/ m.kind = "original" /\ Takes(r, m.of, e[r])
              \/ OpensA(m, r) /\ Takes(r, m.reply, m.reply)
    BY <1>5 DEF Poll, ProcessRes
  <2>2. m \in Messages \cup {None} /\ e[r] \in Senders \cup {None}
    BY DirectoryHere DEF TypeOK, Keys
  <2> HIDE DEF m
  <2>3. m # None /\ m.kind = "original" => m.of \in Senders
    BY <2>2 DEF Messages, ErrorJson
  <2>4. m # None /\ OpensA(m, r) => m.reply \in Senders
    BY <2>2 DEF Messages, ErrorJson, OpensA
  <2>5. "erred" \in RStates \ {"working"} /\ "polling" \in RStates \ {"working"}
    BY DEF RStates, Stopped
  <2> QED BY <1>3, <1>4, <2>1, <2>2, <2>3, <2>4, <2>5
<1>6. ASSUME NEW r \in Receivers, Ask(r) \/ PollOn(r) \/ Fails(r)
      PROVE  T
  <2>1. \E state \in RStates \ {"working"} : Stops(r, state)
    BY <1>6 DEF Ask, PollOn, Fails, RStates, Stopped
  <2> QED BY <1>4, <2>1
<1>7. ASSUME NEW r \in Receivers, Reload(r)
      PROVE  T
  BY <1>7 DEF TypeOK, Reload, Becomes, Rests, RStates
<1>8. ASSUME NEW r \in Receivers, NEW state \in {"answered", "refused"}, Delivered(r, state)
      PROVE  T
  BY <1>8 DEF TypeOK, Delivered, Becomes, Rests, RStates, Stopped
<1>9. ASSUME NEW r \in Receivers, Answer(r)
      PROVE  T
  BY <1>6, <1>8, <1>9 DEF Answer, AnswerV2, AnswerV1, Refuse
<1>10. ASSUME UNCHANGED receivers
       PROVE  T
  BY <1>10 DEF TypeOK, receivers, RStates
<1> QED BY <1>2, <1>5, <1>6, <1>7, <1>9, <1>10, Acts, SenderActsLeave, ClockLeaves
       DEF ReceiverActs

SStates ==
    {"new", "unparsed", "ready", "posting", "get", "waiting", "done", "rejected", "notFound",
     "noAnswer", "unopened", "refused", "unreadable", "unavailable"}

(* The types of what senders keep.                                          *)
LEMMA SendersTyped ==
  ASSUME TypeOK, UriInv, Next
  PROVE  /\ sstate' \in [Senders -> SStates]
         /\ uri' \in [Senders -> Uris \cup {None}]
         /\ opened' \in [Senders -> Messages \cup {None}]
         /\ sealedAt' \in [Senders -> Nat] /\ inClear' \subseteq Senders
         /\ \A s \in Senders : sstate'[s] \notin {"new", "unparsed"} => uri'[s] # None
<1> DEFINE T == /\ sstate' \in [Senders -> SStates]
                /\ uri' \in [Senders -> Uris \cup {None}]
                /\ opened' \in [Senders -> Messages \cup {None}]
                /\ sealedAt' \in [Senders -> Nat] /\ inClear' \subseteq Senders
                /\ \A s \in Senders : sstate'[s] \notin {"new", "unparsed"} => uri'[s] # None
<1>1. ASSUME NEW s \in Senders, Parse(s)
      PROVE  T
  <2>1. CASE Goes(s, "unparsed") /\ UNCHANGED uri
    BY <1>1, <2>1 DEF TypeOK, Goes, Parse, SStates
  <2>2. ASSUME NEW r \in Receivers, Goes(s, "ready"),
               uri' = [uri EXCEPT ![s] = ParsedUri(Shared(r))]
        PROVE  T
    <3>1. ParsedUri(Shared(r)) \in Uris /\ ParsedUri(Shared(r)) # None
      BY UriRead, ExchangeAssumption
    <3> QED BY <1>1, <2>2, <3>1 DEF TypeOK, Goes, Parse, SStates
  <2> QED BY <1>1, <2>1, <2>2 DEF Parse
<1>2. ASSUME NEW s \in Senders, sstate[s] \notin {"new", "unparsed"},
             NEW state \in SStates, Goes(s, state),
             UNCHANGED <<uri, opened, sealedAt>>, inClear' \in {inClear, inClear \cup {s}}
      PROVE  T
  BY <1>2 DEF TypeOK, Goes, SStates
<1>3. ASSUME NEW s \in Senders, NEW size \in OriginalSizes, sstate[s] = "ready", PostsV1(s, size)
      PROVE  T
  BY <1>2, <1>3 DEF PostsV1, SStates
<1>4. ASSUME NEW s \in Senders, PostV1(s) \/ ExtractV2(s)
      PROVE  T
  <2>1. /\ sstate[s] = "ready"
        /\ \/ \E size \in OriginalSizes : PostsV1(s, size)
           \/ /\ Goes(s, "posting") /\ sealedAt' = [sealedAt EXCEPT ![s] = now]
              /\ UNCHANGED <<uri, opened, inClear>>
    BY <1>4 DEF PostV1, ExtractV2
  <2>2. CASE /\ Goes(s, "posting") /\ sealedAt' = [sealedAt EXCEPT ![s] = now]
             /\ UNCHANGED <<uri, opened, inClear>>
    BY <2>1, <2>2 DEF TypeOK, Goes, SStates
  <2> QED BY <1>3, <2>1, <2>2
<1>5. ASSUME NEW s \in Senders, PostV2(s) \/ Wait(s)
      PROVE  T
  <2>1. /\ sstate[s] \notin {"new", "unparsed"} /\ UNCHANGED <<uri, opened, sealedAt, inClear>>
        /\ \E state \in SStates : Goes(s, state)
    BY <1>5 DEF PostV2, Wait, Outcome, Unavailable, ResponseError, SStates
  <2> QED BY <1>2, <2>1
<1>6. ASSUME NEW s \in Senders, Get(s)
      PROVE  T
  <2> DEFINE path == Join(uri[s].path, idOf[s])
             m    == box[path[1]]
  <2>1. /\ sstate[s] = "get" /\ UNCHANGED <<uri, sealedAt, inClear>>
        /\ \E state \in SStates : Goes(s, state)
        /\ \/ UNCHANGED opened
           \/ Served(path) /\ m # None /\ opened' = [opened EXCEPT ![s] = m]
    BY <1>6 DEF Get, Outcome, SStates
  <2>2. Served(path) => path[1] = idOf[s]
    <3>1. uri[s] # None
      BY <2>1 DEF TypeOK
    <3> QED BY <3>1, SenderPaths
  <2>3. Served(path) => m \in Messages \cup {None}
    BY <2>2, DirectoryHere DEF TypeOK, Keys
  <2> HIDE DEF m, path
  <2>4. CASE UNCHANGED opened
    BY <1>2, <2>1, <2>4
  <2>5. CASE m \in Messages /\ opened' = [opened EXCEPT ![s] = m]
    BY <2>1, <2>5 DEF TypeOK, Goes, SStates
  <2> QED BY <2>1, <2>3, <2>4, <2>5
<1>7. ASSUME NEW s \in Senders, Resume(s)
      PROVE  T
  BY <1>7 DEF TypeOK, Resume, Goes, SStates
<1>8. ASSUME UNCHANGED senders
      PROVE  T
  BY <1>8 DEF TypeOK, senders, SStates
<1> QED BY <1>1, <1>4, <1>5, <1>6, <1>7, <1>8, Acts, ReceiverActsLeave, ClockLeaves
       DEF SenderActs

(* Every step preserves the types.                                          *)
LEMMA TypeStep ==
  ASSUME TypeOK, UriInv, Next
  PROVE  TypeOK'
<1>1. /\ directory' = directory /\ idOf' = idOf /\ garbled' = garbled
      /\ dirKey' \in Nat /\ now' \in Nat
  BY FixedFacts
<1>2. TypeOK' <=>
         /\ directory' \in Directories /\ idOf' \in [Keys -> Ids]
         /\ garbled' \subseteq Garbled
         /\ now' \in Nat /\ dirKey' \in Nat
         /\ box' \in [Ids -> Messages \cup {None}] /\ boxV1' \in [Ids -> Senders \cup {None}]
         /\ rstate' \in [Receivers -> RStates]
         /\ expiry' \in [Receivers -> Nat] /\ ohttp' \in [Receivers -> Nat]
         /\ e' \in [Receivers -> Senders \cup {None}]
         /\ got' \in [Receivers -> Senders \cup {None}]
         /\ sstate' \in [Senders -> SStates]
         /\ uri' \in [Senders -> Uris \cup {None}]
         /\ opened' \in [Senders -> Messages \cup {None}]
         /\ sealedAt' \in [Senders -> Nat] /\ inClear' \subseteq Senders
         /\ \A r \in Receivers : rstate'[r] = "working" => got'[r] # None
         /\ \A s \in Senders : sstate'[s] \notin {"new", "unparsed"} => uri'[s] # None
  BY DEF TypeOK, RStates, SStates
<1>3. directory \in Directories /\ idOf \in [Keys -> Ids] /\ garbled \subseteq Garbled
  BY DEF TypeOK
<1> QED BY <1>1, <1>2, <1>3, BoxTyped, ReceiversTyped, SendersTyped

-----------------------------------------------------------------------------
(* What a step does to one sender.                                          *)
Idles(s) ==
    /\ sstate'[s] = sstate[s] /\ uri'[s] = uri[s] /\ opened'[s] = opened[s]
    /\ sealedAt'[s] = sealedAt[s] /\ (s \in inClear' <=> s \in inClear)

Reads(s) ==
    /\ sstate[s] = "new" /\ opened'[s] = opened[s]
    /\ sealedAt'[s] = sealedAt[s] /\ (s \in inClear' <=> s \in inClear)
    /\ \/ sstate'[s] = "unparsed" /\ uri'[s] = uri[s]
       \/ /\ sstate'[s] = "ready"
          /\ \E r \in Receivers : rstate[r] # "none" /\ uri'[s] = ParsedUri(Shared(r))

Reasons(s) ==
    /\ sstate'[s] = "rejected" =>
          \/ uri[s].ohttp # dirKey
          \/ ~RequestFits(PADDED_MESSAGE_BYTES, directory.framing)
    /\ sstate'[s] = "notFound" => directory.path # <<>>
    /\ sstate'[s] = "unopened" =>
          LET m == box[idOf[s]] IN
          m # None /\ ~(ResponseFits(LengthOf(m)) /\ OpensB(m, uri[s].rs, s))

GoesOn(s) ==
    /\ sstate[s] \notin {"new", "unparsed"} /\ sstate'[s] \notin {"new", "unparsed"}
    /\ uri'[s] = uri[s] /\ opened'[s] \in {opened[s], None}
    /\ \/ sealedAt'[s] = sealedAt[s]
       \/ ~(now > uri[s].exp) /\ sealedAt'[s] = now
    /\ Reasons(s)

Opens(s) ==
    /\ sstate[s] = "get" /\ sstate'[s] \in {"done", "refused"} /\ uri'[s] = uri[s]
    /\ sealedAt'[s] = sealedAt[s]
    /\ box[idOf[s]] # None /\ OpensB(box[idOf[s]], uri[s].rs, s)
    /\ opened'[s] = box[idOf[s]]

SenderMoves(s) == Idles(s) \/ Reads(s) \/ GoesOn(s) \/ Opens(s)

(* Every step does one of these to each sender.                             *)
LEMMA SenderStep ==
  ASSUME TypeOK, UriInv, Next, NEW s \in Senders
  PROVE  SenderMoves(s)
<1>1. ASSUME UNCHANGED senders
      PROVE  SenderMoves(s)
  BY <1>1 DEF senders, SenderMoves, Idles
<1>2. ASSUME NEW t \in Senders, t # s, SenderActs(t)
      PROVE  Idles(s)
  BY <1>2 DEF SenderActs, Idles, Parse, PostV1, ExtractV2, PostV2, PostsV1, Get, Wait, Resume,
     Goes, TypeOK
<1>3. CASE Parse(s)
  BY <1>3 DEF Parse, Goes, SenderMoves, Reads, TypeOK
<1>4. ASSUME sstate[s] = "ready", NEW size \in OriginalSizes, PostsV1(s, size)
      PROVE  GoesOn(s)
  BY <1>4 DEF PostsV1, Goes, GoesOn, Reasons, TypeOK
<1>5. CASE PostV1(s) \/ ExtractV2(s)
  <2>1. /\ sstate[s] = "ready"
        /\ \/ \E size \in OriginalSizes : PostsV1(s, size)
           \/ /\ ~(now > uri[s].exp)
              /\ Goes(s, "posting") /\ sealedAt' = [sealedAt EXCEPT ![s] = now]
              /\ UNCHANGED <<uri, opened, inClear>>
    BY <1>5 DEF PostV1, ExtractV2, NoV2Request
  <2>2. CASE /\ ~(now > uri[s].exp)
             /\ Goes(s, "posting") /\ sealedAt' = [sealedAt EXCEPT ![s] = now]
             /\ UNCHANGED <<uri, opened, inClear>>
    <3>1. sstate'[s] = "posting" /\ sealedAt'[s] = now
      BY <2>2 DEF Goes, TypeOK
    <3>2. uri'[s] = uri[s] /\ opened'[s] = opened[s]
      BY <2>2
    <3>3. Reasons(s)
      BY <3>1 DEF Reasons
    <3> QED BY <2>1, <2>2, <3>1, <3>2, <3>3 DEF GoesOn, SenderMoves
  <2> QED BY <1>4, <2>1, <2>2 DEF SenderMoves
<1>6. ASSUME NEW path, NEW key,
             Outcome(path, key, PADDED_MESSAGE_BYTES) = "rejected"
      PROVE  key # dirKey \/ ~RequestFits(PADDED_MESSAGE_BYTES, directory.framing)
  BY <1>6 DEF Outcome
<1>7. ASSUME NEW path, NEW key,
             Outcome(path, key, PADDED_MESSAGE_BYTES) = "notFound"
      PROVE  ~Served(path)
  BY <1>7 DEF Outcome
<1>8. ASSUME NEW path, NEW key,
             Outcome(path, key, PADDED_MESSAGE_BYTES) # "ok"
      PROVE  Outcome(path, key, PADDED_MESSAGE_BYTES) \in {"rejected", "notFound"}
  BY <1>8 DEF Outcome
<1>9. CASE PostV2(s)
  <2> DEFINE outcome == Outcome(uri[s].path, uri[s].ohttp, PADDED_MESSAGE_BYTES)
  <2>1. /\ sstate[s] = "posting" /\ UNCHANGED <<uri, opened, sealedAt>>
        /\ \/ outcome # "ok" /\ Goes(s, outcome)
           \/ Goes(s, "get") \/ Goes(s, "noAnswer")
    BY <1>9 DEF PostV2
  <2>2. uri[s] # None
    BY <2>1 DEF TypeOK
  <2>3. /\ outcome = "rejected" => \/ uri[s].ohttp # dirKey
                                   \/ ~RequestFits(PADDED_MESSAGE_BYTES, directory.framing)
        /\ outcome = "notFound" => directory.path # <<>>
        /\ outcome # "ok" => outcome \in {"rejected", "notFound"}
    BY <1>6, <1>7, <1>8, <2>2, SenderPaths
  <2> HIDE DEF outcome
  <2> QED BY <2>1, <2>3 DEF Goes, SenderMoves, GoesOn, Reasons, TypeOK
<1>10. CASE Get(s)
  <2> DEFINE path    == Join(uri[s].path, idOf[s])
             outcome == Outcome(path, uri[s].ohttp, PADDED_MESSAGE_BYTES)
             m       == box[path[1]]
             opens   == ResponseFits(LengthOf(m)) /\ OpensB(m, uri[s].rs, s)
  <2>1. /\ sstate[s] = "get" /\ UNCHANGED <<uri, sealedAt>>
        /\ \/ Goes(s, "noAnswer") /\ UNCHANGED opened
           \/ outcome # "ok" /\ Goes(s, outcome) /\ UNCHANGED opened
           \/ outcome = "ok" /\ m # None /\ ~opens /\ Goes(s, "unopened") /\ UNCHANGED opened
           \/ /\ outcome = "ok" /\ m # None /\ opens
              /\ opened' = [opened EXCEPT ![s] = m]
              /\ Goes(s, "done") \/ Goes(s, "refused")
    BY <1>10 DEF Get
  <2>2. uri[s] # None
    BY <2>1 DEF TypeOK
  <2>3. /\ outcome = "rejected" => \/ uri[s].ohttp # dirKey
                                   \/ ~RequestFits(PADDED_MESSAGE_BYTES, directory.framing)
        /\ outcome = "notFound" => directory.path # <<>>
        /\ outcome # "ok" => outcome \in {"rejected", "notFound"}
    BY <1>6, <1>7, <1>8, <2>2, SenderPaths
  <2>4. outcome = "ok" => m = box[idOf[s]]
    <3>1. outcome = "ok" => Served(path)
      BY DEF Outcome
    <3> QED BY <2>2, <3>1, SenderPaths
  <2> HIDE DEF outcome, m, path
  <2>5. CASE Goes(s, "noAnswer") /\ UNCHANGED opened
    BY <2>1, <2>5 DEF Goes, SenderMoves, GoesOn, Reasons, TypeOK
  <2>6. CASE outcome # "ok" /\ Goes(s, outcome) /\ UNCHANGED opened
    BY <2>1, <2>3, <2>6 DEF Goes, SenderMoves, GoesOn, Reasons, TypeOK
  <2>7. CASE m = box[idOf[s]] /\ m # None /\ ~opens /\ Goes(s, "unopened") /\ UNCHANGED opened
    BY <2>1, <2>7 DEF Goes, SenderMoves, GoesOn, Reasons, TypeOK
  <2>8. CASE /\ m = box[idOf[s]] /\ m # None /\ OpensB(m, uri[s].rs, s)
             /\ opened' = [opened EXCEPT ![s] = m]
             /\ Goes(s, "done") \/ Goes(s, "refused")
    BY <2>1, <2>8 DEF Goes, SenderMoves, Opens, TypeOK
  <2> QED BY <2>1, <2>4, <2>5, <2>6, <2>7, <2>8
<1>11. CASE Wait(s) \/ Resume(s)
  BY <1>11 DEF Wait, Resume, Goes, Unavailable, ResponseError, SenderMoves, GoesOn, Reasons, TypeOK
<1> QED BY <1>1, <1>2, <1>3, <1>5, <1>9, <1>10, <1>11, Acts, ReceiverActsLeave, ClockLeaves
       DEF SenderActs, SenderMoves

(* What has been read stays.                                                *)
LEMMA UriKept ==
  ASSUME TypeOK, UriInv, Next, NEW s \in Senders, uri[s] # None
  PROVE  uri'[s] = uri[s]
BY SenderStep DEF SenderMoves, Idles, Reads, GoesOn, Opens, UriInv

(* And so does the clear text that was posted.                              *)
LEMMA ClearKept ==
  ASSUME Next
  PROVE  inClear \subseteq inClear'
<1>1. \A s \in Senders : SenderActs(s) => inClear \subseteq inClear'
  BY DEF SenderActs, Parse, PostV1, ExtractV2, PostV2, PostsV1, Get, Wait, Resume
<1> QED BY <1>1, Acts, ReceiverActsLeave, ClockLeaves DEF senders

(* What a receiver is known by stays, too.                                  *)
LEMMA KnownKept ==
  ASSUME TypeOK, Next, NEW r \in Receivers, rstate[r] # "none"
  PROVE  rstate'[r] # "none" /\ expiry'[r] = expiry[r] /\ ohttp'[r] = ohttp[r]
BY ReceiverStep DEF ReceiverMoves, Stays, Starts, TakesMail, TakesOf, Turns, Ends, Kept

(* Every step preserves what is known of the URIs that senders have read.   *)
LEMMA UriStep ==
  ASSUME TypeOK, UriInv, Next
  PROVE  UriInv'
<1> DEFINE Of(u) ==
             /\ \E r \in Receivers : u.path = Push(directory.path, idOf[r])
             /\ u.noSubst = FALSE
             /\ Clean(directory.fragment) =>
                   LET r == u.rs IN
                   /\ r \in Receivers
                   /\ rstate[r] # "none" /\ u.ohttp = ohttp[r]
                   /\ u.path = Push(directory.path, idOf[r])
                   /\ u.exp = Seconds(expiry[r]) * TicksPerSecond
           OfNext(u) ==
             /\ \E r \in Receivers : u.path = Push(directory.path, idOf[r])
             /\ u.noSubst = FALSE
             /\ Clean(directory.fragment) =>
                   LET r == u.rs IN
                   /\ rstate'[r] # "none" /\ u.ohttp = ohttp'[r]
                   /\ u.path = Push(directory.path, idOf[r])
                   /\ u.exp = Seconds(expiry'[r]) * TicksPerSecond
<1>1. \A u : Of(u) => OfNext(u)
  BY KnownKept
<1>2. ASSUME NEW r \in Receivers, rstate[r] # "none"
      PROVE  Of(ParsedUri(Shared(r))) /\ ParsedUri(Shared(r)) # None
  <2>1. ParsedUri(Shared(r)) \in Uris /\ None \notin Uris
    BY UriRead, ExchangeAssumption
  <2> QED BY <1>2, <2>1, UriRead
<1>3. \A s \in Senders : uri[s] # None => Of(uri[s])
  BY DEF UriInv, TypeOK, Uris
<1> HIDE DEF Of, OfNext
<1>4. ASSUME NEW s \in Senders
      PROVE  /\ sstate'[s] \in {"new", "unparsed"} => uri'[s] = None /\ opened'[s] = None
             /\ uri'[s] # None => OfNext(uri'[s])
             /\ s \in inClear' => uri'[s] # None
             /\ sealedAt'[s] = 0 \/ (uri'[s] # None /\ sealedAt'[s] <= uri'[s].exp)
  <2>1. /\ sstate[s] \in {"new", "unparsed"} => uri[s] = None /\ opened[s] = None
        /\ s \in inClear => uri[s] # None
        /\ sealedAt[s] = 0 \/ (uri[s] # None /\ sealedAt[s] <= uri[s].exp)
        /\ sstate[s] \notin {"new", "unparsed"} => uri[s] # None
        /\ sealedAt[s] \in Nat /\ now \in Nat /\ (uri[s] # None => uri[s].exp \in Nat)
    BY DEF UriInv, TypeOK, Uris
  <2>2. CASE Idles(s)
    BY <1>1, <1>3, <2>1, <2>2 DEF Idles
  <2>3. CASE Reads(s)
    BY <1>1, <1>2, <2>1, <2>3 DEF Reads
  <2>4. CASE GoesOn(s)
    BY <1>1, <1>3, <2>1, <2>4 DEF GoesOn
  <2>5. CASE Opens(s)
    BY <1>1, <1>3, <2>1, <2>5 DEF Opens
  <2> QED BY <2>2, <2>3, <2>4, <2>5, SenderStep DEF SenderMoves
<1>5. UriInv' <=>
         \A s \in Senders :
            /\ sstate'[s] \in {"new", "unparsed"} => uri'[s] = None /\ opened'[s] = None
            /\ uri'[s] # None => OfNext(uri'[s])
            /\ s \in inClear' => uri'[s] # None
            /\ sealedAt'[s] = 0 \/ (uri'[s] # None /\ sealedAt'[s] <= uri'[s].exp)
  <2>1. directory' = directory /\ idOf' = idOf
    BY FixedFacts
  <2> QED BY <2>1, Zenon DEF UriInv, OfNext
<1> QED BY <1>4, <1>5

-----------------------------------------------------------------------------
(* What a receiver has, it has from the mailbox of its own endpoint: the    *)
(* reply key from a sender that holds its URI, the Original from that       *)
(* sender too, or from one that posted it in the clear.                     *)
ReceiverInv ==
    \A r \in Receivers :
        /\ e[r] # None =>
              /\ uri[e[r]] # None /\ uri[e[r]].rs = r
              /\ uri[e[r]].path = Push(directory.path, idOf[r])
        /\ rstate[r] \in {"working", "answered"} =>
              /\ directory.path = <<>>
              /\ got[r] # None /\ uri[got[r]] # None
              /\ uri[got[r]].path = Push(directory.path, idOf[r])
              /\ got[r] \in inClear \/ e[r] = got[r]
        /\ ohttp[r] <= dirKey

(* What a mailbox holds was put there by one that meant it for this mailbox *)
(* and knows whom it wrote to.                                              *)
Genuine(m, i) ==
    /\ m.kind = "A" =>
          /\ uri[m.reply] # None /\ uri[m.reply].rs = m.to
          /\ uri[m.reply].path = Push(directory.path, i)
    /\ m.kind = "original" =>
          /\ m.of \in inClear /\ uri[m.of] # None
          /\ uri[m.of].path = Push(directory.path, i)
    /\ m.kind = "B" =>
          /\ uri[m.to] # None /\ uri[m.to].rs = m.from
          /\ \/ m.of = m.to
             \/ m.of \in inClear /\ uri[m.of] # None /\ uri[m.of].path = uri[m.to].path

MailInv == \A i \in Ids : box[i] # None => Genuine(box[i], i)

(* Only answers to it come to a mailbox that is a sender's alone.           *)
OwnBox ==
    \A s \in Senders :
        ~Collides(s) =>
            box[idOf[s]] = None \/ (box[idOf[s]].kind = "B" /\ box[idOf[s]].to = s)

OpenedInv ==
    \A s \in Senders :
        opened[s] # None =>
            LET of == opened[s].of IN
            /\ uri[s] # None /\ opened[s].from = uri[s].rs
            /\ of = s \/ (of \in inClear /\ uri[of].path = uri[s].path)

(* An answer is where it was posted.                                        *)
AnswerInv ==
    \A r \in Receivers :
        rstate[r] = "answered" =>
            /\ e[r] = got[r] /\ ~Collides(got[r]) =>
                  box[idOf[got[r]]] = MessageB(r, got[r], got[r])
            /\ e[r] = None /\ ~Collides(r) => boxV1[idOf[r]] = got[r]

Inv ==
    /\ TypeOK /\ UriInv /\ ReceiverInv /\ MailInv /\ OwnBox /\ OpenedInv
    /\ FailureExplained /\ AnswerInv

(* At first nothing is posted and nobody has read anything.                 *)
LEMMA InitInv ==
  Init => Inv
<1> SUFFICES ASSUME Init
             PROVE  Inv
  OBVIOUS
<1>1. TypeOK
  BY ExchangeAssumption DEF Init, TypeOK, Stopped
<1>2. UriInv /\ MailInv /\ OpenedInv /\ FailureExplained /\ AnswerInv
  BY <1>1 DEF Init, TypeOK, UriInv, MailInv, OpenedInv, FailureExplained, AnswerInv
<1>3. ReceiverInv
  BY DEF Init, ReceiverInv
<1>4. OwnBox
  BY <1>1 DEF Init, OwnBox, TypeOK, Keys
<1> QED BY <1>1, <1>2, <1>3, <1>4 DEF Inv

(* A receiver takes what is genuine, and keeps what it took.                *)
LEMMA ReceiverInvStep ==
  ASSUME Inv, Next
  PROVE  ReceiverInv'
<1>0. TypeOK /\ UriInv /\ ReceiverInv /\ MailInv
  BY DEF Inv
<1> DEFINE Key(r, k) == /\ uri[k] # None /\ uri[k].rs = r
                        /\ uri[k].path = Push(directory.path, idOf[r])
           Mine(r, s) == /\ s # None /\ uri[s] # None
                         /\ uri[s].path = Push(directory.path, idOf[r])
           KeyNext(r, k) == /\ uri'[k] # None /\ uri'[k].rs = r
                            /\ uri'[k].path = Push(directory.path, idOf[r])
           MineNext(r, s) == /\ s # None /\ uri'[s] # None
                             /\ uri'[s].path = Push(directory.path, idOf[r])
<1>1. \A r \in Receivers, k \in Senders :
         (Key(r, k) => KeyNext(r, k)) /\ (Mine(r, k) => MineNext(r, k))
  BY <1>0, UriKept
<1>2. \A r \in Receivers :
         /\ e[r] \in Senders \cup {None} /\ got[r] \in Senders \cup {None}
         /\ e[r] # None => Key(r, e[r])
         /\ rstate[r] \in {"working", "answered"} =>
               directory.path = <<>> /\ Mine(r, got[r]) /\ (got[r] \in inClear \/ e[r] = got[r])
         /\ ohttp[r] <= dirKey /\ ohttp[r] \in Nat
  BY <1>0 DEF ReceiverInv, TypeOK
<1>3. ASSUME NEW r \in Receivers, box[idOf[r]] # None
      PROVE  LET m == box[idOf[r]] IN
             /\ m.kind = "original" =>
                   m.of \in Senders /\ m.of \in inClear /\ Mine(r, m.of)
             /\ OpensA(m, r) => m.reply \in Senders /\ Key(r, m.reply) /\ Mine(r, m.reply)
  <2> DEFINE m == box[idOf[r]]
  <2>1. m \in Messages /\ Genuine(m, idOf[r])
    BY <1>0, <1>3, DirectoryHere DEF TypeOK, MailInv, Keys
  <2>2. None \notin Senders
    BY ExchangeAssumption DEF Keys
  <2> HIDE DEF m
  <2>3. /\ m.kind = "original" => m.of \in Senders
        /\ OpensA(m, r) => m.kind = "A" /\ m.to = r /\ m.reply \in Senders
    BY <2>1 DEF Messages, ErrorJson, OpensA
  <2>4. /\ m.kind = "original" =>
              m.of \in Senders /\ m.of \in inClear /\ Mine(r, m.of)
        /\ OpensA(m, r) => m.reply \in Senders /\ Key(r, m.reply) /\ Mine(r, m.reply)
    BY <2>1, <2>2, <2>3, Zenon DEF Genuine
  <2> QED BY <2>4 DEF m
<1> HIDE DEF Key, Mine
<1>4. inClear \subseteq inClear' /\ dirKey \in Nat /\ dirKey' \in Nat /\ dirKey <= dirKey'
  BY <1>0, ClearKept, FixedFacts DEF TypeOK
<1>5. ASSUME NEW r \in Receivers
      PROVE  /\ e'[r] # None => KeyNext(r, e'[r])
             /\ rstate'[r] \in {"working", "answered"} =>
                   /\ directory.path = <<>> /\ MineNext(r, got'[r])
                   /\ got'[r] \in inClear' \/ e'[r] = got'[r]
             /\ ohttp'[r] <= dirKey'
  <2> HIDE DEF KeyNext, MineNext
  <2>1. CASE Stays(r) \/ Turns(r) \/ Ends(r)
    <3>1. /\ e'[r] \in {e[r], None} /\ ohttp'[r] = ohttp[r]
          /\ rstate'[r] \in {"working", "answered"} =>
                /\ rstate[r] \in {"working", "answered"}
                /\ e'[r] = e[r] /\ got'[r] = got[r]
      BY <2>1 DEF Stays, Turns, Ends, Kept
    <3>2. rstate[r] \in {"working", "answered"} => got[r] \in Senders
      BY <1>2 DEF Mine
    <3>3. e[r] # None => e[r] \in Senders
      BY <1>2
    <3> QED BY <1>1, <1>2, <1>4, <3>1, <3>2, <3>3
  <2>2. CASE Starts(r)
    BY <1>1, <1>2, <1>4, <2>2 DEF Starts
  <2>3. CASE TakesMail(r)
    <3> DEFINE m == box[idOf[r]]
    <3>1. /\ directory.path = <<>> /\ m # None
          /\ \/ m.kind = "original" /\ TakesOf(r, m.of, e[r])
             \/ OpensA(m, r) /\ TakesOf(r, m.reply, m.reply)
      BY <2>3 DEF TakesMail
    <3>2. /\ m.kind = "original" =>
                m.of \in Senders /\ m.of \in inClear /\ Mine(r, m.of)
          /\ OpensA(m, r) => m.reply \in Senders /\ Key(r, m.reply) /\ Mine(r, m.reply)
      BY <1>3, <3>1
    <3> HIDE DEF m
    <3>3. CASE m.kind = "original" /\ TakesOf(r, m.of, e[r])
      BY <1>1, <1>2, <1>4, <3>1, <3>2, <3>3 DEF TakesOf, Kept
    <3>4. CASE OpensA(m, r) /\ TakesOf(r, m.reply, m.reply)
      BY <1>1, <1>2, <1>4, <3>1, <3>2, <3>4 DEF TakesOf, Kept
    <3> QED BY <3>1, <3>3, <3>4
  <2> QED BY <1>0, <2>1, <2>2, <2>3, ReceiverStep DEF ReceiverMoves
<1>6. directory' = directory /\ idOf' = idOf
  BY FixedFacts
<1> QED BY <1>5, <1>6, Zenon DEF ReceiverInv, KeyNext, MineNext

(* What is posted is genuine, and stays so.                                 *)
LEMMA MailStep ==
  ASSUME Inv, Next
  PROVE  MailInv'
<1>0. TypeOK /\ UriInv /\ ReceiverInv /\ MailInv
  BY DEF Inv
<1> SUFFICES ASSUME NEW i \in Ids, NEW m, m = box'[i], m # None
             PROVE  Genuine(m, i)'
  BY DEF MailInv, Genuine
<1>1. /\ \A s \in Senders : uri[s] # None => uri'[s] = uri[s]
      /\ directory' = directory /\ idOf' = idOf /\ inClear \subseteq inClear' /\ BoxMoves
      /\ box \in [Ids -> Messages \cup {None}] /\ \A k \in Keys : idOf[k] \in Ids
  BY <1>0, UriKept, ClearKept, FixedFacts, BoxStep, DirectoryHere DEF TypeOK
<1>2. CASE m = box[i]
  <2>1. m \in Messages /\ Genuine(m, i)
    BY <1>0, <1>1, <1>2 DEF MailInv
  <2>2. /\ m.kind = "A" => m.reply \in Senders
        /\ m.kind = "original" => m.of \in Senders
        /\ m.kind = "B" => m.to \in Senders /\ m.of \in Senders
    BY <2>1 DEF Messages, ErrorJson
  <2> QED BY <1>1, <2>1, <2>2 DEF Genuine
<1>3. ASSUME NEW r \in Receivers, NEW k, rstate[r] = "working", e[r] = k, k \in Keys,
             m = MessageB(r, k, got[r])
      PROVE  Genuine(m, i)'
  <2>1. /\ k \in Senders /\ uri[k] # None /\ uri[k].rs = r
        /\ uri[k].path = Push(directory.path, idOf[r])
        /\ got[r] \in Senders /\ uri[got[r]] # None
        /\ uri[got[r]].path = Push(directory.path, idOf[r])
        /\ got[r] \in inClear \/ got[r] = k
    <3>1. k # None /\ None \notin Senders
      BY <1>3, ExchangeAssumption DEF Keys
    <3>2. e[r] \in Senders \cup {None} /\ got[r] \in Senders \cup {None}
      BY <1>0 DEF TypeOK
    <3>3. /\ uri[k] # None /\ uri[k].rs = r
          /\ uri[k].path = Push(directory.path, idOf[r])
          /\ got[r] # None /\ uri[got[r]] # None
          /\ uri[got[r]].path = Push(directory.path, idOf[r])
          /\ got[r] \in inClear \/ k = got[r]
      BY <1>0, <1>3, <3>1 DEF ReceiverInv
    <3> QED BY <1>3, <3>1, <3>2, <3>3
  <2>2. m.kind = "B" /\ m.from = r /\ m.to = k /\ m.of = got[r]
    BY <1>3 DEF MessageB
  <2> QED BY <1>1, <2>1, <2>2 DEF Genuine
<1>4. ASSUME m = ErrorJson
      PROVE  Genuine(m, i)'
  BY <1>4 DEF Genuine, ErrorJson
<1>5. ASSUME NEW s \in Senders, uri[s] # None, uri[s].path = Push(directory.path, i),
             \/ m = MessageA(uri[s].rs, s)
             \/ s \in inClear' /\ \E n \in OriginalSizes : m = Plaintext(s, n)
      PROVE  Genuine(m, i)'
  <2>1. uri'[s] = uri[s]
    BY <1>1, <1>5
  <2>2. CASE m = MessageA(uri[s].rs, s)
    BY <1>1, <1>5, <2>1, <2>2 DEF Genuine, MessageA
  <2>3. CASE s \in inClear' /\ \E n \in OriginalSizes : m = Plaintext(s, n)
    <3>1. m.kind = "original" /\ m.of = s
      BY <2>3 DEF Plaintext
    <3> QED BY <1>1, <1>5, <2>1, <2>3, <3>1 DEF Genuine
  <2> QED BY <1>5, <2>2, <2>3
<1>6. CASE m # box[i]
  <2>1. PICK k \in Keys, n \in Messages : Posted(k, n) /\ box' = [box EXCEPT ![idOf[k]] = n]
    BY <1>1, <1>6 DEF BoxMoves
  <2>2. i = idOf[k] /\ m = n
    BY <1>1, <1>6, <2>1
  <2> QED BY <1>3, <1>4, <1>5, <2>1, <2>2 DEF Posted
<1> QED BY <1>2, <1>6

(* Every step preserves that a mailbox of a sender's own holds answers.     *)
LEMMA OwnBoxStep ==
  ASSUME Inv, Next
  PROVE  OwnBox'
<1>0. TypeOK /\ UriInv /\ OwnBox
  BY DEF Inv
<1> SUFFICES ASSUME NEW s \in Senders, ~Collides(s)
             PROVE  LET m == box'[idOf[s]] IN m = None \/ (m.kind = "B" /\ m.to = s)
  BY FixedFacts DEF OwnBox, Collides
<1>1. /\ BoxMoves /\ box \in [Ids -> Messages \cup {None}] /\ \A k \in Keys : idOf[k] \in Ids
      /\ s \in Keys /\ \A k \in Keys : idOf[k] = idOf[s] => k = s
      /\ s \notin Receivers
  BY <1>0, BoxStep, DirectoryHere, ExchangeAssumption DEF TypeOK, Keys, Collides
<1>2. CASE box'[idOf[s]] = box[idOf[s]]
  BY <1>0, <1>2 DEF OwnBox
<1>3. CASE box'[idOf[s]] # box[idOf[s]]
  <2>1. PICK k \in Keys, m \in Messages : Posted(k, m) /\ box' = [box EXCEPT ![idOf[k]] = m]
    BY <1>1, <1>3 DEF BoxMoves
  <2>2. k = s /\ box'[idOf[s]] = m
    BY <1>1, <1>3, <2>1
  <2>3. PICK r \in Receivers : m = MessageB(r, s, got[r])
    BY <1>1, <2>1, <2>2 DEF Posted
  <2> QED BY <2>2, <2>3 DEF MessageB
<1> QED BY <1>2, <1>3

(* What a sender opens is for it: by what is known of the message it found. *)
LEMMA OpenedStep ==
  ASSUME Inv, Next
  PROVE  OpenedInv'
<1>0. TypeOK /\ UriInv /\ MailInv /\ OpenedInv
  BY DEF Inv
<1> DEFINE For(s, m) ==
             /\ uri[s] # None /\ m.from = uri[s].rs
             /\ m.of = s \/ (m.of \in inClear /\ uri[m.of].path = uri[s].path)
<1> SUFFICES ASSUME NEW s \in Senders, opened'[s] # None
             PROVE  LET of == opened'[s].of IN
                    /\ uri'[s] # None /\ opened'[s].from = uri'[s].rs
                    /\ of = s \/ (of \in inClear' /\ uri'[of].path = uri'[s].path)
  BY DEF OpenedInv
<1>1. SenderMoves(s)
  BY <1>0, SenderStep
<1>2. For(s, opened'[s])
  <2>1. CASE opened'[s] = opened[s]
    BY <1>0, <2>1 DEF OpenedInv
  <2>2. CASE Opens(s)
    <3> DEFINE m == box[idOf[s]]
    <3>1. m # None /\ OpensB(m, uri[s].rs, s) /\ opened'[s] = m /\ uri[s] # None
      BY <1>0, <2>2 DEF Opens, TypeOK
    <3>2. Genuine(m, idOf[s])
      BY <1>0, <3>1, DirectoryHere DEF MailInv, Keys
    <3> HIDE DEF m
    <3> QED BY <3>1, <3>2 DEF Genuine, OpensB
  <2> QED BY <1>1, <2>1, <2>2 DEF SenderMoves, Idles, Reads, GoesOn
<1>3. /\ \A t \in Senders : uri[t] # None => uri'[t] = uri[t]
      /\ inClear \subseteq inClear' /\ \A t \in inClear : t \in Senders /\ uri[t] # None
  BY <1>0, UriKept, ClearKept DEF TypeOK, UriInv
<1> QED BY <1>2, <1>3

(* A v2 sender that gives up has one of the reasons: what it asks for is    *)
(* served, fits and, in a mailbox of its own, opens.  Its key for the       *)
(* gateway is the receiver's, which no restart makes new again.             *)
LEMMA FailureStep ==
  ASSUME Inv, Next
  PROVE  FailureExplained'
<1>0. TypeOK /\ UriInv /\ ReceiverInv /\ MailInv /\ OwnBox /\ FailureExplained
  BY DEF Inv
<1> DEFINE Turned(s) == \/ uri[s].ohttp # dirKey \/ ~Clean(directory.fragment)
                        \/ ~RequestFits(PADDED_MESSAGE_BYTES, directory.framing)
<1> SUFFICES ASSUME NEW s \in Senders
             PROVE  /\ sstate'[s] = "rejected" =>
                         \/ uri'[s].ohttp # dirKey' \/ ~Clean(directory.fragment)
                         \/ ~RequestFits(PADDED_MESSAGE_BYTES, directory.framing)
                    /\ sstate'[s] = "notFound" => directory.path # <<>>
                    /\ sstate'[s] = "unopened" => Collides(s)
  <2>1. directory' = directory /\ idOf' = idOf
    BY FixedFacts
  <2> QED BY <2>1 DEF FailureExplained, Collides
<1>1. SenderMoves(s)
  BY <1>0, SenderStep
<1>2. ASSUME sstate'[s] \in {"rejected", "notFound", "unopened"}
      PROVE  /\ Idles(s) \/ GoesOn(s)
             /\ uri[s] # None /\ uri'[s] = uri[s]
  <2>1. Idles(s) \/ GoesOn(s)
    BY <1>1, <1>2 DEF SenderMoves, Reads, Opens
  <2>2. sstate[s] \notin {"new", "unparsed"}
    BY <1>2, <2>1 DEF Idles, GoesOn
  <2>3. uri[s] # None
    BY <1>0, <2>2 DEF TypeOK
  <2> QED BY <1>0, <2>1, <2>3, UriKept
<1>3. ASSUME sstate'[s] = "rejected"
      PROVE  \/ uri'[s].ohttp # dirKey' \/ ~Clean(directory.fragment)
             \/ ~RequestFits(PADDED_MESSAGE_BYTES, directory.framing)
  <2>1. Turned(s)
    BY <1>0, <1>2, <1>3 DEF Idles, GoesOn, Reasons, FailureExplained
  <2>2. ASSUME Clean(directory.fragment)
        PROVE  uri[s].ohttp \in Nat /\ uri[s].ohttp <= dirKey
    <3>1. uri[s] # None
      BY <1>2, <1>3
    <3>2. uri[s].rs \in Receivers /\ uri[s].ohttp = ohttp[uri[s].rs]
      BY <1>0, <2>2, <3>1, SenderPaths DEF UriInv
    <3>3. \A r \in Receivers : ohttp[r] \in Nat /\ ohttp[r] <= dirKey
      BY <1>0 DEF ReceiverInv, TypeOK
    <3> QED BY <3>2, <3>3
  <2>3. dirKey \in Nat /\ dirKey' \in Nat /\ dirKey <= dirKey'
    BY <1>0, FixedFacts DEF TypeOK
  <2> QED BY <1>2, <1>3, <2>1, <2>2, <2>3
<1>4. ASSUME sstate'[s] = "notFound"
      PROVE  directory.path # <<>>
  BY <1>0, <1>2, <1>4 DEF Idles, GoesOn, Reasons, FailureExplained
<1>5. ASSUME sstate'[s] = "unopened", sstate[s] # "unopened"
      PROVE  Collides(s)
  <2> DEFINE m == box[idOf[s]]
  <2>1. m # None /\ ~(ResponseFits(LengthOf(m)) /\ OpensB(m, uri[s].rs, s))
    BY <1>2, <1>5 DEF Idles, GoesOn, Reasons
  <2>2. Genuine(m, idOf[s])
    BY <1>0, <2>1, DirectoryHere DEF MailInv, Keys
  <2>3. Collides(s) \/ (m.kind = "B" /\ m.to = s)
    BY <1>0, <2>1 DEF OwnBox
  <2> HIDE DEF m
  <2>4. m.kind = "B" => LengthOf(m) = PADDED_MESSAGE_BYTES
    BY DEF LengthOf
  <2> QED BY <2>1, <2>2, <2>3, <2>4, Fits DEF OpensB, Genuine
<1>6. sstate'[s] = "unopened" => Collides(s)
  BY <1>0, <1>5 DEF FailureExplained
<1> QED BY <1>3, <1>4, <1>6

(* An answer stays where it was posted: nobody else posts to that mailbox,  *)
(* and its receiver does not again.                                         *)
LEMMA AnswerStep ==
  ASSUME Inv, Next
  PROVE  AnswerInv'
<1>0. TypeOK /\ UriInv /\ ReceiverInv /\ AnswerInv
  BY DEF Inv
<1> SUFFICES ASSUME NEW r \in Receivers, rstate'[r] = "answered"
             PROVE  /\ e'[r] = got'[r] /\ ~Collides(got'[r]) =>
                          box'[idOf[got'[r]]] = MessageB(r, got'[r], got'[r])
                    /\ e'[r] = None /\ ~Collides(r) => boxV1'[idOf[r]] = got'[r]
  <2>1. idOf' = idOf
    BY FixedFacts
  <2> QED BY <2>1 DEF AnswerInv, Collides
<1>1. got'[r] = got[r] /\ e'[r] = e[r] /\ ((Stays(r) /\ rstate[r] = "answered") \/ Ends(r))
  BY <1>0, ReceiverStep DEF ReceiverMoves, Stays, Starts, TakesMail, TakesOf, Turns, Ends
<1> DEFINE s == got[r]
<1>2. /\ s \in Senders /\ s \in Keys /\ s # None /\ idOf[s] \in Ids
      /\ r \in Keys /\ r # s /\ idOf[r] \in Ids
  <2>1. rstate[r] \in {"working", "answered"}
    BY <1>1 DEF Ends
  <2>2. s \in Senders /\ s # None
    BY <1>0, <2>1 DEF ReceiverInv, TypeOK
  <2> QED BY <1>0, <2>2, DirectoryHere, ExchangeAssumption DEF Keys
<1>3. /\ box \in [Ids -> Messages \cup {None}] /\ boxV1 \in [Ids -> Senders \cup {None}]
      /\ BoxMoves /\ BoxV1Moves
  BY <1>0, BoxStep, BoxV1Step DEF TypeOK
<1> HIDE DEF s
<1>4. ASSUME e[r] = s, ~Collides(s)
      PROVE  box'[idOf[s]] = MessageB(r, s, s)
  <2>1. CASE Ends(r)
    BY <1>2, <1>3, <1>4, <2>1 DEF Ends, s
  <2>2. CASE rstate[r] = "answered"
    <3>1. box[idOf[s]] = MessageB(r, s, s) /\ uri[s].rs = r
      BY <1>0, <1>2, <1>4, <2>2 DEF AnswerInv, ReceiverInv, s
    <3>2. ASSUME NEW k \in Keys, NEW m \in Messages, Posted(k, m)
          PROVE  idOf[k] # idOf[s]
      <4>1. k # s
        <5>1. ASSUME NEW q \in Receivers, rstate[q] = "working", e[q] = s
              PROVE  FALSE
          <6>1. uri[s].rs = q
            BY <1>0, <1>2, <5>1 DEF ReceiverInv
          <6> QED BY <2>2, <3>1, <5>1, <6>1
        <5>2. s \notin Receivers
          BY <1>2, ExchangeAssumption
        <5> QED BY <3>2, <5>1, <5>2 DEF Posted
      <4> QED BY <1>4, <4>1 DEF Collides
    <3>3. \A k \in Keys : idOf[k] \in Ids
      BY <1>0, DirectoryHere
    <3>4. box'[idOf[s]] = box[idOf[s]]
      BY <1>2, <1>3, <3>2, <3>3 DEF BoxMoves
    <3> QED BY <3>1, <3>4
  <2> QED BY <1>1, <2>1, <2>2
<1>5. ASSUME e[r] = None, ~Collides(r)
      PROVE  boxV1'[idOf[r]] = s
  <2>1. CASE Ends(r)
    BY <1>2, <1>3, <1>5, <2>1 DEF Ends, s
  <2>2. CASE rstate[r] = "answered"
    <3>1. boxV1[idOf[r]] = s
      BY <1>0, <1>5, <2>2 DEF AnswerInv, s
    <3>2. ASSUME NEW q \in Receivers, rstate[q] = "working"
          PROVE  idOf[q] # idOf[r]
      <4>1. q # r /\ q \in Keys
        BY <2>2, <3>2 DEF Keys
      <4> QED BY <1>5, <4>1 DEF Collides
    <3> QED BY <1>2, <1>3, <3>1, <3>2 DEF BoxV1Moves
  <2> QED BY <1>1, <2>1, <2>2
<1> QED BY <1>1, <1>4, <1>5 DEF s

-----------------------------------------------------------------------------
(* The invariant, and what follows from it.                                 *)
LEMMA StutterInv ==
  Inv /\ UNCHANGED vars => Inv'
BY DEF Inv, vars, clock, mail, receivers, senders, TypeOK, UriInv, ReceiverInv, MailInv,
   Genuine, OwnBox, OpenedInv, FailureExplained, AnswerInv, Collides

(* Every step preserves the invariant.                                      *)
LEMMA NextInv ==
  Inv /\ [Next]_vars => Inv'
<1>1. CASE UNCHANGED vars
  BY <1>1, StutterInv
<1>2. CASE Inv /\ Next
  <2>1. TypeOK /\ UriInv
    BY <1>2 DEF Inv
  <2> QED BY <1>2, <2>1, TypeStep, UriStep, ReceiverInvStep, MailStep, OwnBoxStep, OpenedStep,
             FailureStep, AnswerStep DEF Inv
<1> QED BY <1>1, <1>2

(* The invariant always holds.                                              *)
LEMMA Invariant ==
  Spec => []Inv
<1> QED BY InitInv, NextInv, PTL DEF Spec

(* Whatever is posted, read, answered or restarted, the state keeps its     *)
(* types: every mailbox holds a message, and every sender that goes on has  *)
(* read a URI.                                                              *)
THEOREM TypeCorrect ==
  Spec => []TypeOK
<1>1. Inv => TypeOK
  BY DEF Inv
<1> QED BY <1>1, Invariant, PTL

(* However keys are hashed to mailboxes, and from whatever state a receiver *)
(* polls on: a sender opens nothing but a proposal by the receiver whose    *)
(* URI it used, for its own Original or one that was posted in the clear to *)
(* the mailbox it wrote to.                                                 *)
THEOREM OpenedMine ==
  Spec => []OpenedIsMine
<1>1. Inv => OpenedIsMine
  BY DEF Inv, OpenedInv, OpenedIsMine
<1> QED BY <1>1, Invariant, PTL

(* A receiver works on an Original it was sent: an encrypted one under its  *)
(* own key, or one in the clear that came to its mailbox.                   *)
THEOREM WorksOnOwn ==
  Spec => []WorksOnItsOwn
<1>1. Inv => WorksOnItsOwn
  <2> SUFFICES ASSUME Inv, NEW r \in Receivers, rstate[r] \in {"working", "answered"}
               PROVE  \/ uri[got[r]].rs = r /\ e[r] = got[r]
                      \/ /\ got[r] \in inClear
                         /\ uri[got[r]].path = Push(directory.path, idOf[r])
    BY DEF WorksOnItsOwn
  <2> QED BY DEF Inv, ReceiverInv
<1> QED BY <1>1, Invariant, PTL

(* What a sender has read agrees with what the receiver has, for any URL of *)
(* the directory whose own parameters can be read, and any lifetime.        *)
THEOREM UriCorrect ==
  Spec => []UriAgrees
<1>1. Inv => UriAgrees
  <2> SUFFICES ASSUME Inv, NEW s \in Senders, uri[s] # None, Clean(directory.fragment)
               PROVE  LET u == uri[s] IN
                      /\ u.ohttp = ohttp[u.rs] /\ ~u.noSubst
                      /\ u.path = Push(directory.path, idOf[u.rs])
                      /\ u.exp <= expiry[u.rs] /\ expiry[u.rs] < u.exp + TicksPerSecond
    BY DEF UriAgrees
  <2>1. uri[s].rs \in Receivers /\ expiry[uri[s].rs] \in Nat
    BY DEF Inv, TypeOK, Uris
  <2> QED BY <2>1, SecondsBelow DEF Inv, UriInv
<1> QED BY <1>1, Invariant, PTL

(* An answer to an Original is where its sender looks for it, under a key   *)
(* that opens it or in the v1 column it waits at, unless keys collide.      *)
THEOREM AnswersFound ==
  Spec => []AnswerIsFound
<1>1. Inv => AnswerIsFound
  <2> SUFFICES ASSUME Inv, NEW r \in Receivers, rstate[r] = "answered"
               PROVE  LET s == got[r] IN
                      /\ e[r] = s /\ ~Collides(s) =>
                            /\ box[Join(uri[s].path, idOf[s])[1]] = MessageB(r, s, s)
                            /\ OpensB(MessageB(r, s, s), uri[s].rs, s)
                      /\ e[r] = None /\ ~Collides(r) => boxV1[uri[s].path[1]] = s
    BY DEF AnswerIsFound
  <2>1. /\ got[r] \in Senders /\ uri[got[r]] # None
        /\ uri[got[r]].path = Push(directory.path, idOf[r])
        /\ e[r] = got[r] => uri[got[r]].rs = r
        /\ directory.path = <<>> /\ TypeOK /\ UriInv /\ AnswerInv
    BY DEF Inv, ReceiverInv, TypeOK
  <2>2. /\ Join(uri[got[r]].path, idOf[got[r]])[1] = idOf[got[r]]
        /\ uri[got[r]].path[1] = idOf[r]
    BY <2>1, SenderPaths, ReceiverPaths DEF Keys
  <2> QED BY <2>1, <2>2 DEF AnswerInv, OpensB, MessageB
<1> QED BY <1>1, Invariant, PTL

(* A v2 sender is turned away for a restart of the directory or a URL that  *)
(* leaves no room, finds nothing for a directory at a path, and cannot open *)
(* what it finds for a collision: never for anything else.                  *)
THEOREM FailuresExplained ==
  Spec => []FailureExplained
<1>1. Inv => FailureExplained
  BY DEF Inv
<1> QED BY <1>1, Invariant, PTL

(* However late a POST arrives and an answer to a poll: the Original that a *)
(* receiver works on was encrypted before the session expired, though the   *)
(* sender knows the expiry by whole seconds only.                           *)
THEOREM SealedInTime ==
  Spec => []EncryptedInTime
<1>1. Inv => EncryptedInTime
  <2> SUFFICES ASSUME Inv, NEW r \in Receivers, rstate[r] \in {"working", "answered"},
                      e[r] = got[r], Clean(directory.fragment)
               PROVE  sealedAt[got[r]] <= expiry[r]
    BY DEF EncryptedInTime
  <2> DEFINE s == got[r]
  <2>1. s \in Senders /\ s # None /\ uri[s] # None /\ expiry[r] \in Nat
    BY DEF Inv, ReceiverInv, TypeOK
  <2>2. uri[s].rs = r
    BY <2>1 DEF Inv, ReceiverInv
  <2>3. /\ uri[s].exp = Seconds(expiry[r]) * TicksPerSecond
        /\ sealedAt[s] = 0 \/ sealedAt[s] <= uri[s].exp
    BY <2>1, <2>2 DEF Inv, UriInv
  <2>4. sealedAt[s] \in Nat
    BY <2>1 DEF Inv, TypeOK
  <2> QED BY <2>1, <2>3, <2>4, SecondsBelow
<1> QED BY <1>1, Invariant, PTL
=============================================================================
