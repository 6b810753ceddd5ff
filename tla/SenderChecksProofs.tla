------------------------- MODULE SenderChecksProofs -------------------------
(***************************************************************************)
(* What the sender's checks guarantee, for every Original, policy and      *)
(* proposal.  Each walk keeps a matching of what it has passed: the        *)
(* inductive invariant says so of the elements before at and next, and     *)
(* that a finished walk has matched everything.                            *)
(***************************************************************************)
EXTENDS SenderChecks, TransactionsProofs

LEMMA ListFacts ==
  ASSUME TypeOK
  PROVE  /\ policy.contribution.max \in Nat
         /\ Len(proposal.ins) \in Nat /\ Len(proposal.outs) \in Nat
         /\ Len(original.ins) \in Nat /\ Len(original.outs) \in Nat
         /\ \A i \in 1 .. Len(original.outs) : original.outs[i].value \in Nat
         /\ \A i \in 1 .. Len(proposal.outs) : proposal.outs[i].value \in Nat
<1>1. /\ original.ins \in Seq(Inputs) /\ original.outs \in Seq(Outputs)
      /\ proposal.ins \in Seq(Inputs) /\ proposal.outs \in Seq(Outputs)
  BY DEF TypeOK, Psbts
<1>2. policy.contribution.max \in Nat
  BY DEF TypeOK, Policies, Contributions
<1>3. \A i \in 1 .. Len(original.outs) : original.outs[i] \in Outputs
  BY <1>1
<1>4. \A i \in 1 .. Len(proposal.outs) : proposal.outs[i] \in Outputs
  BY <1>1
<1> QED
  BY <1>1, <1>2, <1>3, <1>4, SMTT(30) DEF Outputs

(* A step of a walk stays in the two lists; a step to another check starts  *)
(* it at the front.                                                         *)
LEMMA GotoTyped ==
  ASSUME TypeOK, NEW check \in Checks \cup {"accepted", "rejected"}, Goto(check)
  PROVE  TypeOK'
BY ListFacts, SMTT(30) DEF TypeOK, Goto, Same, Checks, Within

LEMMA PassTyped ==
  ASSUME TypeOK, NEW matched \in BOOLEAN, Pass(matched), feePaid' \in 0 .. policy.contribution.max,
         \/ InputsLeft /\ (matched => next <= Len(original.ins))
         \/ OutputsLeft /\ (matched => next <= Len(original.outs))
  PROVE  TypeOK'
<1>1. at' = at + 1 /\ next' \in {next, next + 1} /\ pc' = pc
  BY DEF Pass, TypeOK, Within, InputsLeft, OutputsLeft
<1>2. UNCHANGED <<original, policy, proposal>>
  BY DEF Pass, Same
<1>3. CASE InputsLeft /\ (matched => next <= Len(original.ins))
  <2>1. Within(proposal.ins, original.ins)'
    BY <1>1, <1>2, <1>3, ListFacts, SMTT(30) DEF TypeOK, Within, InputsLeft, Pass
  <2> QED
    BY <1>1, <1>2, <1>3, <2>1 DEF TypeOK, InputsLeft
<1>4. CASE OutputsLeft /\ (matched => next <= Len(original.outs))
  <2>1. Within(proposal.outs, original.outs)'
    BY <1>1, <1>2, <1>4, ListFacts DEF TypeOK, Within, OutputsLeft, Pass
  <2> QED
    BY <1>1, <1>2, <1>4, <2>1 DEF TypeOK, OutputsLeft
<1> QED
  BY <1>3, <1>4

(* What a fee output may lose is what was offered.                          *)
LEMMA FeePaidTyped ==
  ASSUME TypeOK, FeeOutput
  PROVE  feePaid' \in 0 .. policy.contribution.max
<1>1. original.outs[next].value \in Nat /\ proposal.outs[at].value \in Nat
  BY ListFacts, SMTT(30) DEF TypeOK, Within, FeeOutput, OutputsLeft, IsFeeOutput, SameScript, Peeked
<1>2. feePaid \in 0 .. policy.contribution.max /\ policy.contribution.max \in Nat
  BY ListFacts DEF TypeOK
<1> DEFINE drop == original.outs[next].value - proposal.outs[at].value
<1>3. CASE drop <= policy.contribution.max
  <2>1. feePaid' = IF drop > 0 THEN drop ELSE feePaid
    BY <1>3 DEF FeeOutput
  <2>2. drop \in Int
    BY <1>1
  <2> HIDE DEF drop
  <2> QED
    BY <1>2, <1>3, <2>1, <2>2
<1>4. CASE ~(drop <= policy.contribution.max)
  BY <1>2, <1>4 DEF FeeOutput, Goto
<1> QED
  BY <1>3, <1>4

LEMMA TypeStep == TypeOK /\ [Next]_vars => TypeOK'
<1> SUFFICES ASSUME TypeOK, [Next]_vars PROVE TypeOK'
  OBVIOUS
<1>0. feePaid \in 0 .. policy.contribution.max
  BY DEF TypeOK
<1>1. CASE BasicChecks
  BY <1>1, GotoTyped DEF BasicChecks, Ensure, Checks
<1>2. CASE OurInput
  BY <1>0, <1>2, GotoTyped, PassTyped DEF OurInput, IsOurs
<1>3. CASE TheirInput
  BY <1>0, <1>3, GotoTyped, PassTyped DEF TheirInput
<1>4. CASE InputsDone
  BY <1>4, GotoTyped DEF InputsDone, Ensure, Checks
<1>5. CASE FeeOutput
  BY <1>5, GotoTyped, PassTyped, FeePaidTyped DEF FeeOutput, IsFeeOutput, SameScript, Peeked
<1>6. CASE PayeeOutput
  BY <1>0, <1>6, GotoTyped, PassTyped DEF PayeeOutput, IsPayee, Peeked
<1>7. CASE OurOutput
  BY <1>0, <1>7, GotoTyped, PassTyped DEF OurOutput, SameScript, Peeked
<1>8. CASE AdditionalOutput
  BY <1>0, <1>8, PassTyped DEF AdditionalOutput
<1>9. CASE OutputsDone
  BY <1>9, GotoTyped DEF OutputsDone, Ensure, Checks
<1>10. CASE CheckFees
  BY <1>10, GotoTyped DEF CheckFees, Ensure, Checks
<1>11. CASE UNCHANGED vars
  BY <1>11 DEF vars, TypeOK, Within
<1> QED
  BY <1>1, <1>2, <1>3, <1>4, <1>5, <1>6, <1>7, <1>8, <1>9, <1>10, <1>11 DEF Next

(* Every reachable state of the checks is well typed, and neither walk      *)
(* leaves its lists.                                                        *)
THEOREM TypeCorrect == Spec => []TypeOK
<1>1. Init => TypeOK
  <2> SUFFICES ASSUME Init PROVE TypeOK
    OBVIOUS
  <2>1. original \in Psbts /\ policy \in Policies /\ proposal \in Psbts
    BY SenderAssumption DEF Init
  <2>2. policy.contribution.max \in Nat
    BY <2>1 DEF Policies, Contributions
  <2> QED
    BY <2>1, <2>2 DEF Init, Start, TypeOK, Checks
<1> QED
  BY <1>1, TypeStep, PTL DEF Spec

-----------------------------------------------------------------------------

(* A matching grows by one element at the end of both lists, or leaves an   *)
(* element of the longer list out.                                          *)
LEMMA PlaceOne ==
  ASSUME NEW n \in Nat, NEW m \in Nat, NEW f \in Places(n, m)
  PROVE  [i \in 1 .. n + 1 |-> IF i <= n THEN f[i] ELSE m + 1] \in Places(n + 1, m + 1)
<1> DEFINE g == [i \in 1 .. n + 1 |-> IF i <= n THEN f[i] ELSE m + 1]
<1>1. \A i \in 1 .. n : f[i] \in 1 .. m
  BY DEF Places
<1>2. g \in [1 .. n + 1 -> 1 .. m + 1]
  BY <1>1
<1>3. ASSUME NEW i \in 1 .. n + 1, NEW j \in 1 .. n + 1, i < j PROVE g[i] < g[j]
  <2>1. i \in 1 .. n /\ g[i] = f[i]
    BY <1>3
  <2>2. CASE j <= n
    BY <1>3, <2>1, <2>2 DEF Places
  <2>3. CASE j = n + 1
    BY <1>1, <2>1, <2>3
  <2> QED
    BY <2>2, <2>3
<1> QED
  BY <1>2, <1>3 DEF Places

LEMMA PlaceMore ==
  ASSUME NEW n \in Nat, NEW m \in Nat, NEW f \in Places(n, m)
  PROVE  f \in Places(n, m + 1)
<1>1. 1 .. m \subseteq 1 .. m + 1
  OBVIOUS
<1> QED
  BY <1>1 DEF Places

LEMMA PlaceNone == [i \in 1 .. 0 |-> 0] \in Places(0, 0)
BY DEF Places

(* The walk over the inputs, one element on.                                *)
LEMMA OursFound ==
  ASSUME NEW n \in Nat, NEW m \in Nat, InputsFound(n, m),
         proposal.ins[m + 1].coin = original.ins[n + 1].coin, ~proposal.ins[m + 1].final
  PROVE  InputsFound(n + 1, m + 1)
<1>1. PICK f \in Places(n, m) :
        /\ \A i \in 1 .. n : proposal.ins[f[i]].coin = original.ins[i].coin
        /\ \A k \in 1 .. m : proposal.ins[k].final <=> \A i \in 1 .. n : f[i] # k
  BY DEF InputsFound
<1> DEFINE g == [i \in 1 .. n + 1 |-> IF i <= n THEN f[i] ELSE m + 1]
<1>2. g \in Places(n + 1, m + 1)
  BY PlaceOne
<1>3. \A i \in 1 .. n : g[i] = f[i] /\ f[i] \in 1 .. m
  BY DEF Places
<1>4. g[n + 1] = m + 1
  OBVIOUS
<1> HIDE DEF g
<1>5. ASSUME NEW i \in 1 .. n + 1 PROVE proposal.ins[g[i]].coin = original.ins[i].coin
  <2>1. CASE i \in 1 .. n
    BY <1>1, <1>3, <2>1
  <2>2. CASE i = n + 1
    BY <1>4, <2>2
  <2> QED
    BY <2>1, <2>2
<1>6. ASSUME NEW k \in 1 .. m + 1
      PROVE  proposal.ins[k].final <=> \A i \in 1 .. n + 1 : g[i] # k
  <2>1. CASE k \in 1 .. m
    <3>1. (\A i \in 1 .. n + 1 : g[i] # k) <=> (\A i \in 1 .. n : f[i] # k)
      BY <1>3, <1>4, <2>1
    <3> QED
      BY <1>1, <2>1, <3>1
  <2>2. CASE k = m + 1
    BY <1>4, <2>2
  <2> QED
    BY <2>1, <2>2
<1> QED
  BY <1>2, <1>5, <1>6 DEF InputsFound

LEMMA TheirsFound ==
  ASSUME NEW n \in Nat, NEW m \in Nat, InputsFound(n, m), proposal.ins[m + 1].final
  PROVE  InputsFound(n, m + 1)
<1>1. PICK f \in Places(n, m) :
        /\ \A i \in 1 .. n : proposal.ins[f[i]].coin = original.ins[i].coin
        /\ \A k \in 1 .. m : proposal.ins[k].final <=> \A i \in 1 .. n : f[i] # k
  BY DEF InputsFound
<1>2. f \in Places(n, m + 1)
  BY PlaceMore
<1>3. \A i \in 1 .. n : f[i] \in 1 .. m
  BY DEF Places
<1>4. ASSUME NEW k \in 1 .. m + 1
      PROVE  proposal.ins[k].final <=> \A i \in 1 .. n : f[i] # k
  <2>1. CASE k \in 1 .. m
    BY <1>1, <2>1
  <2>2. CASE k = m + 1
    BY <1>3, <2>2
  <2> QED
    BY <2>1, <2>2
<1> QED
  BY <1>1, <1>2, <1>4 DEF InputsFound

LEMMA NoneFound == InputsFound(0, 0) /\ OutputsFound(0, 0)
BY PlaceNone DEF InputsFound, OutputsFound

(* The walk over the outputs, one element on.                               *)
LEMMA OutputFound ==
  ASSUME NEW n \in Nat, NEW m \in Nat, OutputsFound(n, m), Kept(n + 1, m + 1)
  PROVE  OutputsFound(n + 1, m + 1)
<1>1. PICK f \in Places(n, m) : \A i \in 1 .. n : Kept(i, f[i])
  BY DEF OutputsFound
<1> DEFINE g == [i \in 1 .. n + 1 |-> IF i <= n THEN f[i] ELSE m + 1]
<1>2. g \in Places(n + 1, m + 1)
  BY PlaceOne
<1>3. \A i \in 1 .. n : g[i] = f[i]
  OBVIOUS
<1>4. g[n + 1] = m + 1
  OBVIOUS
<1> HIDE DEF g
<1>5. ASSUME NEW i \in 1 .. n + 1 PROVE Kept(i, g[i])
  <2>1. CASE i \in 1 .. n
    BY <1>1, <1>3, <2>1
  <2>2. CASE i = n + 1
    BY <1>4, <2>2
  <2> QED
    BY <2>1, <2>2
<1> QED
  BY <1>2, <1>5 DEF OutputsFound

LEMMA OutputAdded ==
  ASSUME NEW n \in Nat, NEW m \in Nat, OutputsFound(n, m)
  PROVE  OutputsFound(n, m + 1)
BY PlaceMore DEF OutputsFound

-----------------------------------------------------------------------------

(* The inductive invariant: what each walk has matched, while it runs and   *)
(* once it is over.                                                         *)
InputsInv ==
    /\ pc = "inputs" => InputsFound(next - 1, at - 1)
    /\ pc \in {"outputs", "fees", "accepted"} =>
          InputsFound(Len(original.ins), Len(proposal.ins))

OutputsInv ==
    /\ pc = "outputs" => OutputsFound(next - 1, at - 1)
    /\ pc \in {"fees", "accepted"} => OutputsFound(Len(original.outs), Len(proposal.outs))

LEMMA SameInputs ==
  ASSUME UNCHANGED <<original, proposal>>, NEW n, NEW m, InputsFound(n, m)
  PROVE  InputsFound(n, m)'
BY DEF InputsFound, Places

LEMMA InputsStep == TypeOK /\ InputsInv /\ [Next]_vars => InputsInv'
<1> SUFFICES ASSUME TypeOK, InputsInv, [Next]_vars PROVE InputsInv'
  OBVIOUS
<1>0. UNCHANGED <<original, proposal>>
  BY DEF Next, vars, BasicChecks, OurInput, TheirInput, InputsDone, FeeOutput, PayeeOutput,
         OurOutput, AdditionalOutput, OutputsDone, CheckFees, Ensure, Goto, Pass, Same
<1>1. CASE BasicChecks
  <2>1. InputsFound(0, 0)'
    BY <1>0, NoneFound, SameInputs
  <2> QED
    BY <1>1, <2>1 DEF BasicChecks, Ensure, Goto, InputsInv
<1>2. CASE OurInput
  <2>1. pc = "inputs" /\ at \in Nat \ {0} /\ next \in Nat \ {0}
    BY <1>2 DEF OurInput, InputsLeft, TypeOK, Within
  <2>2. CASE Goto("rejected")
    BY <2>2 DEF Goto, InputsInv
  <2>3. CASE Pass(TRUE) /\ ~proposal.ins[at].final
    <3>1. InputsFound(next - 1, at - 1)
      BY <2>1 DEF InputsInv
    <3>2. proposal.ins[at].coin = original.ins[next].coin
      BY <1>2 DEF OurInput, IsOurs
    <3>3. /\ next - 1 \in Nat /\ (next - 1) + 1 = next
          /\ at - 1 \in Nat /\ (at - 1) + 1 = at
      BY <2>1
    <3>4. InputsFound(next, at)
      BY <2>3, <3>1, <3>2, <3>3, OursFound
    <3>5. next' - 1 = next /\ at' - 1 = at /\ pc' = "inputs"
      BY <2>1, <2>3 DEF Pass
    <3> QED
      BY <1>0, <3>4, <3>5, SameInputs DEF InputsInv
  <2> QED
    BY <1>2, <2>2, <2>3 DEF OurInput
<1>3. CASE TheirInput
  <2>1. pc = "inputs" /\ at \in Nat \ {0} /\ next \in Nat \ {0}
    BY <1>3 DEF TheirInput, InputsLeft, TypeOK, Within
  <2>2. CASE Goto("rejected")
    BY <2>2 DEF Goto, InputsInv
  <2>3. CASE Pass(FALSE) /\ proposal.ins[at].final
    <3>1. InputsFound(next - 1, at - 1)
      BY <2>1 DEF InputsInv
    <3>2. next - 1 \in Nat /\ at - 1 \in Nat /\ (at - 1) + 1 = at
      BY <2>1
    <3>3. InputsFound(next - 1, at)
      BY <2>3, <3>1, <3>2, TheirsFound
    <3>4. next' = next /\ at' - 1 = at /\ pc' = "inputs"
      BY <2>1, <2>3 DEF Pass
    <3> QED
      BY <1>0, <3>3, <3>4, SameInputs DEF InputsInv
  <2> QED
    BY <1>3, <2>2, <2>3 DEF TheirInput
<1>4. CASE InputsDone
  <2>1. CASE Goto("rejected")
    BY <2>1 DEF Goto, InputsInv
  <2>2. CASE Goto("outputs") /\ next > Len(original.ins)
    <3>1. next - 1 = Len(original.ins) /\ at - 1 = Len(proposal.ins) /\ pc = "inputs"
      BY <1>4, <2>2, ListFacts, SMTT(30) DEF InputsDone, TypeOK, Within
    <3>2. InputsFound(Len(original.ins), Len(proposal.ins))
      BY <3>1 DEF InputsInv
    <3> QED
      BY <1>0, <2>2, <3>2, SameInputs DEF Goto, InputsInv
  <2> QED
    BY <1>4, <2>1, <2>2 DEF InputsDone, Ensure
<1>5. CASE \/ FeeOutput \/ PayeeOutput \/ OurOutput \/ AdditionalOutput \/ OutputsDone
           \/ CheckFees \/ UNCHANGED vars
  <2>1. CASE UNCHANGED vars
    BY <1>0, <2>1, SameInputs DEF vars, InputsInv
  <2>2. CASE ~UNCHANGED vars
    <3>1. pc \in {"outputs", "fees"} /\ pc' \in {"outputs", "fees", "accepted", "rejected"}
      BY <1>5, <2>2 DEF FeeOutput, PayeeOutput, OurOutput, AdditionalOutput, OutputsDone,
                        CheckFees, OutputsLeft, Pass, Goto, Ensure
    <3> QED
      BY <1>0, <3>1, SameInputs DEF InputsInv
  <2> QED
    BY <2>1, <2>2
<1> QED
  BY <1>1, <1>2, <1>3, <1>4, <1>5 DEF Next

(* The sender accepts only what spends all of its inputs, in their order,   *)
(* and besides them only coins the receiver has signed for.                 *)
THEOREM SpendsOurInputs == Spec => []AcceptedSpendsOurInputs
<1>1. Init => InputsInv
  BY DEF Init, Start, InputsInv
<1>2. InputsInv => AcceptedSpendsOurInputs
  BY DEF InputsInv, AcceptedSpendsOurInputs, Accepted
<1> QED
  BY <1>1, <1>2, InputsStep, TypeCorrect, PTL DEF Spec

-----------------------------------------------------------------------------

LEMMA SameOutputs ==
  ASSUME UNCHANGED <<original, policy, proposal, feePaid>>, NEW n, NEW m, OutputsFound(n, m)
  PROVE  OutputsFound(n, m)'
BY DEF OutputsFound, Places, Kept

(* The fee output is matched once, so that what the outputs before it have  *)
(* lost does not depend on what it loses.                                   *)
LEMMA FeeOutputFound ==
  ASSUME NEW n \in Nat, NEW m \in Nat, OutputsFound(n, m),
         UNCHANGED <<original, policy, proposal>>,
         policy.contribution.vout = n + 1,
         proposal.outs[m + 1].script = original.outs[n + 1].script,
         proposal.outs[m + 1].value >= original.outs[n + 1].value - feePaid'
  PROVE  OutputsFound(n + 1, m + 1)'
<1>1. PICK f \in Places(n, m) : \A i \in 1 .. n : Kept(i, f[i])
  BY DEF OutputsFound
<1> DEFINE g == [i \in 1 .. n + 1 |-> IF i <= n THEN f[i] ELSE m + 1]
<1>3. g \in Places(n + 1, m + 1)
  BY PlaceOne
<1>4. (\A i \in 1 .. n : g[i] = f[i]) /\ g[n + 1] = m + 1
  OBVIOUS
<1> HIDE DEF g
<1>5. ASSUME NEW i \in 1 .. n + 1 PROVE Kept(i, g[i])'
  <2>1. CASE i \in 1 .. n
    <3>1. Kept(i, f[i]) /\ g[i] = f[i] /\ i # n + 1
      BY <1>1, <1>4, <2>1
    <3> QED
      BY <3>1 DEF Kept
  <2>2. CASE i = n + 1
    BY <1>4, <2>2 DEF Kept
  <2> QED
    BY <2>1, <2>2
<1> QED
  BY <1>3, <1>5 DEF OutputsFound, Places

LEMMA OutputsStep == TypeOK /\ OutputsInv /\ [Next]_vars => OutputsInv'
<1> SUFFICES ASSUME TypeOK, OutputsInv, [Next]_vars PROVE OutputsInv'
  OBVIOUS
<1>0. UNCHANGED <<original, policy, proposal>>
  BY DEF Next, vars, BasicChecks, OurInput, TheirInput, InputsDone, FeeOutput, PayeeOutput,
         OurOutput, AdditionalOutput, OutputsDone, CheckFees, Ensure, Goto, Pass, Same
<1>1. ASSUME OutputsLeft
      PROVE  /\ pc = "outputs" /\ OutputsFound(next - 1, at - 1)
             /\ at \in Nat \ {0} /\ next \in Nat \ {0}
             /\ next - 1 \in Nat /\ (next - 1) + 1 = next
             /\ at - 1 \in Nat /\ (at - 1) + 1 = at
             /\ proposal.outs[at].value \in Nat
             /\ Peeked => original.outs[next].value \in Nat
             /\ feePaid \in Nat
  <2>1. pc = "outputs" /\ at \in 1 .. Len(proposal.outs) /\ next \in 1 .. Len(original.outs) + 1
    BY <1>1, ListFacts DEF OutputsLeft, TypeOK, Within
  <2>2. /\ OutputsFound(next - 1, at - 1)
        /\ at \in Nat \ {0} /\ next \in Nat \ {0}
        /\ next - 1 \in Nat /\ (next - 1) + 1 = next
        /\ at - 1 \in Nat /\ (at - 1) + 1 = at
    BY <2>1, ListFacts DEF OutputsInv
  <2>3. proposal.outs[at].value \in Nat /\ (Peeked => original.outs[next].value \in Nat)
    BY <2>1, ListFacts DEF TypeOK, Peeked
  <2>4. feePaid \in Nat
    BY ListFacts DEF TypeOK, Policies
  <2> QED
    BY <2>1, <2>2, <2>3, <2>4
<1>2. ASSUME Goto("rejected") PROVE OutputsInv'
  BY <1>2 DEF Goto, OutputsInv
<1>3. CASE BasicChecks \/ OurInput \/ TheirInput
  <2>1. pc' \notin {"outputs", "fees", "accepted"}
    BY <1>3 DEF BasicChecks, OurInput, TheirInput, InputsLeft, Ensure, Goto, Pass
  <2> QED
    BY <2>1 DEF OutputsInv
<1>4. CASE InputsDone
  <2>1. CASE Goto("outputs")
    <3>1. pc' = "outputs" /\ at' - 1 = 0 /\ next' - 1 = 0 /\ UNCHANGED feePaid
      BY <2>1 DEF Goto
    <3>2. OutputsFound(0, 0)'
      BY <1>0, <3>1, NoneFound, SameOutputs
    <3> QED
      BY <3>1, <3>2 DEF OutputsInv
  <2> QED
    BY <1>4, <1>2, <2>1 DEF InputsDone, Ensure
<1>5. ASSUME OutputsLeft, Pass(TRUE), UNCHANGED feePaid, Kept(next, at)
      PROVE  OutputsInv'
  <2>1. OutputsFound(next, at)
    BY <1>1, <1>5, OutputFound
  <2>2. next' - 1 = next /\ at' - 1 = at /\ pc' = "outputs"
    BY <1>1, <1>5 DEF Pass
  <2> QED
    BY <1>0, <1>5, <2>1, <2>2, SameOutputs DEF OutputsInv
<1>6. CASE FeeOutput
  <2>0. OutputsLeft /\ Peeked /\ proposal.outs[at].script = original.outs[next].script
    BY <1>6 DEF FeeOutput, IsFeeOutput, SameScript
  <2> DEFINE drop == original.outs[next].value - proposal.outs[at].value
  <2>1. CASE Pass(TRUE) /\ feePaid' = IF drop > 0 THEN drop ELSE feePaid
    <3>1. policy.contribution.vout = next
      BY <1>6 DEF FeeOutput, IsFeeOutput
    <3> HIDE DEF drop
    <3>2. proposal.outs[at].value \in Nat /\ original.outs[next].value \in Nat /\ feePaid \in Nat
      BY <1>1, <2>0
    <3>3. proposal.outs[at].value >= original.outs[next].value - feePaid'
      BY <2>1, <3>2 DEF drop
    <3>4. PICK n \in Nat, m \in Nat : n = next - 1 /\ m = at - 1
      BY <1>1, <2>0
    <3>5. OutputsFound(n, m) /\ n + 1 = next /\ m + 1 = at
      BY <1>1, <2>0, <3>4
    <3>6. OutputsFound(n + 1, m + 1)'
      BY <1>0, <2>0, <3>1, <3>3, <3>5, FeeOutputFound
    <3>7. next' - 1 = n + 1 /\ at' - 1 = m + 1 /\ pc' = "outputs"
      BY <1>1, <2>0, <2>1, <3>5 DEF Pass
    <3> QED
      BY <3>6, <3>7 DEF OutputsInv
  <2> QED
    BY <1>2, <1>6, <2>1 DEF FeeOutput
<1>7. CASE PayeeOutput
  <2>1. OutputsLeft /\ IsPayee /\ Peeked
    BY <1>7 DEF PayeeOutput, IsPayee
  <2>2. CASE /\ policy.noSubst => SameScript /\ proposal.outs[at].value >= original.outs[next].value
             /\ Pass(TRUE) /\ UNCHANGED feePaid
    <3>1. Kept(next, at)
      BY <1>1, <2>1, <2>2 DEF IsPayee, SameScript, Kept
    <3> QED
      BY <1>5, <2>1, <2>2, <3>1
  <2> QED
    BY <1>2, <1>7, <2>2 DEF PayeeOutput
<1>8. CASE OurOutput
  <2>1. OutputsLeft /\ SameScript /\ Peeked
    BY <1>8 DEF OurOutput, SameScript
  <2>2. CASE /\ proposal.outs[at].value >= original.outs[next].value
             /\ Pass(TRUE) /\ UNCHANGED feePaid
    <3>1. Kept(next, at)
      BY <1>1, <2>1, <2>2 DEF SameScript, Kept
    <3> QED
      BY <1>5, <2>1, <2>2, <3>1
  <2> QED
    BY <1>2, <1>8, <2>2 DEF OurOutput
<1>9. CASE AdditionalOutput
  <2>1. OutputsLeft /\ Pass(FALSE) /\ UNCHANGED feePaid
    BY <1>9 DEF AdditionalOutput
  <2>2. OutputsFound(next - 1, at)
    BY <1>1, <2>1, OutputAdded
  <2>3. next' = next /\ at' - 1 = at /\ pc' = "outputs"
    BY <1>1, <2>1 DEF Pass
  <2> QED
    BY <1>0, <2>1, <2>2, <2>3, SameOutputs DEF OutputsInv
<1>10. CASE OutputsDone
  <2>1. CASE Goto("fees") /\ next > Len(original.outs)
    <3>0. /\ pc = "outputs" /\ at > Len(proposal.outs)
          /\ at \in 1 .. Len(proposal.outs) + 1 /\ next \in 1 .. Len(original.outs) + 1
      BY <1>10 DEF OutputsDone, TypeOK, Within
    <3>1. next - 1 = Len(original.outs) /\ at - 1 = Len(proposal.outs) /\ pc = "outputs"
      BY <2>1, <3>0, ListFacts
    <3>2. OutputsFound(Len(original.outs), Len(proposal.outs))
      BY <3>1 DEF OutputsInv
    <3>3. UNCHANGED feePaid /\ pc' = "fees"
      BY <2>1 DEF Goto
    <3>4. OutputsFound(Len(original.outs), Len(proposal.outs))'
      BY <1>0, <3>2, <3>3, SameOutputs
    <3> QED
      BY <3>3, <3>4 DEF OutputsInv
  <2> QED
    BY <1>2, <1>10, <2>1 DEF OutputsDone, Ensure
<1>11. CASE CheckFees
  <2>1. CASE Goto("accepted")
    BY <1>0, <1>11, <2>1, SameOutputs DEF CheckFees, Goto, OutputsInv
  <2> QED
    BY <1>2, <1>11, <2>1 DEF CheckFees, Ensure
<1>12. CASE UNCHANGED vars
  BY <1>0, <1>12, SameOutputs DEF vars, OutputsInv
<1> QED
  BY <1>3, <1>4, <1>6, <1>7, <1>8, <1>9, <1>10, <1>11, <1>12 DEF Next

(* What the fee output lost is what the last check has held to the fee.     *)
FeeInv == pc = "accepted" => feePaid <= Fee(proposal) - Fee(original)

LEMMA FeeStep == FeeInv /\ [Next]_vars => FeeInv'
<1> SUFFICES ASSUME FeeInv, [Next]_vars PROVE FeeInv'
  OBVIOUS
<1>1. CASE CheckFees
  <2>1. CASE Goto("rejected")
    BY <2>1 DEF Goto, FeeInv
  <2>2. CASE Goto("accepted") /\ feePaid <= Fee(proposal) - Fee(original)
    <3>1. UNCHANGED <<original, proposal, feePaid>>
      BY <2>2 DEF Goto, Same
    <3>2. Fee(proposal)' = Fee(proposal) /\ Fee(original)' = Fee(original)
      BY <3>1
    <3> QED
      BY <2>2, <3>1, <3>2 DEF FeeInv
  <2> QED
    BY <1>1, <2>1, <2>2 DEF CheckFees, Ensure
<1>2. CASE \/ BasicChecks \/ OurInput \/ TheirInput \/ InputsDone
           \/ FeeOutput \/ PayeeOutput \/ OurOutput \/ AdditionalOutput \/ OutputsDone
  <2>1. pc' # "accepted"
    BY <1>2 DEF BasicChecks, OurInput, TheirInput, InputsDone, FeeOutput, PayeeOutput, OurOutput,
                AdditionalOutput, OutputsDone, InputsLeft, OutputsLeft, Pass, Goto, Ensure
  <2> QED
    BY <2>1 DEF FeeInv
<1>3. CASE UNCHANGED vars
  BY <1>3 DEF vars, FeeInv
<1> QED
  BY <1>1, <1>2, <1>3 DEF Next

(* The sender accepts only what keeps all of its outputs, in their order    *)
(* and their value, but for the fee output, which has lost no more than was *)
(* offered and than the fee has grown by.                                   *)
THEOREM KeepsOutputs == Spec => []AcceptedKeepsOutputs
<1>1. Init => OutputsInv /\ FeeInv
  BY DEF Init, Start, OutputsInv, FeeInv
<1>2. TypeOK /\ OutputsInv /\ FeeInv => AcceptedKeepsOutputs
  <2> SUFFICES ASSUME TypeOK, OutputsInv, FeeInv, pc = "accepted"
               PROVE  /\ OutputsFound(Len(original.outs), Len(proposal.outs))
                      /\ feePaid <= policy.contribution.max
                      /\ feePaid <= Fee(proposal) - Fee(original)
    BY DEF AcceptedKeepsOutputs, Accepted
  <2>1. feePaid <= policy.contribution.max
    BY ListFacts DEF TypeOK
  <2> QED
    BY <2>1 DEF OutputsInv, FeeInv
<1> QED
  BY <1>1, <1>2, OutputsStep, FeeStep, TypeCorrect, PTL DEF Spec

-----------------------------------------------------------------------------

(* What the first k outputs of a list pay to the sender.                    *)
PaidFirst(outs, k) == SumOf(Pays(OurScripts), First(outs, k))

LEMMA PaidToIsSum ==
  ASSUME NEW tx \in Psbts, NEW scripts
  PROVE  PaidTo(tx, scripts) = SumOf(Pays(scripts), tx.outs)
<1>1. tx.outs \in Seq(Outputs)
  BY DEF Psbts
<1>2. \A i \in DOMAIN tx.outs : tx.outs[i] \in Outputs
  BY <1>1
<1>3. Values(Pays(scripts), tx.outs)
      = [i \in DOMAIN tx.outs |->
            IF tx.outs[i].script \in scripts THEN tx.outs[i].value ELSE 0]
  BY <1>2 DEF Values, Pays
<1> QED
  BY <1>3 DEF PaidTo, Total, SumOf

LEMMA PaidInt ==
  ASSUME NEW tx \in Psbts, NEW scripts
  PROVE  PaidTo(tx, scripts) \in Nat
<1>1. tx.outs \in Seq(Outputs)
  BY DEF Psbts
<1> QED
  BY <1>1, PaidToIsSum, PaysNat, SumOfNat

(* What the sender has lost so far is the fee it has paid so far, and       *)
(* before the walk reaches the fee output that is nothing.                  *)
LossInv ==
    /\ pc \in {"basic", "inputs"} => feePaid = 0
    /\ pc = "outputs" =>
          /\ PaidFirst(original.outs, next - 1) - PaidFirst(proposal.outs, at - 1) <= feePaid
          /\ next <= policy.contribution.vout => feePaid = 0
    /\ pc \in {"fees", "accepted"} =>
          PaidTo(original, OurScripts) - PaidTo(proposal, OurScripts) <= feePaid

LEMMA FirstGrows ==
  ASSUME NEW outs \in Seq(Outputs), NEW k \in 1 .. Len(outs)
  PROVE  /\ PaidFirst(outs, k - 1) \in Int
         /\ Pays(OurScripts)[outs[k]] \in Nat
         /\ PaidFirst(outs, k) = PaidFirst(outs, k - 1) + Pays(OurScripts)[outs[k]]
<1> DEFINE F == Pays(OurScripts)
<1>1. F \in [Outputs -> Nat] /\ F \in [Outputs -> Int]
  BY PaysNat
<1> HIDE DEF F
<1>2. PICK j \in 0 .. Len(outs) - 1 : j = k - 1 /\ j + 1 = k
  OBVIOUS
<1>3. SumOf(F, First(outs, j)) \in Int
  BY <1>1, SumOfFirst
<1>4. SumOf(F, First(outs, j + 1)) = SumOf(F, First(outs, j)) + F[outs[j + 1]]
  BY <1>1, SumOfFirst
<1>5. F[outs[k]] \in Nat
  BY <1>1
<1> QED
  BY <1>2, <1>3, <1>4, <1>5 DEF PaidFirst, F

LEMMA SameLoss ==
  ASSUME UNCHANGED <<original, policy, proposal>>
  PROVE  /\ PaidFirst(original.outs, next - 1)' = PaidFirst(original.outs, next' - 1)
         /\ PaidFirst(proposal.outs, at - 1)' = PaidFirst(proposal.outs, at' - 1)
         /\ PaidTo(original, OurScripts)' = PaidTo(original, OurScripts)
         /\ PaidTo(proposal, OurScripts)' = PaidTo(proposal, OurScripts)
<1>1. OurScripts' = OurScripts
  BY DEF OurScripts
<1>2. PaidFirst(original.outs, next - 1)' = PaidFirst(original.outs, next' - 1)
  BY <1>1 DEF PaidFirst
<1>3. PaidFirst(proposal.outs, at - 1)' = PaidFirst(proposal.outs, at' - 1)
  BY <1>1 DEF PaidFirst
<1>4. PaidTo(original, OurScripts)' = PaidTo(original, OurScripts)
  BY <1>1
<1>5. PaidTo(proposal, OurScripts)' = PaidTo(proposal, OurScripts)
  BY <1>1
<1> QED
  BY <1>2, <1>3, <1>4, <1>5

(* An arm that passes keeps the invariant when the fee paid grows by what   *)
(* its pair of outputs loses.                                               *)
LEMMA LossPass ==
  ASSUME TypeOK, LossInv, OutputsLeft, NEW matched \in BOOLEAN, Pass(matched),
         feePaid' \in Nat, feePaid <= feePaid',
         matched => /\ Peeked
                    /\ Pays(OurScripts)[original.outs[next]]
                          - Pays(OurScripts)[proposal.outs[at]] <= feePaid' - feePaid,
         next' <= policy.contribution.vout => feePaid' = 0
  PROVE  LossInv'
<1> DEFINE lost == PaidFirst(original.outs, next - 1)
           had  == PaidFirst(proposal.outs, at - 1)
<1>1. pc = "outputs" /\ at \in 1 .. Len(proposal.outs) /\ next \in 1 .. Len(original.outs) + 1
  BY ListFacts DEF OutputsLeft, TypeOK, Within
<1>2. proposal.outs \in Seq(Outputs) /\ original.outs \in Seq(Outputs)
  BY DEF TypeOK, Psbts
<1>3. lost - had <= feePaid
  BY <1>1 DEF LossInv
<1>4. /\ had \in Int /\ Pays(OurScripts)[proposal.outs[at]] \in Nat
      /\ PaidFirst(proposal.outs, at) = had + Pays(OurScripts)[proposal.outs[at]]
  BY <1>1, <1>2, FirstGrows
<1>5. UNCHANGED <<original, policy, proposal>> /\ pc' = "outputs" /\ at' = at + 1
  BY <1>1 DEF Pass, Same
<1>6. feePaid \in Nat
  BY ListFacts DEF TypeOK
<1>7. at' - 1 = at
  BY <1>1, <1>5
<1>8. lost \in Int
  <2>1. CASE next \in 1 .. Len(original.outs)
    BY <1>2, <2>1, FirstGrows
  <2>2. CASE next = Len(original.outs) + 1
    <3>1. next - 1 = Len(original.outs)
      BY <1>2, <2>2, ListFacts
    <3>2. Pays(OurScripts) \in [Outputs -> Int]
      BY PaysNat
    <3>3. SumOf(Pays(OurScripts), original.outs) \in Int
      BY <1>2, <3>2, SumOfType
    <3> QED
      BY <1>2, <3>1, <3>2, <3>3, SumOfFirst DEF PaidFirst
  <2> QED
    BY <1>1, <2>1, <2>2
<1>9. CASE matched
  <2>1. next \in 1 .. Len(original.outs) /\ next' - 1 = next
    BY <1>1, <1>9, ListFacts DEF Peeked, Pass
  <2>2. /\ Pays(OurScripts)[original.outs[next]] \in Nat
        /\ PaidFirst(original.outs, next) = lost + Pays(OurScripts)[original.outs[next]]
    BY <1>2, <2>1, FirstGrows
  <2> HIDE DEF lost, had
  <2>3. PaidFirst(original.outs, next) - PaidFirst(proposal.outs, at) <= feePaid'
    BY <1>3, <1>4, <1>6, <1>8, <1>9, <2>2
  <2>4. (PaidFirst(original.outs, next - 1) - PaidFirst(proposal.outs, at - 1) <= feePaid)'
    BY <1>5, <1>7, <2>1, <2>3, SameLoss
  <2> QED
    BY <1>5, <2>4 DEF LossInv
<1>10. CASE ~matched
  <2>1. next' - 1 = next - 1
    BY <1>1, <1>10 DEF Pass
  <2> HIDE DEF had
  <2>3. lost - PaidFirst(proposal.outs, at) <= feePaid'
    BY <1>3, <1>4, <1>6, <1>8
  <2>4. (PaidFirst(original.outs, next - 1) - PaidFirst(proposal.outs, at - 1) <= feePaid)'
    BY <1>5, <1>7, <2>1, <2>3, SameLoss
  <2> QED
    BY <1>5, <2>4 DEF LossInv
<1> QED
  BY <1>9, <1>10

LEMMA LossStep == TypeOK /\ LossInv /\ [Next]_vars => LossInv'
<1> SUFFICES ASSUME TypeOK, LossInv, [Next]_vars PROVE LossInv'
  OBVIOUS
<1>0. UNCHANGED <<original, policy, proposal>>
  BY DEF Next, vars, BasicChecks, OurInput, TheirInput, InputsDone, FeeOutput, PayeeOutput,
         OurOutput, AdditionalOutput, OutputsDone, CheckFees, Ensure, Goto, Pass, Same
<1>1. ASSUME Goto("rejected") PROVE LossInv'
  BY <1>1 DEF Goto, LossInv
<1>2. ASSUME OutputsLeft
      PROVE  /\ proposal.outs[at] \in Outputs /\ proposal.outs[at].value \in Nat
             /\ Peeked => original.outs[next] \in Outputs /\ original.outs[next].value \in Nat
             /\ feePaid \in Nat /\ at \in Nat /\ next \in Nat /\ pc = "outputs"
             /\ policy.contribution.vout \in Nat
             /\ Pays(OurScripts)[proposal.outs[at]]
                = IF proposal.outs[at].script \in OurScripts THEN proposal.outs[at].value ELSE 0
             /\ Peeked => Pays(OurScripts)[original.outs[next]]
                = IF original.outs[next].script \in OurScripts
                  THEN original.outs[next].value ELSE 0
  <2>1. pc = "outputs" /\ at \in 1 .. Len(proposal.outs) /\ next \in 1 .. Len(original.outs) + 1
    BY <1>2, ListFacts DEF OutputsLeft, TypeOK, Within
  <2>2. proposal.outs \in Seq(Outputs) /\ original.outs \in Seq(Outputs)
    BY DEF TypeOK, Psbts
  <2>3. proposal.outs[at] \in Outputs /\ (Peeked => original.outs[next] \in Outputs)
    BY <2>1, <2>2, ListFacts DEF Peeked
  <2>4. /\ proposal.outs[at].value \in Nat
        /\ Peeked => original.outs[next].value \in Nat
    BY <2>3 DEF Outputs
  <2>5. feePaid \in Nat /\ policy.contribution.vout \in Nat
    BY ListFacts DEF TypeOK, Policies, Contributions
  <2> QED
    BY <2>1, <2>3, <2>4, <2>5, ListFacts DEF Pays
<1>3. CASE BasicChecks
  BY <1>3 DEF BasicChecks, Ensure, Goto, LossInv
<1>4. CASE OurInput \/ TheirInput
  <2>1. pc = "inputs" /\ pc' \in {"inputs", "rejected"} /\ UNCHANGED feePaid
    BY <1>4 DEF OurInput, TheirInput, InputsLeft, Goto, Pass
  <2> QED
    BY <2>1 DEF LossInv
<1>5. CASE InputsDone
  <2>1. CASE Goto("outputs")
    <3>1. feePaid = 0 /\ feePaid' = 0 /\ pc' = "outputs" /\ at' - 1 = 0 /\ next' - 1 = 0
      BY <1>5, <2>1 DEF InputsDone, Goto, LossInv
    <3>2. proposal.outs \in Seq(Outputs) /\ original.outs \in Seq(Outputs)
      BY DEF TypeOK, Psbts
    <3>3. Pays(OurScripts) \in [Outputs -> Int]
      BY PaysNat
    <3>4. PaidFirst(original.outs, 0) = 0 /\ PaidFirst(proposal.outs, 0) = 0
      BY <3>2, <3>3, SumOfFirst DEF PaidFirst
    <3>5. (PaidFirst(original.outs, next - 1) - PaidFirst(proposal.outs, at - 1) <= feePaid)'
      BY <1>0, <3>1, <3>4, SameLoss
    <3> QED
      BY <3>1, <3>5 DEF LossInv
  <2> QED
    BY <1>1, <1>5, <2>1 DEF InputsDone, Ensure
<1>6. CASE FeeOutput
  <2>1. OutputsLeft /\ Peeked /\ proposal.outs[at].script = original.outs[next].script
        /\ next = policy.contribution.vout
    BY <1>6 DEF FeeOutput, IsFeeOutput, SameScript
  <2> DEFINE drop == original.outs[next].value - proposal.outs[at].value
  <2>2. CASE Pass(TRUE) /\ feePaid' = IF drop > 0 THEN drop ELSE feePaid
    <3>1. feePaid = 0
      BY <1>2, <2>1 DEF LossInv
    <3>2. drop \in Int
      BY <1>2, <2>1
    <3>3. Pays(OurScripts)[original.outs[next]] - Pays(OurScripts)[proposal.outs[at]]
          \in {0, drop}
      BY <1>2, <2>1
    <3>4. next' = next + 1
      BY <2>2 DEF Pass
    <3>5. ~(next' <= policy.contribution.vout)
      BY <1>2, <2>1, <3>4
    <3> HIDE DEF drop
    <3>6. feePaid' \in Nat /\ feePaid <= feePaid' /\ 0 <= feePaid' - feePaid
          /\ drop <= feePaid' - feePaid
      BY <2>2, <3>1, <3>2
    <3>7. Pays(OurScripts)[original.outs[next]] - Pays(OurScripts)[proposal.outs[at]]
          <= feePaid' - feePaid
      BY <3>3, <3>6
    <3> QED
      BY <2>1, <2>2, <3>5, <3>6, <3>7, LossPass
  <2> QED
    BY <1>1, <1>6, <2>2 DEF FeeOutput
<1>7. ASSUME OutputsLeft, Pass(TRUE), UNCHANGED feePaid, Peeked,
             \/ original.outs[next].script = policy.payee
             \/ /\ proposal.outs[at].script = original.outs[next].script
                /\ proposal.outs[at].value >= original.outs[next].value
      PROVE  LossInv'
  <2>1. Pays(OurScripts)[original.outs[next]] - Pays(OurScripts)[proposal.outs[at]] <= 0
    <3>1. CASE original.outs[next].script = policy.payee
      <4>1. original.outs[next].script \notin OurScripts
        BY <3>1 DEF OurScripts
      <4> QED
        BY <1>2, <1>7, <4>1
    <3>2. CASE /\ proposal.outs[at].script = original.outs[next].script
               /\ proposal.outs[at].value >= original.outs[next].value
      BY <1>2, <1>7, <3>2
    <3> QED
      BY <1>7, <3>1, <3>2
  <2>2. next' = next + 1 /\ feePaid \in Nat /\ feePaid' = feePaid /\ feePaid' - feePaid = 0
    BY <1>2, <1>7 DEF Pass
  <2>3. next' <= policy.contribution.vout => feePaid' = 0
    BY <1>2, <1>7, <2>2 DEF LossInv
  <2>4. /\ feePaid' \in Nat /\ feePaid <= feePaid'
        /\ Pays(OurScripts)[original.outs[next]] - Pays(OurScripts)[proposal.outs[at]]
           <= feePaid' - feePaid
    BY <2>1, <2>2
  <2> QED
    BY <1>7, <2>3, <2>4, LossPass
<1>8. CASE PayeeOutput
  <2>1. OutputsLeft /\ Peeked /\ original.outs[next].script = policy.payee
    BY <1>8 DEF PayeeOutput, IsPayee
  <2>2. Goto("rejected") \/ (Pass(TRUE) /\ UNCHANGED feePaid)
    BY <1>8 DEF PayeeOutput
  <2> QED
    BY <1>1, <1>7, <2>1, <2>2
<1>9. CASE OurOutput
  <2>1. OutputsLeft /\ Peeked /\ proposal.outs[at].script = original.outs[next].script
    BY <1>9 DEF OurOutput, SameScript
  <2>2. \/ Goto("rejected")
        \/ proposal.outs[at].value >= original.outs[next].value /\ Pass(TRUE) /\ UNCHANGED feePaid
    BY <1>9 DEF OurOutput
  <2> QED
    BY <1>1, <1>7, <2>1, <2>2
<1>10. CASE AdditionalOutput
  <2>1. OutputsLeft /\ Pass(FALSE) /\ UNCHANGED feePaid
    BY <1>10 DEF AdditionalOutput
  <2>2. next' = next /\ feePaid \in Nat /\ feePaid' = feePaid
    BY <1>2, <2>1 DEF Pass
  <2>3. next' <= policy.contribution.vout => feePaid' = 0
    BY <1>2, <2>1, <2>2 DEF LossInv
  <2>4. feePaid' \in Nat /\ feePaid <= feePaid'
    BY <2>2
  <2> QED
    BY <2>1, <2>3, <2>4, LossPass
<1>11. CASE OutputsDone
  <2>1. CASE Goto("fees") /\ next > Len(original.outs)
    <3>0. /\ pc = "outputs" /\ at > Len(proposal.outs)
          /\ at \in 1 .. Len(proposal.outs) + 1 /\ next \in 1 .. Len(original.outs) + 1
      BY <1>11 DEF OutputsDone, TypeOK, Within
    <3>1. next - 1 = Len(original.outs) /\ at - 1 = Len(proposal.outs)
      BY <2>1, <3>0, ListFacts
    <3>2. /\ proposal \in Psbts /\ original \in Psbts
          /\ proposal.outs \in Seq(Outputs) /\ original.outs \in Seq(Outputs)
      BY DEF TypeOK, Psbts
    <3>3. Pays(OurScripts) \in [Outputs -> Int]
      BY PaysNat
    <3>4. /\ PaidFirst(original.outs, Len(original.outs)) = PaidTo(original, OurScripts)
          /\ PaidFirst(proposal.outs, Len(proposal.outs)) = PaidTo(proposal, OurScripts)
      BY <3>2, <3>3, SumOfFirst, PaidToIsSum DEF PaidFirst
    <3>5. PaidTo(original, OurScripts) - PaidTo(proposal, OurScripts) <= feePaid
      BY <3>0, <3>1, <3>4 DEF LossInv
    <3> QED
      BY <1>0, <2>1, <3>5, SameLoss DEF Goto, LossInv
  <2> QED
    BY <1>1, <1>11, <2>1 DEF OutputsDone, Ensure
<1>12. CASE CheckFees
  <2>1. CASE Goto("accepted")
    BY <1>0, <1>12, <2>1, SameLoss DEF CheckFees, Goto, LossInv
  <2> QED
    BY <1>1, <1>12, <2>1 DEF CheckFees, Ensure
<1>13. CASE UNCHANGED vars
  BY <1>0, <1>13, SameLoss DEF vars, LossInv
<1> QED
  BY <1>3, <1>4, <1>5, <1>6, <1>8, <1>9, <1>10, <1>11, <1>12, <1>13 DEF Next

(* Whatever outputs a proposal moves, merges, splits or adds, an accepted   *)
(* one leaves the sender all it had but for the contribution it offered,    *)
(* and what it loses goes to the miners.                                    *)
THEOREM LosesAtMostOffer == Spec => []SenderLosesAtMostOffer
<1>1. Init => LossInv /\ FeeInv
  BY DEF Init, Start, LossInv, FeeInv
<1>2. TypeOK /\ LossInv /\ FeeInv => SenderLosesAtMostOffer
  <2> SUFFICES ASSUME TypeOK, LossInv, FeeInv, pc = "accepted"
               PROVE  LET loss == PaidTo(original, OurScripts) - PaidTo(proposal, OurScripts)
                      IN  /\ loss <= policy.contribution.max
                          /\ loss <= Fee(proposal) - Fee(original)
    BY DEF SenderLosesAtMostOffer, Accepted
  <2> DEFINE loss == PaidTo(original, OurScripts) - PaidTo(proposal, OurScripts)
             more == Fee(proposal) - Fee(original)
  <2>1. loss <= feePaid
    BY DEF LossInv
  <2>2. feePaid <= more
    BY DEF FeeInv
  <2>3. feePaid <= policy.contribution.max /\ feePaid \in Nat /\ policy.contribution.max \in Nat
    BY ListFacts DEF TypeOK
  <2>4. loss \in Int
    BY PaidInt DEF TypeOK
  <2>5. more \in Int
    BY FeeInt DEF TypeOK
  <2> HIDE DEF loss, more
  <2>6. loss <= policy.contribution.max /\ loss <= more
    BY <2>1, <2>2, <2>3, <2>4, <2>5
  <2> QED
    BY <2>6 DEF loss, more
<1> QED
  BY <1>1, <1>2, LossStep, FeeStep, TypeCorrect, PTL DEF Spec
=============================================================================
