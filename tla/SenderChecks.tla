---------------------------- MODULE SenderChecks ----------------------------
(***************************************************************************)
(* The sender's checks of a payjoin proposal: PsbtContext::process_proposal*)
(* of payjoin/src/send/mod.rs, one action per arm of the loops over the    *)
(* proposal's inputs and outputs.  Both loops peek at the next of the      *)
(* original's inputs or outputs and move on when they have matched it.     *)
(***************************************************************************)
EXTENDS SenderBuilder

CONSTANTS
    Offers,   \* Originals with the policies their proposals are checked against
    Answers   \* the proposals that may come back, by Original

ASSUME SenderAssumption ==
    \A o \in Offers : /\ o.original \in Psbts /\ o.policy \in Policies
                      /\ Answers[o.original] \subseteq Psbts

VARIABLES
    original,     \* the Original PSBT
    policy,       \* what the sender offered
    proposal,     \* the payjoin proposal
    pc,           \* which of the checks is running
    at,           \* the input or output of the proposal that is looked at
    next,         \* the one of the original that is peeked at
    feePaid       \* contributed_fee

vars == <<original, policy, proposal, pc, at, next, feePaid>>

(* The checks in their order, and their two results.                        *)
Checks == {"basic", "inputs", "outputs", "fees"}

Start == pc = "basic" /\ at = 1 /\ next = 1 /\ feePaid = 0

Init ==
    /\ \E o \in Offers : original = o.original /\ policy = o.policy
    /\ proposal \in Answers[original]
    /\ Start

(* How far a walk over the proposal's list and the original's has come.     *)
Within(list, old) == at \in 1 .. Len(list) + 1 /\ next \in 1 .. Len(old) + 1

TypeOK ==
    /\ original \in Psbts /\ proposal \in Psbts /\ policy \in Policies
    /\ pc \in Checks \cup {"accepted", "rejected"}
    /\ pc = "inputs" => Within(proposal.ins, original.ins)
    /\ pc = "outputs" => Within(proposal.outs, original.outs)
    /\ pc \notin {"inputs", "outputs"} => at = 1 /\ next = 1
    /\ feePaid \in 0 .. policy.contribution.max

-----------------------------------------------------------------------------

Same == UNCHANGED <<original, policy, proposal>>

(* Go on with the next check, or to a result.                               *)
Goto(check) == pc' = check /\ at' = 1 /\ next' = 1 /\ UNCHANGED feePaid /\ Same

(* The end of a check: on to the next one if ok, else the proposal is out.  *)
Ensure(ok, check) == Goto(IF ok THEN check ELSE "rejected")

(* An element of the proposal passes, and matches the original's or not.    *)
Pass(matched) ==
    /\ at' = at + 1
    /\ next' = next + (IF matched THEN 1 ELSE 0)
    /\ UNCHANGED pc /\ Same

BasicChecks ==
    /\ pc = "basic"
    /\ Ensure(proposal.header = original.header, "inputs")

InputsLeft == pc = "inputs" /\ at <= Len(proposal.ins)

IsOurs ==
    /\ next <= Len(original.ins)
    /\ proposal.ins[at].coin = original.ins[next].coin

(* The sender's input: its sequence kept, its signature removed.            *)
OurInput ==
    /\ InputsLeft /\ IsOurs
    /\ LET in == proposal.ins[at] IN
          IF in.seq = original.ins[next].seq /\ ~in.final
          THEN Pass(TRUE) /\ UNCHANGED feePaid
          ELSE Goto("rejected")

(* Mutant: an input that does not match the next of ours is skipped over. *)
TheirInputOrOurs ==
    /\ InputsLeft /\ ~IsOurs
    /\ Pass(next <= Len(original.ins)) /\ UNCHANGED feePaid

(* The receiver's input: signed, with the sequence of the first of ours.    *)
TheirInput ==
    /\ InputsLeft /\ ~IsOurs
    /\ LET in == proposal.ins[at] IN
          IF in.final /\ in.seq = original.ins[1].seq
          THEN Pass(FALSE) /\ UNCHANGED feePaid
          ELSE Goto("rejected")

InputsDone ==
    /\ pc = "inputs" /\ at > Len(proposal.ins)
    /\ Ensure(next > Len(original.ins), "outputs")

-----------------------------------------------------------------------------

OutputsLeft == pc = "outputs" /\ at <= Len(proposal.outs)

Peeked   == next <= Len(original.outs)
SameScript == Peeked /\ proposal.outs[at].script = original.outs[next].script
IsFeeOutput == SameScript /\ next = policy.contribution.vout
IsPayee     == Peeked /\ original.outs[next].script = policy.payee

(* Mutant: the fee output may fall by any amount. *)
FeeOutputUnlimited ==
    /\ OutputsLeft /\ IsFeeOutput
    /\ Pass(TRUE)
    /\ feePaid' = IF proposal.outs[at].value < original.outs[next].value
                  THEN original.outs[next].value - proposal.outs[at].value
                  ELSE feePaid

(* The fee output: it may fall by the contribution.                         *)
FeeOutput ==
    /\ OutputsLeft /\ IsFeeOutput
    /\ LET drop == original.outs[next].value - proposal.outs[at].value IN
          IF drop <= policy.contribution.max
          THEN Pass(TRUE) /\ feePaid' = IF drop > 0 THEN drop ELSE feePaid
          ELSE Goto("rejected")

(* Mutant: only the script of the payee's output is held to. *)
PayeeOutputOfAnyValue ==
    /\ OutputsLeft /\ ~IsFeeOutput /\ IsPayee
    /\ IF policy.noSubst /\ ~SameScript THEN Goto("rejected")
       ELSE Pass(TRUE) /\ UNCHANGED feePaid

(* The payee's output: without substitution, its script and value are kept; *)
(* with it, whatever is in its place stands for it.                         *)
PayeeOutput ==
    /\ OutputsLeft /\ ~IsFeeOutput /\ IsPayee
    /\ IF policy.noSubst =>
              SameScript /\ proposal.outs[at].value >= original.outs[next].value
       THEN Pass(TRUE) /\ UNCHANGED feePaid
       ELSE Goto("rejected")

(* Another output of the sender's: it may not fall.                         *)
OurOutput ==
    /\ OutputsLeft /\ ~IsFeeOutput /\ ~IsPayee /\ SameScript
    /\ IF proposal.outs[at].value >= original.outs[next].value
       THEN Pass(TRUE) /\ UNCHANGED feePaid
       ELSE Goto("rejected")

AdditionalOutput ==
    /\ OutputsLeft /\ ~IsPayee /\ ~SameScript
    /\ Pass(FALSE) /\ UNCHANGED feePaid

OutputsDone ==
    /\ pc = "outputs" /\ at > Len(proposal.outs)
    /\ Ensure(next > Len(original.outs), "fees")

(* The weight of the inputs that spend none of the original's scripts.      *)
TheirWeight ==
    Total(LAMBDA i : IF i.script \in SpentScripts(original) THEN 0 ELSE InWeight[i.script],
          proposal.ins)

(* Mutant: a contribution need not reach the miners. *)
CheckFeesLoosely ==
    /\ pc = "fees"
    /\ Ensure(Fee(original) <= Fee(proposal), "accepted")

CheckFees ==
    /\ pc = "fees"
    /\ Ensure(/\ Fee(original) <= Fee(proposal)
              /\ feePaid <= Fee(proposal) - Fee(original)
              /\ feePaid <= FeeAt(RateOf(Fee(original), Weight(original)), TheirWeight)
              /\ policy.minRate > 0 =>
                    RateOf(Fee(proposal), Weight(proposal)) >= policy.minRate,
              "accepted")

Next ==
    \/ BasicChecks
    \/ OurInput \/ TheirInput \/ InputsDone
    \/ FeeOutput \/ PayeeOutput \/ OurOutput \/ AdditionalOutput \/ OutputsDone
    \/ CheckFees

Spec == Init /\ [][Next]_vars

Accepted == pc = "accepted"
Rejected == pc = "rejected"

-----------------------------------------------------------------------------

(* The first n of the original's elements stand, in their order, among the  *)
(* first m of the proposal's, where f says.                                 *)
Places(n, m) ==
    {f \in [1 .. n -> 1 .. m] : \A i, j \in 1 .. n : i < j => f[i] < f[j]}

InputsFound(n, m) ==
    \E f \in Places(n, m) :
        /\ \A i \in 1 .. n : proposal.ins[f[i]].coin = original.ins[i].coin
        /\ \A k \in 1 .. m : proposal.ins[k].final <=> \A i \in 1 .. n : f[i] # k

(* The sender signs only what spends every one of its inputs, in their      *)
(* order, and what spends besides only coins the receiver has signed for:   *)
(* the peekable walk of check_inputs loses none and takes none for another. *)
AcceptedSpendsOurInputs ==
    Accepted => InputsFound(Len(original.ins), Len(proposal.ins))

(* What the proposal's output k makes of the original's output i.           *)
Kept(i, k) ==
    LET old == original.outs[i]
        new == proposal.outs[k]
    IN \/ /\ new.script = old.script
          /\ new.value >= old.value - (IF i = policy.contribution.vout THEN feePaid ELSE 0)
       \/ old.script = policy.payee /\ ~policy.noSubst

OutputsFound(n, m) == \E f \in Places(n, m) : \A i \in 1 .. n : Kept(i, f[i])

(* An accepted proposal has all of the original's outputs, in their order,  *)
(* none of them worth less: but for the payee's where substitution is       *)
(* allowed, and for the fee output, which has lost no more than was offered *)
(* and than the fee has grown by.  The receiver's own outputs may stand     *)
(* between them.                                                            *)
AcceptedKeepsOutputs ==
    Accepted => /\ OutputsFound(Len(original.outs), Len(proposal.outs))
                /\ feePaid <= policy.contribution.max
                /\ feePaid <= Fee(proposal) - Fee(original)

OurScripts == {original.outs[i].script : i \in DOMAIN original.outs} \ {policy.payee}

PaidTo(tx, scripts) ==
    Total(LAMBDA o : IF o.script \in scripts THEN o.value ELSE 0, tx.outs)

(* Whatever outputs a proposal moves, merges, splits or adds, an accepted   *)
(* one leaves the sender all it had but for the contribution it offered,    *)
(* and what the sender loses goes to the miners, not to the receiver.       *)
SenderLosesAtMostOffer ==
    Accepted =>
        LET loss == PaidTo(original, OurScripts) - PaidTo(proposal, OurScripts)
        IN loss <= policy.contribution.max /\ loss <= Fee(proposal) - Fee(original)
=============================================================================
