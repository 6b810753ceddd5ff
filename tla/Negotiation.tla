----------------------------- MODULE Negotiation ----------------------------
(***************************************************************************)
(* A receiver that answers an honest sender's Original, and the sender     *)
(* that checks the answer: Proposal, then SenderChecks on what it made.    *)
(***************************************************************************)
EXTENDS Proposal

VARIABLES pc, at, next, feePaid

senderVars == <<pc, at, next, feePaid>>
vars == <<original, policy, receiverVars, senderVars>>

Sender == INSTANCE SenderChecks
              WITH proposal <- payjoin, Offers <- {}, Answers <- [o \in {} |-> {}]

NInit == Init /\ Sender!Start

Receive == Next /\ UNCHANGED senderVars

Check ==
    /\ stage = "proposal"
    /\ Sender!Next
    /\ UNCHANGED <<stage, params, changeVout, owned, rates, replaced, wanted, contributed>>

Spec == NInit /\ [][Receive \/ Check]_vars

-----------------------------------------------------------------------------

TypeOK ==
    /\ Sender!TypeOK
    /\ stage \in Stages
    /\ params \in [noSubst : BOOLEAN, contribution : Contributions, minRate : Nat]
    /\ changeVout \in 0 .. Len(payjoin.outs)
    /\ owned \subseteq DOMAIN original.outs
    /\ rates \in [min : Nat, max : Nat]
    /\ replaced \in 0 .. MaxReplacements
    /\ contributed \in Seq(Seq(Inputs)) /\ Len(contributed) <= MaxContributions

Proposed == stage = "proposal"

(* The sender asks for a rate above that of its own Original, or the        *)
(* receiver takes the contribution at such a rate.                          *)
RateAboveOriginal ==
    LET rate == RateOf(Fee(original), Weight(original))
    IN policy.minRate > rate \/ (HasContribution /\ rates.min > rate)

(* Outputs worth more than the original's, without an input to cover them.  *)
Uncovered == contributed = <<>> /\ wanted > OutTotal(original)

Given == Total(LAMBDA list : Total(ValueOf, list), contributed)

(* What the sender expects in the payee's place with substitution disabled. *)
PaysPayee(out) ==
    out.script = Payee /\ out.value >= original.outs[VoutOf(original, Payee)].value

(* The receiver's fee takes more from its output than its inputs brought:   *)
(* apply_fee cuts it below the payment, substitution disabled or not.       *)
PaymentCut ==
    LET out == payjoin.outs[changeVout] IN out.script = Payee /\ ~PaysPayee(out)

(* The sender's fee is taken from another output of its own: the one that   *)
(* apply_fee finds first by the script of the fee output.                   *)
FeeFromAnother ==
    /\ HasContribution /\ SenderFee(rates.min) # 0
    /\ VoutOf(original, original.outs[params.contribution.vout].script)
         < params.contribution.vout

(* Why a sender may refuse: these, or that it takes another output of the   *)
(* receiver's, that the Original pays too, for its own.                     *)
Explained ==
    \/ RateAboveOriginal
    \/ FeeFromAnother
    \/ Uncovered
    \/ policy.noSubst /\ PaymentCut
    \/ Cardinality(owned) > 1

(* The sender looks for the payee's output after as many of its own as the  *)
(* Original has before it.                                                  *)
InPayeesPlace(i) ==
    Cardinality({j \in 1 .. i - 1 : payjoin.outs[j].script \in SendersScripts(original)})
    = VoutOf(original, Payee) - 1

(* Another output of the receiver's stands there, before the payee's.       *)
NewOutputForPayee ==
    \E i, j \in DOMAIN payjoin.outs :
        /\ i < j /\ InPayeesPlace(i) /\ InPayeesPlace(j)
        /\ ~PaysPayee(payjoin.outs[i]) /\ PaysPayee(payjoin.outs[j])

(* What the receiver computes and what the sender checks are written twice, *)
(* and have to agree over every choice both sides have: a finalised         *)
(* proposal is one the sender accepts, but for the cases above, and but for *)
(* an added output that the shuffle puts in the payee's place where the     *)
(* sender has disabled substitution.                                        *)
AcceptableProposal ==
    Proposed /\ Sender!Rejected =>
        Explained \/ (policy.noSubst /\ NewOutputForPayee)

(* What finalize_proposal promises, "Return a Payjoin Proposal PSBT that    *)
(* the sender will find acceptable", but for the explained cases.           *)
AlwaysAcceptable ==
    Proposed /\ Sender!Rejected => Explained

SenderScripts == Sender!OurScripts \ OwnedScripts
Sent(tx) == Sender!PaidTo(tx, SenderScripts)
Mine(tx) == Sender!PaidTo(tx, Scripts \ SenderScripts)

(* The sender's own output falls by no more than it offered and no more     *)
(* than what the receiver's inputs cost: the receiver never has the sender  *)
(* pay for its outputs, whichever output its fee output has become.         *)
SenderPaysAtMost ==
    Proposed =>
        LET loss == Sent(original) - Sent(payjoin)
        IN loss <= policy.contribution.max /\ loss <= FeeAt(rates.min, AddedInputs)

(* The receiver gets back what it was paid and what it contributed, but for *)
(* a fee below its maximum rate, where it contributed one list of inputs    *)
(* and did not itself choose outputs worth less than the original's.        *)
ReceiverKeepsValue ==
    Proposed /\ Len(contributed) <= 1 /\ wanted >= OutTotal(original) =>
        Mine(payjoin) >= Mine(original) + Given
                         - FeeAt(rates.max, AddedInputs + AddedOutputs)

(* What the receiver adds is paid for at the rate both sides agreed on, so  *)
(* that the payjoin does not confirm later than the Original would have.    *)
FeeRateKept ==
    Proposed /\ ~Uncovered =>
        Fee(payjoin) >= Fee(original) + FeeAt(rates.min, AddedInputs)
                                      + FeeAt(rates.min, AddedOutputs)
=============================================================================
