------------------------------ MODULE Proposal ------------------------------
(***************************************************************************)
(* The receiver's side of a negotiation once its three checks of the       *)
(* Original have passed: the typestates of payjoin/src/receive/v1/mod.rs,  *)
(* one action per method that leads from one to the next.  A method        *)
(* consumes its typestate, so what fails leaves nothing to go on with.     *)
(***************************************************************************)
EXTENDS SenderBuilder

CONSTANTS
    Originals,        \* the Originals that senders may post
    Payee,            \* the script the receiver asked to be paid at
    OwnedScripts,     \* the scripts of its wallet
    Replacements,     \* what it may replace its outputs with, and the drain
    NewScripts,       \* what it may substitute its script with
    Candidates,       \* the coins of its wallet
    SenderRates,      \* the minimum fee rates a sender may ask for
    FeeOffers,        \* the fees it may offer for an output it names
    MinRates,         \* the minimum fee rates it may finalise with
    MaxRates,         \* the maximum fee rates it may be willing to pay
    BroadcastMin,     \* FeeRate::BROADCAST_MIN
    MaxReplacements,  \* bound: how often it replaces its outputs
    MaxContributions  \* bound: how often it contributes inputs

ASSUME ProposalAssumption ==
    /\ Originals \subseteq Psbts
    /\ Payee \in OwnedScripts /\ OwnedScripts \subseteq Scripts /\ NewScripts \subseteq Scripts
    /\ \A r \in Replacements :
          r.outs \subseteq Outputs /\ IsFiniteSet(r.outs) /\ r.drain \in Scripts
    /\ Candidates \subseteq Inputs
    /\ SenderRates \subseteq Nat /\ FeeOffers \subseteq Nat /\ MinRates \subseteq Nat
    /\ MaxRates \subseteq Nat
    /\ BroadcastMin \in Nat
    /\ MaxReplacements \in Nat /\ MaxContributions \in Nat

(* The scripts of an Original's outputs that are not the receiver's.        *)
SendersScripts(psbt) == {psbt.outs[i].script : i \in DOMAIN psbt.outs} \ OwnedScripts

(* An Original that has passed the checks spends something and nothing of   *)
(* the receiver's wallet, which the candidates are from; and what the       *)
(* receiver has for outputs of its own are not the sender's.                *)
ASSUME OriginalsAssumption ==
    \A psbt \in Originals :
        /\ psbt.ins # <<>>
        /\ \A c \in Candidates : c.script \notin SpentScripts(psbt)
        /\ NewScripts \cap SendersScripts(psbt) = {}
        /\ \A r \in Replacements :
              /\ r.drain \notin SendersScripts(psbt)
              /\ \A o \in r.outs : o.script \notin SendersScripts(psbt)

VARIABLES
    original,      \* the Original PSBT
    policy,        \* what its sender will check the proposal against
    stage,         \* the typestate
    payjoin,       \* the PSBT under construction
    params,        \* the sender's optional parameters
    changeVout,    \* change_vout: the receiver's output for change and fees
    owned,         \* owned_vouts: its outputs in the original
    rates,         \* auxiliary: the fee rates it finalised with
    replaced,      \* auxiliary: how often it has replaced its outputs
    wanted,        \* auxiliary: the value of the outputs it last chose
    contributed    \* auxiliary: the lists of inputs it has contributed

receiverVars ==
    <<stage, payjoin, params, changeVout, owned, rates, replaced, wanted, contributed>>

Stages == {"outputsUnknown", "wantsOutputs", "wantsInputs", "provisional", "proposal",
           "failed", "panicked"}

-----------------------------------------------------------------------------

(* What the sender's builder makes of an Original, by each of its methods.  *)
FeeRequests(psbt) == [max : FeeOffers, vout : 0 .. Len(psbt.outs)]

PoliciesAt(psbt, noSubst, minRate) ==
    Recommended(psbt, Payee, noSubst, minRate)
    \cup NonIncentivizing(psbt, Payee, noSubst, minRate)
    \cup UNION {WithAdditionalFee(psbt, Payee, noSubst, minRate, request, clamp)
                   : request \in FeeRequests(psbt), clamp \in BOOLEAN}

SenderPolicies(psbt) == UNION {PoliciesAt(psbt, n, r) : n \in BOOLEAN, r \in SenderRates}

(* serialize_url and Params::from_query_pairs: no minfeerate is written for *)
(* a rate of zero, and the broadcast minimum is read for it.                *)
ParamsOf(p) ==
    [noSubst |-> p.noSubst, contribution |-> p.contribution,
     minRate |-> IF p.minRate = 0 THEN BroadcastMin ELSE p.minRate]

Init ==
    /\ original \in Originals
    /\ policy \in SenderPolicies(original)
    /\ params = ParamsOf(policy)
    /\ payjoin = original
    /\ stage = "outputsUnknown"
    /\ changeVout = 0 /\ owned = {}
    /\ rates = [min |-> 0, max |-> 0]
    /\ replaced = 0 /\ wanted = OutTotal(original) /\ contributed = <<>>

Offer == UNCHANGED <<original, policy>>

Become(s) ==
    /\ stage' = s
    /\ Offer
    /\ UNCHANGED <<payjoin, params, changeVout, owned, rates, replaced, wanted, contributed>>

(* identify_receiver_outputs.  A fee output that is the receiver's own is   *)
(* ignored.                                                                 *)
Identify ==
    /\ stage = "outputsUnknown"
    /\ LET mine == {i \in DOMAIN original.outs : original.outs[i].script \in OwnedScripts}
       IN IF mine = {} THEN Become("failed")
          ELSE /\ stage' = "wantsOutputs"
               /\ owned' = mine
               /\ changeVout' = CHOOSE i \in mine : \A j \in mine : i <= j
               /\ params' = IF params.contribution.vout \in mine
                            THEN [params EXCEPT !.contribution = NoContribution]
                            ELSE params
               /\ Offer /\ UNCHANGED <<payjoin, rates, replaced, wanted, contributed>>

-----------------------------------------------------------------------------
(* replace_receiver_outputs.                                                *)

(* One step of its loop: what may stand in place of one of the receiver's   *)
(* outputs, and the replacements that are left; nothing if it is refused.   *)
Substitutes(acc, out) ==
    LET same == {r \in acc.left : r.script = out.script}
        allowed == IF same # {} THEN {r \in same : params.noSubst => r.value >= out.value}
                   ELSE IF params.noSubst THEN {} ELSE acc.left
    IN {[outs |-> Append(acc.outs, r), left |-> acc.left \ {r}] : r \in allowed}

(* Every way to insert the elements of a list one by one, each at an index  *)
(* up to the last.                                                          *)
Inserted(s, list, last) ==
    FoldLeft(LAMBDA acc, x :
                 UNION {{InsertAt(t, k, x) : k \in {k \in 1 .. last : k <= Len(t) + 1}}
                           : t \in acc},
             {s}, list)

(* interleave_shuffle: the rest is added anywhere, the others keep order.   *)
Interleavings(outs, new) == Inserted(outs, SetToSeq(new), Len(outs) + Cardinality(new))

Replaced(new) ==
    LET Step(acc, i) ==
            UNION {IF i \in owned THEN Substitutes(a, original.outs[i])
                   ELSE {[a EXCEPT !.outs = Append(@, original.outs[i])]} : a \in acc}
    IN UNION {Interleavings(a.outs, a.left) :
                 a \in FoldLeft(Step, {[outs |-> <<>>, left |-> new]},
                                [i \in DOMAIN original.outs |-> i])}

ReplaceWith(new, drain) ==
    LET results == {outs \in Replaced(new) : \E i \in DOMAIN outs : outs[i].script = drain}
    IN IF results = {} THEN Become("failed")
       ELSE \E outs \in results :
               /\ payjoin' = [original EXCEPT !.outs = outs]
               /\ changeVout' = SelectInSeq(outs, LAMBDA o : o.script = drain)
               /\ replaced' = replaced + 1
               /\ wanted' = Total(ValueOf, outs)
               /\ Offer /\ UNCHANGED <<stage, params, owned, rates, contributed>>

MayReplace == stage = "wantsOutputs" /\ replaced < MaxReplacements

Replace == MayReplace /\ \E r \in Replacements : ReplaceWith(r.outs, r.drain)

(* substitute_receiver_script: the value is that of the original's output   *)
(* at changeVout, an index into the outputs of the payjoin.                 *)
Substitute ==
    /\ MayReplace
    /\ \E script \in NewScripts :
          IF changeVout \in DOMAIN original.outs
          THEN ReplaceWith({[script |-> script, value |-> original.outs[changeVout].value]},
                           script)
          ELSE Become("panicked")

CommitOutputs == stage = "wantsOutputs" /\ Become("wantsInputs")

-----------------------------------------------------------------------------
(* contribute_inputs, of the coins that try_preserving_privacy selects.     *)

Low(S) == CHOOSE n \in S : \A k \in S : n <= k

Unspent ==
    {c \in Candidates : \A i \in DOMAIN payjoin.ins : payjoin.ins[i].coin # c.coin}

(* avoid_uih, for transactions of two outputs.                              *)
AvoidsUih(c) ==
    LET outs == {payjoin.outs[i].value : i \in DOMAIN payjoin.outs}
        ins  == {payjoin.ins[i].value : i \in DOMAIN payjoin.ins}
    IN Low(ins \cup {c.value}) > Low(outs \cup {payjoin.outs[changeVout].value + c.value})

(* try_preserving_privacy: of a transaction of two outputs, only a coin     *)
(* that avoids the heuristic, for the search has used up the candidates     *)
(* when it fails; of any other, whichever comes first.                      *)
Selected ==
    IF Len(payjoin.outs) = 2 THEN {c \in Unspent : AvoidsUih(c)} ELSE Unspent

(* receiver_min_input_amount.                                               *)
MinInputAmount ==
    LET more == OutTotal(payjoin) - OutTotal(original) IN IF more > 0 THEN more ELSE 0

(* Mutant: the change is all that the inputs hold. *)
ContributeAll(list) ==
    /\ \E ins \in Inserted(payjoin.ins, list, Len(payjoin.ins) + 1) :
          payjoin' = [payjoin EXCEPT !.ins = ins,
                                     !.outs[changeVout].value = @ + Total(ValueOf, list)]
    /\ contributed' = Append(contributed, list)
    /\ Offer /\ UNCHANGED <<stage, params, changeVout, owned, rates, replaced, wanted>>

(* Mutant: the change is not paid out. *)
ContributeToFees(list) ==
    /\ \E ins \in Inserted(payjoin.ins, list, Len(payjoin.ins) + 1) :
          payjoin' = [payjoin EXCEPT !.ins = ins]
    /\ contributed' = Append(contributed, list)
    /\ Offer /\ UNCHANGED <<stage, params, changeVout, owned, rates, replaced, wanted>>

Contribute(list) ==
    IF Total(ValueOf, list) < MinInputAmount THEN Become("failed")
    ELSE /\ \E ins \in Inserted(payjoin.ins, list, Len(payjoin.ins) + 1) :
               payjoin' = [payjoin EXCEPT
                   !.ins = ins,
                   !.outs[changeVout].value = @ + Total(ValueOf, list) - MinInputAmount]
         /\ contributed' = Append(contributed, list)
         /\ Offer /\ UNCHANGED <<stage, params, changeVout, owned, rates, replaced, wanted>>

(* What a wallet may contribute: one selected coin, any two, or none.       *)
InputLists ==
    {<<>>} \cup {<<c>> : c \in Selected}
    \cup {<<p[1], p[2]>> : p \in {q \in Unspent \X Unspent : q[1] # q[2]}}

ContributeInputs ==
    /\ stage = "wantsInputs" /\ Len(contributed) < MaxContributions
    /\ \E list \in InputLists :
          Contribute([i \in DOMAIN list |-> [list[i] EXCEPT !.seq = original.ins[1].seq]])

CommitInputs == stage = "wantsInputs" /\ Become("provisional")

-----------------------------------------------------------------------------
(* finalize_proposal: apply_fee, then the wallet signs.                     *)

AddedInputs  == InputsWeight(payjoin) - InputsWeight(original)
AddedOutputs == OutputsWeight(payjoin) - OutputsWeight(original)

HasContribution == params.contribution.vout # 0

(* The sender's output that pays its contribution, found by its script.     *)
SenderFeeVout == VoutOf(payjoin, original.outs[params.contribution.vout].script)

(* Mutant: the sender pays for the receiver's new outputs too. *)
SenderFeeForAll(rate) ==
    LET fee == FeeAt(rate, AddedInputs + AddedOutputs)
    IN IF ~HasContribution THEN 0
       ELSE IF params.contribution.max < fee THEN params.contribution.max ELSE fee

(* Mutant: what the sender offered does not limit what it pays. *)
SenderFeeUnlimited(rate) == IF ~HasContribution THEN 0 ELSE FeeAt(rate, AddedInputs)

SenderFee(rate) ==
    LET fee == FeeAt(rate, AddedInputs)
    IN IF ~HasContribution THEN 0
       ELSE IF params.contribution.max < fee THEN params.contribution.max ELSE fee

ReceiverFee(rate) == FeeAt(rate, AddedInputs) - SenderFee(rate) + FeeAt(rate, AddedOutputs)

(* The outputs after the subtraction of the sender's fee, and of both.      *)
SenderFeeTaken(rate) ==
    IF SenderFee(rate) = 0 THEN payjoin.outs
    ELSE [payjoin.outs EXCEPT ![SenderFeeVout].value = @ - SenderFee(rate)]
FeesTaken(rate) == [SenderFeeTaken(rate) EXCEPT ![changeVout].value = @ - ReceiverFee(rate)]

(* The wallet signs the receiver's inputs, or fails; the sender's own lose  *)
(* their signatures.                                                        *)
Finish(rate, max) ==
    \/ Become("failed")
    \/ /\ stage' = "proposal"
       /\ payjoin' = [payjoin EXCEPT
             !.outs = FeesTaken(rate),
             !.ins = [i \in DOMAIN @ |->
                         [@[i] EXCEPT !.final = i \notin MatchedInputs(original, payjoin)]]]
       /\ rates' = [min |-> rate, max |-> max]
       /\ Offer /\ UNCHANGED <<params, changeVout, owned, replaced, wanted, contributed>>

(* Mutant: both fees are subtracted whatever the outputs are worth. *)
FinalizeUnchecked(min, max) ==
    /\ stage = "provisional" /\ AddedOutputs >= 0
    /\ Finish(IF min < params.minRate THEN params.minRate ELSE min, max)

(* Outputs that get lighter make the weight of the added ones wrap around:  *)
(* a panic in a debug build, FeeTooHigh in a release build.                 *)
Finalize(min, max) ==
    LET rate == IF min < params.minRate THEN params.minRate ELSE min IN
    /\ stage = "provisional"
    /\ IF HasContribution /\ payjoin.outs[SenderFeeVout].value < SenderFee(rate)
       THEN Become("panicked")
       ELSE IF AddedOutputs < 0 THEN Become("panicked") \/ Become("failed")
       ELSE IF ReceiverFee(rate) > FeeAt(max, AddedInputs + AddedOutputs)
       THEN Become("failed")
       ELSE IF SenderFeeTaken(rate)[changeVout].value < ReceiverFee(rate)
       THEN Become("panicked")
       ELSE Finish(rate, max)

FinalizeProposal == \E min \in MinRates, max \in MaxRates : Finalize(min, max)

Next ==
    \/ Identify \/ Replace \/ Substitute \/ CommitOutputs
    \/ ContributeInputs \/ CommitInputs \/ FinalizeProposal
=============================================================================
