---------------------------- MODULE SenderBuilder ---------------------------
(***************************************************************************)
(* What a sender offers: SenderBuilder of payjoin/src/send/v1.rs and the   *)
(* helpers of payjoin/src/send/mod.rs turn an Original and a request for a *)
(* fee contribution into the policy that the proposal is checked against.  *)
(* A builder returns the set of its results, empty where the code returns  *)
(* an error.  A contribution has vout 0 where there is none.               *)
(***************************************************************************)
EXTENDS Transactions, FiniteSets

Contributions == [max : Nat, vout : Nat]
Policies == [noSubst : BOOLEAN, contribution : Contributions, minRate : Nat, payee : Scripts]

NoContribution == [max |-> 0, vout |-> 0]

(* The URI's amount is taken to be that of the payee's output.              *)
SinglePayee(psbt, payee) ==
    Cardinality({i \in DOMAIN psbt.outs : psbt.outs[i].script = payee}) = 1

(* check_fee_output_amount, for the output at vout.                         *)
FeeOutputs(psbt, vout, fee, clamp) ==
    {[max |-> m, vout |-> vout] :
        m \in {n \in {fee, psbt.outs[vout].value} :
                  IF psbt.outs[vout].value < fee THEN clamp /\ n < fee ELSE n = fee}}

(* find_change_index: the one output of two that does not pay the payee.    *)
ChangeOutputs(psbt, payee, fee, clamp) ==
    CASE Len(psbt.outs) = 1 /\ psbt.outs[1].script = payee /\ clamp -> {NoContribution}
      [] Len(psbt.outs) = 2 ->
            UNION {FeeOutputs(psbt, i, fee, clamp) :
                      i \in {i \in 1 .. 2 : /\ psbt.outs[i].script # payee
                                            /\ i = 2 => psbt.outs[1].script = payee}}
      [] OTHER -> {}

(* check_change_index.                                                      *)
GivenOutput(psbt, payee, fee, vout, clamp) ==
    IF vout \in DOMAIN psbt.outs /\ psbt.outs[vout].script # payee
    THEN FeeOutputs(psbt, vout, fee, clamp)
    ELSE {}

(* determine_fee_contribution: a request names an output or, by vout 0,     *)
(* leaves it to be found.                                                   *)
Contribution(psbt, payee, request, clamp) ==
    IF request.vout = 0 THEN ChangeOutputs(psbt, payee, request.max, clamp)
                        ELSE GivenOutput(psbt, payee, request.max, request.vout, clamp)

Policy(psbt, payee, noSubst, minRate, contributions) ==
    {[noSubst |-> noSubst, contribution |-> c, minRate |-> minRate, payee |-> payee] :
        c \in IF SinglePayee(psbt, payee) THEN contributions ELSE {}}

WithAdditionalFee(psbt, payee, noSubst, minRate, request, clamp) ==
    Policy(psbt, payee, noSubst, minRate, Contribution(psbt, payee, request, clamp))

NonIncentivizing(psbt, payee, noSubst, minRate) ==
    Policy(psbt, payee, noSubst, minRate, {NoContribution})

(* build_recommended: the fee of one more input like the sender's, where    *)
(* all of its inputs are of one type (the code has a default for others).   *)
Recommended(psbt, payee, noSubst, minRate) ==
    LET vout == IF psbt.outs[1].script # payee THEN 1 ELSE 2
        fee  == FeeAt(minRate, InWeight[psbt.ins[1].script])
    IN IF psbt.outs[1].script = payee /\ Len(psbt.outs) = 1
       THEN NonIncentivizing(psbt, payee, noSubst, minRate)
       ELSE WithAdditionalFee(psbt, payee, noSubst, minRate, [max |-> fee, vout |-> vout], TRUE)
=============================================================================
