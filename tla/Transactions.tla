---------------------------- MODULE Transactions ----------------------------
(***************************************************************************)
(* The PSBTs both sides compute with (payjoin/src/psbt/mod.rs and the      *)
(* amounts, weights and fee rates of rust-bitcoin).  An input has the coin *)
(* it spends, the script and value of that coin, a sequence number, and    *)
(* whether it is finalised, that is, signed.  The fields of a PSBT that    *)
(* only serve signers (key paths, partial signatures) are left out, and so *)
(* is the UTXO information the receiver strips and the sender restores.    *)
(***************************************************************************)
EXTENDS Integers, Sequences, SequencesExt

CONSTANTS
    Coins,        \* outpoints
    Scripts,      \* scriptPubKeys
    SequenceNos,  \* sequence numbers
    Headers,      \* a transaction's version and lock time
    InWeight,     \* the weight expected of an input with its witness, by script
    BareWeight,   \* the weight of an input before it is signed, by script
    OutWeight,    \* the weight of an output, by script
    BaseWeight,   \* the weight of a transaction without inputs and outputs
    Unit          \* the weight a fee rate is per: 1000 in the code

ASSUME WeightsAssumption ==
    /\ \A s \in Scripts : /\ InWeight[s] \in Nat \ {0} /\ BareWeight[s] \in 0 .. InWeight[s]
                          /\ OutWeight[s] \in Nat \ {0}
    /\ BaseWeight \in Nat \ {0}
    /\ Unit \in Nat \ {0}

Inputs  == [coin : Coins, script : Scripts, value : Nat, seq : SequenceNos, final : BOOLEAN]
Outputs == [script : Scripts, value : Nat]
Psbts   == [header : Headers, ins : Seq(Inputs), outs : Seq(Outputs)]

(* The sum of a sequence, and of F(x) over the elements of one.             *)
Sum(s) == FoldLeft(LAMBDA m, n : m + n, 0, s)
Total(F(_), s) == Sum([i \in DOMAIN s |-> F(s[i])])

ValueOf(x) == x.value

InTotal(tx)  == Total(ValueOf, tx.ins)
OutTotal(tx) == Total(ValueOf, tx.outs)
Fee(tx)      == InTotal(tx) - OutTotal(tx)

InputsWeight(tx)  == Total(LAMBDA i : InWeight[i.script], tx.ins)
OutputsWeight(tx) == Total(LAMBDA o : OutWeight[o.script], tx.outs)
Weight(tx) ==
    BaseWeight + OutputsWeight(tx)
    + Total(LAMBDA i : IF i.final THEN InWeight[i.script] ELSE BareWeight[i.script], tx.ins)

(* A fee rate times a weight is rounded up, a fee over a weight down.       *)
FeeAt(rate, weight) == (rate * weight + Unit - 1) \div Unit
RateOf(fee, weight) == (fee * Unit) \div weight

(* The first output with a script, 0 where there is none.                   *)
VoutOf(tx, script) == SelectInSeq(tx.outs, LAMBDA o : o.script = script)

(* The scripts of the coins a transaction spends.                           *)
SpentScripts(tx) == {tx.ins[i].script : i \in DOMAIN tx.ins}

(* The inputs of tx that match those of the original, in their order: both  *)
(* sides walk the two lists with one peekable iterator over the original.   *)
MatchedInputs(original, tx) ==
    FoldLeft(LAMBDA acc, i :
                 IF /\ acc.next <= Len(original.ins)
                    /\ tx.ins[i].coin = original.ins[acc.next].coin
                 THEN [next |-> acc.next + 1, at |-> acc.at \cup {i}]
                 ELSE acc,
             [next |-> 1, at |-> {}], [i \in 1 .. Len(tx.ins) |-> i]).at
=============================================================================
