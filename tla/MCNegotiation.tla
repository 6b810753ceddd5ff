---------------------------- MODULE MCNegotiation ---------------------------
(* An Original of one input or two, a payment and a fee of 4 or 8, with its *)
(* change before or after the payment, on both sides of it or not there, at *)
(* the receiver's choice of outputs, coins and rates.                       *)
EXTENDS Negotiation

CONSTANTS s1, s2, r1, r2, own, recv, payee, also, light, change, late, v1

MCInWeight   == [s \in Scripts |-> 6]
MCBareWeight == [s \in Scripts |-> 3]
MCOutWeight  == [s \in Scripts |-> IF s = light THEN 3 ELSE 4]

In(coin, script, value, signed) ==
    [coin |-> coin, script |-> script, value |-> value, seq |-> late, final |-> signed]
Out(script, value) == [script |-> script, value |-> value]
Tx(outs) == [header |-> v1, ins |-> <<In(s1, own, 20, TRUE)>>, outs |-> outs]
Tx2(outs) ==
    [header |-> v1, ins |-> <<In(s1, own, 12, TRUE), In(s2, own, 14, TRUE)>>, outs |-> outs]

MCOriginals ==
    {Tx(<<Out(payee, 6), Out(change, 10)>>), Tx(<<Out(change, 10), Out(payee, 6)>>),
     Tx2(<<Out(payee, 18)>>), Tx(<<Out(change, 6), Out(payee, 6), Out(change, 2)>>),
     Tx(<<Out(also, 5), Out(payee, 6), Out(change, 5)>>)}

(* The same payment, raised; with another output; with another one to the   *)
(* same script; to a lighter script; cut.                                   *)
MCReplacements ==
    {[outs |-> {Out(payee, 9)}, drain |-> payee],
     [outs |-> {Out(payee, 6), Out(recv, 2)}, drain |-> payee],
     [outs |-> {Out(payee, 6), Out(payee, 2)}, drain |-> payee],
     [outs |-> {Out(recv, 4), Out(light, 2)}, drain |-> light],
     [outs |-> {Out(light, 6)}, drain |-> light]}

MCCandidates == {In(r1, recv, 12, FALSE), In(r2, recv, 2, FALSE)}
=============================================================================
