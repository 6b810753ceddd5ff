--------------------------- MODULE MCSenderChecks ---------------------------
(* Proposals put together from every input and output that could confuse    *)
(* the sender's walks over them, one list varied at a time.                 *)
EXTENDS SenderChecks

CONSTANTS s1, s2, r1, own, recv, payee, change, other, early, final, v1, v2

MCInWeight   == [s \in Scripts |-> 6]
MCBareWeight == [s \in Scripts |-> 3]
MCOutWeight  == [s \in Scripts |-> 4]

In(coin, script, signed) ==
    [coin |-> coin, script |-> script, value |-> 12, seq |-> final, final |-> signed]
Out(script, value) == [script |-> script, value |-> value]
Tx(ins, outs) == [header |-> v1, ins |-> ins, outs |-> outs]

Ours1 == In(s1, own, TRUE)
Ours2 == In(s2, own, TRUE)
MCOriginals ==
    {Tx(<<Ours1>>, <<Out(payee, 4), Out(change, 4)>>),
     Tx(<<Ours1>>, <<Out(change, 4), Out(payee, 4)>>),
     Tx(<<Ours1, Ours2>>, <<Out(change, 9), Out(payee, 4), Out(other, 4)>>)}

MCOffers ==
    {[original |-> o, policy |-> p] : <<o, p>> \in
        UNION {{o} \X (UNION {WithAdditionalFee(o, payee, n, r, [max |-> 2, vout |-> 0], TRUE)
                              \cup WithAdditionalFee(o, payee, n, r, [max |-> 2, vout |-> 1], TRUE)
                              \cup Recommended(o, payee, n, r)
                              : n \in BOOLEAN, r \in {0, 1}}) : o \in MCOriginals}}

SomeIns ==
    {In(s1, own, FALSE), In(s1, own, TRUE), In(s2, own, FALSE), In(r1, recv, TRUE),
     In(r1, recv, FALSE), [In(r1, recv, TRUE) EXCEPT !.seq = early]}
SomeOuts ==
    {Out(payee, 4), Out(payee, 13), Out(payee, 3), Out(change, 4), Out(change, 3),
     Out(change, 1), Out(change, 9), Out(other, 4)}
Lists(S, n) == UNION {[1 .. k -> S] : k \in 0 .. n}

(* All lists of inputs under fitting outputs, and of outputs over inputs.   *)
Variants(o) ==
    {Tx(ins, outs) : ins \in Lists(SomeIns, 3),
                     outs \in {o.outs, Append(o.outs, Out(other, 9))}}
    \cup {Tx([i \in DOMAIN o.ins |-> [o.ins[i] EXCEPT !.final = FALSE]] \o theirs, outs) :
             theirs \in {<<>>, <<In(r1, recv, TRUE)>>}, outs \in Lists(SomeOuts, 3)}
    \cup {[o EXCEPT !.header = v2]}

MCAnswers == [o \in MCOriginals |-> Variants(o)]
=============================================================================
