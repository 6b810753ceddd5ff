----------------------------- MODULE MCExchange -----------------------------
(* TLC instances of Exchange. *)
EXTENDS Exchange, FiniteSets, TLC

CONSTANTS r1, r2, s1, s2, i1, i2, i3

Hash(a, b, c, d) ==
    [k \in Keys |-> IF k = r1 THEN a ELSE IF k = s1 THEN b ELSE IF k = s2 THEN c ELSE d]

(* A receiver's key shares its id with a sender's; all have the same.       *)
MCHashes == {Hash(i1, i2, i3, i3), Hash(i1, i1, i1, i1)}

Url(scheme, path, fragment, framing) ==
    [scheme |-> scheme, onion |-> FALSE, path |-> path, fragment |-> fragment,
     framing |-> framing]

Holding(key, value, held) == [Param(key, value) EXCEPT !.holds = <<held>>]

(* The root of a directory; one whose URL carries an old key and more; one  *)
(* with two keys, and one with the key's prefix before it in another part;  *)
(* a path; one that leaves no room for a message; no TLS.                   *)
MCRoot == Url("https", <<>>, <<>>, 60)
MCDirectories ==
    {MCRoot,
     Url("https", <<>>, <<Param("OH", 7), Param("XX", 1)>>, 60),
     Url("https", <<>>, <<Param("OH", 7), Param("OH", 8)>>, 60),
     Url("https", <<>>, <<Holding("XX", 1, "OH"), Param("OH", 7)>>, 60),
     Url("https", <<"dir">>, <<>>, 60),
     Url("https", <<>>, <<>>, 1000),
     Url("http", <<>>, <<>>, 60)}

(* A session that ends at once, outlasts a tick, or would last too long.    *)
MCLifetimes == [r \in Receivers |-> {0, 1, 22}]

MCOneReceiver == Cardinality({r \in Receivers : rstate[r] # "none"}) <= 1

(* Two exchanges, at most one of them of v1 and none with what does not     *)
(* parse.                                                                   *)
MCTwoExchanges ==
    /\ garbled = {} /\ Cardinality(inClear) <= 1
    /\ \A s, t \in Senders : s # t /\ uri[s] # None /\ uri[t] # None => uri[s] # uri[t]

(* Where all keys have the same id, it is these, or one receiver and any    *)
(* senders; the directory's root stays as it is, and all sessions and       *)
(* Originals fit.                                                           *)
MCOneMailbox ==
    /\ directory = MCRoot /\ now = Start /\ dirKey = 0
    /\ \A r \in Receivers : rstate[r] = "none" \/ expiry[r] = Start + 1
    /\ \A i \in Ids : box[i] # None /\ box[i].kind = "original" => LengthOf(box[i]) < 9000
    /\ MCOneReceiver \/ MCTwoExchanges

(* Elsewhere it is one receiver and one sender, over any other directory.   *)
MCOneExchange ==
    /\ directory # MCRoot /\ garbled = {} /\ MCOneReceiver
    /\ \E s \in Senders : \A t \in Senders \ {s} : sstate[t] = "new"

MCBound ==
    IF \A j, k \in Keys : idOf[j] = idOf[k] THEN MCOneMailbox ELSE MCOneExchange

(* What receivers and senders do is the same for each.                      *)
MCSymmetry == Permutations(Receivers) \cup Permutations(Senders)
=============================================================================
