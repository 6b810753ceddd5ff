-------------------------------- MODULE PjUri -------------------------------
(***************************************************************************)
(* Payjoin URIs: the parameters pj and pjos of a BIP 21 URI, and those that *)
(* a v2 receiver keeps in the fragment of its endpoint, separated by '+'.  *)
(* A fragment is the sequence of its parts; the empty one is a blank part. *)
(***************************************************************************)
EXTENDS Integers, Sequences

CONSTANTS
    TicksPerSecond,   \* the clock's resolution, finer than that of an expiry
    MaxSeconds        \* u32::MAX

ASSUME PjUriAssumption == TicksPerSecond \in Nat \ {0} /\ MaxSeconds \in Nat

(* A part is told by the prefix it begins with, "" for a blank one; it may  *)
(* hold further prefixes after that, in this order.                         *)
Param(key, value) == [key |-> key, value |-> value, holds |-> <<>>]
Blank == Param("", 0)

-----------------------------------------------------------------------------

Least(S) == CHOOSE i \in S : \A j \in S : i <= j

(* Where get_param sees a parameter: in the first part that begins with it. *)
Places(f, key) == {i \in DOMAIN f : f[i].key = key}
Has(f, key) == Places(f, key) # {}
GetParam(f, key) == f[Least(Places(f, key))].value

(* And where set_param does: wherever its prefix is found.                  *)
HeldAt(part, key) == {j \in DOMAIN part.holds : part.holds[j] = key}
Occurs(part, key) == part.key = key \/ HeldAt(part, key) # {}
Found(f, key) == {i \in DOMAIN f : Occurs(f[i], key)}

(* It takes out what follows, up to the separator,                          *)
Cut(part, key) ==
    IF part.key = key THEN Blank
    ELSE [part EXCEPT !.holds = SubSeq(@, 1, Least(HeldAt(part, key)) - 1)]

(* and a separator that is left at the end.                                 *)
Cleared(f, key) ==
    LET first == Least(Found(f, key))
        cut   == [f EXCEPT ![first] = Cut(f[first], key)]
    IN IF Found(f, key) = {} THEN f
       ELSE IF Len(f) > 1 /\ cut[Len(f)] = Blank THEN SubSeq(cut, 1, Len(f) - 1)
       ELSE cut

(* Mutant: what is set already stays. *)
SetParamAgain(f, p) == Append(f, p)

SetParam(f, p) ==
    IF Cleared(f, p.key) = <<Blank>> THEN <<p>> ELSE Append(Cleared(f, p.key), p)

(* Mutant: an expiry is rounded up. *)
SecondsUp(time) == (time + TicksPerSecond - 1) \div TicksPerSecond

(* set_exp and exp: whole seconds in 32 bits.                               *)
Seconds(time) == time \div TicksPerSecond
ExpiryFits(time) == Seconds(time) <= MaxSeconds
Expiry(f) == GetParam(f, "EX") * TicksPerSecond

(* What set_param finds first of a parameter is what get_param reads.       *)
Readable(f, key) == \A i \in Places(f, key) : \A j \in Found(f, key) : i <= j

ReceiverKeys == {"RK", "OH", "EX"}
Clean(f) == \A key \in ReceiverKeys : Readable(f, key)

(* Receiver::pj_uri.                                                        *)
ReceiverFragment(f, rs, ohttp, expiry) ==
    SetParam(SetParam(SetParam(f, Param("RK", rs)), Param("OH", ohttp)),
             Param("EX", Seconds(expiry)))

-----------------------------------------------------------------------------

(* A URL's path.  path_segments_mut().push adds a segment, and Url::join    *)
(* replaces the last one.                                                   *)
Push(path, id) == Append(path, id)

(* Mutant: a segment is joined as it is pushed. *)
JoinAppended(path, id) == Append(path, id)

Join(path, id) == IF path = <<>> THEN <<id>> ELSE [path EXCEPT ![Len(path)] = id]

(* PayjoinExtras::serialize_params.                                         *)
SerializeParams(extras) ==
    <<Param("pjos", IF extras.noSubst THEN "1" ELSE "0"), Param("pj", extras.endpoint)>>

(* deserialize_temp and finalize.                                           *)
Duplicate(ps) == \E i, j \in DOMAIN ps : i # j /\ ps[i].key = ps[j].key
Secure(url) == url.scheme = "https" \/ (url.scheme = "http" /\ url.onion)

ParseParams(ps) ==
    LET known == SelectSeq(ps, LAMBDA p : p.key \in {"pj", "pjos"})
        pjos  == IF Has(known, "pjos") THEN GetParam(known, "pjos") ELSE "0"
    IN IF known = <<>> THEN "unsupported"
       ELSE IF Duplicate(known) THEN "duplicate"
       ELSE IF pjos \notin {"0", "1"} THEN "badPjos"
       ELSE IF ~Has(known, "pj") THEN "missingEndpoint"
       ELSE IF ~Secure(GetParam(known, "pj")) THEN "unsecure"
       ELSE "supported"

ParsedEndpoint(ps) == GetParam(ps, "pj")
ParsedNoSubst(ps) == Has(ps, "pjos") /\ GetParam(ps, "pjos") = "1"
=============================================================================
