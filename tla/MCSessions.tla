----------------------------- MODULE MCSessions -----------------------------
(* TLC instances of Sessions. *)
EXTENDS Sessions

CONSTANTS s1, s2, a, b

(* Two senders offering the same two coins, alone or together. *)
SharedCoins == [s \in Sessions |-> IF s = s1 THEN {{a, b}} ELSE {{a}, {a, b}}]

(* Senders with coins of their own. *)
OwnCoins == [s \in Sessions |-> IF s = s1 THEN {{a}} ELSE {{b}}]
=============================================================================
