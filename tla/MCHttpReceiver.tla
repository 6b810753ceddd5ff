--------------------------- MODULE MCHttpReceiver ---------------------------
(* TLC instance of HttpReceiver: two senders that may offer the same coins, *)
(* and a third POST that is malformed or an earlier proposal.               *)
EXTENDS HttpReceiver

CONSTANTS p1, p2, p3, a, b, r1

SharedCoins ==
    [p \in Posts |-> IF p = p1 THEN [coins : {{a}, {a, b}}, form : {"good"}, stated : {{}}]
                     ELSE IF p = p2
                     THEN [coins : {{b}, {a, b}}, form : {"good", "headers", "fixed"},
                           stated : {{}}]
                     ELSE [coins : {{b}}, form : {"unsigned", "payload", "unstated", "unpaid"},
                           stated : {{}, {b}}]]
=============================================================================
