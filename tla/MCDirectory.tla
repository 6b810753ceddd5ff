---------------------------- MODULE MCDirectory ----------------------------
(* TLC instances of Directory. *)
EXTENDS Directory

CONSTANTS i1, b1, huge

(* One of each kind, an empty push that erases, a body over the limit and   *)
(* an id that does not parse.                                               *)
MCRequests ==
    {[kind |-> k, id |-> i1, body |-> b1] : k \in Pushes}
    \cup {[kind |-> "get", id |-> i1, body |-> NoBody],
          [kind |-> "post", id |-> i1, body |-> NoBody],
          [kind |-> "put", id |-> i1, body |-> huge],
          [kind |-> "get", id |-> BadId, body |-> NoBody]}
=============================================================================
