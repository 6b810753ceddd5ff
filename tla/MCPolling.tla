----------------------------- MODULE MCPolling -----------------------------
(* TLC instance of Polling: two clients poll one subdirectory while requests *)
(* of the other kinds come and go.                                           *)
EXTENDS Polling

CONSTANTS i1, b1

MCRequests ==
    {[kind |-> k, id |-> i1, body |-> b1] : k \in Pushes}
    \cup {[kind |-> "get", id |-> i1, body |-> NoBody]}
=============================================================================
