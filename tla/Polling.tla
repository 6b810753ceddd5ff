------------------------------ MODULE Polling ------------------------------
(***************************************************************************)
(* The directory with the clients that poll it: payjoin-cli's receiver     *)
(* (long_poll_fallback) and sender (the loop of long_poll_post) repeat the *)
(* same GET for as long as it is answered 202, and stop on anything else.  *)
(***************************************************************************)
EXTENDS Directory

CONSTANT Pollers   \* the tasks that serve the successive GETs of one client

ASSUME PollingAssumption == Pollers \subseteq Tasks

(* The first GET of the loop. *)
StartPolling(t) ==
    /\ pc[t] = "idle"
    /\ \E c \in Requests : c.kind = "get" /\ Arrive(t, c)

(* Ok(None), "No response yet.": the loop asks again. *)
PollAgain(t) ==
    /\ pc[t] = "done"
    /\ status[t] = "ACCEPTED"
    /\ Arrive(t, call[t])

PollNext ==
    \/ \E t \in Pollers : StartPolling(t) \/ PollAgain(t)
    \/ \E t \in Tasks \ Pollers, c \in Requests : Arrive(t, c)
    \/ \E t \in Tasks : Progress(t) \/ Timeout(t) \/ RedisError(t) \/ Drop(t)

PollSpec ==
    /\ Init /\ [][PollNext]_vars
    /\ \A t \in Tasks : WF_vars(Progress(t)) /\ WF_vars(Timeout(t))
    /\ \A t \in Pollers : WF_vars(PollAgain(t))

(* A client that keeps polling gets the message once it is stored, however  *)
(* many wake-ups its waits have missed: each new GET starts with a read.    *)
(* Needs prompt redis, no faults and no push of an empty body.              *)
PollDelivers ==
    \A t \in Pollers :
        (pc[t] \in Busy /\ store[MyPeek(t)] # Empty)
            ~> (pc[t] = "done" /\ status[t] = "OK" /\ data[t] \in Messages \ {Empty})
=============================================================================
