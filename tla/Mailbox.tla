------------------------------ MODULE Mailbox ------------------------------
(***************************************************************************)
(* What the directory promises its clients, with no trace of redis, of its *)
(* publish/subscribe channels or of the two steps of a push: a box per     *)
(* channel that a push overwrites in one step, and peeks that each return  *)
(* the message that was in their box at one moment between the arrival of  *)
(* the request and its answer, or say that the wait timed out.             *)
(***************************************************************************)
EXTENDS DirectoryCalls

VARIABLES
    box,     \* the message in each channel
    stage,   \* how far each request is: idle, open, written, read or closed
    call,    \* the request each task serves
    got,     \* the message a peek has taken from its box
    status   \* the answer

mailboxVars == <<box, stage, call, got, status>>

Init ==
    /\ box = [k \in Channels |-> Empty]
    /\ stage = [t \in Tasks |-> "idle"]
    /\ call = [t \in Tasks |-> NoCall]
    /\ got = [t \in Tasks |-> Empty]
    /\ status = [t \in Tasks |-> "NONE"]

(* A request arrives. *)
Open(t, c) ==
    /\ stage[t] \in {"idle", "closed"}
    /\ stage' = [stage EXCEPT ![t] = "open"]
    /\ call' = [call EXCEPT ![t] = c]
    /\ got' = [got EXCEPT ![t] = Empty]
    /\ status' = [status EXCEPT ![t] = "NONE"]
    /\ UNCHANGED box

(* A push takes effect, once, for everyone. *)
Write(t) ==
    /\ stage[t] = "open"
    /\ call[t].kind \in Pushes
    /\ Accepted(call[t])
    /\ box' = [box EXCEPT ![PushChannel(call[t])] = Stored(call[t])]
    /\ stage' = [stage EXCEPT ![t] = "written"]
    /\ UNCHANGED <<call, got, status>>

(* A peek takes what is in its box: a v1 sender's only after its own push.  *)
Read(t) ==
    /\ call[t].kind \in Peeks
    /\ Accepted(call[t])
    /\ stage[t] = IF call[t].kind = "fallback" THEN "written" ELSE "open"
    /\ box[PeekChannel(call[t])] # Empty
    /\ got' = [got EXCEPT ![t] = box[PeekChannel(call[t])]]
    /\ stage' = [stage EXCEPT ![t] = "read"]
    /\ UNCHANGED <<box, call, status>>

(* OK answers a peek only with a message, and a push only once it is done;  *)
(* a timeout answers only a peek, and a v1 sender only after its push; a    *)
(* body over the limit is refused before it is stored.                      *)
MayAnswer(t, s) ==
    \/ /\ s = "OK"
       /\ stage[t] = IF call[t].kind \in Peeks THEN "read" ELSE "written"
    \/ /\ s = TimeoutStatus(call[t])
       /\ call[t].kind \in Peeks
       /\ call[t].kind = "fallback" => stage[t] \in {"written", "read"}
    \/ /\ s = RejectStatus(call[t])
       /\ stage[t] = "open" /\ ~Accepted(call[t])
    \/ s \in {"NONE", "BAD_REQUEST", "INTERNAL"}

Close(t, s) ==
    /\ stage[t] \in {"open", "written", "read"}
    /\ MayAnswer(t, s)
    /\ stage' = [stage EXCEPT ![t] = "closed"]
    /\ status' = [status EXCEPT ![t] = s]
    /\ got' = [got EXCEPT ![t] = IF s = "OK" THEN got[t] ELSE Empty]
    /\ UNCHANGED <<box, call>>

Next ==
    \E t \in Tasks :
        \/ \E c \in Calls : Open(t, c)
        \/ Write(t)
        \/ Read(t)
        \/ \E s \in Statuses : Close(t, s)

Spec == Init /\ [][Next]_mailboxVars
=============================================================================
