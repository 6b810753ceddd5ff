----------------------------- MODULE Directory -----------------------------
(***************************************************************************)
(* The payjoin directory as it is built: each request is a task that walks *)
(* through the awaits of its handler (payjoin-directory/src/lib.rs) and of *)
(* DbPool (payjoin-directory/src/db.rs), one redis command per step.  A    *)
(* push is SET then PUBLISH; a peek is GET, SUBSCRIBE, then a GET for each *)
(* notification until one finds a message, all under one timeout.          *)
(***************************************************************************)
EXTENDS DirectoryCalls, Naturals

CONSTANTS
    Requests,      \* the requests the clients send
    Faults,        \* TRUE: redis commands may fail and tasks may be dropped
    PromptRedis,   \* TRUE: redis answers before the timer, which then fires
                   \* only in a task that waits for a notification
    MaxUnread      \* bound: notifications a subscription may have unread

ASSUME DirectoryAssumption ==
    /\ Requests \subseteq Calls
    /\ Faults \in BOOLEAN
    /\ PromptRedis \in BOOLEAN
    /\ MaxUnread \in Nat \ {0}

VARIABLES
    store,   \* redis: the value at each key, Empty when missing or ""
    pc,      \* the await each task stands at
    call,    \* the request each task serves
    data,    \* what a peek has read
    status,  \* the HTTP status of the answer
    inbox,   \* notifications delivered to a task's subscription, unread
    missed   \* auxiliary: the task can have missed an announcement

vars == <<store, pc, call, data, status, inbox, missed>>

PushPcs == {"set", "publish"}
PeekPcs == {"get", "subscribe", "waiting", "reget", "unsubscribe"}
Busy    == {"start", "respond"} \cup PushPcs \cup PeekPcs
Pcs     == {"idle", "done"} \cup Busy

MyPush(t) == PushChannel(call[t])
MyPeek(t) == PeekChannel(call[t])

Init ==
    /\ store = [k \in Channels |-> Empty]
    /\ pc = [t \in Tasks |-> "idle"]
    /\ call = [t \in Tasks |-> NoCall]
    /\ data = [t \in Tasks |-> Empty]
    /\ status = [t \in Tasks |-> "NONE"]
    /\ inbox = [t \in Tasks |-> 0]
    /\ missed = [t \in Tasks |-> FALSE]

-----------------------------------------------------------------------------

Goto(t, label) == pc' = [pc EXCEPT ![t] = label]

(* A task leaves its handler with an answer; its redis connections close.   *)
Finish(t, s, m) ==
    /\ Goto(t, "done")
    /\ status' = [status EXCEPT ![t] = s]
    /\ data' = [data EXCEPT ![t] = m]
    /\ inbox' = [inbox EXCEPT ![t] = 0]
    /\ UNCHANGED <<store, call>>

(* A request arrives and is routed to its handler. *)
Arrive(t, c) ==
    /\ pc[t] \in {"idle", "done"}
    /\ Goto(t, "start")
    /\ call' = [call EXCEPT ![t] = c]
    /\ data' = [data EXCEPT ![t] = Empty]
    /\ status' = [status EXCEPT ![t] = "NONE"]
    /\ missed' = [missed EXCEPT ![t] = FALSE]
    /\ UNCHANGED <<store, inbox>>

(* The early returns: an unreadable body, a bad id, a body over the limit.  *)
Reject(t) ==
    /\ pc[t] = "start"
    /\ ~Accepted(call[t])
    /\ Finish(t, RejectStatus(call[t]), Empty)
    /\ UNCHANGED missed

(* Mutant: the size of a v2 body is not checked. *)
StartUnlimited(t) ==
    /\ pc[t] = "start"
    /\ ~Malformed(call[t])
    /\ Goto(t, IF call[t].kind \in Pushes THEN "set" ELSE "get")
    /\ UNCHANGED <<store, call, data, status, inbox, missed>>

Start(t) ==
    /\ pc[t] = "start"
    /\ Accepted(call[t])
    /\ Goto(t, IF call[t].kind \in Pushes THEN "set" ELSE "get")
    /\ UNCHANGED <<store, call, data, status, inbox, missed>>

(* push, first command: the last writer wins, whatever was there before.    *)
Set(t) ==
    /\ pc[t] = "set"
    /\ store' = [store EXCEPT ![MyPush(t)] = Stored(call[t])]
    /\ Goto(t, "publish")
    /\ UNCHANGED <<call, data, status, inbox, missed>>

(* push, second command: redis hands the announcement to the connections    *)
(* subscribed at that moment and keeps it for nobody else.                  *)
Subscribed(t) == pc[t] \in {"waiting", "reget", "unsubscribe"}

Announce(k) ==
    /\ \A u \in Tasks : Subscribed(u) /\ MyPeek(u) = k => inbox[u] < MaxUnread
    /\ inbox' = [u \in Tasks |-> IF Subscribed(u) /\ MyPeek(u) = k
                                 THEN inbox[u] + 1 ELSE inbox[u]]
    /\ missed' = [u \in Tasks |-> missed[u] \/ (pc[u] = "subscribe" /\ MyPeek(u) = k)]

(* Mutant: the notification channel forgets the column. *)
PublishWithoutColumn(t) ==
    /\ pc[t] = "publish"
    /\ Announce(<<call[t].id, "default">>)
    /\ Goto(t, IF call[t].kind = "fallback" THEN "get" ELSE "respond")
    /\ UNCHANGED <<store, call, data, status>>

Publish(t) ==
    /\ pc[t] = "publish"
    /\ Announce(MyPush(t))
    /\ Goto(t, IF call[t].kind = "fallback" THEN "get" ELSE "respond")
    /\ UNCHANGED <<store, call, data, status>>

(* Mutant: a v1 sender is answered from the column it has just written. *)
GetOwnColumn(t) ==
    /\ pc[t] = "get"
    /\ LET m == store[MyPush(t)] IN
          /\ data' = [data EXCEPT ![t] = m]
          /\ Goto(t, IF m = Empty THEN "subscribe" ELSE "respond")
    /\ UNCHANGED <<store, call, status, inbox, missed>>

(* Mutant: a peek only listens for what comes after it. *)
GetNothing(t) ==
    /\ pc[t] = "get"
    /\ Goto(t, "subscribe")
    /\ UNCHANGED <<store, call, data, status, inbox, missed>>

(* peek, first read: a message ends it, an empty reply or an error that the *)
(* code ignores goes on to subscribe.                                       *)
Get(t) ==
    /\ pc[t] = "get"
    /\ LET m == store[MyPeek(t)] IN
          \/ /\ m # Empty
             /\ data' = [data EXCEPT ![t] = m]
             /\ Goto(t, "respond")
             /\ UNCHANGED missed
          \/ /\ m = Empty
             /\ Goto(t, "subscribe")
             /\ UNCHANGED <<data, missed>>
          \/ /\ Faults
             /\ Goto(t, "subscribe")
             /\ missed' = [missed EXCEPT ![t] = @ \/ m # Empty]
             /\ UNCHANGED data
    /\ UNCHANGED <<store, call, status, inbox>>

Subscribe(t) ==
    /\ pc[t] = "subscribe"
    /\ Goto(t, "waiting")
    /\ UNCHANGED <<store, call, data, status, inbox, missed>>

Notified(t) ==
    /\ pc[t] = "waiting"
    /\ inbox[t] > 0
    /\ inbox' = [inbox EXCEPT ![t] = @ - 1]
    /\ Goto(t, "reget")
    /\ UNCHANGED <<store, call, data, status, missed>>

ReGet(t) ==
    /\ pc[t] = "reget"
    /\ LET m == store[MyPeek(t)] IN
          IF m = Empty
          THEN Goto(t, "waiting") /\ UNCHANGED data
          ELSE /\ Goto(t, "unsubscribe")
               /\ data' = [data EXCEPT ![t] = m]
    /\ UNCHANGED <<store, call, status, inbox, missed>>

(* The connection is dropped on return, and with it what is left unread.    *)
Unsubscribe(t) ==
    /\ pc[t] = "unsubscribe"
    /\ Goto(t, "respond")
    /\ inbox' = [inbox EXCEPT ![t] = 0]
    /\ UNCHANGED <<store, call, data, status, missed>>

Respond(t) ==
    /\ pc[t] = "respond"
    /\ Finish(t, "OK", data[t])
    /\ UNCHANGED missed

(* The timer runs over every await of the peek and discards what it holds.  *)
TimerNever(t) == FALSE   \* mutant: the peek is awaited without a timeout

TimerMayFire(t) ==
    IF PromptRedis THEN pc[t] = "waiting" /\ inbox[t] = 0 ELSE pc[t] \in PeekPcs

Timeout(t) ==
    /\ TimerMayFire(t)
    /\ Finish(t, TimeoutStatus(call[t]), Empty)
    /\ UNCHANGED missed

-----------------------------------------------------------------------------
(* Faults.  A push that dies before its PUBLISH leaves the message stored   *)
(* and nobody told.                                                         *)

Unannounced(t) ==
    missed' = [u \in Tasks |->
                 \/ missed[u]
                 \/ /\ pc[t] = "publish"
                    /\ pc[u] \in {"subscribe", "waiting"}
                    /\ MyPeek(u) = MyPush(t)]

(* A redis command fails: a push answers 400, a peek 500.  The stream of    *)
(* notifications ending is such a failure too.                              *)
RedisError(t) ==
    /\ Faults
    /\ \/ pc[t] \in PushPcs /\ Finish(t, "BAD_REQUEST", Empty)
       \/ pc[t] \in PeekPcs /\ Finish(t, "INTERNAL", Empty)
    /\ Unannounced(t)

(* The client's connection or the server goes away: no answer is sent.      *)
Drop(t) ==
    /\ Faults
    /\ pc[t] \in Busy
    /\ Finish(t, "NONE", Empty)
    /\ Unannounced(t)

-----------------------------------------------------------------------------

Progress(t) ==
    \/ Reject(t) \/ Start(t)
    \/ Set(t) \/ Publish(t)
    \/ Get(t) \/ Subscribe(t) \/ Notified(t) \/ ReGet(t) \/ Unsubscribe(t)
    \/ Respond(t)

Next ==
    \E t \in Tasks :
        \/ \E c \in Requests : Arrive(t, c)
        \/ Progress(t)
        \/ Timeout(t)
        \/ RedisError(t)
        \/ Drop(t)

Spec == Init /\ [][Next]_vars

(* tokio polls every ready task, and every timer expires.                   *)
FairSpec == Spec /\ \A t \in Tasks : WF_vars(Progress(t)) /\ WF_vars(Timeout(t))

-----------------------------------------------------------------------------
(* Every variable keeps its type; an unread notification is only ever held  *)
(* by a task whose redis connection is subscribed (DbPool::peek).           *)
TypeOK ==
    /\ store \in [Channels -> Messages \cup {Empty}]
    /\ pc \in [Tasks -> Pcs]
    /\ call \in [Tasks -> Calls \cup {NoCall}]
    /\ data \in [Tasks -> Messages \cup {Empty}]
    /\ status \in [Tasks -> Statuses]
    /\ inbox \in [Tasks -> 0 .. MaxUnread]
    /\ missed \in [Tasks -> BOOLEAN]
    /\ \A t \in Tasks :
          /\ pc[t] \in Busy => call[t] \in Calls
          /\ pc[t] \in Busy \ {"start"} => Accepted(call[t])
          /\ pc[t] \in PushPcs => call[t].kind \in Pushes
          /\ pc[t] \in PeekPcs => call[t].kind \in Peeks
          /\ inbox[t] > 0 => Subscribed(t)

(* A task that sleeps on its subscription while its channel holds a message *)
(* is about to be told (the push stands between SET and PUBLISH), or it is  *)
(* in one of the windows the code leaves open: the announcement came after  *)
(* its first GET and before its SUBSCRIBE (db.rs:106-116), that GET failed  *)
(* and the error was ignored, or a push died before its PUBLISH.            *)
AnnouncementPending(k) == \E p \in Tasks : pc[p] = "publish" /\ MyPush(p) = k

Asleep(t) == pc[t] = "subscribe" \/ (pc[t] = "waiting" /\ inbox[t] = 0)

WakeupLostOnlyInWindow ==
    \A t \in Tasks :
        Asleep(t) /\ store[MyPeek(t)] # Empty
            => missed[t] \/ AnnouncementPending(MyPeek(t))

(* The directory implements the mailbox: an OK answer to a peek carries the *)
(* message its channel held at one moment of the request, a push takes      *)
(* effect at its SET, and neither depends on publish/subscribe, on what     *)
(* other channels hold or on requests that fail half way.                   *)
Stage(t) ==
    IF pc[t] = "idle" THEN "idle"
    ELSE IF pc[t] = "done" THEN "closed"
    ELSE IF pc[t] \in {"start", "set"} THEN "open"
    ELSE IF pc[t] = "unsubscribe" \/ (pc[t] = "respond" /\ call[t].kind \in Peeks) THEN "read"
    ELSE IF call[t].kind \in Pushes THEN "written"
    ELSE "open"

MB == INSTANCE Mailbox WITH box <- store, stage <- [t \in Tasks |-> Stage(t)], got <- data

ImplementsMailbox == MB!Spec

(* Every request is answered or dropped: the timer ends the peeks that      *)
(* nothing else ends (DbPool::peek_with_timeout).                           *)
EveryRequestEnds == \A t \in Tasks : pc[t] = "start" ~> pc[t] = "done"
=============================================================================
