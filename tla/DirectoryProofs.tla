-------------------------- MODULE DirectoryProofs --------------------------
(***************************************************************************)
(* Theorems about the directory, for any set of tasks, subdirectories and  *)
(* requests, with or without faults and however slow redis is; and that    *)
(* they hold where clients poll it.                                        *)
(***************************************************************************)
EXTENDS Polling, TLAPS

LEMMA EmptyIsMessage == Empty \in Messages \cup {Empty}
  OBVIOUS

(* What a push stores is a message, and the channels of an accepted request *)
(* are channels of the store.                                               *)
LEMMA AcceptedCall ==
    ASSUME NEW c \in Calls, Accepted(c)
    PROVE  /\ c.kind \in Pushes => /\ Stored(c) \in Messages \cup {Empty}
                                   /\ PushChannel(c) \in Channels
           /\ c.kind \in Peeks => PeekChannel(c) \in Channels
           /\ c.kind \in Pushes \cup Peeks
  BY DEF Calls, Accepted, Malformed, TooLarge, Stored, Messages, Empty, PushChannel,
         PeekChannel, Channels, Columns, Pushes, Peeks

(* Spec => []TypeOK, inductive as it stands.                                *)
THEOREM TypeCorrect == Spec => []TypeOK
<1> USE CallsAssumption, DirectoryAssumption
<1>1. Init => TypeOK
  BY DEF Init, TypeOK, Statuses, Pcs, Busy, PushPcs, PeekPcs, Subscribed
<1>2. TypeOK /\ [Next]_vars => TypeOK'
  <2> SUFFICES ASSUME TypeOK, [Next]_vars PROVE TypeOK'
    OBVIOUS
  <2> USE DEF TypeOK, Goto, Pcs, Busy, PushPcs, PeekPcs, Statuses, Subscribed
  <2>1. ASSUME NEW t \in Tasks, NEW c \in Requests, Arrive(t, c) PROVE TypeOK'
    BY <2>1 DEF Arrive
  <2>2. ASSUME NEW t \in Tasks, Reject(t) PROVE TypeOK'
    BY <2>2 DEF Reject, Finish, RejectStatus
  <2>3. ASSUME NEW t \in Tasks, Start(t) PROVE TypeOK'
    <3>1. call[t] \in Calls /\ call[t].kind \in Pushes \cup Peeks
      BY <2>3, AcceptedCall DEF Start
    <3> QED BY <2>3, <3>1 DEF Start
  <2>4. ASSUME NEW t \in Tasks, Set(t) PROVE TypeOK'
    <3>1. Stored(call[t]) \in Messages \cup {Empty}
      BY <2>4, AcceptedCall DEF Set
    <3> QED BY <2>4, <3>1 DEF Set
  <2>5. ASSUME NEW t \in Tasks, Publish(t) PROVE TypeOK'
    <3>1. inbox' \in [Tasks -> 0 .. MaxUnread]
      BY <2>5 DEF Publish, Announce
    <3>2. \A u \in Tasks : inbox'[u] > 0 => Subscribed(u)'
      BY <2>5 DEF Publish, Announce
    <3>3. call[t].kind = "fallback" => call[t].kind \in Peeks
      BY DEF Peeks
    <3> QED BY <2>5, <3>1, <3>2, <3>3 DEF Publish, Announce
  <2>6. ASSUME NEW t \in Tasks, Get(t) PROVE TypeOK'
    <3>1. MyPeek(t) \in Channels
      BY <2>6, AcceptedCall DEF Get, MyPeek
    <3> QED BY <2>6, <3>1 DEF Get
  <2>7. ASSUME NEW t \in Tasks, Subscribe(t) PROVE TypeOK'
    BY <2>7 DEF Subscribe
  <2>8. ASSUME NEW t \in Tasks, Notified(t) PROVE TypeOK'
    BY <2>8 DEF Notified
  <2>9. ASSUME NEW t \in Tasks, ReGet(t) PROVE TypeOK'
    <3>1. MyPeek(t) \in Channels
      BY <2>9, AcceptedCall DEF ReGet, MyPeek
    <3> QED BY <2>9, <3>1 DEF ReGet
  <2>10. ASSUME NEW t \in Tasks, Unsubscribe(t) PROVE TypeOK'
    BY <2>10 DEF Unsubscribe
  <2>11. ASSUME NEW t \in Tasks, Respond(t) PROVE TypeOK'
    BY <2>11 DEF Respond, Finish
  <2>12. ASSUME NEW t \in Tasks, Timeout(t) PROVE TypeOK'
    BY <2>12 DEF Timeout, Finish, TimeoutStatus
  <2>13. ASSUME NEW t \in Tasks, RedisError(t) PROVE TypeOK'
    BY <2>13 DEF RedisError, Finish, Unannounced
  <2>14. ASSUME NEW t \in Tasks, Drop(t) PROVE TypeOK'
    BY <2>14 DEF Drop, Finish, Unannounced
  <2>15. CASE UNCHANGED vars
    BY <2>15 DEF vars
  <2> QED
    BY <2>1, <2>2, <2>3, <2>4, <2>5, <2>6, <2>7, <2>8, <2>9, <2>10, <2>11, <2>12,
       <2>13, <2>14, <2>15 DEF Next, Progress
<1> QED BY <1>1, <1>2, PTL DEF Spec

(* A step that neither stores, nor ends an announcement, nor puts a task to *)
(* sleep over a message leaves the invariant as it was.                     *)
LEMMA QuietStep ==
    ASSUME WakeupLostOnlyInWindow,
           store' = store,
           \A p \in Tasks : pc[p] = "publish" => pc'[p] = "publish" /\ call'[p] = call[p],
           \A u \in Tasks : Asleep(u)' /\ store[MyPeek(u)'] # Empty =>
               \/ missed'[u]
               \/ Asleep(u) /\ call'[u] = call[u] /\ missed'[u] = missed[u]
    PROVE  WakeupLostOnlyInWindow'
  BY DEF WakeupLostOnlyInWindow, AnnouncementPending, MyPush, MyPeek

(* A step that ends a push unannounced marks every task that will not hear  *)
(* of it.                                                                   *)
LEMMA UnannouncedStep ==
    ASSUME WakeupLostOnlyInWindow, TypeOK, NEW t \in Tasks, NEW s, NEW m,
           Finish(t, s, m), Unannounced(t)
    PROVE  WakeupLostOnlyInWindow'
  <1> SUFFICES ASSUME NEW u \in Tasks, Asleep(u)', store[MyPeek(u)] # Empty, ~missed'[u]
               PROVE  \E p \in Tasks : pc'[p] = "publish" /\ MyPush(p) = MyPeek(u)
    BY DEF WakeupLostOnlyInWindow, AnnouncementPending, Finish, MyPush, MyPeek
  <1>1. u # t /\ Asleep(u) /\ ~missed[u]
    BY DEF Finish, Goto, Asleep, TypeOK, Unannounced
  <1>2. PICK p \in Tasks : pc[p] = "publish" /\ MyPush(p) = MyPeek(u)
    BY <1>1 DEF WakeupLostOnlyInWindow, AnnouncementPending
  <1>3. p # t
    BY <1>1, <1>2 DEF Unannounced, Asleep
  <1> QED BY <1>2, <1>3 DEF Finish, Goto, TypeOK

(* Spec => []WakeupLostOnlyInWindow: inductive together with TypeOK.        *)
THEOREM WakeupLost == Spec => []WakeupLostOnlyInWindow
<1> USE CallsAssumption, DirectoryAssumption
<1>1. Init => WakeupLostOnlyInWindow
  BY DEF Init, WakeupLostOnlyInWindow, Asleep
<1>2. TypeOK /\ WakeupLostOnlyInWindow /\ [Next]_vars => WakeupLostOnlyInWindow'
  <2> SUFFICES ASSUME TypeOK, WakeupLostOnlyInWindow, [Next]_vars
               PROVE  WakeupLostOnlyInWindow'
    OBVIOUS
  <2> USE DEF TypeOK, Goto
  <2>1. ASSUME NEW t \in Tasks, NEW c \in Requests, Arrive(t, c)
        PROVE  WakeupLostOnlyInWindow'
    BY <2>1, QuietStep DEF Arrive, Asleep, MyPeek
  <2>2. ASSUME NEW t \in Tasks, Reject(t) PROVE WakeupLostOnlyInWindow'
    BY <2>2, QuietStep DEF Reject, Finish, Asleep, MyPeek
  <2>3. ASSUME NEW t \in Tasks, Start(t) PROVE WakeupLostOnlyInWindow'
    BY <2>3, QuietStep DEF Start, Asleep, MyPeek
  <2>4. ASSUME NEW t \in Tasks, Set(t) PROVE WakeupLostOnlyInWindow'
    <3> SUFFICES ASSUME NEW u \in Tasks, Asleep(u)', store'[MyPeek(u)] # Empty, ~missed[u]
                 PROVE  \E p \in Tasks : pc'[p] = "publish" /\ MyPush(p) = MyPeek(u)
      BY <2>4 DEF WakeupLostOnlyInWindow, AnnouncementPending, Set, MyPush, MyPeek
    <3>1. u # t /\ Asleep(u)
      BY <2>4 DEF Set, Asleep
    <3>2. CASE MyPeek(u) = MyPush(t)
      BY <2>4, <3>2 DEF Set
    <3>3. CASE MyPeek(u) # MyPush(t)
      <4>1. store[MyPeek(u)] # Empty
        BY <2>4, <3>3 DEF Set
      <4>2. PICK p \in Tasks : pc[p] = "publish" /\ MyPush(p) = MyPeek(u)
        BY <3>1, <4>1 DEF WakeupLostOnlyInWindow, AnnouncementPending
      <4> QED BY <2>4, <4>2 DEF Set
    <3> QED BY <3>2, <3>3
  <2>5. ASSUME NEW t \in Tasks, Publish(t) PROVE WakeupLostOnlyInWindow'
    <3> SUFFICES ASSUME NEW u \in Tasks, Asleep(u)', store[MyPeek(u)] # Empty, ~missed'[u]
                 PROVE  \E p \in Tasks : pc'[p] = "publish" /\ MyPush(p) = MyPeek(u)
      BY <2>5 DEF WakeupLostOnlyInWindow, AnnouncementPending, Publish, Announce, MyPush,
                  MyPeek
    <3>1. u # t /\ Asleep(u) /\ ~missed[u]
      BY <2>5 DEF Publish, Announce, Asleep, Subscribed
    <3>2. MyPeek(u) # MyPush(t)
      <4>1. pc[u] # "subscribe" \/ MyPeek(u) # MyPush(t)
        BY <2>5 DEF Publish, Announce
      <4>2. pc[u] = "waiting" /\ MyPeek(u) = MyPush(t) => inbox'[u] = inbox[u] + 1
        BY <2>5 DEF Publish, Announce, Subscribed
      <4> QED BY <2>5, <3>1, <4>1, <4>2 DEF Asleep, Publish
    <3>3. PICK p \in Tasks : pc[p] = "publish" /\ MyPush(p) = MyPeek(u)
      BY <3>1 DEF WakeupLostOnlyInWindow, AnnouncementPending
    <3> QED BY <2>5, <3>2, <3>3 DEF Publish
  <2>6. ASSUME NEW t \in Tasks, Get(t) PROVE WakeupLostOnlyInWindow'
    BY <2>6, QuietStep DEF Get, Asleep, MyPeek
  <2>7. ASSUME NEW t \in Tasks, Subscribe(t) PROVE WakeupLostOnlyInWindow'
    BY <2>7, QuietStep DEF Subscribe, Asleep, MyPeek
  <2>8. ASSUME NEW t \in Tasks, Notified(t) PROVE WakeupLostOnlyInWindow'
    BY <2>8, QuietStep DEF Notified, Asleep, MyPeek
  <2>9. ASSUME NEW t \in Tasks, ReGet(t) PROVE WakeupLostOnlyInWindow'
    BY <2>9, QuietStep DEF ReGet, Asleep, MyPeek
  <2>10. ASSUME NEW t \in Tasks, Unsubscribe(t) PROVE WakeupLostOnlyInWindow'
    BY <2>10, QuietStep DEF Unsubscribe, Asleep, MyPeek
  <2>11. ASSUME NEW t \in Tasks, Respond(t) PROVE WakeupLostOnlyInWindow'
    BY <2>11, QuietStep DEF Respond, Finish, Asleep, MyPeek
  <2>12. ASSUME NEW t \in Tasks, Timeout(t) PROVE WakeupLostOnlyInWindow'
    <3>1. pc[t] # "publish"
      BY <2>12 DEF Timeout, TimerMayFire, PeekPcs
    <3> QED BY <2>12, <3>1, QuietStep DEF Timeout, Finish, Asleep, MyPeek
  <2>13. ASSUME NEW t \in Tasks, RedisError(t) PROVE WakeupLostOnlyInWindow'
    BY <2>13, UnannouncedStep DEF RedisError
  <2>14. ASSUME NEW t \in Tasks, Drop(t) PROVE WakeupLostOnlyInWindow'
    BY <2>14, UnannouncedStep DEF Drop
  <2>15. CASE UNCHANGED vars
    BY <2>15 DEF vars, WakeupLostOnlyInWindow, Asleep, AnnouncementPending, MyPush, MyPeek
  <2> QED
    BY <2>1, <2>2, <2>3, <2>4, <2>5, <2>6, <2>7, <2>8, <2>9, <2>10, <2>11, <2>12,
       <2>13, <2>14, <2>15 DEF Next, Progress
<1> QED BY <1>1, <1>2, TypeCorrect, PTL DEF Spec

-----------------------------------------------------------------------------
(* The directory implements the mailbox: a push is the SET, a peek is the   *)
(* GET that found a message, and everything else a task does is either the  *)
(* arrival of a request, its answer, or invisible.                          *)

LEMMA SameCalls ==
    /\ MB!Empty = Empty /\ MB!NoCall = NoCall /\ MB!Channels = Channels
    /\ MB!Pushes = Pushes /\ MB!Peeks = Peeks /\ MB!Statuses = Statuses /\ MB!Calls = Calls
    /\ \A c : /\ MB!Stored(c) = Stored(c)
              /\ MB!PushChannel(c) = PushChannel(c)
              /\ MB!PeekChannel(c) = PeekChannel(c)
              /\ MB!Accepted(c) = Accepted(c)
              /\ MB!RejectStatus(c) = RejectStatus(c)
              /\ MB!TimeoutStatus(c) = TimeoutStatus(c)
  BY Zenon DEF Empty, MB!Empty, NoCall, MB!NoCall, Columns, MB!Columns, Channels, MB!Channels,
     Pushes, MB!Pushes, Peeks, MB!Peeks, Statuses, MB!Statuses, Calls, MB!Calls,
     Stored, MB!Stored, PushChannel, MB!PushChannel, PeekChannel, MB!PeekChannel,
     Accepted, MB!Accepted, Malformed, MB!Malformed, TooLarge, MB!TooLarge,
     RejectStatus, MB!RejectStatus, TimeoutStatus, MB!TimeoutStatus

(* Each step moves the stage of the one task that takes it.                 *)
LEMMA StageMoves ==
    ASSUME TypeOK, NEW t \in Tasks, NEW label \in Pcs, Goto(t, label),
           \A u \in Tasks \ {t} : call'[u] = call[u]
    PROVE  [u \in Tasks |-> Stage(u)]' = [[u \in Tasks |-> Stage(u)] EXCEPT ![t] = Stage(t)']
  <1>1. \A u \in Tasks \ {t} : Stage(u)' = Stage(u)
    BY DEF TypeOK, Goto, Stage
  <1> QED BY <1>1

(* A step that keeps the stage of its task and what clients see is a        *)
(* stuttering step of the mailbox.                                          *)
LEMMA StageKept ==
    ASSUME TypeOK, NEW t \in Tasks, NEW label \in Pcs, Goto(t, label),
           Stage(t)' = Stage(t), UNCHANGED <<store, call, data, status>>
    PROVE  UNCHANGED MB!mailboxVars
  <1>1. \A u \in Tasks : Stage(u)' = Stage(u)
    BY DEF TypeOK, Goto, Stage
  <1> QED BY <1>1 DEF MB!mailboxVars

(* Leaving a handler is the Close of the mailbox, with the same answer.     *)
LEMMA FinishCloses ==
    ASSUME TypeOK, NEW t \in Tasks, NEW s, NEW m, Finish(t, s, m),
           pc[t] \in Busy, MB!MayAnswer(t, s), m = IF s = "OK" THEN data[t] ELSE Empty
    PROVE  MB!Close(t, s)
  <1>1. Stage(t) \in {"open", "written", "read"} /\ Stage(t)' = "closed"
    BY DEF TypeOK, Finish, Goto, Stage, Busy, PushPcs, PeekPcs
  <1>2. [u \in Tasks |-> Stage(u)]' = [[u \in Tasks |-> Stage(u)] EXCEPT ![t] = "closed"]
    BY <1>1, StageMoves DEF Finish, Pcs
  <1> QED BY <1>1, <1>2, SameCalls DEF Finish, MB!Close

THEOREM DirectoryImplementsMailbox == Spec => ImplementsMailbox
<1> USE CallsAssumption, DirectoryAssumption
<1>1. Init => MB!Init
  BY SameCalls DEF Init, MB!Init, Stage
<1>2. TypeOK /\ [Next]_vars => [MB!Next]_MB!mailboxVars
  <2> SUFFICES ASSUME TypeOK, Next PROVE MB!Next \/ UNCHANGED MB!mailboxVars
    BY DEF vars, MB!mailboxVars, Stage
  <2>1. ASSUME NEW t \in Tasks, NEW c \in Requests, Arrive(t, c) PROVE MB!Open(t, c)
    <3>1. Stage(t) \in {"idle", "closed"} /\ Stage(t)' = "open"
      BY <2>1 DEF Arrive, Goto, Stage, TypeOK
    <3>2. [u \in Tasks |-> Stage(u)]' = [[u \in Tasks |-> Stage(u)] EXCEPT ![t] = "open"]
      BY <2>1, <3>1, StageMoves DEF Arrive, TypeOK, Pcs, Busy
    <3> QED BY <2>1, <3>1, <3>2, SameCalls DEF Arrive, MB!Open
  <2>2. ASSUME NEW t \in Tasks, Reject(t) PROVE MB!Close(t, RejectStatus(call[t]))
    <3>1. Stage(t) = "open" /\ RejectStatus(call[t]) # "OK"
      BY <2>2 DEF Reject, Stage, RejectStatus
    <3>2. MB!MayAnswer(t, RejectStatus(call[t]))
      BY <2>2, <3>1, SameCalls DEF MB!MayAnswer, Reject
    <3> QED BY <2>2, <3>1, <3>2, FinishCloses DEF Reject, Busy
  <2>3. ASSUME NEW t \in Tasks, Start(t) PROVE UNCHANGED MB!mailboxVars
    <3>1. Stage(t)' = Stage(t)
      BY <2>3 DEF Start, Goto, Stage, TypeOK
    <3> QED BY <2>3, <3>1, StageKept DEF Start, Pcs, Busy, PushPcs, PeekPcs
  <2>4. ASSUME NEW t \in Tasks, Set(t) PROVE MB!Write(t)
    <3>1. /\ Stage(t) = "open" /\ Stage(t)' = "written"
          /\ call[t].kind \in Pushes /\ Accepted(call[t])
      BY <2>4 DEF Set, Goto, Stage, TypeOK, Busy, PushPcs
    <3>2. [u \in Tasks |-> Stage(u)]' = [[u \in Tasks |-> Stage(u)] EXCEPT ![t] = "written"]
      BY <2>4, <3>1, StageMoves DEF Set, Pcs, Busy, PushPcs
    <3> QED BY <2>4, <3>1, <3>2, SameCalls DEF Set, MB!Write, MyPush
  <2>5. ASSUME NEW t \in Tasks, Publish(t) PROVE UNCHANGED MB!mailboxVars
    <3>1. Stage(t)' = Stage(t)
      BY <2>5 DEF Publish, Goto, Stage, TypeOK, PushPcs, Pushes, Peeks
    <3> QED BY <2>5, <3>1, StageKept DEF Publish, Pcs, Busy, PeekPcs
  <2>6. ASSUME NEW t \in Tasks, pc[t] \in {"get", "reget"}, store[MyPeek(t)] # Empty,
               data' = [data EXCEPT ![t] = store[MyPeek(t)]],
               Goto(t, "respond") \/ Goto(t, "unsubscribe"),
               UNCHANGED <<store, call, status>>
        PROVE  MB!Read(t)
    <3>1. /\ call[t].kind \in Peeks /\ Accepted(call[t]) /\ Stage(t)' = "read"
          /\ Stage(t) = IF call[t].kind = "fallback" THEN "written" ELSE "open"
      BY <2>6 DEF Goto, Stage, TypeOK, Busy, PeekPcs, Peeks, Pushes
    <3>2. [u \in Tasks |-> Stage(u)]' = [[u \in Tasks |-> Stage(u)] EXCEPT ![t] = "read"]
      BY <2>6, <3>1, StageMoves DEF Pcs, Busy, PeekPcs
    <3> QED BY <2>6, <3>1, <3>2, SameCalls DEF MB!Read, MyPeek
  <2>7. ASSUME NEW t \in Tasks, pc[t] \in PeekPcs \ {"unsubscribe"},
               Goto(t, "subscribe") \/ Goto(t, "waiting") \/ Goto(t, "reget"),
               UNCHANGED <<store, call, data, status>>
        PROVE  UNCHANGED MB!mailboxVars
    <3>1. Stage(t)' = Stage(t)
      BY <2>7 DEF Goto, Stage, TypeOK, PeekPcs
    <3> QED BY <2>7, <3>1, StageKept DEF Pcs, Busy, PeekPcs
  <2>8. ASSUME NEW t \in Tasks, Unsubscribe(t) PROVE UNCHANGED MB!mailboxVars
    <3>1. Stage(t)' = Stage(t)
      BY <2>8 DEF Unsubscribe, Goto, Stage, TypeOK, PeekPcs
    <3> QED BY <2>8, <3>1, StageKept DEF Unsubscribe, Pcs, Busy
  <2>9. ASSUME NEW t \in Tasks, Respond(t) PROVE MB!Close(t, "OK")
    <3>1. /\ call[t].kind \in Pushes \cup Peeks
          /\ Stage(t) = IF call[t].kind \in Peeks THEN "read" ELSE "written"
      BY <2>9, AcceptedCall DEF Respond, Stage, TypeOK, Busy
    <3>2. MB!MayAnswer(t, "OK")
      BY <3>1, SameCalls DEF MB!MayAnswer
    <3> QED BY <2>9, <3>2, FinishCloses DEF Respond, Busy
  <2>10. ASSUME NEW t \in Tasks, Timeout(t) PROVE MB!Close(t, TimeoutStatus(call[t]))
    <3>1. pc[t] \in PeekPcs /\ call[t].kind \in Peeks /\ TimeoutStatus(call[t]) # "OK"
      BY <2>10 DEF Timeout, TimerMayFire, PeekPcs, TypeOK, TimeoutStatus
    <3>2. call[t].kind = "fallback" => Stage(t) \in {"written", "read"}
      BY <3>1 DEF PeekPcs, Stage, Pushes
    <3>3. MB!MayAnswer(t, TimeoutStatus(call[t]))
      BY <3>1, <3>2, SameCalls DEF MB!MayAnswer
    <3> QED BY <2>10, <3>1, <3>3, FinishCloses DEF Timeout, Busy
  <2>11. ASSUME NEW t \in Tasks, RedisError(t)
         PROVE  MB!Close(t, "BAD_REQUEST") \/ MB!Close(t, "INTERNAL")
    <3>1. MB!MayAnswer(t, "BAD_REQUEST") /\ MB!MayAnswer(t, "INTERNAL")
      BY DEF MB!MayAnswer
    <3> QED BY <2>11, <3>1, FinishCloses DEF RedisError, Busy
  <2>12. ASSUME NEW t \in Tasks, Drop(t) PROVE MB!Close(t, "NONE")
    <3>1. MB!MayAnswer(t, "NONE")
      BY DEF MB!MayAnswer
    <3> QED BY <2>12, <3>1, FinishCloses DEF Drop
  <2>13. ASSUME NEW t \in Tasks, Get(t) \/ ReGet(t) \/ Subscribe(t) \/ Notified(t)
         PROVE  MB!Read(t) \/ UNCHANGED MB!mailboxVars
    BY <2>13, <2>6, <2>7 DEF Get, ReGet, Subscribe, Notified, PeekPcs
  <2>14. PICK t \in Tasks : \/ \E c \in Requests : Arrive(t, c)
                            \/ Progress(t) \/ Timeout(t) \/ RedisError(t) \/ Drop(t)
    BY DEF Next
  <2>15. {RejectStatus(call[t]), TimeoutStatus(call[t]), "OK", "BAD_REQUEST", "INTERNAL",
          "NONE"} \subseteq MB!Statuses
    BY SameCalls DEF RejectStatus, TimeoutStatus, Statuses
  <2>16. Requests \subseteq MB!Calls
    BY SameCalls
  <2> QED
    BY <2>1, <2>2, <2>3, <2>4, <2>5, <2>8, <2>9, <2>10, <2>11, <2>12, <2>13, <2>14, <2>15,
       <2>16 DEF MB!Next, Progress
<1> QED BY <1>1, <1>2, TypeCorrect, PTL DEF Spec, ImplementsMailbox, MB!Spec

-----------------------------------------------------------------------------
(* The clients that poll.                                                   *)

(* What a task serves, or has served, is a request of some client.          *)
Asked ==
    /\ pc \in [Tasks -> Pcs]
    /\ call \in [Tasks -> Requests \cup {NoCall}]
    /\ \A t \in Tasks : pc[t] # "idle" => call[t] \in Requests

LEMMA PollStep == Asked /\ PollNext => Next
<1> SUFFICES ASSUME Asked, PollNext PROVE Next
  OBVIOUS
<1>1. ASSUME NEW t \in Pollers, StartPolling(t) PROVE Next
  BY <1>1, PollingAssumption DEF StartPolling, Next
<1>2. ASSUME NEW t \in Pollers, PollAgain(t) PROVE Next
  BY <1>2, PollingAssumption DEF PollAgain, Asked, Next
<1> QED
  BY <1>1, <1>2 DEF PollNext, Next

LEMMA AskedStep == Asked /\ [Next]_vars => Asked'
<1> SUFFICES ASSUME Asked, [Next]_vars PROVE Asked'
  OBVIOUS
<1>1. ASSUME NEW t \in Tasks, NEW c \in Requests, Arrive(t, c) PROVE Asked'
  BY <1>1 DEF Arrive, Goto, Asked, Pcs, Busy
<1>2. ASSUME NEW t \in Tasks, NEW label \in Pcs \ {"idle"}, pc[t] # "idle",
             Goto(t, label), UNCHANGED call
      PROVE  Asked'
  BY <1>2 DEF Goto, Asked
<1>3. ASSUME NEW t \in Tasks, Progress(t) \/ Timeout(t) \/ RedisError(t) \/ Drop(t)
      PROVE  /\ pc[t] # "idle" /\ UNCHANGED call
             /\ \E label \in Pcs \ {"idle"} : Goto(t, label)
  BY <1>3 DEF Progress, Reject, Start, Set, Publish, Get, Subscribe, Notified, ReGet, Unsubscribe,
              Respond, Timeout, TimerMayFire, RedisError, Drop, Finish, Pcs, Busy, PushPcs, PeekPcs
<1>4. CASE UNCHANGED vars
  BY <1>4 DEF vars, Asked
<1> QED
  BY <1>1, <1>2, <1>3, <1>4 DEF Next

(* The loops of payjoin-cli ask nothing that the directory's handlers have  *)
(* not been proved for: a client that repeats its GET for as long as it is  *)
(* answered 202 is one more client, so that all theorems above hold of the  *)
(* directory with pollers.                                                  *)
THEOREM PollersAreClients == PollSpec => Spec
<1>1. Init => Asked
  BY DEF Init, Asked, Pcs
<1>2. Asked /\ [PollNext]_vars => Asked' /\ [Next]_vars
  BY PollStep, AskedStep
<1> QED
  BY <1>1, <1>2, PTL DEF PollSpec, Spec

(* Neither loop gains or loses a message over the atomic mailbox, and while *)
(* a client polls, a wake-up is lost in the named windows only.             *)
THEOREM PollersUseMailbox == PollSpec => ImplementsMailbox /\ []WakeupLostOnlyInWindow
BY PollersAreClients, DirectoryImplementsMailbox, WakeupLost, PTL
=============================================================================
