------------------------------ MODULE Sessions ------------------------------
(***************************************************************************)
(* The payjoin-cli v2 sessions (payjoin-cli/src/app/v2.rs): one receiver,  *)
(* whose process runs a task per session over one sled database, and the   *)
(* sender of each session with a database of its own, talking through the  *)
(* mailboxes of the directory.  A process may be interrupted or crash at   *)
(* any await; what is left is its database, the mailboxes and the chain.   *)
(*                                                                         *)
(* The directory is the Mailbox that Directory implements: a message in    *)
(* each subdirectory, overwritten by the next.                             *)
(***************************************************************************)
EXTENDS Naturals

CONSTANTS
    Sessions,         \* the receive sessions, each with its subdirectory
    Coins,            \* the outpoints senders spend
    Keys,             \* the reply keys senders generate
    NoKey,            \* where there is no reply key
    Originals,        \* for each session, the input sets its Original may have
    MaxCrashes,       \* bound: how often the receiver is cut off
    MaxSenderCrashes, \* bound: how often each sender process is
    Expiring,         \* bound: the sessions that may reach their expiry
    WalletMayFail     \* TRUE: the receiver's wallet may fail to build a proposal

ASSUME SessionsAssumption ==
    /\ Originals \in [Sessions -> SUBSET (SUBSET Coins \ {{}})]
    /\ NoKey \notin Keys
    /\ MaxCrashes \in Nat /\ MaxSenderCrashes \in Nat
    /\ Expiring \subseteq Sessions /\ WalletMayFail \in BOOLEAN

VARIABLES
    recvDb,    \* sled "recv_sessions": the sessions a resume would start
    seen,      \* sled: the outpoints of insert_input_seen_before
    opened,    \* the sessions whose URI has been handed out
    task,      \* where the task of each receive session stands
    origin,    \* the Original each task has fetched
    rest,      \* the inputs of it check 3 has still to look up
    crashes,
    sendDb,    \* sled "send_sessions" of each sender
    sender,    \* where each sender stands
    replyKey,  \* the reply key its process holds
    senderCrashes,
    box,       \* the default column of each session's subdirectory
    v1Box,     \* the sessions with a reply in their pjv1 column
    replyBox,  \* the reply subdirectories, <<session, key>>, with a proposal
    closed,    \* the sessions past their expiry by the receiver's clock
    expired,   \* the sessions past the exp of their URI by the sender's clock
    spent,     \* the coins spent on chain
    paid,      \* the sessions whose sender has broadcast a payjoin
    replies    \* auxiliary: proposals posted that spend each coin

recvVars  == <<recvDb, seen, opened, task, origin, rest, crashes>>
sendVars  == <<sendDb, sender, replyKey, senderCrashes>>
boxVars   == <<box, v1Box, replyBox>>
chainVars == <<spent, paid>>
clockVars == <<closed, expired>>
vars == <<recvVars, sendVars, boxVars, clockVars, chainVars, replies>>

-----------------------------------------------------------------------------

Stored   == [coins : SUBSET Coins, key : Keys]
NoRecord == [coins |-> {}, key |-> NoKey]

(* A subdirectory holds nothing, an Original from a v1 or a v2 sender, or   *)
(* the JSON of an error.                                                    *)
Nothing  == [kind |-> "nothing"]
ErrorMsg == [kind |-> "error"]
V1Msgs   == [kind : {"v1"}, coins : SUBSET Coins]
V2Msgs   == [kind : {"v2"}, coins : SUBSET Coins, key : Keys]
OriginalMsgs == V1Msgs \cup V2Msgs

Working == {"poll", "asking", "check1", "check3", "build", "reply", "refuse", "clear"}

Init ==
    /\ recvDb = {} /\ seen = {} /\ opened = {} /\ crashes = 0
    /\ task = [s \in Sessions |-> "off"]
    /\ origin = [s \in Sessions |-> Nothing]
    /\ rest = [s \in Sessions |-> {}]
    /\ sendDb = [s \in Sessions |-> NoRecord]
    /\ sender = [s \in Sessions |-> "off"]
    /\ replyKey = [s \in Sessions |-> NoKey]
    /\ senderCrashes = [s \in Sessions |-> 0]
    /\ box = [s \in Sessions |-> Nothing]
    /\ v1Box = {} /\ replyBox = {} /\ closed = {} /\ expired = {} /\ spent = {} /\ paid = {}
    /\ replies = [c \in Coins |-> 0]

-----------------------------------------------------------------------------
(* The receiver.  sled's lock keeps its processes from running at once.     *)

ProcessDown == \A s \in Sessions : task[s] = "off"

Step(s, from, to) == task[s] = from /\ task' = [task EXCEPT ![s] = to]

(* receive: a new session is saved, then its task starts. *)
Receive(s) ==
    /\ ProcessDown
    /\ s \notin opened
    /\ recvDb' = recvDb \cup {s}
    /\ opened' = opened \cup {s}
    /\ Step(s, "off", "poll")
    /\ UNCHANGED <<seen, origin, rest, crashes, sendVars, boxVars, clockVars, chainVars, replies>>

(* resume: a task for every session the database still has. *)
Resume ==
    /\ ProcessDown
    /\ recvDb # {}
    /\ task' = [s \in Sessions |-> IF s \in recvDb THEN "poll" ELSE "off"]
    /\ UNCHANGED <<recvDb, seen, opened, origin, rest, crashes, sendVars, boxVars, clockVars,
                   chainVars, replies>>

(* extract_req: past the expiry, by the receiver's clock, the task gives    *)
(* up; otherwise its request is on its way.  The expiry is tested only here. *)
Ask(s) ==
    /\ Step(s, "poll", IF s \in closed THEN "off" ELSE "asking")
    /\ UNCHANGED <<recvDb, seen, opened, origin, rest, crashes, sendVars, boxVars, clockVars,
                   chainVars, replies>>

(* Mutant: whatever the mailbox holds is taken for an Original. *)
AnswerAnything(s) ==
    /\ IF box[s] = Nothing
       THEN /\ Step(s, "asking", "poll")
            /\ UNCHANGED origin
       ELSE /\ Step(s, "asking", "check1")
            /\ origin' = [origin EXCEPT ![s] = box[s]]
    /\ UNCHANGED <<recvDb, seen, opened, rest, crashes, sendVars, boxVars, clockVars, chainVars,
                   replies>>

(* The directory's answer, as late as its timeout: nothing, and the task    *)
(* asks again; an Original; or a message that is none, and it gives up.     *)
Answer(s) ==
    /\ \/ /\ box[s] \in {Nothing, ErrorMsg}
          /\ Step(s, "asking", IF box[s] = Nothing THEN "poll" ELSE "off")
          /\ UNCHANGED origin
       \/ /\ box[s] \in OriginalMsgs
          /\ Step(s, "asking", "check1")
          /\ origin' = [origin EXCEPT ![s] = box[s]]
    /\ UNCHANGED <<recvDb, seen, opened, rest, crashes, sendVars, boxVars, clockVars, chainVars,
                   replies>>

(* Checks 1 and 2: the Original can be broadcast, and spends no coin of the *)
(* receiver's (senders' coins never are).  The wallet may fail to say so.   *)
CheckBroadcast(s) ==
    /\ \/ Step(s, "check1", "check3") /\ origin[s].coins \cap spent = {}
       \/ /\ Step(s, "check1", "refuse")
          /\ WalletMayFail \/ origin[s].coins \cap spent # {}
    /\ rest' = [rest EXCEPT ![s] = origin[s].coins]
    /\ UNCHANGED <<recvDb, seen, opened, origin, crashes, sendVars, boxVars, clockVars, chainVars,
                   replies>>

(* insert_input_seen_before, flushed to the disk.                           *)
InsertSeen(c) == seen' = seen \cup {c}

(* Mutant: only the first input of the Original is looked up. *)
CheckOneInput(s) ==
    /\ \E c \in rest[s] :
          /\ Step(s, "check3", IF c \in seen THEN "refuse" ELSE "build")
          /\ InsertSeen(c)
    /\ rest' = [rest EXCEPT ![s] = {}]
    /\ UNCHANGED <<recvDb, opened, origin, crashes, sendVars, boxVars, clockVars, chainVars,
                   replies>>

(* Mutant: the inputs are looked up but not inserted. *)
CheckWithoutInsert(s) ==
    /\ \E c \in rest[s] :
          /\ Step(s, "check3", IF c \in seen THEN "refuse"
                               ELSE IF rest[s] = {c} THEN "build" ELSE "check3")
          /\ rest' = [rest EXCEPT ![s] = @ \ {c}]
    /\ UNCHANGED <<recvDb, seen, opened, origin, crashes, sendVars, boxVars, clockVars,
                   chainVars, replies>>

(* Check 3, one input: it is inserted, durably, and the Original is refused *)
(* if it was there before; the inputs looked up so far stay inserted.       *)
CheckNotSeen(s) ==
    /\ \E c \in rest[s] :
          /\ Step(s, "check3", IF c \in seen THEN "refuse"
                               ELSE IF rest[s] = {c} THEN "build" ELSE "check3")
          /\ InsertSeen(c)
          /\ rest' = [rest EXCEPT ![s] = @ \ {c}]
    /\ UNCHANGED <<recvDb, opened, origin, crashes, sendVars, boxVars, clockVars, chainVars,
                   replies>>

(* Inputs are contributed and the proposal is signed, or the wallet fails.  *)
Build(s) ==
    /\ \/ Step(s, "build", "reply")
       \/ WalletMayFail /\ Step(s, "build", "refuse")
    /\ UNCHANGED <<recvDb, seen, opened, origin, rest, crashes, sendVars, boxVars, clockVars,
                   chainVars, replies>>

(* The proposal goes to the v2 sender's reply subdirectory, or, for a v1    *)
(* sender, to the pjv1 column of the receiver's own.                        *)
Reply(s) ==
    /\ Step(s, "reply", "clear")
    /\ IF origin[s].kind = "v2"
       THEN replyBox' = replyBox \cup {<<s, origin[s].key>>} /\ UNCHANGED v1Box
       ELSE v1Box' = v1Box \cup {s} /\ UNCHANGED replyBox
    /\ replies' = [c \in Coins |-> replies[c] + (IF c \in origin[s].coins THEN 1 ELSE 0)]
    /\ UNCHANGED <<recvDb, seen, opened, origin, rest, crashes, sendVars, box, clockVars,
                   chainVars>>

(* handle_recoverable_error: the JSON of the error is posted to the         *)
(* receiver's own subdirectory, over the Original, and the task ends.       *)
Refuse(s) ==
    /\ Step(s, "refuse", "off")
    /\ box' = [box EXCEPT ![s] = ErrorMsg]
    /\ UNCHANGED <<recvDb, seen, opened, origin, rest, crashes, sendVars, v1Box, replyBox,
                   clockVars, chainVars, replies>>

(* clear_recv_session: every receive session leaves the database.           *)
ClearRecv(s) ==
    /\ Step(s, "clear", "off")
    /\ recvDb' = {}
    /\ UNCHANGED <<seen, opened, origin, rest, crashes, sendVars, boxVars, clockVars, chainVars,
                   replies>>

(* The process is interrupted or crashes: its tasks end where they stand.   *)
Crash ==
    /\ crashes < MaxCrashes
    /\ ~ProcessDown
    /\ crashes' = crashes + 1
    /\ task' = [s \in Sessions |-> "off"]
    /\ UNCHANGED <<recvDb, seen, opened, origin, rest, sendVars, boxVars, clockVars, chainVars,
                   replies>>

(* A request of one task, or the answer to it (in "clear", to the reply     *)
(* that was stored), is lost: post_request fails and that task ends.        *)
RequestLost(s) ==
    /\ crashes < MaxCrashes
    /\ crashes' = crashes + 1
    /\ task[s] \in {"asking", "reply", "clear", "refuse"}
    /\ task' = [task EXCEPT ![s] = "off"]
    /\ UNCHANGED <<recvDb, seen, opened, origin, rest, sendVars, boxVars, clockVars, chainVars,
                   replies>>

-----------------------------------------------------------------------------
(* The sender of a session.                                                 *)

SenderStep(s, from, to) == sender[s] = from /\ sender' = [sender EXCEPT ![s] = to]

(* send: the Original and a reply key are made and saved before anything is *)
(* posted.  A URI is paid once.                                             *)
Send(s) ==
    /\ s \in opened
    /\ s \notin paid
    /\ sendDb[s] = NoRecord
    /\ SenderStep(s, "off", "post")
    /\ \E coins \in Originals[s], k \in Keys :
          /\ sendDb' = [sendDb EXCEPT ![s] = [coins |-> coins, key |-> k]]
          /\ replyKey' = [replyKey EXCEPT ![s] = k]
    /\ UNCHANGED <<recvVars, senderCrashes, boxVars, clockVars, chainVars, replies>>

(* Mutant: a resumed session makes a new reply key. *)
SendAgainRekeyed(s) ==
    /\ sendDb[s] # NoRecord
    /\ SenderStep(s, "off", "post")
    /\ \E k \in Keys : replyKey' = [replyKey EXCEPT ![s] = k]
    /\ UNCHANGED <<recvVars, sendDb, senderCrashes, boxVars, clockVars, chainVars, replies>>

(* send with the same URI, or resume: the saved session starts over.        *)
SendAgain(s) ==
    /\ sendDb[s] # NoRecord
    /\ SenderStep(s, "off", "post")
    /\ replyKey' = [replyKey EXCEPT ![s] = sendDb[s].key]
    /\ UNCHANGED <<recvVars, sendDb, senderCrashes, boxVars, clockVars, chainVars, replies>>

(* long_poll_post: the Original is posted, encrypted, or, once the session  *)
(* has expired, in the clear as a v1 sender would.  Only the sender reads    *)
(* its clock: a POST that arrives after the expiry is one before it.        *)
PostOriginal(s) ==
    /\ SenderStep(s, "post", IF s \in expired THEN "v1wait" ELSE "poll")
    /\ box' = [box EXCEPT ![s] =
                 IF s \in expired
                 THEN [kind |-> "v1", coins |-> sendDb[s].coins]
                 ELSE [kind |-> "v2", coins |-> sendDb[s].coins, key |-> replyKey[s]]]
    /\ UNCHANGED <<recvVars, sendDb, replyKey, senderCrashes, v1Box, replyBox, clockVars,
                   chainVars, replies>>

(* A v2 sender asks until its reply subdirectory has the proposal.          *)
GetProposal(s) ==
    /\ <<s, replyKey[s]>> \in replyBox
    /\ SenderStep(s, "poll", "broadcast")
    /\ UNCHANGED <<recvVars, sendDb, replyKey, senderCrashes, boxVars, clockVars, chainVars,
                   replies>>

(* Mutant: the session is cleared though no proposal came. *)
V1AnswerCleared(s) ==
    /\ \/ s \in v1Box /\ SenderStep(s, "v1wait", "broadcast")
       \/ SenderStep(s, "v1wait", "clear")
    /\ UNCHANGED <<recvVars, sendDb, replyKey, senderCrashes, boxVars, clockVars, chainVars,
                   replies>>

(* A v1 request is answered with the reply, or by the directory's timeout.  *)
V1Answer(s) ==
    /\ \/ s \in v1Box /\ SenderStep(s, "v1wait", "broadcast")
       \/ SenderStep(s, "v1wait", "off")
    /\ UNCHANGED <<recvVars, sendDb, replyKey, senderCrashes, boxVars, clockVars, chainVars,
                   replies>>

(* process_pj_response: the payjoin is signed and broadcast.  The node takes *)
(* it if its coins are unspent, and may take it again if it already has it. *)
Broadcast(s) ==
    /\ \/ /\ sendDb[s].coins \cap spent = {}
          /\ SenderStep(s, "broadcast", "clear")
          /\ spent' = spent \cup sendDb[s].coins
          /\ paid' = paid \cup {s}
       \/ /\ s \in paid
          /\ SenderStep(s, "broadcast", "clear")
          /\ UNCHANGED chainVars
       \/ /\ sendDb[s].coins \cap spent # {}
          /\ SenderStep(s, "broadcast", "off")
          /\ UNCHANGED chainVars
    /\ UNCHANGED <<recvVars, sendDb, replyKey, senderCrashes, boxVars, clockVars, replies>>

ClearSend(s) ==
    /\ SenderStep(s, "clear", "off")
    /\ sendDb' = [sendDb EXCEPT ![s] = NoRecord]
    /\ UNCHANGED <<recvVars, replyKey, senderCrashes, boxVars, clockVars, chainVars, replies>>

SenderCrash(s) ==
    /\ senderCrashes[s] < MaxSenderCrashes
    /\ sender[s] # "off"
    /\ sender' = [sender EXCEPT ![s] = "off"]
    /\ senderCrashes' = [senderCrashes EXCEPT ![s] = @ + 1]
    /\ UNCHANGED <<recvVars, sendDb, replyKey, boxVars, clockVars, chainVars, replies>>

(* The expiry the receiver chose is the exp parameter of the sender's URI;  *)
(* each reaches it by its own clock.                                        *)
Close(s) ==
    /\ s \in (Expiring \cap opened) \ closed
    /\ closed' = closed \cup {s}
    /\ UNCHANGED <<recvVars, sendVars, boxVars, expired, chainVars, replies>>

Expire(s) ==
    /\ s \in (Expiring \cap opened) \ expired
    /\ expired' = expired \cup {s}
    /\ UNCHANGED <<recvVars, sendVars, boxVars, closed, chainVars, replies>>

-----------------------------------------------------------------------------

TaskStep(s) ==
    \/ Ask(s) \/ Answer(s) \/ CheckBroadcast(s) \/ CheckNotSeen(s) \/ Build(s)
    \/ Reply(s) \/ Refuse(s) \/ ClearRecv(s)

SenderRun(s) ==
    \/ PostOriginal(s) \/ GetProposal(s) \/ V1Answer(s) \/ Broadcast(s) \/ ClearSend(s)

Next ==
    \/ Resume \/ Crash
    \/ \E s \in Sessions :
          \/ Receive(s) \/ TaskStep(s) \/ RequestLost(s)
          \/ Send(s) \/ SendAgain(s) \/ SenderRun(s) \/ SenderCrash(s)
          \/ Close(s) \/ Expire(s)

Spec == Init /\ [][Next]_vars

(* Tasks run; a user whose process went down runs resume.                   *)
FairSpec ==
    /\ Spec
    /\ WF_vars(Resume)
    /\ \A s \in Sessions :
          WF_vars(TaskStep(s)) /\ WF_vars(SenderRun(s)) /\ WF_vars(SendAgain(s))

-----------------------------------------------------------------------------
(* Every variable keeps its type; past its checks, a task has an Original   *)
(* and looks up none but inputs of it.                                      *)
TypeOK ==
    /\ recvDb \subseteq Sessions /\ opened \subseteq Sessions
    /\ seen \subseteq Coins /\ spent \subseteq Coins
    /\ crashes \in 0 .. MaxCrashes
    /\ task \in [Sessions -> Working \cup {"off"}]
    /\ origin \in [Sessions -> OriginalMsgs \cup {Nothing}]
    /\ rest \in [Sessions -> SUBSET Coins]
    /\ sendDb \in [Sessions -> Stored \cup {NoRecord}]
    /\ sender \in [Sessions -> {"off", "post", "poll", "v1wait", "broadcast", "clear"}]
    /\ replyKey \in [Sessions -> Keys \cup {NoKey}]
    /\ senderCrashes \in [Sessions -> 0 .. MaxSenderCrashes]
    /\ box \in [Sessions -> OriginalMsgs \cup {Nothing, ErrorMsg}]
    /\ v1Box \subseteq Sessions /\ replyBox \subseteq Sessions \X Keys
    /\ closed \subseteq Sessions /\ expired \subseteq Sessions /\ paid \subseteq Sessions
    /\ replies \in [Coins -> Nat]
    /\ \A s \in Sessions :
          /\ task[s] \in {"check1", "check3", "build", "reply"} => origin[s] \in OriginalMsgs
          /\ task[s] = "check3" => rest[s] \subseteq origin[s].coins
          /\ sender[s] \in {"post", "poll"} => sendDb[s] \in Stored /\ replyKey[s] \in Keys

(* The receiver answers at most one Original that spends a given coin, for  *)
(* all its sessions, over crashes, resumes and tasks that run at once: what *)
(* check 3 is for, so that nobody learns two sets of its coins by offering  *)
(* the same input twice (check_no_inputs_seen_before).                      *)
OneReplyPerCoin == \A c \in Coins : replies[c] <= 1

(* A send session leaves the database only when its payjoin has been        *)
(* broadcast, whatever the sender missed in between (spawn_payjoin_sender). *)
SendSessionsKept ==
    [][\A s \in Sessions :
          sendDb[s] # NoRecord /\ sendDb'[s] = NoRecord => s \in paid]_vars

(* A payjoin that is broadcast spends the coins of the one Original its     *)
(* session saved, and coins the receiver has marked as seen: both sides     *)
(* agree on which Original the payjoin came from after any restart.         *)
PaidCoinsAreSeen == spent \subseteq seen

(* As long as the receiver's task is alive, a sender that crashes and is    *)
(* resumed ends up broadcasting the payjoin: the saved reply key finds the  *)
(* reply to an earlier post (Sender::reply_key).                            *)
SenderCompletes ==
    \A s \in Sessions :
        (task[s] \in {"poll", "asking"} /\ sendDb[s] # NoRecord) ~> s \in paid

(* "Once a send or receive session is started, it may resume using the      *)
(* resume argument if prior payjoin sessions have not yet complete"         *)
(* (payjoin-cli/README.md:60): a receive session is dropped from the        *)
(* database only after its own reply was posted.                            *)
Replied(s) == s \in v1Box \/ \E k \in Keys : <<s, k>> \in replyBox

ReceiveSessionsKept ==
    [][\A s \in recvDb : s \notin recvDb' => Replied(s)]_vars

(* The same promise, for a receiver cut off at any point: an unexpired      *)
(* session whose sender is still there completes.                           *)
ReceiverCompletes ==
    \A s \in Sessions :
        (s \in recvDb /\ sendDb[s] # NoRecord) ~> s \in paid

(* "return a Receiver Error Response" (receive/v2/mod.rs:255-256): once the *)
(* receiver has refused an Original, its sender stops waiting.              *)
RefusalReachesSender ==
    \A s \in Sessions :
        (task[s] = "refuse" /\ sender[s] = "poll") ~> sender[s] # "poll"
=============================================================================
