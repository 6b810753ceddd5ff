--------------------------- MODULE SessionsProofs ---------------------------
(***************************************************************************)
(* Theorems about the sessions, for any sets of sessions, coins and keys,  *)
(* any Originals, and however often either side is cut off.                *)
(***************************************************************************)
EXTENDS Sessions, TLAPS

(* Spec => []TypeOK, inductive as it stands.                                *)
THEOREM TypeCorrect == Spec => []TypeOK
<1> USE SessionsAssumption
<1>1. Init => TypeOK
  BY DEF Init, TypeOK, Working, NoRecord, Nothing
<1>2. TypeOK /\ [Next]_vars => TypeOK'
  <2> SUFFICES ASSUME TypeOK, [Next]_vars PROVE TypeOK'
    OBVIOUS
  <2> USE DEF TypeOK, Step, SenderStep, Working, recvVars, sendVars, boxVars, clockVars, chainVars
  <2>1. ASSUME NEW s \in Sessions, Receive(s) PROVE TypeOK'
    BY <2>1 DEF Receive
  <2>2. CASE Resume
    BY <2>2 DEF Resume
  <2>3. ASSUME NEW s \in Sessions, Ask(s) \/ Answer(s) PROVE TypeOK'
    <3>1. CASE Ask(s)
      BY <3>1 DEF Ask
    <3>2. CASE Answer(s)
      BY <3>2 DEF Answer
    <3> QED BY <2>3, <3>1, <3>2
  <2>4. ASSUME NEW s \in Sessions, CheckBroadcast(s) PROVE TypeOK'
    <3>1. origin[s].coins \subseteq Coins
      BY <2>4 DEF CheckBroadcast, OriginalMsgs, V1Msgs, V2Msgs
    <3> QED BY <2>4, <3>1 DEF CheckBroadcast
  <2>5. ASSUME NEW s \in Sessions, CheckNotSeen(s) PROVE TypeOK'
    BY <2>5 DEF CheckNotSeen, InsertSeen
  <2>6. ASSUME NEW s \in Sessions, Build(s) PROVE TypeOK'
    BY <2>6 DEF Build
  <2>7. ASSUME NEW s \in Sessions, Reply(s) PROVE TypeOK'
    <3>1. origin[s].kind = "v2" => origin[s].key \in Keys
      BY <2>7 DEF Reply, OriginalMsgs, V1Msgs, V2Msgs
    <3>2. replies' \in [Coins -> Nat]
      BY <2>7 DEF Reply
    <3> QED BY <2>7, <3>1, <3>2 DEF Reply
  <2>8. ASSUME NEW s \in Sessions, Refuse(s) PROVE TypeOK'
    BY <2>8 DEF Refuse
  <2>9. ASSUME NEW s \in Sessions, ClearRecv(s) PROVE TypeOK'
    BY <2>9 DEF ClearRecv
  <2>10. CASE Crash
    BY <2>10 DEF Crash
  <2>11. ASSUME NEW s \in Sessions, RequestLost(s) PROVE TypeOK'
    BY <2>11 DEF RequestLost
  <2>12. ASSUME NEW s \in Sessions, Send(s) PROVE TypeOK'
    BY <2>12 DEF Send, Stored
  <2>13. ASSUME NEW s \in Sessions, SendAgain(s) PROVE TypeOK'
    <3>1. sendDb[s] \in Stored /\ sendDb[s].key \in Keys
      BY <2>13 DEF SendAgain, Stored
    <3> QED BY <2>13, <3>1 DEF SendAgain
  <2>14. ASSUME NEW s \in Sessions, PostOriginal(s) PROVE TypeOK'
    <3>1. box'[s] \in OriginalMsgs
      BY <2>14 DEF PostOriginal, OriginalMsgs, V1Msgs, V2Msgs, Stored
    <3> QED BY <2>14, <3>1 DEF PostOriginal
  <2>15. ASSUME NEW s \in Sessions, GetProposal(s) PROVE TypeOK'
    BY <2>15 DEF GetProposal
  <2>16. ASSUME NEW s \in Sessions, V1Answer(s) PROVE TypeOK'
    BY <2>16 DEF V1Answer
  <2>17. ASSUME NEW s \in Sessions, Broadcast(s) PROVE TypeOK'
    <3>1. sendDb[s].coins \subseteq Coins
      BY DEF Stored, NoRecord
    <3> QED BY <2>17, <3>1 DEF Broadcast
  <2>18. ASSUME NEW s \in Sessions, ClearSend(s) PROVE TypeOK'
    BY <2>18 DEF ClearSend
  <2>19. ASSUME NEW s \in Sessions, SenderCrash(s) PROVE TypeOK'
    BY <2>19 DEF SenderCrash
  <2>20. ASSUME NEW s \in Sessions, Close(s) \/ Expire(s) PROVE TypeOK'
    BY <2>20 DEF Close, Expire, clockVars
  <2>21. CASE UNCHANGED vars
    BY <2>21 DEF vars
  <2> QED
    BY <2>1, <2>2, <2>3, <2>4, <2>5, <2>6, <2>7, <2>8, <2>9, <2>10, <2>11, <2>12, <2>13,
       <2>14, <2>15, <2>16, <2>17, <2>18, <2>19, <2>20, <2>21 DEF Next, TaskStep, SenderRun
<1> QED BY <1>1, <1>2, PTL DEF Spec

-----------------------------------------------------------------------------
(* The coins a task has put into seen and not yet answered for.             *)
Claimed(s) ==
    IF task[s] = "check3" THEN origin[s].coins \ rest[s]
    ELSE IF task[s] \in {"build", "reply"} THEN origin[s].coins
    ELSE {}

(* Claims are durable, exclusive, and never on a coin already answered for. *)
ClaimsExclusive ==
    /\ \A s \in Sessions : Claimed(s) \subseteq seen
    /\ \A s, r \in Sessions : s # r => Claimed(s) \cap Claimed(r) = {}
    /\ \A c \in Coins : replies[c] > 0 => c \in seen /\ \A s \in Sessions : c \notin Claimed(s)
    /\ OneReplyPerCoin

(* A step that claims nothing and answers nothing keeps the claims exclusive. *)
LEMMA NoNewClaim ==
    ASSUME ClaimsExclusive,
           seen \subseteq seen',
           replies' = replies,
           \A s \in Sessions : Claimed(s)' \subseteq Claimed(s)
    PROVE  ClaimsExclusive'
  BY DEF ClaimsExclusive, OneReplyPerCoin

(* Steps of the senders and of the clock leave the receiver as it was.      *)
LEMMA ReceiverUntouched ==
    ASSUME ClaimsExclusive, UNCHANGED recvVars, UNCHANGED replies
    PROVE  ClaimsExclusive'
  BY DEF ClaimsExclusive, OneReplyPerCoin, Claimed, recvVars

LEMMA ClaimsStayExclusive ==
    ASSUME TypeOK, ClaimsExclusive, [Next]_vars
    PROVE  ClaimsExclusive'
<1> USE DEF Step, Claimed
<1>1. ASSUME NEW s \in Sessions, Receive(s) PROVE ClaimsExclusive'
  BY <1>1, NoNewClaim DEF Receive, TypeOK
<1>2. CASE Resume
  BY <1>2, NoNewClaim DEF Resume
<1>3. ASSUME NEW s \in Sessions, Ask(s) \/ Answer(s) PROVE ClaimsExclusive'
  BY <1>3, NoNewClaim DEF Ask, Answer, TypeOK
<1>4. ASSUME NEW s \in Sessions, CheckBroadcast(s) PROVE ClaimsExclusive'
  BY <1>4, NoNewClaim DEF CheckBroadcast, TypeOK
<1>5. ASSUME NEW s \in Sessions, CheckNotSeen(s) PROVE ClaimsExclusive'
  <2>1. PICK c \in rest[s] :
           /\ Step(s, "check3", IF c \in seen THEN "refuse"
                                ELSE IF rest[s] = {c} THEN "build" ELSE "check3")
           /\ seen' = seen \cup {c}
           /\ rest' = [rest EXCEPT ![s] = @ \ {c}]
    BY <1>5 DEF CheckNotSeen, InsertSeen
  <2>2. origin' = origin /\ replies' = replies
    BY <1>5 DEF CheckNotSeen, InsertSeen, recvVars
  <2>3. CASE c \in seen
    BY <2>1, <2>2, <2>3, NoNewClaim DEF TypeOK
  <2>4. CASE c \notin seen
    <3>1. Claimed(s)' \subseteq Claimed(s) \cup {c}
      BY <2>1, <2>2, <2>4 DEF TypeOK
    <3>2. \A r \in Sessions \ {s} : Claimed(r)' = Claimed(r)
      BY <2>1, <2>2 DEF TypeOK
    <3>3. \A r \in Sessions : c \notin Claimed(r)
      BY <2>4 DEF ClaimsExclusive
    <3>4. ~(replies[c] > 0)
      BY <2>1, <2>4 DEF ClaimsExclusive, TypeOK
    <3> HIDE DEF Claimed
    <3> QED BY <2>1, <2>2, <3>1, <3>2, <3>3, <3>4 DEF ClaimsExclusive, OneReplyPerCoin
  <2> QED BY <2>3, <2>4
<1>6. ASSUME NEW s \in Sessions, Build(s) PROVE ClaimsExclusive'
  BY <1>6, NoNewClaim DEF Build, TypeOK
<1>7. ASSUME NEW s \in Sessions, Reply(s) PROVE ClaimsExclusive'
  <2>1. Claimed(s) = origin[s].coins /\ Claimed(s)' = {}
    BY <1>7 DEF Reply, TypeOK
  <2>2. \A r \in Sessions \ {s} : Claimed(r)' = Claimed(r)
    BY <1>7 DEF Reply, TypeOK
  <2>3. \A c \in Coins : replies'[c] = IF c \in origin[s].coins THEN replies[c] + 1
                                       ELSE replies[c]
    BY <1>7 DEF Reply, TypeOK
  <2>4. seen' = seen
    BY <1>7 DEF Reply
  <2>5. \A c \in origin[s].coins \cap Coins : replies[c] = 0
    <3> HIDE DEF Claimed
    <3> QED BY <2>1 DEF ClaimsExclusive, TypeOK
  <2> HIDE DEF Claimed
  <2> QED BY <2>1, <2>2, <2>3, <2>4, <2>5 DEF ClaimsExclusive, OneReplyPerCoin, TypeOK
<1>8. ASSUME NEW s \in Sessions, Refuse(s) PROVE ClaimsExclusive'
  BY <1>8, NoNewClaim DEF Refuse, TypeOK
<1>9. ASSUME NEW s \in Sessions, ClearRecv(s) PROVE ClaimsExclusive'
  BY <1>9, NoNewClaim DEF ClearRecv, TypeOK
<1>10. CASE Crash
  BY <1>10, NoNewClaim DEF Crash
<1>11. ASSUME NEW s \in Sessions, RequestLost(s) PROVE ClaimsExclusive'
  BY <1>11, NoNewClaim DEF RequestLost, TypeOK
<1>12. ASSUME NEW s \in Sessions,
              \/ Send(s) \/ SendAgain(s) \/ SenderRun(s) \/ SenderCrash(s)
              \/ Close(s) \/ Expire(s)
       PROVE  ClaimsExclusive'
  BY <1>12, ReceiverUntouched DEF Send, SendAgain, SenderRun, PostOriginal, GetProposal,
     V1Answer, Broadcast, ClearSend, SenderCrash, Close, Expire
<1>13. CASE UNCHANGED vars
  BY <1>13, ReceiverUntouched DEF vars
<1> QED
  BY <1>1, <1>2, <1>3, <1>4, <1>5, <1>6, <1>7, <1>8, <1>9, <1>10, <1>11, <1>12, <1>13
  DEF Next, TaskStep

(* Spec => []OneReplyPerCoin: with the claims, it is inductive.             *)
THEOREM OneReply == Spec => []OneReplyPerCoin
<1>1. Init => ClaimsExclusive
  BY DEF Init, ClaimsExclusive, Claimed, OneReplyPerCoin
<1>2. ClaimsExclusive => OneReplyPerCoin
  BY DEF ClaimsExclusive
<1> QED BY <1>1, <1>2, TypeCorrect, ClaimsStayExclusive, PTL DEF Spec

-----------------------------------------------------------------------------
(* A reply to the session is in the directory.                              *)
HasReply(s) == s \in v1Box \/ \E k \in Keys : <<s, k>> \in replyBox

(* Whatever of an Original is in flight is the one its session has saved,   *)
(* until that has been paid; and what is answered or broadcast was seen.    *)
SavedOriginal(s) ==
    /\ box[s] \in OriginalMsgs => box[s].coins = sendDb[s].coins
    /\ origin[s] \in OriginalMsgs => origin[s].coins = sendDb[s].coins
    /\ HasReply(s) => sendDb[s].coins \subseteq seen

NothingPosted(s) ==
    /\ box[s] \notin OriginalMsgs
    /\ origin[s] \notin OriginalMsgs
    /\ ~HasReply(s)

OriginalsAgree ==
    \A s \in Sessions :
        /\ sendDb[s] # NoRecord => SavedOriginal(s)
        /\ sendDb[s] = NoRecord => sender[s] = "off" /\ (s \in paid \/ NothingPosted(s))
        /\ sender[s] = "broadcast" => sendDb[s].coins \subseteq seen
        /\ sender[s] = "clear" => s \in paid

SendInv == OriginalsAgree /\ PaidCoinsAreSeen

LEMMA SendInvStep ==
    ASSUME TypeOK, ClaimsExclusive, SendInv, [Next]_vars
    PROVE  SendInv'
<1> USE DEF Step, SenderStep, SendInv, PaidCoinsAreSeen
<1>a. \A s \in Sessions : task[s] \in {"build", "reply"} => origin[s].coins \subseteq seen
  BY DEF ClaimsExclusive, Claimed
<1>b. ErrorMsg \notin OriginalMsgs /\ Nothing \notin OriginalMsgs
  BY DEF ErrorMsg, Nothing, OriginalMsgs, V1Msgs, V2Msgs
<1>c. \A m \in Stored : m # NoRecord
  BY SessionsAssumption DEF Stored, NoRecord
<1>1. ASSUME NEW s \in Sessions, Receive(s) PROVE SendInv'
  BY <1>1 DEF Receive, OriginalsAgree, SavedOriginal, NothingPosted, HasReply, sendVars,
     boxVars, chainVars
<1>2. CASE Resume
  BY <1>2 DEF Resume, OriginalsAgree, SavedOriginal, NothingPosted, HasReply, sendVars,
     boxVars, chainVars
<1>3. ASSUME NEW s \in Sessions, Ask(s) \/ Answer(s) PROVE SendInv'
  BY <1>3 DEF Ask, Answer, OriginalsAgree, SavedOriginal, NothingPosted, HasReply, sendVars,
     boxVars, chainVars, TypeOK
<1>4. ASSUME NEW s \in Sessions, CheckBroadcast(s) PROVE SendInv'
  BY <1>4 DEF CheckBroadcast, OriginalsAgree, SavedOriginal, NothingPosted, HasReply,
     sendVars, boxVars, chainVars
<1>5. ASSUME NEW s \in Sessions, CheckNotSeen(s) PROVE SendInv'
  BY <1>5 DEF CheckNotSeen, InsertSeen, OriginalsAgree, SavedOriginal, NothingPosted, HasReply,
     sendVars, boxVars, chainVars
<1>6. ASSUME NEW s \in Sessions, Build(s) PROVE SendInv'
  BY <1>6 DEF Build, OriginalsAgree, SavedOriginal, NothingPosted, HasReply, sendVars,
     boxVars, chainVars
<1>7. ASSUME NEW s \in Sessions, Reply(s) PROVE SendInv'
  <2>1. origin[s] \in OriginalMsgs /\ origin[s].coins \subseteq seen
    BY <1>7, <1>a DEF Reply, TypeOK
  <2>2. UNCHANGED <<seen, box, origin, sendVars, chainVars>>
    BY <1>7 DEF Reply
  <2>3. \A r \in Sessions \ {s} : HasReply(r)' => HasReply(r)
    BY <1>7 DEF Reply, HasReply
  <2>4. sendDb[s] # NoRecord => sendDb[s].coins \subseteq seen
    BY <2>1 DEF OriginalsAgree, SavedOriginal
  <2>5. sendDb[s] = NoRecord => s \in paid
    BY <2>1 DEF OriginalsAgree, NothingPosted
  <2> QED
    BY <2>1, <2>2, <2>3, <2>4, <2>5 DEF OriginalsAgree, SavedOriginal, NothingPosted,
       sendVars, chainVars
<1>8. ASSUME NEW s \in Sessions, Refuse(s) PROVE SendInv'
  BY <1>8, <1>b DEF Refuse, OriginalsAgree, SavedOriginal, NothingPosted, HasReply,
     sendVars, chainVars, TypeOK
<1>9. ASSUME NEW s \in Sessions, ClearRecv(s) PROVE SendInv'
  BY <1>9 DEF ClearRecv, OriginalsAgree, SavedOriginal, NothingPosted, HasReply, sendVars,
     boxVars, chainVars
<1>10. CASE Crash
  BY <1>10 DEF Crash, OriginalsAgree, SavedOriginal, NothingPosted, HasReply, sendVars,
     boxVars, chainVars
<1>11. ASSUME NEW s \in Sessions, RequestLost(s) PROVE SendInv'
  BY <1>11 DEF RequestLost, OriginalsAgree, SavedOriginal, NothingPosted, HasReply,
     sendVars, boxVars, chainVars
<1>12. ASSUME NEW s \in Sessions, Send(s) PROVE SendInv'
  <2>1. NothingPosted(s) /\ NothingPosted(s)'
    BY <1>12 DEF Send, OriginalsAgree, NothingPosted, HasReply, recvVars, boxVars
  <2>2. SavedOriginal(s)'
    BY <2>1 DEF SavedOriginal, NothingPosted
  <2>3. \A r \in Sessions \ {s} :
           sendDb'[r] = sendDb[r] /\ sender'[r] = sender[r] /\ SavedOriginal(r)' = SavedOriginal(r)
    BY <1>12 DEF Send, TypeOK, SavedOriginal, HasReply, recvVars, boxVars
  <2>4. sendDb'[s] # NoRecord /\ sender'[s] = "post"
    BY <1>12, SessionsAssumption DEF Send, TypeOK, NoRecord
  <2>5. \A r \in Sessions : NothingPosted(r)' = NothingPosted(r)
    BY <1>12 DEF Send, NothingPosted, HasReply, recvVars, boxVars
  <2>6. UNCHANGED <<paid, spent, seen>>
    BY <1>12 DEF Send, recvVars, chainVars
  <2> QED BY <2>2, <2>3, <2>4, <2>5, <2>6 DEF OriginalsAgree
<1>13. ASSUME NEW s \in Sessions, SendAgain(s) PROVE SendInv'
  BY <1>13 DEF SendAgain, OriginalsAgree, SavedOriginal, NothingPosted, HasReply, recvVars,
     boxVars, chainVars, TypeOK
<1>14. ASSUME NEW s \in Sessions, PostOriginal(s) PROVE SendInv'
  <2>1. sendDb[s] # NoRecord
    BY <1>14 DEF PostOriginal, OriginalsAgree
  <2>2. box'[s].coins = sendDb[s].coins
    BY <1>14 DEF PostOriginal, TypeOK
  <2> QED
    BY <1>14, <2>1, <2>2 DEF PostOriginal, OriginalsAgree, SavedOriginal, NothingPosted,
       HasReply, recvVars, chainVars, TypeOK
<1>15. ASSUME NEW s \in Sessions, GetProposal(s) PROVE SendInv'
  <2>1. HasReply(s) /\ sendDb[s] # NoRecord
    BY <1>15 DEF GetProposal, OriginalsAgree, HasReply, TypeOK
  <2> QED
    BY <1>15, <2>1 DEF GetProposal, OriginalsAgree, SavedOriginal, NothingPosted, HasReply,
       recvVars, boxVars, chainVars, TypeOK
<1>16. ASSUME NEW s \in Sessions, V1Answer(s) PROVE SendInv'
  <2>1. sendDb[s] # NoRecord
    BY <1>16 DEF V1Answer, OriginalsAgree
  <2> QED
    BY <1>16, <2>1 DEF V1Answer, OriginalsAgree, SavedOriginal, NothingPosted, HasReply,
       recvVars, boxVars, chainVars, TypeOK
<1>17. ASSUME NEW s \in Sessions, Broadcast(s) PROVE SendInv'
  <2>1. sendDb[s] # NoRecord
    BY <1>17 DEF Broadcast, OriginalsAgree
  <2> QED
    BY <1>17, <2>1 DEF Broadcast, OriginalsAgree, SavedOriginal, NothingPosted, HasReply,
       recvVars, boxVars, chainVars, TypeOK
<1>18. ASSUME NEW s \in Sessions, ClearSend(s) PROVE SendInv'
  BY <1>18 DEF ClearSend, OriginalsAgree, SavedOriginal, NothingPosted, HasReply, recvVars,
     boxVars, chainVars, TypeOK
<1>19. ASSUME NEW s \in Sessions, SenderCrash(s) PROVE SendInv'
  BY <1>19 DEF SenderCrash, OriginalsAgree, SavedOriginal, NothingPosted, HasReply,
     recvVars, boxVars, chainVars, TypeOK
<1>20. ASSUME NEW s \in Sessions, Close(s) \/ Expire(s) PROVE SendInv'
  BY <1>20 DEF Close, Expire, OriginalsAgree, SavedOriginal, NothingPosted, HasReply, recvVars,
     sendVars, boxVars, chainVars
<1>21. CASE UNCHANGED vars
  BY <1>21 DEF vars, OriginalsAgree, SavedOriginal, NothingPosted, HasReply, recvVars,
     sendVars, boxVars, chainVars
<1> QED
  BY <1>1, <1>2, <1>3, <1>4, <1>5, <1>6, <1>7, <1>8, <1>9, <1>10, <1>11, <1>12, <1>13,
     <1>14, <1>15, <1>16, <1>17, <1>18, <1>19, <1>20, <1>21 DEF Next, TaskStep, SenderRun

LEMMA SendInvariant == Spec => [](TypeOK /\ SendInv)
<1>1. Init => ClaimsExclusive /\ SendInv
  BY DEF Init, ClaimsExclusive, Claimed, OneReplyPerCoin, SendInv, OriginalsAgree,
     NothingPosted, HasReply, PaidCoinsAreSeen, OriginalMsgs, V1Msgs, V2Msgs, Nothing
<1> QED BY <1>1, TypeCorrect, ClaimsStayExclusive, SendInvStep, PTL DEF Spec

(* Spec => []PaidCoinsAreSeen: a payjoin that is broadcast answers the      *)
(* Original its session saved, whose coins check 3 inserted.                *)
THEOREM PaidSeen == Spec => []PaidCoinsAreSeen
<1>1. SendInv => PaidCoinsAreSeen
  BY DEF SendInv
<1> QED BY <1>1, SendInvariant, PTL

(* Spec => SendSessionsKept: only ClearSend drops a saved session, and its  *)
(* sender has broadcast by then.                                            *)
THEOREM SendKept == Spec => SendSessionsKept
<1>1. TypeOK /\ SendInv /\ [Next]_vars =>
        [\A s \in Sessions :
            sendDb[s] # NoRecord /\ sendDb'[s] = NoRecord => s \in paid]_vars
  <2> SUFFICES ASSUME TypeOK, SendInv, Next, NEW r \in Sessions,
                      sendDb[r] # NoRecord, sendDb'[r] = NoRecord
               PROVE  r \in paid
    BY DEF vars
  <2>1. ASSUME NEW s \in Sessions, Send(s) PROVE r \in paid
    BY <2>1, SessionsAssumption DEF Send, TypeOK, NoRecord
  <2>2. ASSUME NEW s \in Sessions, ClearSend(s) PROVE r \in paid
    BY <2>2 DEF ClearSend, SenderStep, SendInv, OriginalsAgree, TypeOK
  <2>3. CASE sendDb' = sendDb
    BY <2>3
  <2> QED
    BY <2>1, <2>2, <2>3 DEF Next, TaskStep, SenderRun, Receive, Resume, Ask, Answer,
       CheckBroadcast, CheckNotSeen, InsertSeen, Build, Reply, Refuse, ClearRecv, Crash, RequestLost,
       SendAgain, PostOriginal, GetProposal, V1Answer, Broadcast, SenderCrash, Close, Expire,
       sendVars
<1> QED BY <1>1, SendInvariant, PTL DEF Spec, SendSessionsKept
=============================================================================
