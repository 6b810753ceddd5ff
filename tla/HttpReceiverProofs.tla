------------------------- MODULE HttpReceiverProofs -------------------------
(***************************************************************************)
(* Theorems about the v1 receiver, for any number of POSTs at once, any    *)
(* Originals and however often the receiver is cut off.                    *)
(***************************************************************************)
EXTENDS HttpReceiver, TLAPS

(* A POST is answered once, after its task, and a sender that holds a       *)
(* proposal was answered with one.                                          *)
StagesAgree ==
    \A p \in Posts :
        /\ sender[p] = "off" => task[p] = "off" /\ answer[p] = "none"
        /\ answer[p] # "none" => task[p] = "off"
        /\ sender[p] \in {"proposal", "paid"} => answer[p] = "ok"

Typed == TypeOK /\ StagesAgree

(* The coins of a proposal that a sender holds are coins.                   *)
LEMMA SpendsCoins ==
    ASSUME Typed, NEW q \in Posts, sender[q] \in {"proposal", "paid"}
    PROVE  Spends(q) \subseteq Coins \cup OwnCoins
<1>1. mine[q] \in OwnCoins
  BY DEF Typed, TypeOK, StagesAgree
<1>2. request[q].coins \subseteq Coins \cup OwnCoins
  BY DEF Typed, TypeOK, Requests, NoRequest
<1> QED BY <1>1, <1>2 DEF Spends

LEMMA InitTyped == Init => Typed
  BY HttpAssumption DEF Init, Typed, TypeOK, StagesAgree, Checking, Answers

LEMMA StaysTyped ==
    ASSUME Typed, [Next]_vars
    PROVE  Typed'
<1> USE HttpAssumption
<1> USE DEF Typed, TypeOK, StagesAgree, Step, Refuse, SenderStep, Checking, Answers, tasks
<1>1. ASSUME NEW p \in Posts, Post(p) PROVE Typed'
  <2>1. PICK r \in Requests : request' = [request EXCEPT ![p] = r]
    <3>1. CASE \E r \in Originals[p] : request' = [request EXCEPT ![p] = r]
      <4>1. Originals[p] \subseteq Requests
        OBVIOUS
      <4> QED BY <3>1, <4>1
    <3>2. ASSUME NEW q \in Posts, sender[q] \in {"proposal", "paid"},
                 NEW stated \in {{}, {mine[q]}},
                 request' = [request EXCEPT ![p] = [coins |-> Spends(q), form |-> "good",
                                                    stated |-> stated]]
          PROVE  \E r \in Requests : request' = [request EXCEPT ![p] = r]
      <4>1. stated \subseteq Coins \cup OwnCoins
        BY <3>2, SpendsCoins DEF Spends
      <4>2. [coins |-> Spends(q), form |-> "good", stated |-> stated] \in Requests
        BY <3>2, <4>1, SpendsCoins DEF Requests, Forms
      <4> QED BY <3>2, <4>2
    <3> QED BY <1>1, <3>1, <3>2 DEF Post
  <2> QED BY <1>1, <2>1 DEF Post
<1>2. ASSUME NEW p \in Posts, GetResponse(p) PROVE Typed'
  BY <1>2 DEF GetResponse
<1>3. ASSUME NEW p \in Posts, Broadcast(p) PROVE Typed'
  <2>1. CASE Spends(p) \cap spent = {}
    <3>1. spent' \subseteq Coins \cup OwnCoins
      BY <1>3, <2>1, SpendsCoins DEF Broadcast
    <3> QED BY <1>3, <2>1, <3>1 DEF Broadcast
  <2>2. CASE Spends(p) \cap spent # {}
    BY <1>3, <2>2 DEF Broadcast
  <2> QED BY <2>1, <2>2
<1>4. ASSUME NEW p \in Posts, Fallback(p) PROVE Typed'
  <2>1. request[p].coins \subseteq Coins \cup OwnCoins
    BY DEF Requests, NoRequest
  <2> QED BY <1>4, <2>1 DEF Fallback
<1>5. ASSUME NEW p \in Posts, FromRequest(p) PROVE Typed'
  BY <1>5 DEF FromRequest
<1>6. ASSUME NEW p \in Posts, CheckBroadcastSuitability(p) PROVE Typed'
  BY <1>6 DEF CheckBroadcastSuitability
<1>7. ASSUME NEW p \in Posts, CheckInputsNotOwned(p) PROVE Typed'
  <2>1. request[p].coins \subseteq Coins \cup OwnCoins
    BY DEF Requests, NoRequest
  <2> QED BY <1>7, <2>1 DEF CheckInputsNotOwned
<1>8. ASSUME NEW p \in Posts, CheckNoInputsSeenBefore(p) PROVE Typed'
  BY <1>8 DEF CheckNoInputsSeenBefore
<1>9. ASSUME NEW p \in Posts, SubstituteScript(p) PROVE Typed'
  BY <1>9 DEF SubstituteScript
<1>10. ASSUME NEW p \in Posts, TryContributingInputs(p) PROVE Typed'
  BY <1>10 DEF TryContributingInputs, ListUnspent
<1>11. ASSUME NEW p \in Posts, FinalizeProposal(p) PROVE Typed'
  BY <1>11 DEF FinalizeProposal
<1>12. CASE Crash
  BY <1>12 DEF Crash
<1>13. CASE UNCHANGED vars
  BY <1>13 DEF vars
<1> QED
  BY <1>1, <1>2, <1>3, <1>4, <1>5, <1>6, <1>7, <1>8, <1>9, <1>10, <1>11, <1>12, <1>13
     DEF Next, HandlePost

(* Spec => []TypeOK.                                                        *)
THEOREM TypeCorrect == Spec => []TypeOK
<1>1. Typed => TypeOK
  BY DEF Typed
<1> QED BY InitTyped, StaysTyped, <1>1, PTL DEF Spec

-----------------------------------------------------------------------------
(* The inputs the task of a POST has inserted itself, for a proposal that   *)
(* is being made or has been made.                                          *)
Claimed(p) ==
    IF task[p] = "check3" THEN request[p].coins \ rest[p]
    ELSE IF task[p] \in {"outputs", "inputs", "sign"} \/ answer[p] = "ok" THEN request[p].coins
    ELSE {}

(* What a task claims is in the database, and claimed by no other.          *)
ClaimsExclusive ==
    /\ \A p \in Posts : Claimed(p) \subseteq seen
    /\ \A p, q \in Posts : p # q => Claimed(p) \cap Claimed(q) = {}

(* A step that adds to no claim keeps the claims exclusive.                 *)
LEMMA NoNewClaim ==
    ASSUME ClaimsExclusive,
           seen \subseteq seen',
           \A p \in Posts : Claimed(p)' \subseteq Claimed(p)
    PROVE  ClaimsExclusive'
  BY DEF ClaimsExclusive

LEMMA ClaimsStayExclusive ==
    ASSUME Typed, ClaimsExclusive, [Next]_vars
    PROVE  ClaimsExclusive'
<1> USE DEF Claimed, Typed, TypeOK, StagesAgree, Step, Refuse, SenderStep, tasks
<1>1. ASSUME NEW p \in Posts, Post(p) PROVE ClaimsExclusive'
  <2>1. \A q \in Posts \ {p} : request'[q] = request[q]
    BY <1>1 DEF Post
  <2>2. task' = [task EXCEPT ![p] = "parse"] /\ answer[p] = "none"
    BY <1>1 DEF Post
  <2>3. UNCHANGED <<rest, answer, seen>>
    BY <1>1 DEF Post
  <2> QED BY <2>1, <2>2, <2>3, NoNewClaim DEF ClaimsExclusive
<1>2. ASSUME NEW p \in Posts, GetResponse(p) \/ Broadcast(p) \/ Fallback(p)
      PROVE  ClaimsExclusive'
  BY <1>2, NoNewClaim DEF GetResponse, Broadcast, Fallback, ClaimsExclusive
<1>3. ASSUME NEW p \in Posts, FromRequest(p) PROVE ClaimsExclusive'
  BY <1>3, NoNewClaim DEF FromRequest, ClaimsExclusive
<1>4. ASSUME NEW p \in Posts, CheckBroadcastSuitability(p) PROVE ClaimsExclusive'
  BY <1>4, NoNewClaim DEF CheckBroadcastSuitability, ClaimsExclusive
<1>5. ASSUME NEW p \in Posts, CheckInputsNotOwned(p) PROVE ClaimsExclusive'
  BY <1>5, NoNewClaim DEF CheckInputsNotOwned, ClaimsExclusive
<1>6. ASSUME NEW p \in Posts, CheckNoInputsSeenBefore(p) PROVE ClaimsExclusive'
  <2>1. PICK c \in rest[p] :
           /\ \/ c \in seen /\ Refuse(p, "check3", "serverError")
              \/ /\ c \notin seen
                 /\ Step(p, "check3", IF rest[p] = {c} THEN "outputs" ELSE "check3")
           /\ seen' = seen \cup {c}
           /\ rest' = [rest EXCEPT ![p] = @ \ {c}]
    BY <1>6 DEF CheckNoInputsSeenBefore
  <2>2. request' = request /\ task[p] = "check3"
    BY <1>6 DEF CheckNoInputsSeenBefore
  <2>3. \A q \in Posts \ {p} : Claimed(q)' = Claimed(q)
    BY <2>1, <2>2
  <2>5. CASE c \in seen
    <3>1. Claimed(p)' = {}
      BY <2>1, <2>2, <2>5
    <3> QED BY <2>1, <2>3, <3>1, NoNewClaim
  <2>6. CASE c \notin seen
    <3>1. Claimed(p)' \subseteq Claimed(p) \cup {c}
      BY <2>1, <2>2, <2>6
    <3>2. \A q \in Posts : c \notin Claimed(q)
      BY <2>6 DEF ClaimsExclusive
    <3> HIDE DEF Claimed
    <3> QED BY <2>1, <2>3, <3>1, <3>2 DEF ClaimsExclusive
  <2> QED BY <2>5, <2>6
<1>7. ASSUME NEW p \in Posts, SubstituteScript(p) PROVE ClaimsExclusive'
  BY <1>7, NoNewClaim DEF SubstituteScript, ClaimsExclusive
<1>8. ASSUME NEW p \in Posts, TryContributingInputs(p) PROVE ClaimsExclusive'
  BY <1>8, NoNewClaim DEF TryContributingInputs, ClaimsExclusive
<1>9. ASSUME NEW p \in Posts, FinalizeProposal(p) PROVE ClaimsExclusive'
  BY <1>9, NoNewClaim DEF FinalizeProposal, ClaimsExclusive
<1>10. CASE Crash
  BY <1>10, NoNewClaim DEF Crash, ClaimsExclusive
<1>11. CASE UNCHANGED vars
  BY <1>11, NoNewClaim DEF vars, ClaimsExclusive
<1> QED
  BY <1>1, <1>2, <1>3, <1>4, <1>5, <1>6, <1>7, <1>8, <1>9, <1>10, <1>11 DEF Next, HandlePost

(* An Original that spends a coin of the receiver's is the proposal another *)
(* POST was answered with.                                                  *)
Reposts(p, q) == answer[q] = "ok" /\ request[p].coins = Spends(q)

OursAreReposted ==
    \A p \in Posts :
        /\ sender[p] = "off" => request[p] = NoRequest
        /\ sender[p] # "off" => request[p].coins # {}
        /\ request[p].coins \cap OwnCoins # {} => \E q \in Posts \ {p} : Reposts(p, q)

(* What was posted, answered and contributed stays so.                      *)
LEMMA StaysReposted ==
    ASSUME OursAreReposted, UNCHANGED request,
           \A p \in Posts : sender'[p] = "off" <=> sender[p] = "off",
           \A p \in Posts : answer[p] = "ok" => answer'[p] = "ok" /\ mine'[p] = mine[p]
    PROVE  OursAreReposted'
  BY DEF OursAreReposted, Reposts, Spends

LEMMA OursStayReposted ==
    ASSUME Typed, OursAreReposted, [Next]_vars
    PROVE  OursAreReposted'
<1> USE DEF Typed, TypeOK, StagesAgree, Step, Refuse, SenderStep, tasks
<1>1. ASSUME NEW p \in Posts, Post(p) PROVE OursAreReposted'
  <2>1. \A q \in Posts \ {p} : request'[q] = request[q] /\ sender'[q] = sender[q]
    BY <1>1 DEF Post
  <2>2. UNCHANGED <<mine, answer>> /\ sender'[p] = "wait" /\ answer[p] = "none"
    BY <1>1 DEF Post
  <2>3. /\ request'[p].coins # {}
        /\ request'[p].coins \cap OwnCoins # {}
             => \E q \in Posts \ {p} : answer[q] = "ok" /\ request'[p].coins = Spends(q)
    <3>1. CASE \E r \in Originals[p] : request' = [request EXCEPT ![p] = r]
      <4>1. PICK r \in Originals[p] : request' = [request EXCEPT ![p] = r]
        BY <3>1
      <4>2. r.coins # {} /\ r.coins \cap OwnCoins = {}
        BY HttpAssumption
      <4> QED BY <4>1, <4>2
    <3>2. ASSUME NEW q \in Posts, sender[q] \in {"proposal", "paid"},
                 NEW stated,
                 request' = [request EXCEPT ![p] = [coins |-> Spends(q), form |-> "good",
                                                    stated |-> stated]]
          PROVE  request'[p].coins = Spends(q) /\ Spends(q) # {} /\ q # p /\ answer[q] = "ok"
      BY <3>2, <1>1 DEF Post, Spends
    <3> QED BY <1>1, <3>1, <3>2 DEF Post
  <2>4. \A q, r \in Posts : r # p /\ Reposts(r, q) => Reposts(r, q)'
    <3> SUFFICES ASSUME NEW q \in Posts, NEW r \in Posts, r # p, Reposts(r, q)
                 PROVE  Reposts(r, q)'
      OBVIOUS
    <3>1. q # p
      BY <2>2 DEF Reposts
    <3> QED BY <2>1, <2>2, <3>1 DEF Reposts, Spends
  <2>5. \A q \in Posts \ {p} : Spends(q)' = Spends(q)
    BY <2>1, <2>2 DEF Spends
  <2> QED BY <2>1, <2>2, <2>3, <2>4, <2>5 DEF OursAreReposted, Reposts
<1>2. ASSUME NEW p \in Posts, GetResponse(p) \/ Broadcast(p) \/ Fallback(p)
      PROVE  OursAreReposted'
  BY <1>2, StaysReposted DEF GetResponse, Broadcast, Fallback
<1>3. ASSUME NEW p \in Posts, HandlePost(p) PROVE OursAreReposted'
  BY <1>3, StaysReposted DEF HandlePost, FromRequest, CheckBroadcastSuitability,
     CheckInputsNotOwned, CheckNoInputsSeenBefore, SubstituteScript, TryContributingInputs,
     FinalizeProposal
<1>4. CASE Crash
  BY <1>4, StaysReposted DEF Crash
<1>5. CASE UNCHANGED vars
  BY <1>5, StaysReposted DEF vars
<1> QED BY <1>1, <1>2, <1>3, <1>4, <1>5 DEF Next

Claims == ClaimsExclusive /\ OursAreReposted

LEMMA ClaimsInvariant == Spec => [](Typed /\ Claims)
<1>1. Init => Typed /\ Claims
  BY InitTyped DEF Init, Claims, ClaimsExclusive, Claimed, OursAreReposted, NoRequest
<1>2. Typed /\ Claims /\ [Next]_vars => Typed' /\ Claims'
  BY StaysTyped, ClaimsStayExclusive, OursStayReposted DEF Claims
<1> QED BY <1>1, <1>2, PTL DEF Spec

(* An Original that was answered spends none of the receiver's: it would    *)
(* share an input with the Original of the proposal it reposts.             *)
LEMMA AnsweredAreOthers ==
    ASSUME Typed, Claims, NEW p \in Posts, answer[p] = "ok"
    PROVE  request[p].coins \cap OwnCoins = {}
<1> SUFFICES ASSUME request[p].coins \cap OwnCoins # {} PROVE FALSE
  OBVIOUS
<1>1. PICK r \in Posts \ {p} : Reposts(p, r)
  BY DEF Claims, OursAreReposted
<1>2. request[r].coins \subseteq request[p].coins /\ answer[r] = "ok"
  BY <1>1 DEF Reposts, Spends
<1>3. request[r].coins # {}
  BY <1>2 DEF Claims, OursAreReposted, Typed, StagesAgree
<1>4. Claimed(p) = request[p].coins /\ Claimed(r) = request[r].coins
  BY <1>2 DEF Claimed, Typed, StagesAgree
<1> QED BY <1>2, <1>3, <1>4 DEF Claims, ClaimsExclusive

(* Spec => []NoReentrantPayjoin: the claims that two tasks made in check 3  *)
(* are exclusive.  Check 2 takes no part in it: an Original that spends     *)
(* what the receiver contributed also spends what that proposal's own       *)
(* Original did, which is claimed.                                          *)
THEOREM NoReentry == Spec => []NoReentrantPayjoin
<1>1. Typed /\ Claims => NoReentrantPayjoin
  <2> SUFFICES ASSUME Typed, Claims,
                      NEW p \in Posts, NEW q \in Posts, p # q,
                      answer[p] = "ok", answer[q] = "ok"
               PROVE  request[p].coins \cap Spends(q) = {}
    BY DEF NoReentrantPayjoin
  <2>1. \A r \in Posts : answer[r] = "ok" => Claimed(r) = request[r].coins
    BY DEF Claimed, Typed, StagesAgree
  <2>2. request[p].coins \cap request[q].coins = {}
    BY <2>1 DEF Claims, ClaimsExclusive
  <2>3. mine[q] \notin request[p].coins
    BY AnsweredAreOthers DEF Typed, TypeOK
  <2> QED BY <2>2, <2>3 DEF Spends
<1> QED BY <1>1, ClaimsInvariant, PTL

-----------------------------------------------------------------------------
(* What the tasks past each check are working on, and whence the database   *)
(* has its coins.                                                           *)
ChecksPassed ==
    /\ \A p \in Posts :
          /\ task[p] \in {"check2", "check3"} => Signed(request[p])
          /\ task[p] = "check3" => request[p].stated = {} /\ rest[p] \subseteq request[p].coins
    /\ BarredByItsOwner

(* What has barred a coin.                                                  *)
Barred(c, p) ==
    /\ c \in request[p].coins /\ Signed(request[p])
    /\ c \in OwnCoins =>
          /\ request[p].stated = {}
          /\ \E q \in Posts : answer[q] = "ok" /\ mine[q] = c

(* Requests are posted and answered once, so that a coin stays barred by    *)
(* what barred it.                                                          *)
LEMMA StaysBarred ==
    ASSUME ChecksPassed, UNCHANGED <<request, seen>>,
           \A p \in Posts : answer[p] = "ok" => answer'[p] = "ok" /\ mine'[p] = mine[p]
    PROVE  BarredByItsOwner'
  BY DEF ChecksPassed, BarredByItsOwner, Signed

LEMMA ChecksStayPassed ==
    ASSUME Typed, Claims, ChecksPassed, [Next]_vars
    PROVE  ChecksPassed'
<1> USE DEF Typed, TypeOK, StagesAgree, Step, Refuse, SenderStep, Signed, tasks
<1>1. ASSUME NEW p \in Posts, Post(p) PROVE ChecksPassed'
  <2>1. \A q \in Posts \ {p} : request'[q] = request[q]
    BY <1>1 DEF Post
  <2>2. request[p] = NoRequest /\ task' = [task EXCEPT ![p] = "parse"]
    BY <1>1 DEF Post, Claims, OursAreReposted
  <2>3. UNCHANGED <<rest, seen, mine, answer>> /\ sender' = [sender EXCEPT ![p] = "wait"]
    BY <1>1 DEF Post
  <2>4. ASSUME NEW c \in seen PROVE \E q \in Posts : Barred(c, q)'
    <3>1. PICK q \in Posts : Barred(c, q)
      BY DEF ChecksPassed, BarredByItsOwner, Barred
    <3>2. q # p
      BY <2>2, <3>1 DEF Barred, NoRequest
    <3> QED BY <2>1, <2>3, <3>1, <3>2 DEF Barred
  <2>5. BarredByItsOwner'
    BY <2>3, <2>4 DEF BarredByItsOwner, Barred
  <2> QED BY <2>1, <2>2, <2>3, <2>5 DEF ChecksPassed
<1>2. ASSUME NEW p \in Posts, GetResponse(p) \/ Broadcast(p) \/ Fallback(p)
      PROVE  ChecksPassed'
  BY <1>2, StaysBarred DEF GetResponse, Broadcast, Fallback, ChecksPassed
<1>3. ASSUME NEW p \in Posts, FromRequest(p) PROVE ChecksPassed'
  BY <1>3, StaysBarred DEF FromRequest, ChecksPassed
<1>4. ASSUME NEW p \in Posts, CheckBroadcastSuitability(p) PROVE ChecksPassed'
  BY <1>4, StaysBarred DEF CheckBroadcastSuitability, CanBroadcast, ChecksPassed
<1>5. ASSUME NEW p \in Posts, CheckInputsNotOwned(p) PROVE ChecksPassed'
  BY <1>5, StaysBarred DEF CheckInputsNotOwned, StatesNoneOfOurs, ChecksPassed
<1>6. ASSUME NEW p \in Posts, CheckNoInputsSeenBefore(p) PROVE ChecksPassed'
  <2>1. PICK c \in rest[p] :
           /\ task[p] = "check3" /\ task'[p] \in {"off", "check3", "outputs"}
           /\ \A q \in Posts \ {p} : task'[q] = task[q]
           /\ seen' = seen \cup {c}
           /\ rest' = [rest EXCEPT ![p] = @ \ {c}]
    BY <1>6 DEF CheckNoInputsSeenBefore
  <2>2. UNCHANGED <<request, sender, mine>>
    BY <1>6 DEF CheckNoInputsSeenBefore
  <2>3. c \in request[p].coins /\ request[p].stated = {} /\ Signed(request[p])
    BY <2>1 DEF ChecksPassed
  <2>5. c \in OwnCoins => \E q \in Posts : answer[q] = "ok" /\ mine[q] = c
    BY <2>3, AnsweredAreOthers DEF Claims, OursAreReposted, Reposts, Spends
  <2>6. \A q \in Posts : answer[q] = "ok" => answer'[q] = "ok"
    BY <1>6 DEF CheckNoInputsSeenBefore
  <2>7. \A q \in Posts : \A b \in seen \cup {c} : Barred(b, q) => Barred(b, q)'
    BY <2>2, <2>6 DEF Barred
  <2>8. Barred(c, p)
    BY <2>3, <2>5 DEF Barred
  <2>9. \A b \in seen : \E q \in Posts : Barred(b, q)
    BY DEF ChecksPassed, BarredByItsOwner, Barred
  <2>10. BarredByItsOwner'
    <3> SUFFICES \A b \in seen \cup {c} : \E q \in Posts : Barred(b, q)'
      BY <2>1 DEF BarredByItsOwner, Barred
    <3> QED BY <2>7, <2>8, <2>9
  <2> QED BY <2>1, <2>2, <2>10 DEF ChecksPassed
<1>7. ASSUME NEW p \in Posts, SubstituteScript(p) PROVE ChecksPassed'
  BY <1>7, StaysBarred DEF SubstituteScript, ChecksPassed
<1>8. ASSUME NEW p \in Posts, TryContributingInputs(p) PROVE ChecksPassed'
  BY <1>8, StaysBarred DEF TryContributingInputs, ChecksPassed
<1>9. ASSUME NEW p \in Posts, FinalizeProposal(p) PROVE ChecksPassed'
  BY <1>9, StaysBarred DEF FinalizeProposal, ChecksPassed
<1>10. CASE Crash
  BY <1>10, StaysBarred DEF Crash, ChecksPassed
<1>11. CASE UNCHANGED vars
  BY <1>11, StaysBarred DEF vars, ChecksPassed
<1> QED
  BY <1>1, <1>2, <1>3, <1>4, <1>5, <1>6, <1>7, <1>8, <1>9, <1>10, <1>11 DEF Next, HandlePost

(* Spec => []BarredByItsOwner: a coin enters the database only after an     *)
(* Original that spends it has passed checks 1 and 2; and no proposal's own *)
(* Original spends a coin of the receiver's.                                *)
THEOREM OwnersBar == Spec => []BarredByItsOwner
<1>1. Init => ChecksPassed
  BY DEF Init, ChecksPassed, BarredByItsOwner
<1>2. ChecksPassed => BarredByItsOwner
  BY DEF ChecksPassed
<1> QED BY <1>1, <1>2, ClaimsInvariant, ChecksStayPassed, PTL DEF Spec
=============================================================================
