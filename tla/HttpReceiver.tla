---------------------------- MODULE HttpReceiver ----------------------------
(***************************************************************************)
(* The v1 receiver of payjoin-cli (payjoin-cli/src/app/v1.rs): a server    *)
(* with a task per connection, each of which takes one Original and        *)
(* answers it, over one sled database and one wallet; and the sender of    *)
(* each POST.  The tasks run on the threads of the runtime, so that their  *)
(* calls on the database and on the node interleave.  What outlives the    *)
(* process is the database and the chain.                                  *)
(***************************************************************************)
EXTENDS Naturals

CONSTANTS
    Posts,        \* the POST requests, each a connection and its sender
    Coins,        \* the outpoints the senders' wallets hold
    OwnCoins,     \* the outpoints the receiver's wallet holds
    NoCoin,       \* where nothing has been contributed
    Originals,    \* for each POST, the Originals its sender may make
    MaxCrashes,   \* bound: how often the receiver is cut off
    MayFail       \* TRUE: the wallet, the node or a connection may fail

(* How a request may be wrong: its headers, its payload, a signature that   *)
(* is missing, an input without UTXO information, no output that pays the   *)
(* receiver; "fixed" is a sender that disables output substitution.         *)
Forms     == {"good", "headers", "payload", "unsigned", "unstated", "unpaid", "fixed"}

(* stated: the inputs that spend an output to the receiver by the request's *)
(* own UTXO information, which nothing compares with the chain.             *)
Requests  == [coins : SUBSET (Coins \cup OwnCoins), form : Forms,
              stated : SUBSET (Coins \cup OwnCoins)]

ASSUME HttpAssumption ==
    /\ Coins \cap OwnCoins = {}
    /\ NoCoin \notin Coins \cup OwnCoins
    /\ Originals \in [Posts -> SUBSET {r \in Requests : r.coins # {} /\ r.coins \subseteq Coins}]
    /\ MaxCrashes \in Nat /\ MayFail \in BOOLEAN

VARIABLES
    request,   \* what each sender has posted
    task,      \* where the task of each connection stands
    rest,      \* the inputs check 3 has still to look up
    mine,      \* the coin of the receiver's each proposal spends
    answer,    \* the HTTP status a task has answered with
    seen,      \* sled: the outpoints of insert_input_seen_before
    crashes,
    sender,    \* where each sender stands
    spent      \* the coins spent on chain

tasks == <<task, rest, mine, answer>>
vars  == <<request, tasks, seen, crashes, sender, spent>>

-----------------------------------------------------------------------------
NoRequest == [coins |-> {}, form |-> "none", stated |-> {}]

Checking == {"parse", "check1", "check2", "check3", "outputs", "inputs", "sign"}
Answers  == {"none", "ok", "badRequest", "serverError", "cut"}

(* The inputs of the proposal made for a POST. *)
Spends(p) == request[p].coins \cup {mine[p]}

Signed(r) == r.form \in {"good", "unstated", "unpaid", "fixed"}

(* testmempoolaccept allows a signed transaction of unspent coins. *)
CanBroadcast(r) == Signed(r) /\ r.coins \cap spent = {}

ListUnspent == OwnCoins \ spent

Init ==
    /\ request = [p \in Posts |-> NoRequest]
    /\ task = [p \in Posts |-> "off"]
    /\ rest = [p \in Posts |-> {}]
    /\ mine = [p \in Posts |-> NoCoin]
    /\ answer = [p \in Posts |-> "none"]
    /\ sender = [p \in Posts |-> "off"]
    /\ seen = {} /\ crashes = 0 /\ spent = {}

-----------------------------------------------------------------------------
(* The sender.                                                              *)

SenderStep(p, from, to) == sender[p] = from /\ sender' = [sender EXCEPT ![p] = to]

(* send_payjoin: an Original is made from the wallet's coins, or a proposal *)
(* that an earlier POST was answered with is posted as a new Original,      *)
(* whose UTXO information may or may not be that of the coins it spends.    *)
Post(p) ==
    /\ SenderStep(p, "off", "wait")
    /\ \/ \E r \in Originals[p] : request' = [request EXCEPT ![p] = r]
       \/ \E q \in Posts :
             /\ sender[q] \in {"proposal", "paid"}
             /\ \E stated \in {{}, {mine[q]}} :
                   request' = [request EXCEPT ![p] =
                                 [coins |-> Spends(q), form |-> "good", stated |-> stated]]
    /\ task' = [task EXCEPT ![p] = "parse"]
    /\ UNCHANGED <<rest, mine, answer, seen, crashes, spent>>

(* process_response takes the body for a proposal or for an error; it may   *)
(* find the proposal unacceptable; the connection may be lost before it.    *)
GetResponse(p) ==
    /\ \/ answer[p] = "ok" /\ SenderStep(p, "wait", "proposal")
       \/ /\ answer[p] # "none" \/ MayFail
          /\ SenderStep(p, "wait", "failed")
    /\ UNCHANGED <<request, tasks, seen, crashes, spent>>

(* process_pj_response: the proposal is signed and broadcast. *)
Broadcast(p) ==
    /\ IF Spends(p) \cap spent = {}
       THEN SenderStep(p, "proposal", "paid") /\ spent' = spent \cup Spends(p)
       ELSE SenderStep(p, "proposal", "failed") /\ UNCHANGED spent
    /\ UNCHANGED <<request, tasks, seen, crashes>>

(* The fallback transaction that was printed is broadcast by its user. *)
Fallback(p) ==
    /\ SenderStep(p, "failed", "fellback")
    /\ CanBroadcast(request[p])
    /\ spent' = spent \cup request[p].coins
    /\ UNCHANGED <<request, tasks, seen, crashes>>

-----------------------------------------------------------------------------
(* handle_payjoin_post.                                                     *)

Step(p, from, to) ==
    /\ task[p] = from
    /\ task' = [task EXCEPT ![p] = to]
    /\ UNCHANGED answer

Refuse(p, from, status) ==
    /\ task[p] = from
    /\ task' = [task EXCEPT ![p] = "off"]
    /\ answer' = [answer EXCEPT ![p] = status]

(* from_request: an error of the headers is the only one answered with 400, *)
(* one of the payload is answered with 500, as every later one.             *)
FromRequest(p) ==
    /\ \/ request[p].form \notin {"headers", "payload"} /\ Step(p, "parse", "check1")
       \/ request[p].form = "headers" /\ Refuse(p, "parse", "badRequest")
       \/ request[p].form = "payload" /\ Refuse(p, "parse", "serverError")
    /\ UNCHANGED <<request, rest, mine, seen, crashes, sender, spent>>

(* Check 1: the Original can be broadcast. *)
CheckBroadcastSuitability(p) ==
    /\ \/ CanBroadcast(request[p]) /\ Step(p, "check1", "check2")
       \/ /\ ~CanBroadcast(request[p]) \/ MayFail
          /\ Refuse(p, "check1", "serverError")
    /\ UNCHANGED <<request, rest, mine, seen, crashes, sender, spent>>

(* Mutant: check 2 is skipped. *)
SkipInputsNotOwned(p) ==
    /\ Step(p, "check2", "check3")
    /\ rest' = [rest EXCEPT ![p] = request[p].coins]
    /\ UNCHANGED <<request, mine, seen, crashes, sender, spent>>

(* Check 2: by its own UTXO information, which each input must have, none   *)
(* of its inputs is the receiver's.                                         *)
StatesNoneOfOurs(r) == r.form # "unstated" /\ r.stated = {}

CheckInputsNotOwned(p) ==
    /\ \/ StatesNoneOfOurs(request[p]) /\ Step(p, "check2", "check3")
       \/ /\ ~StatesNoneOfOurs(request[p]) \/ MayFail
          /\ Refuse(p, "check2", "serverError")
    /\ rest' = [rest EXCEPT ![p] = request[p].coins]
    /\ UNCHANGED <<request, mine, seen, crashes, sender, spent>>

(* Mutant: only the first input is looked up. *)
CheckOneInput(p) ==
    /\ \E c \in rest[p] :
          /\ IF c \in seen THEN Refuse(p, "check3", "serverError")
             ELSE Step(p, "check3", "outputs")
          /\ seen' = seen \cup {c}
    /\ rest' = [rest EXCEPT ![p] = {}]
    /\ UNCHANGED <<request, mine, crashes, sender, spent>>

(* Check 3, one input: sled inserts it and says whether it was there; the   *)
(* first that was ends the task, and those before it stay inserted.         *)
CheckNoInputsSeenBefore(p) ==
    /\ \E c \in rest[p] :
          /\ \/ c \in seen /\ Refuse(p, "check3", "serverError")
             \/ /\ c \notin seen
                /\ Step(p, "check3", IF rest[p] = {c} THEN "outputs" ELSE "check3")
          /\ seen' = seen \cup {c}
          /\ rest' = [rest EXCEPT ![p] = @ \ {c}]
    /\ UNCHANGED <<request, mine, crashes, sender, spent>>

(* The receiver's outputs are identified and its script is substituted with *)
(* a fresh one, which a sender that fixes the outputs does not allow.       *)
SubstituteScript(p) ==
    /\ \/ request[p].form = "good" /\ Step(p, "outputs", "inputs")
       \/ /\ request[p].form # "good" \/ MayFail
          /\ Refuse(p, "outputs", "serverError")
    /\ UNCHANGED <<request, rest, mine, seen, crashes, sender, spent>>

(* Mutant: without a coin to list, the task goes on with none. *)
ContributeNothing(p) ==
    /\ \/ \E c \in ListUnspent :
             /\ Step(p, "inputs", "sign")
             /\ mine' = [mine EXCEPT ![p] = c]
       \/ ListUnspent = {} /\ Step(p, "inputs", "sign") /\ UNCHANGED mine
    /\ UNCHANGED <<request, rest, seen, crashes, sender, spent>>

(* try_contributing_inputs: one of the coins the wallet lists just then. *)
TryContributingInputs(p) ==
    /\ \/ \E c \in ListUnspent :
             /\ Step(p, "inputs", "sign")
             /\ mine' = [mine EXCEPT ![p] = c]
       \/ /\ ListUnspent = {} \/ MayFail
          /\ Refuse(p, "inputs", "serverError")
          /\ UNCHANGED mine
    /\ UNCHANGED <<request, rest, seen, crashes, sender, spent>>

(* finalize_proposal: fees are applied and the wallet signs; the proposal   *)
(* is the answer.                                                           *)
FinalizeProposal(p) ==
    /\ \/ Refuse(p, "sign", "ok")
       \/ MayFail /\ Refuse(p, "sign", "serverError")
    /\ UNCHANGED <<request, rest, mine, seen, crashes, sender, spent>>

(* The process is interrupted or crashes: its connections are cut.  The     *)
(* user starts it again over the same database.                             *)
Crash ==
    /\ crashes < MaxCrashes
    /\ \E p \in Posts : task[p] # "off"
    /\ crashes' = crashes + 1
    /\ task' = [p \in Posts |-> "off"]
    /\ answer' = [p \in Posts |-> IF task[p] = "off" THEN answer[p] ELSE "cut"]
    /\ UNCHANGED <<request, rest, mine, seen, sender, spent>>

-----------------------------------------------------------------------------

HandlePost(p) ==
    \/ FromRequest(p) \/ CheckBroadcastSuitability(p) \/ CheckInputsNotOwned(p)
    \/ CheckNoInputsSeenBefore(p) \/ SubstituteScript(p) \/ TryContributingInputs(p)
    \/ FinalizeProposal(p)

Next ==
    \/ Crash
    \/ \E p \in Posts :
          \/ HandlePost(p)
          \/ Post(p) \/ GetResponse(p) \/ Broadcast(p) \/ Fallback(p)

Spec == Init /\ [][Next]_vars

-----------------------------------------------------------------------------
(* Every variable keeps its type; a proposal spends a coin of the           *)
(* receiver's (try_contributing_inputs).                                    *)
TypeOK ==
    /\ request \in [Posts -> Requests \cup {NoRequest}]
    /\ task \in [Posts -> Checking \cup {"off"}]
    /\ rest \in [Posts -> SUBSET (Coins \cup OwnCoins)]
    /\ mine \in [Posts -> OwnCoins \cup {NoCoin}]
    /\ answer \in [Posts -> Answers]
    /\ seen \subseteq Coins \cup OwnCoins
    /\ crashes \in 0 .. MaxCrashes
    /\ sender \in [Posts -> {"off", "wait", "proposal", "failed", "paid", "fellback"}]
    /\ spent \subseteq Coins \cup OwnCoins
    /\ \A p \in Posts : task[p] = "sign" \/ answer[p] = "ok" => mine[p] \in OwnCoins

(* "This prevents probing attacks. This prevents reentrant Payjoin, where a *)
(* sender proposes a Payjoin PSBT as a new Original PSBT for a new Payjoin" *)
(* (check_no_inputs_seen_before): an Original that was answered with a      *)
(* proposal shares no input with any other proposal, neither the sender's   *)
(* nor the receiver's, over tasks that run at once and restarts.            *)
NoReentrantPayjoin ==
    \A p, q \in Posts :
        p # q /\ answer[p] = "ok" /\ answer[q] = "ok"
            => request[p].coins \cap Spends(q) = {}

(* A coin is barred from later payjoins only by a signed Original that      *)
(* spends it; one of the receiver's own only by a proposal it has answered  *)
(* with, posted as an Original that hides whose coin it is: what the order  *)
(* of the three checks is for (process_v1_proposal).                        *)
BarredByItsOwner ==
    \A c \in seen : \E p \in Posts :
        /\ c \in request[p].coins /\ Signed(request[p])
        /\ c \in OwnCoins =>
              /\ request[p].stated = {}
              /\ \E q \in Posts : answer[q] = "ok" /\ mine[q] = c
=============================================================================
