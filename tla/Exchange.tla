------------------------------ MODULE Exchange ------------------------------
(***************************************************************************)
(* Receivers and senders over one directory, as the library sees them: the *)
(* URI that a sender parses, the mailboxes that keys are hashed to, what   *)
(* fits a message and what opens it, expiry, and the answers that reach    *)
(* nobody.  A request is served in one step here, or lost: Directory       *)
(* implements that, and Sessions has the crashes between.  A receiver's    *)
(* key is the receiver, a sender's reply key the sender, and its Original  *)
(* too.                                                                    *)
(***************************************************************************)
EXTENDS PjUri, Wire

CONSTANTS
    Receivers, Senders,
    Ids,               \* the short ids that keys are hashed to
    Hashes,            \* the ways keys may be hashed, with collisions or none
    Directories,       \* the URLs a receiver may know the directory by
    OtherKeys,         \* what else parts of their fragments may begin with
    Garbled,           \* senders whose payload may not parse
    OriginalSizes,     \* of an Original and its parameters, in bytes
    ProposalSizes,     \* of a proposal, in bytes
    Lifetimes,         \* what each receiver may choose for expire_after, in ticks
    Start,             \* the time it all begins, in ticks
    MaxEvents,         \* bound: ticks of the clock and restarts of the directory
    None

Keys == Receivers \cup Senders

(* What a sender may read from a URI.                                       *)
Uris ==
    [rs : Receivers, ohttp : Nat, exp : Nat, path : Seq(STRING \cup Ids),
     noSubst : BOOLEAN]

ASSUME ExchangeAssumption ==
    /\ Hashes \subseteq [Keys -> Ids]
    /\ Receivers \cap Senders = {} /\ None \notin Keys \cup Uris
    /\ OriginalSizes \subseteq Nat /\ ProposalSizes \subseteq Nat
    /\ Lifetimes \in [Receivers -> SUBSET Nat] /\ Start \in Nat /\ MaxEvents \in Nat
    /\ Garbled \subseteq Senders

Prefixes == ReceiverKeys \cup OtherKeys \cup {""}
Parts == [key : Prefixes, value : Keys \cup Nat, holds : Seq(Prefixes)]

(* What the URL of a directory may be, and the bytes it adds to a request:  *)
(* its own parameters are well formed, and nothing follows them.            *)
ASSUME DirectoriesAssumption ==
    \A d \in Directories :
        /\ d.path \in Seq(STRING) /\ d.framing \in Nat
        /\ d.fragment \in Seq(Parts)
        /\ \A i \in DOMAIN d.fragment :
              /\ d.fragment[i].key = "" => d.fragment[i] = Blank
              /\ d.fragment[i].key \in ReceiverKeys => d.fragment[i].holds = <<>>
              /\ d.fragment[i].key = "RK" => d.fragment[i].value \in Receivers
              /\ d.fragment[i].key \in {"OH", "EX"} => d.fragment[i].value \in Nat

VARIABLES
    directory,   \* the directory's URL
    idOf,        \* the short id of each key
    garbled,     \* the senders of other software, whose payload does not parse
    now,         \* the time
    dirKey,      \* the directory's OHTTP key
    box,         \* the default column: what was last posted to each id
    boxV1,       \* the v1 column: the Original that the proposal there is for
    rstate,      \* each receiver's state
    expiry,      \* its session's expiry
    ohttp,       \* and OHTTP key
    e,           \* the reply key of the Original it opened last
    got,         \* the Original it works on, or has answered
    sstate,      \* each sender's state
    uri,         \* what it read from the receiver's URI
    opened,      \* auxiliary: the message B it has opened
    sealedAt,    \* auxiliary: when it last encrypted its Original
    inClear      \* auxiliary: the senders whose Original was posted in the clear

clock == <<now, dirKey>>
mail == <<box, boxV1>>
receivers == <<rstate, expiry, ohttp, e, got>>
senders == <<sstate, uri, opened, sealedAt, inClear>>
vars == <<directory, idOf, garbled, clock, mail, receivers, senders>>

Init ==
    /\ directory \in Directories
    /\ idOf \in Hashes /\ garbled \in SUBSET Garbled
    /\ now = Start /\ dirKey = 0
    /\ box = [i \in Ids |-> None] /\ boxV1 = [i \in Ids |-> None]
    /\ rstate = [r \in Receivers |-> "none"]
    /\ expiry = [r \in Receivers |-> 0] /\ ohttp = [r \in Receivers |-> 0]
    /\ e = [r \in Receivers |-> None] /\ got = [r \in Receivers |-> None]
    /\ sstate = [s \in Senders |-> "new"]
    /\ uri = [s \in Senders |-> None] /\ opened = [s \in Senders |-> None]
    /\ sealedAt = [s \in Senders |-> 0] /\ inClear = {}

Fixed == UNCHANGED <<directory, idOf, garbled>>

-----------------------------------------------------------------------------
(* The gateway and the requests to it.                                      *)

(* handle_v2 serves the ids at the root of the directory, and nothing else. *)
Served(path) == Len(path) = 1

(* What a request under a key comes to, if it reaches the gateway: an error *)
(* that the client cannot decapsulate if the key is another or the request  *)
(* was cut, a 404 if the path is not served.                                *)
Outcome(path, key, length) ==
    IF key # dirKey \/ ~RequestFits(length, directory.framing) THEN "rejected"
    ELSE IF Served(path) THEN "ok" ELSE "notFound"

Endpoint(r) ==
    [scheme   |-> directory.scheme, onion |-> directory.onion,
     path     |-> Push(directory.path, idOf[r]),
     fragment |-> ReceiverFragment(directory.fragment, r, ohttp[r], expiry[r])]

-----------------------------------------------------------------------------
(* Receivers.                                                               *)

Becomes(r, state) == rstate' = [rstate EXCEPT ![r] = state]
Rests == Fixed /\ UNCHANGED <<clock, senders, expiry, ohttp>>

(* Receiver::new, and the URI that is shared at once.                       *)
NewSession(r) ==
    /\ rstate[r] = "none"
    /\ \E life \in Lifetimes[r] :
          /\ expiry' = [expiry EXCEPT ![r] = now + life]
          /\ Becomes(r, IF ExpiryFits(now + life) THEN "polling" ELSE "panicked")
    /\ ohttp' = [ohttp EXCEPT ![r] = dirKey]
    /\ Fixed /\ UNCHANGED <<clock, mail, senders, e, got>>

(* Mutant: what does not parse is worked on. *)
TakesUnparsed(r, s, key) ==
    /\ e' = [e EXCEPT ![r] = key]
    /\ Becomes(r, "working")
    /\ got' = IF s \in garbled THEN got ELSE [got EXCEPT ![r] = s]
    /\ Rests /\ UNCHANGED mail

(* Mutant: a reply key that is there stays. *)
TakesFirstKey(r, s, key) ==
    /\ e' = IF e[r] = None THEN [e EXCEPT ![r] = key] ELSE e
    /\ IF s \in garbled THEN Becomes(r, "erred") /\ UNCHANGED got
       ELSE Becomes(r, "working") /\ got' = [got EXCEPT ![r] = s]
    /\ Rests /\ UNCHANGED mail

(* extract_proposal_from_v1 and _from_v2: the reply key is kept before the  *)
(* payload is parsed.                                                       *)
Takes(r, s, key) ==
    /\ e' = [e EXCEPT ![r] = key]
    /\ IF s \in garbled THEN Becomes(r, "erred") /\ UNCHANGED got
       ELSE Becomes(r, "working") /\ got' = [got EXCEPT ![r] = s]
    /\ Rests /\ UNCHANGED mail

Stops(r, state) ==
    /\ Becomes(r, state) /\ got' = [got EXCEPT ![r] = None]
    /\ Rests /\ UNCHANGED <<mail, e>>

(* Receiver::process_res, of the answer to a GET.                           *)
ProcessRes(r, m) ==
    IF ~ResponseFits(LengthOf(m)) THEN Stops(r, "erred")
    ELSE \/ m.kind = "original" /\ Takes(r, m.of, e[r])
         \/ m.kind = "error" /\ Stops(r, "erred")
         \/ ~Utf8(m) /\ IF OpensA(m, r) THEN Takes(r, m.reply, m.reply)
                         ELSE Stops(r, "erred")

(* extract_req, the only one to look at the expiry.                         *)
Ask(r) ==
    /\ rstate[r] = "polling"
    /\ Stops(r, IF now > expiry[r] THEN "expired" ELSE "asking")

(* The answer to it, whenever it comes: an error of the gateway or none at  *)
(* all, an empty body, that of a 404 or a wait in vain, or a message.       *)
Poll(r) ==
    LET path    == Push(directory.path, idOf[r])
        outcome == Outcome(path, ohttp[r], 0)
    IN /\ rstate[r] = "asking"
       /\ \/ Stops(r, "erred")
          \/ outcome # "rejected" /\ Stops(r, "polling")
          \/ outcome = "ok" /\ box[idOf[r]] # None /\ ProcessRes(r, box[idOf[r]])

Stopped == {"erred", "working", "answered", "refused", "failed"}

(* A caller that polls again with the session it has.                       *)
PollOn(r) ==
    /\ rstate[r] \in Stopped
    /\ Stops(r, "polling")

(* A restart from the session as it was saved, before any reply key.        *)
Reload(r) ==
    /\ rstate[r] \in Stopped
    /\ Becomes(r, "polling")
    /\ e' = [e EXCEPT ![r] = None] /\ got' = [got EXCEPT ![r] = None]
    /\ Rests /\ UNCHANGED mail

(* A request that makes no difference: it is refused, cut, lost, or meets   *)
(* an error of redis.                                                       *)
Fails(r) == rstate[r] = "working" /\ Stops(r, "failed")

(* One that does: whether the response comes back is another matter.        *)
Delivered(r, state) ==
    /\ \/ Becomes(r, state) /\ UNCHANGED got
       \/ Becomes(r, "failed") /\ got' = [got EXCEPT ![r] = None]
    /\ Rests /\ UNCHANGED e

(* Mutant: the answer goes to the receiver's own subdirectory. *)
AnswerV2AtHome(r) ==
    LET path == Join(directory.path, idOf[r]) IN
    /\ rstate[r] = "working" /\ e[r] # None
    /\ \E size \in ProposalSizes : Pads(size, PADDED_PLAINTEXT_B_LENGTH)
    /\ Outcome(path, ohttp[r], PADDED_MESSAGE_BYTES) = "ok"
    /\ box' = [box EXCEPT ![path[1]] = MessageB(r, e[r], got[r])]
    /\ Delivered(r, "answered") /\ UNCHANGED boxV1

(* extract_v2_req for a sender of v2: a message B, where its key hashes to. *)
AnswerV2(r) ==
    LET path == Join(directory.path, idOf[e[r]]) IN
    /\ rstate[r] = "working" /\ e[r] # None
    /\ \E size \in ProposalSizes : Pads(size, PADDED_PLAINTEXT_B_LENGTH)
    /\ Outcome(path, ohttp[r], PADDED_MESSAGE_BYTES) = "ok"
    /\ box' = [box EXCEPT ![path[1]] = MessageB(r, e[r], got[r])]
    /\ Delivered(r, "answered") /\ UNCHANGED boxV1

(* And for one of v1: the proposal's text, in the receiver's v1 column.     *)
AnswerV1(r) ==
    LET path == Join(directory.path, idOf[r]) IN
    /\ rstate[r] = "working" /\ e[r] = None
    /\ \E size \in ProposalSizes : Outcome(path, ohttp[r], Base64Length(size)) = "ok"
    /\ boxV1' = [boxV1 EXCEPT ![path[1]] = got[r]]
    /\ Delivered(r, "answered") /\ UNCHANGED box

(* extract_err_req: the error goes to the receiver's own subdirectory.      *)
Refuse(r) ==
    LET path == Push(directory.path, idOf[r]) IN
    /\ rstate[r] = "working"
    /\ Outcome(path, ohttp[r], LengthOf(ErrorJson)) = "ok"
    /\ box' = [box EXCEPT ![path[1]] = ErrorJson]
    /\ Delivered(r, "refused") /\ UNCHANGED boxV1

-----------------------------------------------------------------------------
(* Senders.                                                                 *)

Goes(s, state) == sstate' = [sstate EXCEPT ![s] = state]
Others == Fixed /\ UNCHANGED <<clock, receivers>>

(* The URI that a receiver shares, and what a sender reads from it.         *)
Shared(r) == SerializeParams([endpoint |-> Endpoint(r), noSubst |-> FALSE])

ParsedUri(ps) ==
    LET url == ParsedEndpoint(ps) IN
    [rs      |-> GetParam(url.fragment, "RK"), ohttp |-> GetParam(url.fragment, "OH"),
     exp     |-> Expiry(url.fragment), path |-> url.path,
     noSubst |-> ParsedNoSubst(ps)]

Parse(s) ==
    /\ sstate[s] = "new"
    /\ \E r \in Receivers :
          /\ rstate[r] \notin {"none", "panicked"}
          /\ IF ParseParams(Shared(r)) = "supported"
             THEN Goes(s, "ready") /\ uri' = [uri EXCEPT ![s] = ParsedUri(Shared(r))]
             ELSE Goes(s, "unparsed") /\ UNCHANGED uri
    /\ Others /\ UNCHANGED <<mail, opened, sealedAt, inClear>>

(* extract_v1: the Original in the clear, as the body of a plain POST.  The *)
(* sender does not look at the status: a 404, an error of redis or nothing  *)
(* at all leave it with nothing to parse.                                   *)
PostsV1(s, size) ==
    /\ \/ /\ Served(uri[s].path)
          /\ box' = [box EXCEPT ![uri[s].path[1]] = Plaintext(s, size)]
          /\ inClear' = inClear \cup {s}
          /\ Goes(s, "waiting")
       \/ Goes(s, "unreadable") /\ UNCHANGED <<box, inClear>>
    /\ Others /\ UNCHANGED <<boxV1, uri, opened, sealedAt>>

PostV1(s) ==
    /\ sstate[s] = "ready"
    /\ \E size \in OriginalSizes : PostsV1(s, size)

(* Why extract_v2 makes no request.                                         *)
NoV2Request(s, size) == now > uri[s].exp \/ ~Pads(size, PADDED_PLAINTEXT_A_LENGTH)

(* extract_v2: a message A to be posted, or else v1.                        *)
ExtractV2(s) ==
    /\ sstate[s] = "ready"
    /\ \E size \in OriginalSizes :
          \/ NoV2Request(s, size) /\ PostsV1(s, size)
          \/ /\ ~NoV2Request(s, size)
             /\ Goes(s, "posting") /\ sealedAt' = [sealedAt EXCEPT ![s] = now]
             /\ Others /\ UNCHANGED <<mail, uri, opened, inClear>>

(* The POST of it, whenever it arrives.                                     *)
PostV2(s) ==
    LET outcome == Outcome(uri[s].path, uri[s].ohttp, PADDED_MESSAGE_BYTES) IN
    /\ sstate[s] = "posting"
    /\ \/ outcome # "ok" /\ Goes(s, outcome) /\ UNCHANGED box
       \/ /\ outcome = "ok" /\ (Goes(s, "get") \/ Goes(s, "noAnswer"))
          /\ box' = [box EXCEPT ![uri[s].path[1]] = MessageA(uri[s].rs, s)]
       \/ Goes(s, "noAnswer") /\ UNCHANGED box
    /\ Others /\ UNCHANGED <<boxV1, uri, opened, sealedAt, inClear>>

(* V2GetContext: a GET where its own key hashes to, beside the endpoint.    *)
(* process_proposal refuses what is not for its Original, and may refuse    *)
(* what is.                                                                 *)
Get(s) ==
    LET path    == Join(uri[s].path, idOf[s])
        outcome == Outcome(path, uri[s].ohttp, PADDED_MESSAGE_BYTES)
        m       == box[path[1]]
        opens   == ResponseFits(LengthOf(m)) /\ OpensB(m, uri[s].rs, s)
    IN /\ sstate[s] = "get"
       /\ \/ Goes(s, "noAnswer") /\ UNCHANGED opened
          \/ outcome # "ok" /\ Goes(s, outcome) /\ UNCHANGED opened
          \/ outcome = "ok" /\ m # None /\ ~opens /\ Goes(s, "unopened") /\ UNCHANGED opened
          \/ /\ outcome = "ok" /\ m # None /\ opens
             /\ opened' = [opened EXCEPT ![s] = m]
             /\ (m.of = s /\ Goes(s, "done")) \/ Goes(s, "refused")
       /\ Others /\ UNCHANGED <<mail, uri, sealedAt, inClear>>

(* V1Context::process_response, of the text the directory sends.            *)
ResponseError(isJson, code) ==
    IF ~isJson THEN "unreadable"
    ELSE IF code \in {"unavailable", "not-enough-money", "version-unsupported",
                      "original-psbt-rejected"} THEN code
    ELSE "unrecognized"

(* V1_UNAVAILABLE_RES_JSON is a raw string with the braces of a format: not *)
(* JSON, for it begins with two of them.                                    *)
Unavailable == ResponseError(FALSE, "unavailable")

Wait(s) ==
    LET proposal == boxV1[uri[s].path[1]] IN
    /\ sstate[s] = "waiting"
    /\ \/ proposal # None /\ ((proposal = s /\ Goes(s, "done")) \/ Goes(s, "refused"))
       \/ Goes(s, Unavailable)
       \/ Goes(s, "unreadable")
    /\ Others /\ UNCHANGED <<mail, uri, opened, sealedAt, inClear>>

(* A sender that is run again, with the request it saved.                   *)
Resume(s) ==
    /\ sstate[s] \notin {"new", "unparsed", "ready", "done"}
    /\ Goes(s, "ready") /\ opened' = [opened EXCEPT ![s] = None]
    /\ Others /\ UNCHANGED <<mail, uri, sealedAt, inClear>>

-----------------------------------------------------------------------------

Tick ==
    /\ now + dirKey < Start + MaxEvents /\ now' = now + 1
    /\ Fixed /\ UNCHANGED <<dirKey, mail, receivers, senders>>

(* init_ohttp makes a new key whenever the directory starts; what it stores *)
(* is redis's to keep.                                                      *)
Restart ==
    /\ now + dirKey < Start + MaxEvents /\ dirKey' = dirKey + 1
    /\ Fixed /\ UNCHANGED <<now, mail, receivers, senders>>

Answer(r) == AnswerV2(r) \/ AnswerV1(r) \/ Refuse(r) \/ Fails(r)

Next ==
    \/ \E r \in Receivers :
          NewSession(r) \/ Ask(r) \/ Poll(r) \/ PollOn(r) \/ Reload(r) \/ Answer(r)
    \/ \E s \in Senders :
          \/ Parse(s) \/ PostV1(s) \/ ExtractV2(s) \/ PostV2(s) \/ Get(s) \/ Wait(s)
          \/ Resume(s)
    \/ Tick \/ Restart

Spec == Init /\ [][Next]_vars

-----------------------------------------------------------------------------

Messages ==
    [kind : {"A"}, to : Receivers, reply : Senders]
    \cup [kind : {"B"}, from : Receivers, to : Senders, of : Senders]
    \cup [kind : {"original"}, of : Senders, size : Nat]
    \cup {ErrorJson}

TypeOK ==
    /\ directory \in Directories /\ idOf \in [Keys -> Ids]
    /\ garbled \subseteq Garbled
    /\ now \in Nat /\ dirKey \in Nat
    /\ box \in [Ids -> Messages \cup {None}] /\ boxV1 \in [Ids -> Senders \cup {None}]
    /\ rstate \in [Receivers -> Stopped \cup {"none", "panicked", "polling", "asking",
                                             "expired"}]
    /\ expiry \in [Receivers -> Nat] /\ ohttp \in [Receivers -> Nat]
    /\ e \in [Receivers -> Senders \cup {None}] /\ got \in [Receivers -> Senders \cup {None}]
    /\ sstate \in [Senders -> {"new", "unparsed", "ready", "posting", "get", "waiting", "done",
                               "rejected", "notFound", "noAnswer", "unopened", "refused",
                               "unreadable", "unavailable"}]
    /\ uri \in [Senders -> Uris \cup {None}]
    /\ opened \in [Senders -> Messages \cup {None}]
    /\ sealedAt \in [Senders -> Nat] /\ inClear \subseteq Senders
    /\ \A r \in Receivers : rstate[r] = "working" => got[r] # None
    /\ \A s \in Senders : sstate[s] \notin {"new", "unparsed"} => uri[s] # None

(* Whoever else's key is hashed to the same mailbox, and however often a    *)
(* receiver polls on or starts over: what a sender opens is by the receiver *)
(* whose URI it used, and for its own Original, or for one that was posted  *)
(* in the clear to the same mailbox: a receiver that polls on keeps the     *)
(* reply key it has, and answers a v1 Original to that.                     *)
OpenedIsMine ==
    \A s \in Senders :
        opened[s] # None =>
            LET of == opened[s].of IN
            /\ opened[s].from = uri[s].rs
            /\ of = s \/ (of \in inClear /\ uri[of].path = uri[s].path)

(* A receiver works on an Original it was sent: an encrypted one of a       *)
(* sender that holds its URI, or one in the clear that was posted to its    *)
(* mailbox, where ids collide by a sender that holds another's.             *)
WorksOnItsOwn ==
    \A r \in Receivers :
        rstate[r] \in {"working", "answered"} =>
            \/ uri[got[r]].rs = r /\ e[r] = got[r]
            \/ got[r] \in inClear /\ uri[got[r]].path = Push(directory.path, idOf[r])

Collides(k) == \E other \in Keys \ {k} : idOf[other] = idOf[k]

(* A v2 sender is turned away only if the directory has restarted since the *)
(* URI was made or its URL leaves no room for a message, and finds nothing  *)
(* where it looks only if the directory is at a path; and what it finds is  *)
(* sealed to it, unless keys collide.  What a receiver may have left in the *)
(* URI is in UriAgrees, why it refuses a proposal in OpenedIsMine.          *)
FailureExplained ==
    \A s \in Senders :
        /\ sstate[s] = "rejected" =>
              \/ uri[s].ohttp # dirKey \/ ~Clean(directory.fragment)
              \/ ~RequestFits(PADDED_MESSAGE_BYTES, directory.framing)
        /\ sstate[s] = "notFound" => directory.path # <<>>
        /\ sstate[s] = "unopened" => Collides(s)

(* What a sender reads from a URI is what the receiver has, but for a       *)
(* directory's URL in which a parameter is twice, or its prefix in another  *)
(* part before it; its expiry comes no later, and by less than a second     *)
(* sooner.                                                                  *)
UriAgrees ==
    \A s \in Senders :
        uri[s] # None /\ Clean(directory.fragment) =>
            LET u == uri[s] IN
            /\ u.ohttp = ohttp[u.rs] /\ ~u.noSubst
            /\ u.path = Push(directory.path, idOf[u.rs])
            /\ u.exp <= expiry[u.rs] /\ expiry[u.rs] < u.exp + TicksPerSecond

(* However late a POST or the answer to a poll arrives, an encrypted        *)
(* Original that a receiver works on was encrypted before its session       *)
(* expired.                                                                 *)
EncryptedInTime ==
    \A r \in Receivers :
        rstate[r] \in {"working", "answered"} /\ e[r] = got[r] /\ Clean(directory.fragment) =>
            sealedAt[got[r]] <= expiry[r]

(* An answer is found: what a receiver has answered to an Original is where *)
(* its sender looks for it, under a key the sender opens it with, or in the *)
(* v1 column of the mailbox its Original was posted to.                     *)
AnswerIsFound ==
    \A r \in Receivers :
        rstate[r] = "answered" =>
            LET s == got[r] IN
            /\ e[r] = s /\ ~Collides(s) =>
                  /\ box[Join(uri[s].path, idOf[s])[1]] = MessageB(r, s, s)
                  /\ OpensB(MessageB(r, s, s), uri[s].rs, s)
            /\ e[r] = None /\ ~Collides(r) => boxV1[uri[s].path[1]] = s
=============================================================================
