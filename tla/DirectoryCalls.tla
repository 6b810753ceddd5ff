--------------------------- MODULE DirectoryCalls ---------------------------
(***************************************************************************)
(* The requests the payjoin directory serves, and what each of them does   *)
(* to the store: shared by the specification of what the directory         *)
(* promises (Mailbox) and by the one of how it is built (Directory).       *)
(***************************************************************************)

CONSTANTS
    Tasks,        \* one per request being served (a tokio task)
    Ids,          \* the subdirectory ids that parse as a ShortId
    BadId,        \* a path segment that does not
    Bodies,       \* the request bodies clients send
    NoBody,       \* the empty body
    HugeBodies,   \* those longer than V1_MAX_BUFFER_SIZE
    Undecodable   \* a body that cannot be decapsulated, parsed or read

ASSUME CallsAssumption ==
    /\ BadId \notin Ids
    /\ HugeBodies \subseteq Bodies \ {NoBody}
    /\ Undecodable \notin Bodies \cup {NoBody}

-----------------------------------------------------------------------------

(* POST, PUT and GET on a subdirectory come through the OHTTP gateway; a v1 *)
(* sender POSTs its Original PSBT to the subdirectory in the clear.         *)
Pushes == {"post", "put", "fallback"}
Peeks  == {"get", "fallback"}

Calls == [kind : Pushes, id : Ids \cup {BadId}, body : Bodies \cup {Undecodable}]
         \cup [kind : {"get"}, id : Ids \cup {BadId}, body : {NoBody, Undecodable}]

NoCall == [kind |-> "none", id |-> BadId, body |-> NoBody]

(* The store maps a channel, a subdirectory id and a column, to a message.  *)
Columns  == {"default", "pjv1"}
Channels == Ids \X Columns

(* A v1 body is stored with the query string on a line of its own, so it is *)
(* never empty; an empty v2 body reads back as no message at all.           *)
Empty    == [from |-> "nobody", body |-> NoBody]
Messages == [from : {"v1", "v2"}, body : Bodies \cup {NoBody}]
Stored(c) ==
    IF c.kind # "fallback" /\ c.body = NoBody
    THEN Empty
    ELSE [from |-> IF c.kind = "fallback" THEN "v1" ELSE "v2", body |-> c.body]

PushChannel(c) == <<c.id, IF c.kind = "put" THEN "pjv1" ELSE "default">>
PeekChannel(c) == <<c.id, IF c.kind = "fallback" THEN "pjv1" ELSE "default">>

(* The early returns of the handlers, before anything is stored or read.    *)
TooLarge(c)  == c.kind \in {"post", "put"} /\ c.body \in HugeBodies
Malformed(c) == c.body = Undecodable \/ c.id = BadId
Accepted(c)  == ~Malformed(c) /\ ~TooLarge(c)
RejectStatus(c) == IF Malformed(c) THEN "BAD_REQUEST" ELSE "TOO_LARGE"

TimeoutStatus(c) == IF c.kind = "fallback" THEN "UNAVAILABLE" ELSE "ACCEPTED"

Statuses == {"NONE", "OK", "ACCEPTED", "UNAVAILABLE", "BAD_REQUEST", "TOO_LARGE",
             "INTERNAL"}
=============================================================================
