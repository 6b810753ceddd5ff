-------------------------------- MODULE Wire --------------------------------
(***************************************************************************)
(* What goes over the wire between v2 clients and the directory: HPKE      *)
(* messages of one size, in OHTTP requests and responses of one size.      *)
(* Ideal cryptography: a message opens under the keys it was sealed for,   *)
(* and no other.                                                           *)
(***************************************************************************)
EXTENDS Integers

CONSTANT
    ResponseFraming    \* the bytes a binary HTTP response adds to its body

ELLSWIFT_ENCODING_SIZE == 64
PUBLIC_KEY_SIZE == 33
UNCOMPRESSED_PUBLIC_KEY_SIZE == 65
POLY1305_TAG_SIZE == 16

PADDED_MESSAGE_BYTES == 7168
PADDED_PLAINTEXT_A_LENGTH ==
    PADDED_MESSAGE_BYTES - (ELLSWIFT_ENCODING_SIZE + PUBLIC_KEY_SIZE + POLY1305_TAG_SIZE)
PADDED_PLAINTEXT_B_LENGTH ==
    PADDED_MESSAGE_BYTES - (ELLSWIFT_ENCODING_SIZE + POLY1305_TAG_SIZE)

ENCAPSULATED_MESSAGE_BYTES == 8192
PADDED_BHTTP_REQ_BYTES ==
    ENCAPSULATED_MESSAGE_BYTES - (UNCOMPRESSED_PUBLIC_KEY_SIZE + POLY1305_TAG_SIZE + 7)
BHTTP_REQ_BYTES == ENCAPSULATED_MESSAGE_BYTES - (32 + POLY1305_TAG_SIZE)

(* A response has room for a message.  A request's framing holds a URL,     *)
(* which may leave none.                                                    *)
ASSUME WireAssumption ==
    /\ ResponseFraming \in Nat
    /\ PADDED_MESSAGE_BYTES + ResponseFraming <= BHTTP_REQ_BYTES

Base64Length(n) == 4 * ((n + 2) \div 3)

(* pad_plaintext: what does not fit is refused.                             *)
Pads(length, padded) == length <= padded

(* encrypt_message_a: sealed to the receiver, with the sender's reply key.  *)
MessageA(receiver, reply) == [kind |-> "A", to |-> receiver, reply |-> reply]

(* Mutant: a message A opens under any receiver's key. *)
OpensAnyA(m, receiver) == m.kind = "A"

OpensA(m, receiver) == m.kind = "A" /\ m.to = receiver

(* encrypt_message_b: sealed to the reply key, authenticated by the         *)
(* receiver's own; here with whose Original the proposal is for.            *)
MessageB(receiver, reply, of) ==
    [kind |-> "B", from |-> receiver, to |-> reply, of |-> of]
OpensB(m, receiver, reply) == m.kind = "B" /\ m.from = receiver /\ m.to = reply

(* A v1 Original as the directory stores it, and a receiver's error.        *)
Plaintext(of, size) == [kind |-> "original", of |-> of, size |-> size]
ErrorJson == [kind |-> "error"]

Utf8(m) == m.kind \in {"original", "error"}

(* An error takes no room to speak of.                                      *)
LengthOf(m) ==
    CASE m.kind = "original" -> m.size
      [] m.kind = "error" -> 0
      [] OTHER -> PADDED_MESSAGE_BYTES

(* ohttp_encapsulate cuts what does not fit, and the gateway cannot parse   *)
(* what was cut; the gateway cuts what does not fit a response, and the     *)
(* client cannot parse that.                                                *)
RequestFits(length, framing) == length + framing <= PADDED_BHTTP_REQ_BYTES
ResponseFits(length) == length + ResponseFraming <= BHTTP_REQ_BYTES
=============================================================================
