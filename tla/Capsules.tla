------------------------------ MODULE Capsules ------------------------------
(***************************************************************************)
(* DATAGRAM capsules (proxy/masque/capsule.rs) and the UDP payloads in     *)
(* them (udp_payload of proxy/masque/tunnel.rs), byte by byte: the decoder *)
(* reads what a peer sends, which may be anything and arrives cut at any   *)
(* place, or what the encoder writes.                                      *)
(*                                                                         *)
(* Sizes are scaled down.  A byte holds Tags * Low values: its tag says    *)
(* that the integer it begins is 2^tag bytes long, and the rest is the     *)
(* integer's highest digit (Tags = 4 and Low = 64 in the code).            *)
(*                                                                         *)
(* Definitions that CapsulesNext does not use are slips that the property  *)
(* must notice; each stands before the definition it is a slip of.         *)
(***************************************************************************)
EXTENDS Integers, SequencesExt

CONSTANTS
    Tags, Low,          \* how an integer is encoded
    MAX_UDP_PAYLOAD,
    MaxStream,          \* bytes a peer sends
    MaxGiven            \* payloads the encoder is fed

ASSUME CapsuleSizes ==
    /\ Tags \in Nat \ {0} /\ Low \in Nat \ {0}
    /\ MAX_UDP_PAYLOAD \in Nat /\ MaxStream \in Nat /\ MaxGiven \in Nat

VARIABLES
    stream,     \* every byte sent
    ended,      \* the peer has ended the stream
    fed,        \* the payloads the encoder was fed, or Anything
    buf,        \* the bytes read and not taken yet
    unread,     \* the bytes sent and not read yet
    skip,       \* Decoder::skip
    payloads,   \* the UDP payloads handed out
    verdict     \* "open", "closed" or "malformed"

capsuleVars == <<stream, ended, fed, buf, unread, skip, payloads, verdict>>

Byte == 0 .. Tags * Low - 1
LongestInteger == 2 ^ (Tags - 1)
MAX_DATAGRAM == LongestInteger + MAX_UDP_PAYLOAD
DATAGRAM == 0
Anything == <<<<-1>>>>

----------------------------------------------------------------------------
(* put_varint: the shortest of the encodings *)

Encodings(value) == {tag \in 0 .. Tags - 1 : value < Low * (Tags * Low) ^ (2 ^ tag - 1)}

(* The digits of value, the tag added to the first of them *)
put_varint(value) ==
    LET tag == Min(Encodings(value))
        len == 2 ^ tag
        digit(i) == (value \div (Tags * Low) ^ (len - i)) % (Tags * Low)
    IN  [i \in 1 .. len |-> IF i = 1 THEN tag * Low + digit(1) ELSE digit(i)]

encode_datagram(payload) ==
    put_varint(DATAGRAM) \o put_varint(Len(payload) + 1) \o <<0>> \o payload

(* varint: the value and its encoded length, or a length of 0 *)
None == [value |-> 0, len |-> 0]

varint(bytes) ==
    IF bytes = << >> THEN None ELSE
    LET len == 2 ^ (Head(bytes) \div Low)
        fold[i \in 1 .. len] ==
            IF i = 1 THEN Head(bytes) % Low ELSE fold[i - 1] * Tags * Low + bytes[i]
    IN  IF Len(bytes) < len THEN None ELSE [value |-> fold[len], len |-> len]

From(bytes, n) == SubSeq(bytes, n + 1, Len(bytes))

----------------------------------------------------------------------------
(* Decoder::decode: what it returns, and the skip and the bytes it leaves *)

Decoded(got, left, rest) == [got |-> got, skip |-> left, rest |-> rest]
NeedsMore == [kind |-> "more"]
Malformed == [kind |-> "malformed"]
Value(bytes) == [kind |-> "datagram", bytes |-> bytes]

(* An oversized capsule skipped before its Context ID is looked at *)
OversizedSkipped(inside) == "skip"

(* An oversized capsule is malformed under Context ID 0 *)
Oversized(inside) ==
    LET context == varint(inside)
    IN  IF context.len = 0 THEN "more" ELSE IF context.value = 0 THEN "malformed" ELSE "skip"

RECURSIVE decode(_, _)
decode(left, bytes) ==
    LET n == Min({left, Len(bytes)})
        rest == From(bytes, n)
        kind == varint(rest)
        len == varint(From(rest, kind.len))
        header == kind.len + len.len
        fits == len.value <= MAX_DATAGRAM
        skips == decode(len.value, From(rest, header))
    IN  CASE n < left \/ kind.len = 0 \/ len.len = 0 -> Decoded(NeedsMore, left - n, rest)
          [] kind.value # DATAGRAM -> skips
          [] fits /\ Len(rest) < header + len.value -> Decoded(NeedsMore, 0, rest)
          [] fits -> Decoded(Value(SubSeq(rest, header + 1, header + len.value)), 0,
                             From(rest, header + len.value))
          [] OTHER -> CASE Oversized(From(rest, header)) = "more" -> Decoded(NeedsMore, 0, rest)
                        [] Oversized(From(rest, header)) = "malformed" -> Decoded(Malformed, 0, rest)
                        [] OTHER -> skips

(* Whether the stream stopped inside a capsule *)
IgnoresSkip(left, bytes) == bytes # << >>

is_partial(left, bytes) == left > 0 \/ bytes # << >>

(* udp_payload: the payload under Context ID 0 as a sequence of one, or none *)
udp_payload(datagram) ==
    LET context == varint(datagram)
        payload == From(datagram, context.len)
    IN  IF context.len = 0 \/ context.value # 0 THEN [kind |-> "dropped"]
        ELSE IF Len(payload) > MAX_UDP_PAYLOAD THEN Malformed
        ELSE Value(payload)

----------------------------------------------------------------------------
NoCapsules ==
    /\ stream = << >> /\ ended = FALSE /\ fed = Anything /\ buf = << >> /\ unread = << >>
    /\ skip = 0 /\ payloads = << >> /\ verdict = "none"

CapsulesInit ==
    /\ stream = << >> /\ ended = FALSE /\ fed \in {Anything, << >>}
    /\ buf = << >> /\ unread = << >> /\ skip = 0 /\ payloads = << >> /\ verdict = "open"

Sends(bytes) ==
    /\ stream' = stream \o bytes /\ unread' = unread \o bytes
    /\ UNCHANGED <<ended, buf, skip, payloads, verdict>>

(* A peer sends a byte, any byte *)
PeerSendsByte ==
    /\ verdict = "open" /\ ~ended /\ fed = Anything /\ Len(stream) < MaxStream
    /\ \E b \in Byte : Sends(<<b>>)
    /\ UNCHANGED fed

(* Or the encoder's capsule is sent, for a payload of a length that counts *)
EncoderSends ==
    /\ verdict = "open" /\ ~ended /\ fed # Anything /\ Len(fed) < MaxGiven
    /\ \E n \in 0 .. MAX_UDP_PAYLOAD : \E b \in {0, Low} :
         LET payload == [i \in 1 .. n |-> b]
         IN  Sends(encode_datagram(payload)) /\ fed' = Append(fed, payload)

StreamEnds ==
    /\ verdict = "open" /\ ~ended
    /\ ended' = TRUE
    /\ UNCHANGED <<stream, fed, buf, unread, skip, payloads, verdict>>

(* poll_payload: it decodes what it holds, hands out a payload, and reads  *)
(* when it needs more, at least a byte.                                    *)
Decoding == decode(skip, buf)

PollPayload ==
    /\ verdict = "open" /\ Decoding.got # NeedsMore
    /\ skip' = Decoding.skip /\ buf' = Decoding.rest
    /\ LET payload == IF Decoding.got = Malformed THEN Malformed
                      ELSE udp_payload(Decoding.got.bytes)
       IN  /\ verdict' = IF payload = Malformed THEN "malformed" ELSE "open"
           /\ payloads' = IF payload.kind = "datagram" THEN Append(payloads, payload.bytes)
                          ELSE payloads
    /\ UNCHANGED <<stream, ended, fed, unread>>

ReadMore ==
    /\ verdict = "open" /\ Decoding.got = NeedsMore /\ unread # << >>
    /\ \E n \in {1, Len(unread)} :
         /\ buf' = Decoding.rest \o SubSeq(unread, 1, n)
         /\ unread' = From(unread, n)
    /\ skip' = Decoding.skip
    /\ UNCHANGED <<stream, ended, fed, payloads, verdict>>

ReadEnd ==
    /\ verdict = "open" /\ Decoding.got = NeedsMore /\ unread = << >> /\ ended
    /\ skip' = Decoding.skip /\ buf' = Decoding.rest
    /\ verdict' = IF is_partial(skip', buf') THEN "malformed" ELSE "closed"
    /\ UNCHANGED <<stream, ended, fed, unread, payloads>>

CapsulesOver == verdict \in {"closed", "malformed"} /\ UNCHANGED capsuleVars

CapsulesNext ==
    \/ PeerSendsByte \/ EncoderSends \/ StreamEnds
    \/ PollPayload \/ ReadMore \/ ReadEnd \/ CapsulesOver

----------------------------------------------------------------------------
(* What a stream of capsules means (RFC 9297, section 3.2; RFC 9298,       *)
(* section 5), read as a whole: the payloads of the capsules that are      *)
(* there, and whether what follows them is nothing, a part of a capsule or *)
(* a payload that is too large.                                            *)

RECURSIVE StreamMeaning(_)
StreamMeaning(bytes) ==
    LET kind == varint(bytes)
        len == varint(From(bytes, kind.len))
        inside == From(bytes, kind.len + len.len)
        value == SubSeq(inside, 1, Min({len.value, Len(inside)}))
        context == varint(value)
        payload == From(value, context.len)
        carries == kind.value = 0 /\ context.len > 0 /\ context.value = 0
        later == StreamMeaning(From(inside, len.value))
    IN  CASE bytes = << >> -> [payloads |-> << >>, rest |-> "nothing"]
          [] kind.len = 0 \/ len.len = 0 -> [payloads |-> << >>, rest |-> "part"]
          [] carries /\ len.value - context.len > MAX_UDP_PAYLOAD ->
                [payloads |-> << >>, rest |-> IF Len(value) < len.value THEN "large part" ELSE "large"]
          [] Len(value) < len.value -> [payloads |-> << >>, rest |-> "part"]
          [] OTHER -> [later EXCEPT !.payloads = IF carries THEN <<payload>> \o @ ELSE @]

(* However the stream is cut, the payloads handed out are the ones in it,  *)
(* in order; capsules of other types and contexts, of any length, are      *)
(* passed over without being held; only a payload that is too large or an  *)
(* end inside a capsule is malformed, and neither passes for a clean end.  *)
(* What the encoder writes means what it was fed.                          *)
CapsulesAreRead ==
    verdict # "none" =>
    LET meaning == StreamMeaning(stream)
    IN  /\ IsPrefix(payloads, meaning.payloads)
        /\ verdict = "malformed" => \/ meaning.rest \in {"large", "large part"}
                                    \/ ended /\ meaning.rest = "part"
        /\ verdict = "closed" => meaning.rest = "nothing"
        /\ (verdict = "open" /\ unread = << >> /\ Decoding.got = NeedsMore) =>
             payloads = meaning.payloads /\ meaning.rest # "large"
        /\ Decoding.got = NeedsMore => Len(Decoding.rest) < 2 * LongestInteger + MAX_DATAGRAM
        /\ fed # Anything => meaning.payloads = fed /\ meaning.rest = "nothing"
=============================================================================
