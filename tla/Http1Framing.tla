--------------------------- MODULE Http1Framing ---------------------------
(***************************************************************************)
(* Bodies on an HTTP/1 connection, byte by byte.  Either the decoder reads *)
(* a response body from a peer that may send anything and stop anywhere,   *)
(* or it stands in for the recipient of a request and reads what the       *)
(* encoder writes.  In both, the bytes arrive cut at any place.            *)
(***************************************************************************)
EXTENDS Http1Encoder, ChunkedGrammar

CONSTANTS
    MaxWire,        \* bytes a peer sends
    Bursts,         \* what a peer sends at once, besides single bytes
    Chunks,         \* the data frames a request body is made of
    MaxFrames       \* how many of them

VARIABLES
    source,     \* who writes: "peer" or "encoder"
    rule,       \* peer: the framing the response's head calls for
    wire,       \* every byte written so far
    closed,     \* no byte follows
    dec,        \* the decoder
    pos,        \* bytes it has taken
    got,        \* body bytes it has handed out
    result,     \* "more", or how the body ended
    req,        \* encoder: the request head, as set_length left it
    enc,        \* encoder: the Encoder of Writing::Body
    writing,    \* encoder: "Body", "KeepAlive" or "Closed"
    given       \* encoder: the data frames the user's body gave

reading == << dec, pos, got, result >>
sending == << req, enc, writing, given >>
vars    == << source, rule, wire, closed, reading, sending >>

----------------------------------------------------------------------------
(* The framing of a message as its recipient understands it (RFC 9112,     *)
(* section 6.3): what the choices of the code are measured against.        *)

Sized(n) == [coding |-> "length", size |-> n]
InChunks == [coding |-> "chunked", size |-> 0]
ToClose  == [coding |-> "eof", size |-> 0]

ResponseRule(inc) ==
    CASE inc.method = "HEAD" \/ inc.status \in {101, 204, 304} -> Sized(0)
      [] inc.method = "CONNECT" /\ inc.status = 200 -> Sized(0)
      [] inc.method = "GET" /\ inc.status = 200 ->
            IF inc.te = "chunked" THEN InChunks
            ELSE IF inc.te = "none" /\ inc.cl >= 0 THEN Sized(inc.cl)
            ELSE ToClose

RequestRule(r) == IF r.te = "chunked" THEN InChunks
                  ELSE IF r.cl > 0 THEN Sized(r.cl) ELSE Sized(0)

----------------------------------------------------------------------------
NoRequest == [te |-> "none", cl |-> Absent, body |-> NoBody]

ReadFrom(len) ==
    /\ dec = New(len)
    /\ pos = 0 /\ got = << >>
    /\ result = IF is_eof(New(len)) THEN "end" ELSE "more"

(* A response head was parsed and its decoder made (Conn::read_head) *)
ResponseInit ==
    \E inc \in Heads :
        /\ decoder(inc) >= 0
        /\ source = "peer" /\ rule = ResponseRule(inc)
        /\ ReadFrom(decoder(inc))
        /\ req = NoRequest /\ enc = Length(0) /\ writing = "KeepAlive"

(* A request head was written (Conn::write_head) *)
RequestInit ==
    \E r \in Requests :
        LET f == set_length(r)
            u == RequestRule(f)
        IN  /\ f.cl # Invalid
            /\ source = "encoder" /\ rule = u
            /\ ReadFrom(IF u.coding = "chunked" THEN CHUNKED ELSE u.size)
            /\ req = [te |-> f.te, cl |-> f.cl, body |-> r.body]
            /\ enc = f.enc
            /\ writing = IF f.enc = Length(0) THEN "KeepAlive" ELSE "Body"

Init == /\ wire = << >> /\ closed = FALSE /\ given = << >>
        /\ ResponseInit \/ RequestInit

----------------------------------------------------------------------------
Unread == Len(wire) - pos

(* The two writers *)

(* The bytes the decoder's state tells apart: a peer's byte stands for     *)
(* every byte that is treated alike.                                       *)
ToldApart ==
    CASE dec.kind # "chunked" -> {ANY}
      [] dec.state \in {"Start", "Size", "SizeLws"} -> Bytes
      [] dec.state = "Body" -> {CR, ANY}
      [] OTHER -> {CR, LF, ANY}

PeerSends ==
    /\ source = "peer" /\ ~closed
    /\ result = "more" /\ Unread = 0
    /\ \E burst \in Bursts \cup {<< b >> : b \in ToldApart} :
         /\ Len(wire) + Len(burst) <= MaxWire
         /\ wire' = wire \o burst
    /\ UNCHANGED << source, rule, closed, reading, sending >>

PeerCloses ==
    /\ source = "peer" /\ ~closed
    /\ closed' = TRUE
    /\ UNCHANGED << source, rule, wire, reading, sending >>

Write(out, w) == /\ wire' = wire \o out
                 /\ writing' = w
                 /\ UNCHANGED << source, rule, closed, reading, req >>

(* Conn::write_body *)
WriteBody ==
    /\ writing = "Body" /\ Len(given) < MaxFrames
    /\ \E msg \in Chunks :
         LET e == encode(enc, msg)
         IN  /\ enc' = e.enc /\ given' = Append(given, msg)
             /\ Write(e.out, IF e.enc = Length(0) THEN "KeepAlive" ELSE "Body")

(* Conn::write_body_and_end *)
WriteBodyAndEnd ==
    /\ writing = "Body" /\ Len(given) < MaxFrames
    /\ \E msg \in Chunks :
         LET e == encode_and_end(enc, msg)
         IN  /\ given' = Append(given, msg)
             /\ Write(e.out, IF e.ok THEN "KeepAlive" ELSE "Closed")
    /\ UNCHANGED enc

(* Conn::end_body *)
EndBody ==
    /\ writing = "Body"
    /\ Write(end(enc).out, IF end(enc).ok THEN "KeepAlive" ELSE "Closed")
    /\ UNCHANGED << enc, given >>

(* Conn::write_trailers; the dispatcher drops the body with its trailers,  *)
(* and ends the body in its next turn when none of them could be sent      *)
WriteTrailers ==
    /\ writing = "Body"
    /\ \E fields \in SUBSET Fields \ {{}} :
         LET out == encode_trailers(enc, fields)
         IN  IF out # << >> THEN Write(out, "KeepAlive")
             ELSE Write(end(enc).out, IF end(enc).ok THEN "KeepAlive" ELSE "Closed")
    /\ UNCHANGED << enc, given >>

(* The connection of a request that could not be completed is shut down *)
ShutDown ==
    /\ source = "encoder" /\ writing = "Closed" /\ ~closed
    /\ closed' = TRUE
    /\ UNCHANGED << source, rule, wire, reading, sending >>

----------------------------------------------------------------------------
(* Decoder::decode, one step of its loop at a time *)

Take(n) == /\ pos' = pos + n
           /\ UNCHANGED << source, rule, wire, closed, sending >>

Keep(n) == got' = got \o SubSeq(wire, pos + 1, pos + n)

AtMost(n) == IF Unread < n THEN Unread ELSE n

(* decode_trailers: without a trailers_buf the body just ends.  Whether a  *)
(* peer's trailer lines parse is up to httparse; the encoder's own do.     *)
decode_trailers(buf) ==
    CASE buf = << >>                         -> {"end"}
      [] buf # << >> /\ source = "encoder"   -> {"trailers"}
      [] OTHER                               -> {"trailers", "error"}

(* a byte of the chunked coding other than data *)
DecodeStep ==
    /\ dec.kind = "chunked" /\ dec.state # "Body" /\ result = "more"
    /\ Unread > 0
    /\ dec' = Step(dec, wire[pos + 1])
    /\ result' \in CASE dec'.state = "Failed" -> {"error"}
                     [] dec'.state = "End"    -> decode_trailers(dec'.trailers)
                     [] OTHER                 -> {"more"}
    /\ Take(1) /\ UNCHANGED got

(* data of a chunk: what there is of it, up to its end *)
DecodeChunk ==
    /\ dec.kind = "chunked" /\ dec.state = "Body" /\ result = "more"
    /\ Unread > 0
    /\ dec' = ReadBody(dec, AtMost(dec.left))
    /\ Keep(AtMost(dec.left)) /\ Take(AtMost(dec.left)) /\ UNCHANGED result

DecodeSized ==
    /\ dec.kind = "length" /\ result = "more" /\ Unread > 0
    /\ dec' = [dec EXCEPT !.left = @ - AtMost(@)]
    /\ result' = IF dec'.left = 0 THEN "end" ELSE "more"
    /\ Keep(AtMost(dec.left)) /\ Take(AtMost(dec.left))

DecodeToClose ==
    /\ dec.kind = "eof" /\ result = "more" /\ Unread > 0
    /\ Keep(Unread) /\ Take(Unread) /\ UNCHANGED << dec, result >>

(* the stream ended: an error, unless the body lasts until then *)
DecodeEof ==
    /\ result = "more" /\ Unread = 0 /\ closed
    /\ result' = IF dec.kind = "eof" THEN "end" ELSE "error"
    /\ Take(0) /\ UNCHANGED << dec, got >>

Decode == DecodeStep \/ DecodeChunk \/ DecodeSized \/ DecodeToClose \/ DecodeEof

(* A user who announces a length and gives an empty body is taken at their *)
(* word by set_length: the recipient then waits for a body that is not     *)
(* sent.                                                                   *)
Overpromised == source = "encoder" /\ req.body = NoBody /\ req.cl > 0

(* The body was read, or failed, and nothing more is written *)
Terminated ==
    /\ result # "more" \/ Overpromised
    /\ writing # "Body" /\ (closed \/ (source = "encoder" /\ writing = "KeepAlive"))
    /\ UNCHANGED vars

Next == \/ PeerSends \/ PeerCloses
        \/ WriteBody \/ WriteBodyAndEnd \/ EndBody \/ WriteTrailers \/ ShutDown
        \/ Decode \/ Terminated

Spec == Init /\ [][Next]_vars

----------------------------------------------------------------------------
(* What the bytes taken so far mean, read as a whole *)
Meaning(s) ==
    CASE rule.coding = "chunked" -> ChunkedBody(s, ExtLimit - 1)
      [] rule.coding = "length"  ->
            Verdict(IF Len(s) < rule.size THEN "more"
                    ELSE IF Len(s) = rule.size THEN "end" ELSE "bad", s)
      [] rule.coding = "eof" -> Verdict(IF result = "end" THEN "end" ELSE "more", s)

(* Decoder::decode reads a response body byte by byte, wherever the input  *)
(* is cut, and agrees at every moment with the grammar read as a whole:    *)
(* the data handed out is the data sent, the end is found exactly where it *)
(* is, with no byte of what follows taken, malformed or over-long input is *)
(* an error, and a stream that ends too early is never a clean end.        *)
DecodesWhatWasSent ==
    source = "peer" =>
        LET m == Meaning(SubSeq(wire, 1, pos))
        IN  CASE result = "error" ->
                    \/ m.status \in {"bad", "trailers"}
                    \/ m.status = "more" /\ closed /\ Unread = 0
              [] result = "end" /\ rule.coding = "eof" -> closed /\ Unread = 0 /\ got = m.data
              [] OTHER -> m = Verdict(result, got)

(* A request as its recipient sees it.  When the encoder is done and the   *)
(* connection may be used again, the recipient has read exactly one whole  *)
(* message: all the data the user's body gave when it is chunked, as much  *)
(* of it as was announced when it is sized, and no byte is left over for   *)
(* the next request.  When the encoder gives up, the recipient is left     *)
(* without an end.  (Overpromised requests are left out.)                  *)
RequestIsUnderstood ==
    (source = "encoder" /\ ~Overpromised) =>
        /\ IsPrefix(got, FlattenSeq(given))
        /\ writing = "KeepAlive" /\ (Unread = 0 \/ result # "more") =>
              /\ result \in {"end", "trailers"} /\ Unread = 0
              /\ rule.coding = "chunked" => got = FlattenSeq(given)
        /\ result \in {"end", "trailers"} => writing = "KeepAlive"

(* Either end reads from the wire the body that the other wrote on it.     *)
BodiesAreUnderstood == DecodesWhatWasSent /\ RequestIsUnderstood
=============================================================================
