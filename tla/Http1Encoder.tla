--------------------------- MODULE Http1Encoder ---------------------------
(***************************************************************************)
(* How a request announces and frames its body: Client::set_length in      *)
(* proto/http1/role.rs and the encoder of proto/http1/encode.rs.           *)
(***************************************************************************)
EXTENDS Http1Decoder

NoBody  == -1       \* the body was at its end when the head was written
Unknown == -2       \* BodyLength::Unknown

(* What set_length looks at: the method (GET stands for GET, HEAD and      *)
(* CONNECT), the version, the framing headers the user set, whether a      *)
(* Trailer header names a field, and what the body says of its length.     *)
Requests == [method  : {"GET", "POST"}, version : {"1.0", "1.1"},
             te      : {"none", "chunked", "other"},
             cl      : {Absent, Invalid} \cup (0 .. 2),
             trailer : BOOLEAN,
             body    : {NoBody, Unknown} \cup (0 .. 2)]

Length(n)       == [kind |-> "length", left |-> n, trailers |-> FALSE]
Chunked(fields) == [kind |-> "chunked", left |-> 0, trailers |-> fields]

Framed(te, cl, enc) == [te |-> te, cl |-> cl, enc |-> enc]

(* Client::set_length: the headers that go out, and the encoder.  A user's *)
(* Transfer-Encoding is made to end in chunked by add_chunked.             *)
set_length(r) ==
    LET known == r.body >= 0
    IN  CASE r.body = NoBody -> Framed("none", r.cl, Length(0))
          [] r.body # NoBody /\ r.version = "1.0" ->
                IF r.cl >= 0 THEN Framed("none", r.cl, Length(r.cl))
                ELSE IF known THEN Framed("none", r.body, Length(r.body))
                ELSE Framed("none", r.cl, Length(0))
          [] r.body # NoBody /\ r.version = "1.1" /\ r.te # "none" ->
                Framed("chunked", Absent, Chunked(r.trailer))
          [] r.body # NoBody /\ r.version = "1.1" /\ r.te = "none" ->
                IF r.cl >= 0 THEN Framed("none", r.cl, Length(r.cl))
                ELSE IF known THEN Framed("none", r.body, Length(r.body))
                ELSE IF r.method = "GET" THEN Framed("none", r.cl, Length(0))
                ELSE Framed("chunked", Absent, Chunked(r.trailer))

----------------------------------------------------------------------------
CRLF == << CR, LF >>

Hex[n \in 0 .. MaxSize] ==
    IF n < Radix THEN << n >> ELSE Append(Hex[n \div Radix], n % Radix)

(* ChunkSize::new *)
ChunkSize(n) == Hex[n] \o CRLF

LastChunk == ChunkSize(0) \o CRLF

Taken(msg, n) == SubSeq(msg, 1, IF Len(msg) < n THEN Len(msg) ELSE n)

(* Encoder::encode: the bytes, and the encoder after them *)
encode(enc, msg) ==
    IF enc.kind = "chunked"
    THEN [out |-> ChunkSize(Len(msg)) \o msg \o CRLF, enc |-> enc]
    ELSE [out |-> Taken(msg, enc.left), enc |-> [enc EXCEPT !.left = @ - Len(Taken(msg, @))]]

(* Encoder::encode_and_end: the bytes, and whether the connection lives on *)
EncodeAndEndSlip(enc, msg) ==
    [out |-> IF enc.kind = "chunked" THEN ChunkSize(Len(msg)) \o msg \o CRLF \o LastChunk
             ELSE Taken(msg, enc.left),
     ok  |-> TRUE]

encode_and_end(enc, msg) ==
    [out |-> IF enc.kind = "chunked" THEN ChunkSize(Len(msg)) \o msg \o CRLF \o LastChunk
             ELSE Taken(msg, enc.left),
     ok  |-> enc.kind = "chunked" \/ Len(msg) >= enc.left]

(* A trailer field a user may give: one the Trailer header names, one it   *)
(* names but is_valid_trailer_field forbids, and one it does not name.     *)
Fields == {"named", "forbidden", "unnamed"}

(* write_headers of one field: its name and value, and a line end *)
FieldLine == << ANY >> \o CRLF

(* Encoder::encode_trailers: << >> stands for None *)
encode_trailers(enc, fields) ==
    IF enc.kind = "chunked" /\ enc.trailers /\ "named" \in fields
    THEN ChunkSize(0) \o FieldLine \o CRLF
    ELSE << >>

(* Encoder::end *)
end(enc) == [out |-> IF enc.kind = "chunked" THEN LastChunk ELSE << >>,
             ok  |-> enc.kind = "chunked" \/ enc.left = 0]
=============================================================================
