--------------------------- MODULE Http1Decoder ---------------------------
(***************************************************************************)
(* Where an HTTP/1 message body ends: the choice of a framing for a        *)
(* response (Client::decoder in proto/http1/role.rs, DecodedLength in      *)
(* body/length.rs) and the decoder that takes the body off the connection  *)
(* (proto/http1/decode.rs).                                                *)
(*                                                                         *)
(* A byte is the class the decoder tells apart: a digit of a chunk size, a *)
(* blank, a semicolon, CR, LF, or any other byte.  Radix is 16 and MaxSize *)
(* 2^64 - 1 in the code; they are constants so that a chunk size of        *)
(* several digits, and one that overflows, fit in a short input.           *)
(***************************************************************************)
EXTENDS Integers, Sequences, FiniteSets

CONSTANTS
    Radix,          \* 16: the radix of a chunk size
    MaxSize,        \* the largest u64
    ExtLimit,       \* CHUNKED_EXTENSIONS_LIMIT
    TrailerLimit,   \* h1_max_header_size: bytes of trailers
    MaxTrailers     \* h1_max_headers: lines of trailers

ASSUME DecoderAssumption ==
    /\ Radix \in Nat \ {0, 1} /\ MaxSize \in Nat \ {0, 1}
    /\ ExtLimit \in Nat \ {0} /\ TrailerLimit \in Nat \ {0, 1}
    /\ MaxTrailers \in Nat

Digits == 0 .. (Radix - 1)
BLANK  == Radix
SEMI   == Radix + 1
CR     == Radix + 2
LF     == Radix + 3
ANY    == Radix + 4
Bytes  == 0 .. ANY

----------------------------------------------------------------------------
(* DecodedLength: u64::MAX stands for close-delimited and one less for     *)
(* chunked; the largest length a message may announce is below both.       *)

CLOSE_DELIMITED == MaxSize
CHUNKED         == MaxSize - 1
MAX_LEN         == MaxSize - 2

Absent  == -1       \* no Content-Length header
Invalid == -2       \* Content-Length headers that do not agree on one number
Skipped == -3       \* an informational head: Client::parse reads the next
Refused == -4       \* a Parse error

checked_new(len) == IF len <= MAX_LEN THEN len ELSE Refused

(* A response head is what the choice depends on: the status, the method   *)
(* of the request, the version and the two framing headers.                *)
Heads == [status  : {100, 101, 200, 204, 304},
          method  : {"GET", "HEAD", "CONNECT"},
          version : {"1.0", "1.1"},
          te      : {"none", "chunked", "other"},
          cl      : {Absent, Invalid} \cup (0 .. MaxSize)]

(* Client::decoder *)
decoder(inc) ==
    LET ok       == inc.status \in 200 .. 299
        bodiless == \/ inc.status \in {101, 204, 304}
                    \/ ok /\ inc.method = "CONNECT"
                    \/ inc.method = "HEAD"
    IN  IF inc.status = 100 THEN Skipped
        ELSE IF bodiless THEN 0
        ELSE IF inc.te # "none"
             THEN IF inc.version = "1.0" THEN Refused
                  ELSE IF inc.te = "chunked" THEN CHUNKED ELSE CLOSE_DELIMITED
        ELSE IF inc.cl = Absent THEN CLOSE_DELIMITED
        ELSE IF inc.cl = Invalid THEN Refused
        ELSE checked_new(inc.cl)

----------------------------------------------------------------------------
(* The decoder.  `left' is what remains of a sized body or of the chunk    *)
(* being read, `trailers' the bytes of trailers_buf.                       *)

(* Decoder::new *)
New(len) ==
    [kind |-> CASE len = CHUNKED         -> "chunked"
                [] len = CLOSE_DELIMITED -> "eof"
                [] OTHER                 -> "length",
     state |-> "Start",
     left |-> IF len \in {CHUNKED, CLOSE_DELIMITED} THEN 0 ELSE len,
     extensions_cnt |-> 0, trailers |-> << >>, trailers_cnt |-> 0]

Goto(d, s) == [d EXCEPT !.state = s]
Fail(d)    == Goto(d, "Failed")

(* size * 16 + digit, an error when either overflows *)
AddDigitSlip(d, b) == Goto([d EXCEPT !.left = (@ * Radix + b) % (MaxSize + 1)], "Size")

AddDigit(d, b) ==
    LET size == d.left * Radix + b
    IN  IF size > MaxSize THEN Fail(d) ELSE Goto([d EXCEPT !.left = size], "Size")

ReadStart(d, b) == IF b \in Digits THEN AddDigit(d, b) ELSE Fail(d)

(* what may follow the digits of a size *)
AfterSize(d, b) ==
    CASE b = BLANK -> Goto(d, "SizeLws")
      [] b = SEMI  -> Goto(d, "Extension")
      [] b = CR    -> Goto(d, "SizeLf")
      [] OTHER     -> Fail(d)

ReadSize(d, b)    == IF b \in Digits THEN AddDigit(d, b) ELSE AfterSize(d, b)

ReadSizeLws(d, b) == AfterSize(d, b)

ReadExtension(d, b) ==
    CASE b = CR -> Goto(d, "SizeLf")
      [] b = LF -> Fail(d)
      [] OTHER  -> IF d.extensions_cnt + 1 >= ExtLimit
                   THEN Fail([d EXCEPT !.extensions_cnt = @ + 1])
                   ELSE [d EXCEPT !.extensions_cnt = @ + 1]

Expect(d, b, wanted, s) == IF b = wanted THEN Goto(d, s) ELSE Fail(d)

ReadSizeLf(d, b) == Expect(d, b, LF, IF d.left = 0 THEN "EndCr" ELSE "Body")
ReadBodyCr(d, b) == Expect(d, b, CR, "BodyLf")
ReadBodyLf(d, b) == Expect(d, b, LF, "Start")

(* put_u8!: the byte is kept, and is an error when the buffer is then full *)
Put(d, b, s) ==
    LET kept == [d EXCEPT !.trailers = Append(@, b)]
    IN  IF Len(kept.trailers) >= TrailerLimit THEN Fail(kept) ELSE Goto(kept, s)

ReadTrailer(d, b) == Put(d, b, IF b = CR THEN "TrailerLf" ELSE "Trailer")

ReadTrailerLf(d, b) ==
    IF b # LF \/ d.trailers_cnt >= MaxTrailers THEN Fail(d)
    ELSE Put([d EXCEPT !.trailers_cnt = @ + 1], b, "EndCr")

(* the first byte of a trailer is kept whatever the limit, and the last    *)
(* line end only when there are trailers                                   *)
ReadEndCr(d, b) ==
    CASE d.trailers = << >> /\ b = CR -> Goto(d, "EndLf")
      [] d.trailers = << >> /\ b # CR -> Goto([d EXCEPT !.trailers = << b >>], "Trailer")
      [] OTHER -> Put(d, b, IF b = CR THEN "EndLf" ELSE "Trailer")

ReadEndLf(d, b) ==
    IF b # LF THEN Fail(d)
    ELSE IF d.trailers = << >> THEN Goto(d, "End") ELSE Put(d, b, "End")

(* ChunkedState::step, for the states that take one byte *)
Step(d, b) ==
    CASE d.state = "Start"     -> ReadStart(d, b)
      [] d.state = "Size"      -> ReadSize(d, b)
      [] d.state = "SizeLws"   -> ReadSizeLws(d, b)
      [] d.state = "Extension" -> ReadExtension(d, b)
      [] d.state = "SizeLf"    -> ReadSizeLf(d, b)
      [] d.state = "BodyCr"    -> ReadBodyCr(d, b)
      [] d.state = "BodyLf"    -> ReadBodyLf(d, b)
      [] d.state = "Trailer"   -> ReadTrailer(d, b)
      [] d.state = "TrailerLf" -> ReadTrailerLf(d, b)
      [] d.state = "EndCr"     -> ReadEndCr(d, b)
      [] d.state = "EndLf"     -> ReadEndLf(d, b)

(* read_body, and the subtraction of a sized body: n bytes were read *)
ReadBody(d, n) ==
    Goto([d EXCEPT !.left = @ - n], IF d.left > n THEN "Body" ELSE "BodyCr")

(* Decoder::is_eof, for a decoder that has not met the end of the stream *)
is_eof(d) == \/ d.kind = "length" /\ d.left = 0
             \/ d.kind = "chunked" /\ d.state = "End"
=============================================================================
