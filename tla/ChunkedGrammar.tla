-------------------------- MODULE ChunkedGrammar --------------------------
(***************************************************************************)
(* The chunked coding as a grammar (RFC 9112, section 7.1), with the       *)
(* limits the decoder of proto/http1/decode.rs sets: what a sequence of    *)
(* bytes means when it is read as a whole.  The decoder, which sees one    *)
(* byte at a time, is measured against it.                                 *)
(***************************************************************************)
EXTENDS Http1Decoder, SequencesExt

Verdict(status, data) == [status |-> status, data |-> data]
Bad == Verdict("bad", << >>)

After(s, n) == SubSeq(s, n + 1, Len(s))

(* where the first CR of s is, one past its end when there is none *)
FirstCr(s) == CHOOSE i \in 1 .. (Len(s) + 1) :
                 /\ i = Len(s) + 1 \/ s[i] = CR
                 /\ \A j \in 1 .. (i - 1) : s[j] # CR

(* chunk-size line: digits, blanks, and an extension of at most `room'     *)
(* bytes that has no line feed                                             *)
SizeOf(line) ==
    LET d == CHOOSE i \in 0 .. Len(line) :
                 /\ \A j \in 1 .. i : line[j] \in Digits
                 /\ i = Len(line) \/ line[i + 1] \notin Digits
    IN  [digits |-> d,
         value  |-> FoldLeft(LAMBDA v, b : v * Radix + b, 0, SubSeq(line, 1, d))]

ExtensionOf(line) ==
    LET semis == {i \in 1 .. Len(line) : line[i] = SEMI}
    IN  IF semis = {} THEN 0
        ELSE Len(line) - (CHOOSE i \in semis : \A j \in semis : i <= j)

IsSizeLine(line, room) ==
    LET z == SizeOf(line)
        e == ExtensionOf(line)
        x == IF SEMI \in {line[i] : i \in 1 .. Len(line)} THEN e + 1 ELSE 0
    IN  /\ z.digits > 0 /\ z.value <= MaxSize
        /\ \A i \in (z.digits + 1) .. (Len(line) - x) : line[i] = BLANK
        /\ \A i \in (Len(line) - e + 1) .. Len(line) : line[i] # LF
        /\ e <= room

RECURSIVE Trailers(_, _, _)
Trailers(t, lines, bytes) ==
    LET nl   == FirstCr(t)
        over == (lines > 0 \/ nl > 1) /\ bytes + Len(t) >= TrailerLimit
    IN  IF t = << >> THEN Verdict("more", << >>)
        ELSE IF nl = 1
        THEN CASE Len(t) = 1 -> IF over THEN Bad ELSE Verdict("more", << >>)
               [] Len(t) = 2 -> IF over \/ t[2] # LF THEN Bad
                                ELSE Verdict(IF lines = 0 THEN "end" ELSE "trailers", << >>)
               [] OTHER -> Bad
        ELSE IF nl >= Len(t) THEN IF over THEN Bad ELSE Verdict("more", << >>)
        ELSE IF t[nl + 1] # LF \/ lines >= MaxTrailers \/ bytes + nl + 1 >= TrailerLimit THEN Bad
        ELSE Trailers(After(t, nl + 1), lines + 1, bytes + nl + 1)

RECURSIVE ChunkedBody(_, _)
ChunkedBody(s, room) ==
    LET nl   == FirstCr(s)
        line == SubSeq(s, 1, nl - 1)
        size == SizeOf(line).value
        rest == After(s, nl + 1)
        tail == After(rest, size)
        more == ChunkedBody(After(tail, 2), room - ExtensionOf(line))
    IN  IF s = << >> THEN Verdict("more", << >>)
        ELSE IF ~IsSizeLine(line, room) THEN Bad
        ELSE IF nl >= Len(s) THEN Verdict("more", << >>)
        ELSE IF s[nl + 1] # LF THEN Bad
        ELSE IF size = 0 THEN Trailers(rest, 0, 0)
        ELSE IF tail = << >> THEN Verdict("more", rest)
        ELSE IF tail[1] # CR \/ (Len(tail) > 1 /\ tail[2] # LF) THEN Bad
        ELSE IF Len(tail) = 1 THEN Verdict("more", SubSeq(rest, 1, size))
        ELSE Verdict(more.status, SubSeq(rest, 1, size) \o more.data)
=============================================================================
