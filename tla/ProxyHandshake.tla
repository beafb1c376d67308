--------------------------- MODULE ProxyHandshake ---------------------------
(***************************************************************************)
(* The handshakes that turn a connection to a proxy into a tunnel: HTTP    *)
(* CONNECT (proxy/tunnel.rs), SOCKS CONNECT (proxy/socks.rs, whose         *)
(* messages are tokio-socks', external) and SOCKS5 UDP ASSOCIATE           *)
(* (proxy/socks/udp.rs).  Each sends requests and reads answers from a     *)
(* stream that returns as few bytes as it likes, and must neither read     *)
(* past the answer nor wait for an answer to a request it still holds.     *)
(*                                                                         *)
(* The heads of a CONNECT's answers are bytes: what matters is where they  *)
(* end.  The first byte of a head stands for its version and status.  A    *)
(* SOCKS answer is its fields; what is read of it is counted.              *)
(*                                                                         *)
(* Definitions that Next does not use are slips that the properties must   *)
(* notice; each stands before the definition it is a slip of.              *)
(***************************************************************************)
EXTENDS Integers, SequencesExt

CONSTANTS
    MAX_RESPONSE_HEAD,  \* bytes of all the heads of an answer to CONNECT
    Answers,            \* to CONNECT: the bytes, where the last head ends, its status
    Targets,            \* of a SOCKS CONNECT: what check and resolve tell apart
    Replies             \* to UDP ASSOCIATE: whether there are credentials, and three messages

VARIABLES
    handshake,  \* "connect", "socks", "associate", or "none"
    stage,      \* what it is doing, or how it ended
    unflushed,  \* the stream holds a request that was written
    answer,     \* what it was asked for, and what the proxy answers
    taken,      \* bytes of the answer that were read
    start,      \* connect: where the head begins that is being read
    part,       \* associate: the part of the answer that is read next
    need,       \* associate: how much of that part is still to be read
    joined      \* socks: what try_join waits for no more, and the target

hsVars == <<handshake, stage, unflushed, answer, taken, start, part, need, joined>>

NoHandshake ==
    /\ handshake = "none" /\ stage = "none" /\ answer = << >>
    /\ unflushed = FALSE /\ taken = 0 /\ start = 0 /\ part = "none" /\ need = 0 /\ joined = {}

HandshakeInit ==
    /\ \/ handshake = "connect" /\ stage = "check" /\ answer \in Answers
       \/ handshake = "socks" /\ stage = "check" /\ answer \in Targets
       \/ handshake = "associate" /\ stage = "check" /\ answer \in Replies
    /\ unflushed = FALSE /\ taken = 0 /\ start = 0 /\ need = 0 /\ joined = {}
    /\ part = "greeting"

Goes(to) ==
    /\ stage' = to
    /\ UNCHANGED <<handshake, unflushed, answer, taken, start, part, need, joined>>

----------------------------------------------------------------------------
(* send: all of the request is written, then flushed *)

WriteRequest ==
    /\ stage = "send" /\ ~unflushed
    /\ unflushed' = TRUE
    /\ UNCHANGED <<handshake, stage, answer, taken, start, part, need, joined>>

FlushRequest ==
    /\ stage = "send" /\ unflushed
    /\ unflushed' = FALSE /\ stage' = "read"
    /\ UNCHANGED <<handshake, answer, taken, start, part, need, joined>>

(* The stream ends or fails *)
Break ==
    /\ stage \in {"send", "flush", "read"}
    /\ Goes("broken")

----------------------------------------------------------------------------
(* TunnelConnector: a bad destination is refused before anything connects  *)

CheckDestination ==
    /\ handshake = "connect" /\ stage = "check"
    /\ Goes(IF answer.dst THEN "connect" ELSE "rejected")

Connect ==
    /\ stage = "connect"
    /\ Goes("send") \/ Goes("unconnected")

(* read_response *)

Cr == "cr"
Lf == "lf"
Interim == "1xx"        \* but not 101
Success == "2xx"
AuthRequired == "407"
Unsuccessful == "other"

EndsWith(head, s) == Len(head) >= Len(s) /\ SubSeq(head, Len(head) - Len(s) + 1, Len(head)) = s

AtEmptyLine(head) == EndsWith(head, <<Lf, Lf>>) \/ EndsWith(head, <<Lf, Cr, Lf>>)

(* Where the text of a head begins, after the blank lines before it *)
TextFrom(head) == Min({i \in 1 .. Len(head) : head[i] \notin {Cr, Lf}} \cup {Len(head) + 1})

(* The shortest rest of a head: one line break after a line break, else two *)
WantTwo(head) == 2

Want(head) == IF EndsWith(head, <<Lf>>) \/ EndsWith(head, <<Lf, Cr>>) THEN 1 ELSE 2

(* httparse, external: a head is complete at the first empty line after    *)
(* its first line.  The length of a complete head, or 0.                   *)
Parse(head) ==
    LET text == TextFrom(head)
        ends == {i \in text + 1 .. Len(head) : AtEmptyLine(SubSeq(head, text, i))}
    IN  IF ends = {} THEN 0 ELSE Min(ends)

(* One turn of the loop: a read of at most two bytes, and the head parsed  *)
(* if it ends in an empty line or is still too short to hold its status.   *)
ReadResponse ==
    /\ handshake = "connect" /\ stage = "read"
    /\ IF taken = MAX_RESPONSE_HEAD THEN Goes("too long") ELSE
       \E n \in 1 .. Want(SubSeq(answer.bytes, start + 1, taken)) :
         LET len == Min({taken + n, MAX_RESPONSE_HEAD})
             head == SubSeq(answer.bytes, start + 1, len)
             text == TextFrom(head)
             looks == AtEmptyLine(head) \/ Len(head) <= text
             status == IF text > Len(head) THEN Lf ELSE head[text]
             parsed == IF looks THEN Parse(head) ELSE 0
         IN  /\ len <= Len(answer.bytes)
             /\ taken' = len
             /\ start' = IF parsed > 0 /\ status = Interim THEN start + parsed ELSE start
             /\ stage' = CASE looks /\ status \notin {Lf, Interim, Success, AuthRequired, Unsuccessful} -> "invalid"
                           [] parsed > 0 /\ status = Success -> "done"
                           [] parsed > 0 /\ status = AuthRequired -> "auth"
                           [] parsed > 0 /\ status = Unsuccessful -> "refused"
                           [] OTHER -> "read"
             /\ UNCHANGED <<handshake, unflushed, answer, part, need, joined>>

----------------------------------------------------------------------------
(* SocksConnector: check, then try_join of the target and the connection *)

V4 == answer.version = 4
Remote == answer.dns = "remote"

(* host is "missing", a literal "v4" or "v6", a "name" or one that is "long"; *)
(* a user id is "long" if it leaves no room for a name behind it.             *)
Checked ==
    /\ answer.host # "missing" /\ answer.port
    /\ ~(V4 /\ answer.host = "v6")
    /\ ~(Remote /\ answer.host = "long")
    /\ answer.auth # "bad"
    /\ ~(V4 /\ Remote /\ answer.auth = "long" /\ answer.host = "name")

Literal == answer.host \in {"v4", "v6"}

Check ==
    /\ handshake = "socks" /\ stage = "check"
    /\ stage' = IF Checked THEN "join" ELSE "rejected"
    /\ joined' = IF Literal THEN {answer.host} ELSE IF Remote THEN {"name"} ELSE {}
    /\ UNCHANGED <<handshake, unflushed, answer, taken, start, part, need>>

(* resolve: SOCKS4 takes the first IPv4 address, SOCKS5 the first.  What   *)
(* the resolver finds is a sequence of address families.                   *)
ResolveFirst(found) == IF found = << >> THEN {} ELSE {Head(found)}

Resolve(found) ==
    LET usable == IF V4 THEN SelectSeq(found, LAMBDA a : a = "v4") ELSE found
    IN  IF usable = << >> THEN {} ELSE {Head(usable)}

JoinTarget ==
    /\ stage = "join" /\ joined \cap {"v4", "v6", "name"} = {}
    /\ \/ \E found \in {<< >>, <<"v4">>, <<"v6">>, <<"v6", "v4">>} :
            /\ stage' = IF Resolve(found) = {} THEN "unresolved" ELSE "join"
            /\ joined' = joined \cup Resolve(found)
       \/ stage' = "unresolved" /\ UNCHANGED joined
    /\ UNCHANGED <<handshake, unflushed, answer, taken, start, part, need>>

JoinConnection ==
    /\ stage = "join" /\ "io" \notin joined
    /\ \/ joined' = joined \cup {"io"} /\ UNCHANGED stage
       \/ stage' = "unconnected" /\ UNCHANGED joined
    /\ UNCHANGED <<handshake, unflushed, answer, taken, start, part, need>>

(* handshake: tokio-socks, external, writes a message and reads its answer: *)
(* the request of SOCKS4; the methods, the credentials if the proxy asks    *)
(* for them, and the request of SOCKS5.                                     *)
SocksWrites ==
    /\ \/ stage = "join" /\ "io" \in joined /\ joined \cap {"v4", "v6", "name"} # {}
       \/ stage = "again"
    /\ unflushed' = TRUE /\ stage' = "flush"
    /\ UNCHANGED <<handshake, answer, taken, start, part, need, joined>>

(* Socket::poll_read: it flushes before it reads *)
SocketUnflushed ==
    /\ handshake = "socks" /\ stage = "flush"
    /\ stage' = "read"
    /\ UNCHANGED <<handshake, unflushed, answer, taken, start, part, need, joined>>

SocketFlushes ==
    /\ handshake = "socks" /\ stage = "flush"
    /\ unflushed' = FALSE /\ stage' = "read"
    /\ UNCHANGED <<handshake, answer, taken, start, part, need, joined>>

SocksReads ==
    /\ handshake = "socks" /\ stage = "read"
    /\ taken' = taken + 1
    /\ \/ stage' = "failed"
       \/ stage' = "again" /\ ~V4 /\ taken < (IF answer.auth = "none" THEN 1 ELSE 2)
       \/ stage' = "done" /\ (V4 \/ taken > 0)
    /\ UNCHANGED <<handshake, unflushed, answer, start, part, need, joined>>

----------------------------------------------------------------------------
(* associate *)

CheckCredentials ==
    /\ handshake = "associate" /\ stage = "check"
    /\ need' = 2
    /\ stage' = IF answer.auth = "bad" THEN "rejected" ELSE "send"
    /\ UNCHANGED <<handshake, unflushed, answer, taken, start, part, joined>>

AddressSize == CASE answer.atyp = "v4" -> 4 [] answer.atyp = "v6" -> 16 [] OTHER -> answer.name

(* The bytes of the next part, and whether something is sent before it *)
Expects(next, size) ==
    /\ part' = next /\ need' = size
    /\ stage' = IF next \in {"status", "reply"} THEN "send" ELSE "read"

Ends(how) == stage' = how /\ UNCHANGED <<part, need>>

(* decode_addr: a name is neither empty nor anything but UTF-8 *)
Decodes == answer.atyp = "domain" => answer.name > 0 /\ answer.utf8

DecidesOnGreeting ==
    IF ~answer.version THEN Ends("invalid")
    ELSE IF answer.method = "none" THEN Expects("reply", 4)
    ELSE IF answer.method = "password" /\ answer.auth = "given" THEN Expects("status", 2)
    ELSE IF answer.method = "unacceptable" THEN Ends("unacceptable")
    ELSE Ends("invalid")

DecidesOnStatus ==
    IF ~answer.auth_version THEN Ends("invalid")
    ELSE IF ~answer.granted THEN Ends("denied")
    ELSE Expects("reply", 4)

(* A name comes with its length before it, a port after any address *)
DecidesOnReplyUnsized ==
    IF ~answer.rsv THEN Ends("invalid")
    ELSE IF answer.code # 0 THEN Ends("refused")
    ELSE IF answer.atyp = "other" THEN Ends("invalid")
    ELSE Expects("address", AddressSize + 2)

DecidesOnReply ==
    IF ~answer.rsv THEN Ends("invalid")
    ELSE IF answer.code # 0 THEN Ends("refused")
    ELSE IF answer.atyp = "domain" THEN Expects("length", 1)
    ELSE IF answer.atyp = "other" THEN Ends("invalid")
    ELSE Expects("address", AddressSize + 2)

DecidesOnAddress == IF Decodes /\ answer.bound # 0 THEN Ends("done") ELSE Ends("invalid")

(* read_exact: a byte, or all that is needed; the last one decides *)
ReadExact ==
    /\ handshake = "associate" /\ stage = "read"
    /\ \E n \in {1, need} :
         /\ taken' = taken + n
         /\ IF n < need
            THEN need' = need - n /\ UNCHANGED <<part, stage>>
            ELSE CASE part = "greeting" -> DecidesOnGreeting
                   [] part = "status" -> DecidesOnStatus
                   [] part = "reply" -> DecidesOnReply
                   [] part = "length" -> Expects("address", answer.name + 2)
                   [] part = "address" -> DecidesOnAddress
    /\ UNCHANGED <<handshake, unflushed, answer, start, joined>>

HandshakeOver ==
    /\ stage \notin {"none", "check", "connect", "join", "again", "send", "flush", "read"}
    /\ UNCHANGED hsVars

HandshakeNext ==
    \/ CheckDestination \/ Connect \/ WriteRequest \/ FlushRequest \/ Break \/ ReadResponse
    \/ Check \/ JoinTarget \/ JoinConnection \/ SocksWrites \/ SocketFlushes \/ SocksReads
    \/ CheckCredentials \/ ReadExact \/ HandshakeOver

----------------------------------------------------------------------------
(* read_response takes the heads of the answer and not one byte of what    *)
(* the origin sends behind them, however they are cut and whichever line   *)
(* breaks they use; and it never waits for a byte once the last head is    *)
(* there, which a client that speaks first would wait for forever.         *)
AnswerEndsAtHead ==
    (handshake = "connect" /\ answer.end > 0) =>
        /\ taken <= answer.end
        /\ stage = "read" => taken < answer.end
        /\ stage \in {"done", "auth", "refused"} =>
             taken = answer.end /\ (stage = "done" <=> answer.status = Success)
        /\ stage # "invalid" /\ (stage = "too long" => answer.end > MAX_RESPONSE_HEAD)

(* The proxy is never waited for while the stream still holds the request, *)
(* which would leave both sides waiting.                                   *)
NothingIsAwaitedUnsent == stage = "read" => ~unflushed

(* A SOCKS4 proxy is never asked for an IPv6 address, and a name is only   *)
(* left to the proxy when it is to resolve it.                             *)
SocksTargetFits ==
    (handshake = "socks" /\ stage \in {"flush", "read", "again", "done"}) =>
        /\ V4 => "v6" \notin joined
        /\ "name" \in joined <=> (Remote /\ ~Literal)

(* RFC 1928 and 1929: the proxy's whole answer *)
AnswerSize ==
    2 + (IF answer.method = "password" THEN 2 ELSE 0)
      + 4 + (IF answer.atyp = "domain" THEN 1 ELSE 0) + AddressSize + 2

(* An association is one that the proxy has granted, by a method it was    *)
(* offered and at an address that datagrams can be sent to; its answer has *)
(* been read to the last byte and no further, however it was cut.          *)
AssociationIsAgreed ==
    (handshake = "associate" /\ stage = "done") =>
        /\ taken = AnswerSize
        /\ answer.version /\ answer.rsv /\ answer.code = 0 /\ answer.bound # 0 /\ Decodes
        /\ \/ answer.method = "none"
           \/ answer.method = "password" /\ answer.auth = "given" /\ answer.auth_version /\ answer.granted

(* A proxy's answer is awaited once the request is out, read to its last   *)
(* byte and no further, and believed only when it is whole and agrees.     *)
HandshakeIsExact ==
    AnswerEndsAtHead /\ AssociationIsAgreed /\ SocksTargetFits /\ NothingIsAwaitedUnsent
=============================================================================
