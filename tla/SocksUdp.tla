------------------------------ MODULE SocksUdp ------------------------------
(***************************************************************************)
(* Datagrams of a SOCKS5 UDP association (proxy/socks/udp.rs).  A relay    *)
(* frames the payloads of several sources, the socket receives them as one *)
(* batch (UDP GRO), and the caller unframes the batch in place.  The       *)
(* association lasts as long as its control connection, which poll_closed  *)
(* watches.                                                                *)
(*                                                                         *)
(* Sizes are scaled down: an IPv4 address and a port are one byte, an IPv6 *)
(* address is two.  An IPv6 address <<MAPPED, b>> is the IPv4 address b.   *)
(*                                                                         *)
(* Definitions that RelayNext does not use are slips that the properties   *)
(* must notice; each stands before the definition it is a slip of.         *)
(***************************************************************************)
EXTENDS Integers, SequencesExt, TLC

CONSTANTS
    Sources,        \* addresses the relayed datagrams come from
    Payloads,       \* what they carry
    Malformations,  \* datagrams no relay may send, as bytes
    MaxBatch,       \* datagrams of a batch
    Peers,          \* an association's addresses: bound, proxy and from, and whether
                    \* from is the relay
    READS           \* reads of one poll_closed

VARIABLES
    batch,      \* the datagrams the socket received, in order
    segment,    \* the size of all of them but the last
    peers,      \* the relay's address as bound, the proxy's, and the sender's
    rest,       \* the part of the buffer that is still framed
    unframed,   \* what unframing has given so far, oldest first
    relaying,   \* "collect", "unframe", "done", or "none"
    control,    \* the control connection's task: "ready", "parked", "over", or "none"
    readable,   \* reads it takes to empty the control connection
    hungUp      \* the proxy has closed it

udpVars == <<batch, segment, peers, rest, unframed, relaying, control, readable, hungUp>>

MAPPED == 0
UNSPECIFIED == 7
LINK_LOCAL == 8
NOT_UTF8 == 9
ATYP_IPV4 == 1
ATYP_DOMAIN == 3
ATYP_IPV6 == 4

----------------------------------------------------------------------------
(* Headers.  A target is an IP address or a domain name, and a port.       *)

Ip(bytes, port) == [name |-> FALSE, bytes |-> bytes, port |-> port]
Domain(bytes, port) == [name |-> TRUE, bytes |-> bytes, port |-> port]

to_canonical(ip) == IF Len(ip) = 2 /\ ip[1] = MAPPED THEN <<ip[2]>> ELSE ip

put_ip(addr) ==
    LET ip == to_canonical(addr.bytes)
    IN  <<IF Len(ip) = 1 THEN ATYP_IPV4 ELSE ATYP_IPV6>> \o ip \o <<addr.port>>

header_len(addr) ==
    IF addr.name THEN 6 + Len(addr.bytes) ELSE IF Len(to_canonical(addr.bytes)) = 1 THEN 6 ELSE 7

encode_header(addr) ==
    <<0, 0, 0>> \o
    (IF addr.name THEN <<ATYP_DOMAIN, Len(addr.bytes)>> \o addr.bytes \o <<addr.port>>
     ELSE put_ip(addr))

Undecoded == [ok |-> FALSE, source |-> Ip(<< >>, 0), payload |-> << >>]
Beyond(bytes, n) == SubSeq(bytes, n + 1, Len(bytes))

(* The address and the port in front of bytes, and what follows them *)
decode_addr(atyp, bytes) ==
    LET named == atyp = ATYP_DOMAIN
        at == IF named THEN 1 ELSE 0
        size == CASE atyp = ATYP_IPV4 -> 1
                  [] atyp = ATYP_IPV6 -> 2
                  [] named /\ bytes # << >> -> bytes[1]
                  [] OTHER -> Len(bytes)
        addr == SubSeq(bytes, at + 1, at + size)
    IN  IF Len(bytes) < at + size + 1 \/ (named /\ (size = 0 \/ Contains(addr, NOT_UTF8)))
        THEN Undecoded
        ELSE [ok |-> TRUE,
              source |-> [name |-> named, bytes |-> IF named THEN addr ELSE to_canonical(addr),
                          port |-> bytes[at + size + 1]],
              payload |-> Beyond(bytes, at + size + 1)]

decode_header(datagram) ==
    IF Len(datagram) < 4 \/ SubSeq(datagram, 1, 3) # <<0, 0, 0>> THEN Undecoded
    ELSE decode_addr(datagram[4], Beyond(datagram, 4))

----------------------------------------------------------------------------
(* Where the relay is, and what comes from there.  A socket address is an  *)
(* IP address, a port and the scope of a link-local IPv6 address.          *)

Unspecified(ip) == Last(ip) = UNSPECIFIED
LinkLocal(ip) == Len(ip) = 2 /\ ip[1] = LINK_LOCAL

relay_addr(bound, proxy) ==
    LET proxy_ip == to_canonical(proxy.ip)
        ip == IF Unspecified(bound.ip) THEN proxy_ip ELSE bound.ip
    IN  [ip |-> ip, port |-> bound.port,
         scope |-> IF Len(ip) = 2 /\ ip = proxy_ip THEN proxy.scope ELSE 0]

zone(addr) == IF LinkLocal(addr.ip) THEN addr.scope ELSE 0

FromRelay(relay, from) ==
    /\ to_canonical(from.ip) = to_canonical(relay.ip) /\ from.port = relay.port
    /\ zone(relay) \in {0, zone(from)}

----------------------------------------------------------------------------
(* unframe: the leading run of payloads from one source, moved in place to *)
(* the front of the buffer                                                 *)

(* copy_within *)
Moved(buffer, from, to, n) ==
    [i \in 1 .. Len(buffer) |-> IF i \in to + 1 .. to + n THEN buffer[i + from - to] ELSE buffer[i]]

NoRun == [source |-> Ip(<< >>, 0), stride |-> -1]

(* Whether a datagram of len bytes from source starts the next run *)
AnotherSource(run, source, len) == run # NoRun /\ run.source # source

AnotherRun(run, source, len) == run # NoRun /\ (run.source # source \/ len > run.stride)

RECURSIVE unframe(_, _, _, _, _)
unframe(buffer, stride, read, write, run) ==
    LET end == Min({read + stride, Len(buffer)})
        decoded == decode_header(SubSeq(buffer, read + 1, end))
        len == Len(decoded.payload)
        first == IF run = NoRun THEN [source |-> decoded.source, stride |-> len] ELSE run
        moved == Moved(buffer, end - len, write, len)
        result(b, w, c, r) == [buffer |-> b, len |-> w, consumed |-> c, run |-> r]
    IN  CASE read = Len(buffer) -> result(buffer, write, read, run)
          [] ~decoded.ok -> unframe(buffer, stride, end, write, run)
          [] AnotherRun(run, decoded.source, len) -> result(buffer, write, read, run)
          [] len < first.stride -> result(moved, write + len, end, first)
          [] OTHER -> unframe(moved, stride, end, write + len, first)

(* The caller splits the payloads at the stride of the run *)
Split(bytes, stride, source) ==
    LET each == IF stride = 0 THEN Len(bytes) ELSE stride
        n == IF bytes = << >> THEN 1 ELSE (Len(bytes) + each - 1) \div each
    IN  [i \in 1 .. n |->
            [source |-> source,
             payload |-> SubSeq(bytes, (i - 1) * each + 1, Min({i * each, Len(bytes)}))]]

----------------------------------------------------------------------------
NoRelay ==
    /\ batch = << >> /\ segment = 0 /\ peers = << >> /\ rest = << >> /\ unframed = << >>
    /\ relaying = "none" /\ control = "none" /\ readable = 0 /\ hungUp = FALSE

(* The datagrams and the control connection do not meet: one or the other *)
RelayInit ==
    /\ batch = << >> /\ segment = 0 /\ rest = << >> /\ unframed = << >>
    /\ readable = 0 /\ hungUp = FALSE /\ peers \in Peers
    /\ \/ relaying = "collect" /\ control = "none"
       \/ relaying = "none" /\ control = "ready"

controlVars == <<control, readable, hungUp>>
relayVars == <<batch, segment, peers, rest, unframed, relaying>>

(* The kernel joins datagrams of one size, and a shorter one that ends the batch *)
Joins(bytes, entry) ==
    /\ relaying = "collect" /\ Len(batch) < MaxBatch
    /\ batch # << >> => Len(Last(batch).bytes) = segment /\ Len(bytes) <= segment
    /\ segment' = IF batch = << >> THEN Len(bytes) ELSE segment
    /\ batch' = Append(batch, [bytes |-> bytes] @@ entry)
    /\ UNCHANGED <<peers, rest, unframed, relaying, controlVars>>

(* A relay may name an IPv4 source by its IPv4-mapped address *)
RelayHeaders(source) ==
    {encode_header(source)} \cup
    IF source.name \/ Len(source.bytes) = 1 THEN {}
    ELSE {<<0, 0, 0, ATYP_IPV6>> \o source.bytes \o <<source.port>>}

RelayFrames ==
    \E source \in Sources, payload \in Payloads : \E header \in RelayHeaders(source) :
        Joins(header \o payload, [ok |-> TRUE, source |-> source, payload |-> payload])

RelayMisframes ==
    \E bytes \in Malformations :
        Joins(bytes, [ok |-> FALSE, source |-> Ip(<< >>, 0), payload |-> << >>])

SocketReceives ==
    /\ relaying = "collect" /\ batch # << >>
    /\ rest' = FlattenSeq([i \in 1 .. Len(batch) |-> batch[i].bytes])
    /\ relaying' = "unframe"
    /\ UNCHANGED <<batch, segment, peers, unframed, controlVars>>

(* The stride of a batch of one may be its length or 0 *)
Strides == {segment} \cup (IF Len(batch) = 1 THEN {0} ELSE {})

Unframe ==
    /\ relaying = "unframe"
    /\ \E given_stride \in Strides :
         LET stride == IF given_stride = 0 THEN Len(rest) ELSE given_stride
             u == unframe(rest, stride, 0, 0, NoRun)
             ours == FromRelay(relay_addr(peers.bound, peers.proxy), peers.from)
         IN  IF ~ours \/ u.run = NoRun
             THEN relaying' = "done" /\ UNCHANGED <<rest, unframed>>
             ELSE /\ unframed' = unframed \o
                        Split(SubSeq(u.buffer, 1, u.len), u.run.stride, u.run.source)
                  /\ rest' = Beyond(u.buffer, u.consumed)
                  /\ UNCHANGED relaying
    /\ UNCHANGED <<batch, segment, peers, controlVars>>

----------------------------------------------------------------------------
(* The control connection, and the task that polls poll_closed when woken  *)

Wake == IF control = "parked" THEN "ready" ELSE control

ProxyWrites ==
    /\ control \in {"ready", "parked"} /\ ~hungUp /\ readable < READS + 1
    /\ readable' = readable + 1 /\ control' = Wake
    /\ UNCHANGED <<hungUp, relayVars>>

(* It closes the connection, or the connection fails *)
ProxyHangsUp ==
    /\ control \in {"ready", "parked"} /\ ~hungUp
    /\ hungUp' = TRUE /\ control' = Wake
    /\ UNCHANGED <<readable, relayVars>>

(* A poll that reads to its limit without waking itself *)
PollClosedAsleep ==
    /\ control = "ready"
    /\ readable' = IF readable < READS THEN 0 ELSE readable - READS
    /\ control' = IF readable < READS /\ hungUp THEN "over" ELSE "parked"
    /\ UNCHANGED <<hungUp, relayVars>>

PollClosed ==
    /\ control = "ready"
    /\ readable' = IF readable < READS THEN 0 ELSE readable - READS
    /\ control' = IF readable >= READS THEN "ready" ELSE IF hungUp THEN "over" ELSE "parked"
    /\ UNCHANGED <<hungUp, relayVars>>

RelayOver == (relaying = "done" \/ control = "over") /\ UNCHANGED udpVars

RelayNext ==
    \/ RelayFrames \/ RelayMisframes \/ SocketReceives \/ Unframe
    \/ ProxyWrites \/ ProxyHangsUp \/ PollClosed \/ RelayOver

----------------------------------------------------------------------------
Nonempty(entries) == SelectSeq(entries, LAMBDA e : e.payload # << >>)

(* The datagrams of the batch as the relay meant them *)
Canonical(addr) == IF addr.name THEN addr ELSE [addr EXCEPT !.bytes = to_canonical(@)]
Meant ==
    LET whole == SelectSeq(batch, LAMBDA d : d.ok)
    IN  [i \in 1 .. Len(whole) |->
            [source |-> Canonical(whole[i].source), payload |-> whole[i].payload]]

(* Unframing a batch in place, call after call, gives each payload once,   *)
(* whole, in order and with its source, past the malformed datagrams among *)
(* them, when the batch came from the relay; nothing when it did not.      *)
(* An empty payload that follows a payload of its source is not counted:   *)
(* it ends the run and leaves no trace in it.                              *)
PayloadsAreUnframed ==
    relaying # "none" =>
        /\ IsPrefix(Nonempty(unframed), Nonempty(Meant))
        /\ relaying = "done" =>
             IF peers.ours THEN Nonempty(unframed) = Nonempty(Meant) ELSE unframed = << >>
        /\ \A source \in Sources : Len(encode_header(source)) = header_len(source)

(* The task that watches the control connection is never left asleep while *)
(* there is something to read on it: a proxy that writes until it closes   *)
(* would keep the association open.                                        *)
CloseIsNoticed == control = "parked" => readable = 0 /\ ~hungUp
=============================================================================
