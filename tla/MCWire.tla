------------------------------ MODULE MCWire ------------------------------
(* Model-checking instance of what goes over a wire: HTTP/1 bodies, with a *)
(* binary chunk size of three bits and data that looks like the coding     *)
(* around it; the handshakes with a proxy; capsules; and the datagrams of  *)
(* a SOCKS relay.  They share a run, and no state: one of them moves and   *)
(* the others rest.                                                        *)
EXTENDS Http1Framing, ProxyHandshake, Capsules, SocksUdp

MCChunks == {<< ANY >>, << 0, CR, LF >>}
MCBursts == {CRLF, << 1, 0, CR, LF >>, << ANY, CR >>, << ANY, ANY, CR, LF >>, << 0 >> \o CRLF \o CRLF}

(* Answers to CONNECT: heads with and without a field, in both line breaks *)
Breaks == {<<Lf>>, <<Cr, Lf>>}
HeadsOf(status) ==
    {<<status>> \o e \o f : e \in Breaks, f \in Breaks}
    \cup {<<status>> \o e \o <<"x">> \o e \o f : e \in Breaks, f \in Breaks}

Reply(lead, head, status) ==
    [dst |-> TRUE, bytes |-> lead \o head \o <<"t", "t">>, end |-> Len(lead \o head), status |-> status]

MCAnswers ==
    {Reply(lead \o interim, head, Success) :
        lead \in {<< >>, <<Lf>>, <<Cr, Lf, Lf>>}, interim \in {<< >>} \cup HeadsOf(Interim),
        head \in HeadsOf(Success)}
    \cup {Reply(<< >>, head, AuthRequired) : head \in HeadsOf(AuthRequired)}
    \cup {Reply(<< >>, head, Unsuccessful) : head \in HeadsOf(Unsuccessful)}
    \cup {[dst |-> TRUE, bytes |-> <<"x", Cr, Lf, "x", Lf>>, end |-> 0, status |-> "x"],
          [dst |-> FALSE, bytes |-> << >>, end |-> 0, status |-> "x"]}

MCTargets == [version : {4, 5}, dns : {"local", "remote"}, host : {"missing", "v4", "v6", "name", "long"},
              port : BOOLEAN, auth : {"none", "given", "long", "bad"}]
MCReplies == [auth : {"none", "given", "bad"}, version : BOOLEAN, method : {"none", "password", "unacceptable", "other"},
    auth_version : BOOLEAN, granted : BOOLEAN, rsv : BOOLEAN, code : {0, 1},
    atyp : {"v4", "v6", "domain", "other"}, name : {0, 2}, utf8 : BOOLEAN, bound : {0, 1}]

MCSources == {Ip(<<5>>, 1), Ip(<<MAPPED, 5>>, 1), Ip(<<5, 5>>, 1), Domain(<<5, 6>>, 1)}
MCPayloads == {<< >>, <<1>>, <<2, 3>>}
MCMalformations == {<<0, 0, 0, 1>>, <<0, 0, 1, 1, 5, 1, 9>>, <<1, 0, 0, 1, 5, 1, 9>>, <<0, 0, 0, 2, 5, 1, 9>>,
                    <<0, 0, 0, 3, 0, 1, 9>>, <<0, 0, 0, 3, 1, 9, 1>>, <<0, 0, 0, 3, 7, 1, 1>>}
At(ip, port, scope) == [ip |-> ip, port |-> port, scope |-> scope]
Assoc(bound, proxy, from, ours) == [bound |-> bound, proxy |-> proxy, from |-> from, ours |-> ours]
MCPeers == {
    Assoc(At(<<5>>, 1, 0), At(<<6>>, 2, 0), At(<<MAPPED, 5>>, 1, 0), TRUE),
    Assoc(At(<<UNSPECIFIED>>, 1, 0), At(<<MAPPED, 6>>, 2, 0), At(<<6>>, 1, 0), TRUE),
    Assoc(At(<<UNSPECIFIED>>, 1, 0), At(<<LINK_LOCAL, 5>>, 2, 3), At(<<LINK_LOCAL, 5>>, 1, 3), TRUE),
    Assoc(At(<<UNSPECIFIED>>, 1, 0), At(<<LINK_LOCAL, 5>>, 2, 3), At(<<LINK_LOCAL, 5>>, 1, 4), FALSE),
    Assoc(At(<<LINK_LOCAL, 6>>, 1, 0), At(<<LINK_LOCAL, 5>>, 2, 3), At(<<LINK_LOCAL, 6>>, 1, 4), TRUE),
    Assoc(At(<<5>>, 1, 0), At(<<5>>, 2, 0), At(<<5>>, 2, 0), FALSE)}

NoFraming ==
    /\ source = "none" /\ rule = Sized(0) /\ wire = << >> /\ closed = TRUE
    /\ dec = New(0) /\ pos = 0 /\ got = << >> /\ result = "end"
    /\ req = NoRequest /\ enc = Length(0) /\ writing = "KeepAlive" /\ given = << >>

WireInit ==
    \/ Init /\ NoHandshake /\ NoCapsules /\ NoRelay
    \/ NoFraming /\ HandshakeInit /\ NoCapsules /\ NoRelay
    \/ NoFraming /\ NoHandshake /\ CapsulesInit /\ NoRelay
    \/ NoFraming /\ NoHandshake /\ NoCapsules /\ RelayInit

WireNext ==
    \/ source # "none" /\ Next /\ UNCHANGED <<hsVars, capsuleVars, udpVars>>
    \/ HandshakeNext /\ UNCHANGED <<vars, capsuleVars, udpVars>>
    \/ CapsulesNext /\ UNCHANGED <<vars, hsVars, udpVars>>
    \/ RelayNext /\ UNCHANGED <<vars, hsVars, capsuleVars>>

WireSpec == WireInit /\ [][WireNext]_<<vars, hsVars, capsuleVars, udpVars>>
=============================================================================
