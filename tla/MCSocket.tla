------------------------------ MODULE MCSocket ------------------------------
(***************************************************************************)
(* The peers TLC connects to Socket.  Two hosts, the name of one ending in *)
(* the name of the other.  Label "r" starts with "random-", label "l"      *)
(* makes a hello too long for a length field of one byte, label "m" one    *)
(* whose length field begins like an old ping.                             *)
(***************************************************************************)
EXTENDS Socket

MCLabelSize == [l \in {"", "a", "b", "t", "r", "l", "m"} |->
    CASE l = ""  -> 0
      [] l = "r" -> 8
      [] l = "l" -> 121
      [] l = "m" -> 246
      [] OTHER   -> 1]
MCRandomLabels == {"r"}

HostA == <<"a", "t">>
HostB == <<"b", "a", "t">>
MCHosts == {HostA, HostB}
MCNoHost == <<>>

Player(hello, meant, follow) ==
    [kind |-> "player", hello |-> hello, meant |-> meant, follow |-> follow]

Plain(host) == Text(host, "none")

\* Every way to spell the two hosts, and names of no host.
Spellings ==
    {<<Text(prefix \o host \o dots, marker), host>> :
        prefix \in {<<>>, <<"r">>}, host \in MCHosts,
        dots \in {<<>>, <<"">>, <<"", "">>}, marker \in {"none", "FML"}}
    \cup {<<Text(<<"r">>, "FORGE"), MCNoHost>>, <<Text(<<"r", "r">> \o HostA, "none"), MCNoHost>>}

Connecting ==
    {Player(NewHello(767, s[1], 2, 0), s[2], "login") : s \in Spellings}

Pinging ==
    {Player(NewHello(v, Text(HostA, "FORGE"), 1, 0), HostA, "ping") : v \in {5, 767, -1}}
    \cup {Player(NewHello(767, Plain(HostA), 1, 0), HostA, "other")}

Legacy ==
    {Player(OldPing(73, Plain(HostA)), HostA, "login"),
     Player(OldConnect(73, 3, Text(HostB \o <<"">>, "none")), HostB, "login")}

\* A next state that does not exist, a wrong length, two long hellos.
Odd ==
    {Player(NewHello(767, Plain(HostA), 3, 0), HostA, "login"),
     Player(NewHello(767, Plain(HostA), 2, 1), HostA, "login"),
     Player(NewHello(767, Plain(<<"l">>), 2, 0), MCNoHost, "login"),
     Player(NewHello(767, Plain(<<"m">>), 2, 0), MCNoHost, "login")}

Bincode(type, id, size) == [type |-> type, id |-> id, size |-> size]
Data(id, size)          == [type |-> "ProxyData", id |-> id, size |-> size]

\* A payload of one byte, of the client's buffer, and the longest there can be.
Agents ==
    {[kind |-> "agent", packets |-> ps] : ps \in {
        <<Bincode("ProxyHello", 0, 84), Bincode("ProxyAuthResponse", 0, 68), Data(0, 16384)>>,
        <<Bincode("ProxyPing", 0, 6), Data(1, 1), Data(255, MaxPayload),
          Bincode("ProxyPing", 0, 6)>>}}

MCPeers == Connecting \cup Pinging \cup Legacy \cup Odd \cup Agents

\* The test vectors of crates/protocol/src/test.rs.
ASSUME TestVectors ==
    /\ put_varint(128) = <<128, 1>>
    /\ put_varint(2147483647) = <<255, 255, 255, 255, 7>>
    /\ put_varint(-1) = <<255, 255, 255, 255, 15>>
    /\ put_varint(-2147483647 - 1) = <<128, 128, 128, 128, 8>>
    /\ \A v \in {0, 1, 127, 128, 2147483647, -1, -2147483647 - 1} :
        get_varint(put_varint(v)) = Some(v, varint_size(v))
=============================================================================
