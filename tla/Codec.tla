-------------------------------- MODULE Codec --------------------------------
(***************************************************************************)
(* How packets become bytes between the CraftIP server and client, and     *)
(* packets again: SocketPacket::encode_into and decode_from                *)
(* (crates/protocol/src/socket_packet.rs) as PacketCodec gives them to     *)
(* tokio's Framed.  A frame is a u16, whose bit 15 tells data packets from *)
(* the others and whose other bits are the length of what follows.         *)
(*                                                                         *)
(* Bytes are counted, not listed.  A packet is a record of its type, its   *)
(* client id and its size: the bytes of the payload of a data packet, the  *)
(* bytes bincode makes of any other.                                       *)
(***************************************************************************)
EXTENDS Integers, Sequences, Sums

\* 2^16 and 2^15; the provers cannot evaluate a power.
U16 == 256 * 256
DATA_BIT == 128 * 256

MAXIMUM_PACKET_SIZE == 1024 * 64

\* The longest payload whose length, with the client id, fits below bit 15.
MaxPayload == DATA_BIT - 1 - 2

bitor15(x) == IF x >= DATA_BIT THEN x ELSE x + DATA_BIT

\* A data packet whose length fits, with a client id of 16 bits.
DataPackets == [type : {"ProxyData"}, id : 0 .. U16 - 1, size : 0 .. MaxPayload]

\* Any other packet, as bincode made size bytes of it.
OtherPackets ==
    [type : {"ProxyHello", "ProxyAuthRequest", "ProxyAuthResponse", "ProxyHelloResponse",
             "ProxyJoin", "ProxyDisconnect", "ProxyDisconnectAck", "ProxyError",
             "ProxyPing", "ProxyPong", "Unknown"},
     id : 0 .. U16 - 1, size : 1 .. DATA_BIT - 1]

Packets == DataPackets \cup OtherPackets

IsData(p) == p.type = "ProxyData"

\* The bytes after the length field.
body_len(p) == IF IsData(p) THEN p.size + 2 ELSE p.size

\* Variant: the client id is not counted.
start_NoId(p) == IF IsData(p) THEN bitor15(p.size % U16) ELSE p.size % U16

\* The first u16 of encode_into; the bytes that follow it are body_len(p) many.
start(p) == IF IsData(p) THEN bitor15(body_len(p) % U16) ELSE body_len(p) % U16

FrameSize(p) == 2 + body_len(p)

\* Where the k-th frame of a stream begins, if the first one begins at from.
FrameAt(packets, from, k) ==
    from + SumTo([i \in DOMAIN packets |-> FrameSize(packets[i])], k - 1)

\* decode_from on n bytes that begin with the frame of p.
decode_from(p, n) ==
    LET length         == start(p) % DATA_BIT
        is_data_packet == start(p) >= DATA_BIT
    IN  IF n < 2 \/ n < length + 2 THEN [is |-> "none"]
        ELSE IF length > MAXIMUM_PACKET_SIZE THEN [is |-> "err"]
        \* length - 2 overflows
        ELSE IF is_data_packet /\ length < 2 THEN [is |-> "panic"]
        ELSE IF is_data_packet
             THEN [is |-> "some", moved |-> 2 + length,
                   packet |-> [type |-> "ProxyData", id |-> p.id % U16, size |-> length - 2]]
        \* bincode gives back what it was given, if it gets all of it
        ELSE IF length = p.size THEN [is |-> "some", moved |-> 2 + length, packet |-> p]
        ELSE [is |-> "err"]
=============================================================================
