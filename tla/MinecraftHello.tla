--------------------------- MODULE MinecraftHello ---------------------------
(***************************************************************************)
(* The first packet of a Minecraft client, as MinecraftHelloPacket::new    *)
(* recognises it in the bytes that have arrived so far                     *)
(* (crates/protocol/src/minecraft.rs), and what the server makes of the    *)
(* hostname in it (clean_up_hostname of register.rs).                      *)
(*                                                                         *)
(* Bytes are counted, not listed: a hello is the record of its fields, and *)
(* a parser is given the hello and the number n of its bytes in the        *)
(* buffer.  Only numbers whose encoding decides something (varints, the    *)
(* first two bytes) exist as bytes.  A hostname is the sequence of its     *)
(* labels, so that a trailing dot is a last label "", and the marker a     *)
(* modded client puts behind it.                                           *)
(***************************************************************************)
EXTENDS VarInt

CONSTANTS
    LabelSize,      \* label -> its bytes; labels are ASCII
    RandomLabels    \* the labels that start with "random-"

EmptyLabel == ""    \* what stands behind a trailing dot

ASSUME LabelAssumption ==
    /\ \A l \in DOMAIN LabelSize : LabelSize[l] \in Nat
    /\ RandomLabels \subseteq DOMAIN LabelSize
    /\ EmptyLabel \in DOMAIN LabelSize \ RandomLabels /\ LabelSize[EmptyLabel] = 0

\* What follows the hostname in the same string: nothing, "\0FML\0", "\0FORGE".
MarkerSize == [none |-> 0, FML |-> 5, FORGE |-> 6]

Text(labels, marker) == [labels |-> labels, marker |-> marker]

Texts == [labels : Seq(DOMAIN LabelSize) \ {<<>>}, marker : {"none", "FML", "FORGE"}]

text_len(text) ==
    SumTo([i \in DOMAIN text.labels |-> LabelSize[text.labels[i]]], Len(text.labels))
        + Len(text.labels) - 1 + MarkerSize[text.marker]

-----------------------------------------------------------------------------
(* The hello packets clients send.                                         *)

\* What is left of a new hello after the length field.
ContentSize(version, text) ==
    1 + varint_size(version) + varint_size(text_len(text)) + text_len(text) + 2 + 1

\* off is 0, or the error of a length field that is not right.
NewHello(version, text, next_state, off) ==
    [format |-> "new", pkg_length |-> ContentSize(version, text) + off, id |-> 0,
     version |-> version, text |-> text, next_state |-> next_state, user |-> 0]

OldPing(version, text) ==
    [format |-> "old_ping", pkg_length |-> 7 + 2 * text_len(text), id |-> 0,
     version |-> version, text |-> text, next_state |-> 0, user |-> 0]

\* user is the length of the name.
OldConnect(version, user, text) ==
    [format |-> "old_connect", pkg_length |-> 0, id |-> 0,
     version |-> version, text |-> text, next_state |-> 0, user |-> user]

\* The hellos a client may send.  A new one whose length field is 2 would be taken
\* for an old one, and none is that short; no old client is modded.
IsHello(h) ==
    /\ h.text \in Texts /\ text_len(h.text) \in I32
    /\ \/ /\ h.format = "new" /\ h.id = 0
          /\ h.pkg_length \in I32 /\ h.pkg_length # 2
          /\ h.version \in I32 /\ h.next_state \in 0..127
       \/ h.format = "old_ping" /\ h.text.marker = "none" /\ h = OldPing(h.version, h.text)
       \/ h.format = "old_connect" /\ h.text.marker = "none" /\ h.user \in Nat

FirstTwo(h) ==
    CASE h.format = "old_ping"    -> <<254, 1>>
      [] h.format = "old_connect" -> <<2, h.version>>
      [] h.format = "new"         -> SubSeq(put_varint(h.pkg_length) \o put_varint(h.id), 1, 2)

-----------------------------------------------------------------------------
(* The parsers.  Each is the sequence of its reads and checks; propagate!  *)
(* returns the first that is not Some.                                     *)

propagate(steps, result) ==
    LET stops == {i \in DOMAIN steps : steps[i].is # "some"}
    IN  IF stops = {} THEN [is |-> "some", packet |-> result]
        ELSE [is |-> steps[Min(stops)].is]

Check(ok) == IF ok THEN Some(0, 0) ELSE Err

\* Variant: nothing looks how many bytes remain.
Take_Unchecked(n, at, size) == Some(0, size)

\* size bytes from position at on.
Take(n, at, size) == IF n - at < size THEN None ELSE Some(0, size)

\* A u16 and len u16 characters; one more byte than that must have arrived.
get_utf16_string(n, at, len) ==
    IF Take(n, at, 2 + 2 * len + 1) = None THEN None ELSE Some(0, 2 + 2 * len)

Packet(length, pkg_type, version, text, forge) ==
    [length |-> length, pkg_type |-> pkg_type, version |-> version,
     hostname |-> text, forge |-> forge]

OLD_MINECRAFT_START == 27

old_ping_pkg(h, n) ==
    LET start  == OLD_MINECRAFT_START
        string == get_utf16_string(n, start + 3, text_len(h.text))
        end    == start + 3 + 2 + 2 * text_len(h.text) + 4
    IN  propagate(<<Take(n, 0, start), Check(h.format = "old_ping"),
                    Take(n, start, 3), string,
                    Check(7 + 2 * text_len(h.text) = h.pkg_length),
                    Take(n, end - 4, 4)>>,
                  Packet(end, "Legacy", h.version, h.text, FALSE))

\* Variant: the port is not waited for.
old_connect_pkg_NoPort(h, n) ==
    LET at   == 2 + 2 + 2 * h.user
        end  == at + 2 + 2 * text_len(h.text)
    IN  propagate(<<Take(n, 1, 1), get_utf16_string(n, 2, h.user),
                    get_utf16_string(n, at, text_len(h.text))>>,
                  Packet(end, "Legacy", h.version, h.text, FALSE))

old_connect_pkg(h, n) ==
    LET at   == 2 + 2 + 2 * h.user
        end  == at + 2 + 2 * text_len(h.text) + 4
    IN  propagate(<<Take(n, 1, 1), get_utf16_string(n, 2, h.user),
                    get_utf16_string(n, at, text_len(h.text)), Take(n, end - 4, 4)>>,
                  Packet(end, "Legacy", h.version, h.text, FALSE))

PkgType(next_state) ==
    CASE next_state = 1 -> "Ping" [] next_state = 2 -> "Connect" [] OTHER -> "Unknown"

\* Everything from the first \0 on is removed.
split_once(text) == Text(text.labels, "none")

\* The positions are those between the fields of h: a varint is read to its end.
new_pkg(h, n) ==
    LET len == text_len(h.text)
        p1  == varint_size(h.pkg_length)
        p2  == p1 + varint_size(h.id)
        p3  == p2 + varint_size(h.version)
        p4  == p3 + varint_size(len)
        p5  == p4 + len + 2
        varint(v, at) == get_varint(SubSeq(put_varint(v), 1, Min({n - at, varint_size(v)})))
    IN  propagate(<<varint(h.pkg_length, 0), varint(h.id, p1), Check(h.id = 0),
                    varint(h.version, p2), varint(len, p3), Take(n, p4, len),
                    Take(n, p5 - 2, 2), Check(p5 = h.pkg_length),
                    varint(h.next_state, p5)>>,
                  Packet(p5 + varint_size(h.next_state), PkgType(h.next_state),
                         varint(h.version, p2).value, split_once(h.text),
                         h.text.marker = "FORGE"))

\* MinecraftHelloPacket::new
new(h, n) ==
    IF n < 2 THEN [is |-> "none"]
    ELSE IF FirstTwo(h) = <<254, 1>> THEN old_ping_pkg(h, n)
    ELSE IF FirstTwo(h)[1] = 2 THEN old_connect_pkg(h, n)
    ELSE new_pkg(h, n)

\* The response to a client whose server is not online, by kind.
generate_response(pkg_type) ==
    CASE pkg_type = "Ping"    -> <<"status">>
      [] pkg_type = "Connect" -> <<"kick">>
      [] pkg_type = "Legacy"  -> <<"legacy kick">>
      [] pkg_type = "Unknown" -> <<>>

-----------------------------------------------------------------------------
\* trim_end_matches("."): the labels "" at the end go; "" itself is <<"">>.
TrimDots(labels) ==
    SubSeq(labels, 1, Max({1} \cup {i \in DOMAIN labels : labels[i] # EmptyLabel}))

\* Variant: one trailing dot is taken off.
clean_up_hostname_OneDot(text) ==
    LET labels == IF Len(text.labels) > 1 /\ text.labels[Len(text.labels)] = EmptyLabel
                  THEN SubSeq(text.labels, 1, Len(text.labels) - 1) ELSE text.labels
    IN  IF labels[1] \notin RandomLabels THEN Text(labels, text.marker)
        ELSE IF Len(labels) > 1 THEN Text(Tail(labels), text.marker)
        ELSE Text(<<EmptyLabel>>, "none")

\* A marker at the end is no dot: the labels before it stay as they are.
clean_up_hostname(text) ==
    LET labels == IF text.marker = "none" THEN TrimDots(text.labels) ELSE text.labels
    IN  IF labels[1] \notin RandomLabels THEN Text(labels, text.marker)
        ELSE IF Len(labels) > 1 THEN Text(Tail(labels), text.marker)
        ELSE Text(<<EmptyLabel>>, "none")
=============================================================================
