----------------------------- MODULE WireFormat -----------------------------
(***************************************************************************)
(* How a message becomes bytes and bytes become a message (wire_msg.rs),   *)
(* on its way through one QUIC stream (communicate.rs).                    *)
(*                                                                         *)
(* Bytes are abstracted to their number and to whether they are a bincode  *)
(* frame around a message or the bare bytes the user gave.  Sizes are kept *)
(* because the decision which of the two it is rests on nothing else.      *)
(***************************************************************************)
EXTENDS Naturals

CONSTANTS
  MaxSerialised,   \* MAX_MESSAGE_SIZE_FOR_SERIALISATION
  MaxMsgSize,      \* max_msg_size_allowed of the receiver
  Size             \* sizes of user messages and certificates

ASSUME SizeAssumption ==
  /\ MaxSerialised \in Nat
  /\ MaxMsgSize \in Nat
  /\ Size \subseteq Nat

VARIABLES sent, raw, received

vars == <<sent, raw, received>>

None == [kind |-> "none"]

\* A message has a payload (the user's bytes or the certificate) or none.  As
\* the user's bytes may turn out to be a frame, a message says which they are.
Payload(kinds, sizes, payloads) == [kind : kinds, size : sizes, payload : payloads]
Bare == Payload({"HandshakeClient", "EchoReq", "EchoRespV4", "EchoRespV6"}, {0}, {"own"})

Msg == Bare \union Payload({"UserMsg", "HandshakeNode"}, Nat, {"own", "frame"})
Sendable == Bare \union Payload({"UserMsg", "HandshakeNode"}, Size, {"own"})

Raw == [size : Nat, isFrame : BOOLEAN, msg : Msg]

\* What bincode adds: four bytes for each enum variant, eight for a length.  A
\* SocketAddr is a variant, the address and a port of two bytes.
Overhead(kind) ==
  CASE kind = "UserMsg"         -> 4 + 8
    [] kind = "HandshakeNode"   -> 4 + 4 + 8
    [] kind = "HandshakeClient" -> 4 + 4
    [] kind = "EchoReq"         -> 4
    [] kind = "EchoRespV4"      -> 4 + 4 + 4 + 2
    [] kind = "EchoRespV6"      -> 4 + 4 + 16 + 2

Frame(m) == [size |-> Overhead(m.kind) + m.size, isFrame |-> TRUE, msg |-> m]

\* Mutated form: a user message of the limit's size is sent bare.
IntoBytesAtLimit(m) ==
  IF m.kind = "UserMsg" /\ m.size >= MaxSerialised
  THEN [size |-> m.size, isFrame |-> FALSE, msg |-> m]
  ELSE Frame(m)

\* impl Into<Bytes> for WireMsg
IntoBytes(m) ==
  IF m.kind = "UserMsg" /\ m.size > MaxSerialised
  THEN [size |-> m.size, isFrame |-> FALSE, msg |-> m]
  ELSE Frame(m)

\* Mutated form: the length of the bytes is taken for the length of the payload.
FromRawWithRawSize(r) ==
  IF r.size > MaxSerialised
  THEN [kind |-> "UserMsg", size |-> r.size,
        payload |-> IF r.isFrame THEN "frame" ELSE r.msg.payload]
  ELSE IF r.isFrame THEN [r.msg EXCEPT !.size = r.size] ELSE [kind |-> "error"]

\* WireMsg::from_raw.  Short bytes that are no frame do not deserialise.
FromRaw(r) ==
  IF r.size > MaxSerialised
  THEN [kind |-> "UserMsg", size |-> r.size,
        payload |-> IF r.isFrame THEN "frame" ELSE r.msg.payload]
  ELSE IF r.isFrame THEN r.msg ELSE [kind |-> "error"]

Init == sent = None /\ raw = None /\ received = None

\* write_to_peer_connection
Write(m) ==
  /\ sent = None
  /\ sent' = m
  /\ raw' = IntoBytes(m)
  /\ UNCHANGED received

\* Mutated form: the limit of the stream is not applied.
ReadWithoutLimit ==
  /\ raw # None /\ received = None
  /\ received' = FromRaw(raw)
  /\ UNCHANGED <<sent, raw>>

\* read_peer_stream: read_to_end fails on more than max_msg_size_allowed bytes.
Read ==
  /\ raw # None /\ received = None
  /\ received' = IF raw.size > MaxMsgSize THEN [kind |-> "error"] ELSE FromRaw(raw)
  /\ UNCHANGED <<sent, raw>>

Next == Read \/ \E m \in Sendable : Write(m)

Spec == Init /\ [][Next]_vars

-----------------------------------------------------------------------------
TypeOK ==
  /\ sent \in Sendable \union {None}
  /\ raw \in Raw \union {None}
  /\ received \in Msg \union {None, [kind |-> "error"]}

\* The sizes for which the frame is longer than what from_raw takes for a frame
\* although the message is not longer than what into() frames.
Misread(m) ==
  /\ Overhead(m.kind) + m.size > MaxSerialised
  /\ m.kind = "UserMsg" => m.size <= MaxSerialised

\* The receiver gets exactly the message that was sent, unless the bytes exceed
\* its limit or the size falls into the gap between the two tests of
\* wire_msg.rs:28 and 39; there it always gets something else.
DecodedUnlessMisread ==
  received # None =>
    (received = sent <=> ~Misread(sent) /\ raw.size <= MaxMsgSize)

\* The receiver reports an error, which severs the connection, for no message
\* whose bytes are within its limit.
ErrorOnlyIfTooLong ==
  received # None => (received.kind = "error" <=> raw.size > MaxMsgSize)

\* What is received is what was sent, as the test of the echo service asserts
\* for a message (lib.rs:459).
RoundTrip == received # None /\ received.kind # "error" => received = sent
=============================================================================
