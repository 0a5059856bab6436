-------------------------- MODULE WireFormatProofs --------------------------
(* The properties of WireFormat, for every limit and every size.            *)
EXTENDS WireFormat, TLAPS

\* The bytes are those of the message that was sent, and what was received was made
\* from them.
WireInv ==
  /\ sent \in Sendable \union {None}
  /\ raw = IF sent = None THEN None ELSE IntoBytes(sent)
  /\ received # None =>
       /\ sent # None
       /\ received = IF raw.size > MaxMsgSize THEN [kind |-> "error"] ELSE FromRaw(raw)

\* The kinds of messages that are sent, with what bincode adds to each
\* (wire_msg.rs:12).
LEMMA SendableFields ==
  ASSUME NEW m \in Sendable
  PROVE  /\ m \in Msg /\ m.size \in Nat /\ m.payload = "own"
         /\ m = [kind |-> m.kind, size |-> m.size, payload |-> m.payload]
         /\ m.kind \notin {"none", "error"}
         /\ Overhead(m.kind) \in Nat \ {0}
  BY SizeAssumption DEF Sendable, Bare, Payload, Msg, Overhead

\* A message is not the absence of one.
LEMMA MsgIsSomething ==
  ASSUME NEW m \in Msg
  PROVE  m # None /\ m # [kind |-> "error"]
<1>1. m.kind \notin {"none", "error"}
  BY DEF Msg, Bare, Payload
<1> QED BY <1>1 DEF None

\* into() makes bytes of a message, of a size that is known (wire_msg.rs:26).
LEMMA IntoBytesFacts ==
  ASSUME NEW m \in Sendable
  PROVE  /\ IntoBytes(m) \in Raw /\ IntoBytes(m) # None
         /\ IntoBytes(m).msg = m /\ IntoBytes(m).size \in Nat
         /\ IntoBytes(m).isFrame => IntoBytes(m).size = Overhead(m.kind) + m.size
         /\ ~IntoBytes(m).isFrame => IntoBytes(m).size = m.size
         /\ IntoBytes(m).isFrame <=> ~(m.kind = "UserMsg" /\ m.size > MaxSerialised)
  BY SendableFields DEF IntoBytes, Frame, Raw, None

\* from_raw returns the message of a frame that is short enough and takes everything
\* longer for a user message (wire_msg.rs:39); an error needs short bytes that are
\* no frame.
LEMMA FromRawFacts ==
  ASSUME NEW m \in Sendable, NEW r, r = IntoBytes(m)
  PROVE  /\ FromRaw(r) \in Msg
         /\ FromRaw(r).kind # "error"
         /\ FromRaw(r) = m <=> ~Misread(m)
<1>1. /\ r.msg = m /\ r.size \in Nat
      /\ r.isFrame => r.size = Overhead(m.kind) + m.size
      /\ ~r.isFrame => r.size = m.size
      /\ r.isFrame <=> ~(m.kind = "UserMsg" /\ m.size > MaxSerialised)
  BY IntoBytesFacts
<1>2. /\ m \in Msg /\ m.size \in Nat /\ m.payload = "own"
      /\ m = [kind |-> m.kind, size |-> m.size, payload |-> m.payload]
      /\ m.kind # "error"
      /\ Overhead(m.kind) \in Nat \ {0}
  BY SendableFields
<1>3. CASE r.size <= MaxSerialised
  <2>1. r.isFrame
    BY <1>1, <1>2, <1>3, SizeAssumption
  <2>2. FromRaw(r) = m
    BY <1>1, <1>3, <2>1, SizeAssumption DEF FromRaw
  <2>3. ~Misread(m)
    BY <1>1, <1>2, <1>3, <2>1, SizeAssumption DEF Misread
  <2> QED BY <1>2, <2>2, <2>3
<1>4. CASE r.size > MaxSerialised
  <2>1. FromRaw(r) = [kind |-> "UserMsg", size |-> r.size,
                      payload |-> IF r.isFrame THEN "frame" ELSE r.msg.payload]
    BY <1>4 DEF FromRaw
  <2>2. FromRaw(r) \in Msg /\ FromRaw(r).kind # "error"
    BY <1>1, <1>2, <2>1 DEF Msg, Payload
  <2>3. CASE r.isFrame
    <3>1. FromRaw(r) # m
      BY <1>2, <2>1, <2>3
    <3>2. Misread(m)
      BY <1>1, <1>2, <1>4, <2>3, SizeAssumption DEF Misread
    <3> QED BY <2>2, <3>1, <3>2
  <2>4. CASE ~r.isFrame
    <3>1. FromRaw(r) = m
      BY <1>1, <1>2, <2>1, <2>4
    <3>2. ~Misread(m)
      BY <1>1, <1>2, <2>4, SizeAssumption DEF Misread
    <3> QED BY <2>2, <3>1, <3>2
  <2> QED BY <2>3, <2>4
<1> QED BY <1>1, <1>3, <1>4, SizeAssumption

\* Both ends of a stream keep the relation between what is sent, what is on the wire
\* and what is received.
LEMMA WireInvariance == Spec => []WireInv
<1>1. Init => WireInv
  BY DEF Init, WireInv
<1>2. WireInv /\ [Next]_vars => WireInv'
  <2> SUFFICES ASSUME WireInv, [Next]_vars PROVE WireInv'
    OBVIOUS
  <2>1. CASE Read
    <3>1. sent # None
      BY <2>1 DEF WireInv, Read
    <3> QED BY <2>1, <3>1 DEF WireInv, Read
  <2>2. ASSUME NEW m \in Sendable, Write(m) PROVE WireInv'
    <3>1. m # None
      BY SendableFields, MsgIsSomething
    <3>2. received = None
      BY <2>2 DEF WireInv, Write
    <3> QED BY <2>2, <3>1, <3>2 DEF WireInv, Write
  <2>3. CASE UNCHANGED vars
    BY <2>3 DEF vars, WireInv
  <2> QED BY <2>1, <2>2, <2>3 DEF Next
<1> QED BY <1>1, <1>2, PTL DEF Spec

\* What is received is a message or an error, and bytes have a size.
THEOREM WireTypes == Spec => []TypeOK
<1>1. WireInv => TypeOK
  <2> SUFFICES ASSUME WireInv PROVE TypeOK
    OBVIOUS
  <2>1. CASE sent = None
    BY <2>1 DEF WireInv, TypeOK
  <2>2. CASE sent # None
    BY <2>2, IntoBytesFacts, FromRawFacts DEF WireInv, TypeOK
  <2> QED BY <2>1, <2>2
<1> QED BY <1>1, WireInvariance, PTL

\* For every limit of serialisation, every limit of the receiver and every size, a
\* message arrives as it was sent exactly outside the gap between the tests of
\* wire_msg.rs:28 and 39.
THEOREM DecodedOutsideTheGap == Spec => []DecodedUnlessMisread
<1>1. WireInv => DecodedUnlessMisread
  <2> SUFFICES ASSUME WireInv, received # None
               PROVE  received = sent <=> ~Misread(sent) /\ raw.size <= MaxMsgSize
    BY DEF DecodedUnlessMisread
  <2>1. sent \in Sendable /\ sent # None /\ raw = IntoBytes(sent)
    BY DEF WireInv
  <2>2. raw.size \in Nat
    BY <2>1, IntoBytesFacts
  <2>3. CASE raw.size > MaxMsgSize
    <3>1. received = [kind |-> "error"] /\ sent \in Msg
      BY <2>1, <2>3, SendableFields DEF WireInv
    <3>2. received # sent
      BY <3>1, MsgIsSomething
    <3> QED BY <2>2, <2>3, <3>2, SizeAssumption
  <2>4. CASE raw.size <= MaxMsgSize
    <3>1. received = FromRaw(raw)
      BY <2>1, <2>2, <2>4, SizeAssumption DEF WireInv
    <3> QED BY <2>1, <2>4, <3>1, FromRawFacts
  <2> QED BY <2>2, <2>3, <2>4, SizeAssumption
<1> QED BY <1>1, WireInvariance, PTL

\* read_peer_stream severs the connection (communicate.rs:162) for no message that is
\* within the limit of the receiver, whatever the limits are.
THEOREM ErrorMeansTooLong == Spec => []ErrorOnlyIfTooLong
<1>1. WireInv => ErrorOnlyIfTooLong
  <2> SUFFICES ASSUME WireInv, received # None
               PROVE  received.kind = "error" <=> raw.size > MaxMsgSize
    BY DEF ErrorOnlyIfTooLong
  <2>1. sent \in Sendable /\ sent # None /\ raw = IntoBytes(sent)
    BY DEF WireInv
  <2>2. FromRaw(raw).kind # "error"
    BY <2>1, FromRawFacts
  <2> QED BY <2>2 DEF WireInv
<1> QED BY <1>1, WireInvariance, PTL
=============================================================================
