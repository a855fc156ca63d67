------------------------------- MODULE WsRecv -------------------------------
(***************************************************************************)
(* Reading WebSocket messages: ws_recvmsg() puts the fragments of a        *)
(* message together in the caller's buffer, while ws_recv_frame() below it *)
(* answers the control frames a server may send between two fragments,     *)
(* using the free end of the same buffer for their payload.                *)
(*                                                                         *)
(* The stream of frames is the server's choice, well formed or not; one    *)
(* frame is read in one step.  The bytes of a message are the numbers      *)
(* 1, 2, ... in the order the server sent them, so what the buffer holds   *)
(* tells what was delivered.                                               *)
(***************************************************************************)
EXTENDS Integers, Sequences

CONSTANTS
    Total,          \* size of the caller's buffer
    MaxControl,     \* the longest payload of a control frame (125)
    MaxPayload      \* bound: the longest payload of a frame

\* The buffer of ndt7_download() holds 2^24 bytes.
ASSUME ConstantsAssumption ==
    /\ {Total, MaxControl, MaxPayload} \subseteq Nat \ {0}
    /\ MaxControl <= Total /\ MaxControl <= MaxPayload

Control == {"close", "ping", "pong"}
DataOps == {"text", "binary"}
Opcodes == Control \cup DataOps \cup {"continue"}

\* `valid` is FALSE for reserved bits, an unknown opcode, a masked frame, a
\* length with the top bit set.  `shortest` is FALSE for a length written in
\* more bytes than it needs.
Headers == [op : Opcodes, fin : BOOLEAN, valid : BOOLEAN, shortest : BOOLEAN,
            len : 0..MaxPayload]

NoFrame == [op |-> "none"]
NoPayload == <<>>
Junk == 0                                   \* a byte masked in place
ControlPayload(n) == [k \in 1..n |-> -k]

VARIABLES
    wire,           \* the frame that is arriving
    open,           \* the server is in the middle of a message ...
    sent, sentOp,   \* ... of these bytes and this type
    lawful,         \* the server has kept to RFC6455 so far, but for the
                    \* form of the lengths of its data frames ...
    shortest,       \* ... and, if so, has written those in the shortest way
    pc,             \* which frame ws_recvmsg() waits for, or how it ended
    buf,            \* the caller's buffer, base[0..total-1]
    count, opcode,  \* *count and *opcode, of data frames only ...
    ret,            \* ... and what ws_recvmsg() returned: with an error its
                    \* callers look at neither these nor the buffer
    ping, pong      \* payload of the last PING received, of the last PONG sent

serverVars == <<open, sent, sentOp, lawful, shortest>>
msgVars == <<buf, count, opcode>>
vars == <<wire, serverVars, pc, msgVars, ret, ping, pong>>

Init ==
    /\ wire = NoFrame
    /\ open = FALSE /\ sent = <<>> /\ sentOp = "none"
    /\ lawful = TRUE /\ shortest = TRUE
    /\ pc = "first"
    /\ buf = [k \in 1..Total |-> Junk]
    /\ count = 0 /\ opcode = "none"
    /\ ret = "none"
    /\ ping = NoPayload /\ pong = NoPayload

-----------------------------------------------------------------------------
(* The server.                                                             *)

\* RFC6455 5.2, 5.4 and 5.5.  Of the form of a length only what goes for
\* control frames is here, whose length must be in the second byte.
Allowed(h) ==
    /\ h.valid
    /\ h.op \in Control => h.fin /\ h.len <= MaxControl /\ h.shortest
    /\ h.op \in DataOps => ~open
    /\ h.op = "continue" => open

ServerSends(h) ==
    /\ pc \in {"first", "more"}
    /\ wire = NoFrame
    /\ LET before == IF h.op = "continue" THEN sent ELSE <<>>
           bytes  == [k \in 1..h.len |-> Len(before) + k]
       IN  /\ wire' = [op |-> h.op, fin |-> h.fin, valid |-> h.valid,
                       shortest |-> h.shortest,
                       payload |-> IF h.op \in Control
                                     THEN ControlPayload(h.len) ELSE bytes]
           /\ lawful' = (lawful /\ Allowed(h))
           /\ shortest' = (lawful' => shortest /\ (h.op \in Control \/ h.shortest))
           /\ IF h.op \in Control
                THEN UNCHANGED <<open, sent, sentOp>>
                ELSE /\ open' = ~h.fin
                     /\ sent' = before \o bytes
                     /\ sentOp' = IF h.op \in DataOps THEN h.op ELSE sentOp
    /\ UNCHANGED <<pc, msgVars, ret, ping, pong>>

-----------------------------------------------------------------------------
(* ws_recv_any_frame(): header checks, then the payload into the buffer.   *)

Fails(err) ==
    /\ ret' = err
    /\ pc' = "failed"
    /\ wire' = NoFrame

\* For a control frame the length in the second byte is looked at, 126 or 127
\* if the length proper is behind it.  How the length of a data frame is
\* written is not looked at.
Rejected ==
    \/ ~wire.valid
    \/ /\ wire.op \in Control
       /\ ~wire.fin \/ ~wire.shortest \/ Len(wire.payload) > MaxControl

\* A masked frame is an invalid_argument, and looked for before the length.
Rejection == {"ws_proto"} \cup IF wire.valid THEN {} ELSE {"invalid_argument"}

BufferTooSmall_IgnoresCount == Len(wire.payload) > Total

\* base + *count, total - *count
BufferTooSmall == Len(wire.payload) > Total - count

Write(at, bytes) ==
    [k \in 1..(IF at + Len(bytes) > Total THEN at + Len(bytes) ELSE Total) |->
       IF k \in at + 1..at + Len(bytes) THEN bytes[k - at] ELSE buf[k]]

Arrived(ops) ==
    /\ pc \in {"first", "more"}
    /\ wire # NoFrame
    /\ wire.op \in ops
    /\ ~Rejected
    /\ ~BufferTooSmall

RecvInvalid ==
    /\ pc \in {"first", "more"}
    /\ wire # NoFrame
    /\ \/ Rejected /\ \E err \in Rejection : Fails(err)
       \/ ~Rejected /\ BufferTooSmall /\ Fails("message_size")
    /\ UNCHANGED <<serverVars, msgVars, ping, pong>>

RecvError_NoTimeout ==
    /\ pc \in {"first", "more"}
    /\ wire # NoFrame
    /\ \E err \in {"eof", "io_error"} : Fails(err)
    /\ UNCHANGED <<serverVars, msgVars, ping, pong>>

\* netx_recvn() fails for the header, the length or the body, or because
\* nothing came in time.
RecvError ==
    /\ pc \in {"first", "more"}
    /\ \E err \in {"eof", "io_error"} : Fails(err)
    /\ UNCHANGED <<serverVars, msgVars, ping, pong>>

-----------------------------------------------------------------------------
(* ws_recv_frame(): control frames.                                        *)

\* Answered with a CLOSE, whether that can be sent or not.
RecvClose ==
    /\ Arrived({"close"})
    /\ Fails("eof")
    /\ UNCHANGED <<serverVars, msgVars, ping, pong>>

RecvPong ==
    /\ Arrived({"pong"})
    /\ buf' = Write(count, wire.payload)
    /\ wire' = NoFrame
    /\ UNCHANGED <<serverVars, pc, count, opcode, ret, ping, pong>>

RecvPing ==
    /\ Arrived({"ping"})
    /\ buf' = Write(count, wire.payload)
    /\ ping' = wire.payload
    /\ pc' = IF pc = "first" THEN "first_pong" ELSE "more_pong"
    /\ UNCHANGED <<wire, serverVars, count, opcode, ret, pong>>

SendPong_FromBase ==
    /\ pc \in {"first_pong", "more_pong"}
    /\ pong' = SubSeq(buf, 1, Len(wire.payload))
    /\ buf' = Write(count, [k \in 1..Len(wire.payload) |-> Junk])
    /\ \/ /\ pc' = IF pc = "first_pong" THEN "first" ELSE "more"
          /\ wire' = NoFrame
          /\ UNCHANGED ret
       \/ Fails("io_error")
    /\ UNCHANGED <<serverVars, count, opcode, ping>>

\* ws_send_frame() masks the payload where it stands and sends it.
SendPong ==
    /\ pc \in {"first_pong", "more_pong"}
    /\ pong' = SubSeq(buf, count + 1, count + Len(wire.payload))
    /\ buf' = Write(count, [k \in 1..Len(wire.payload) |-> Junk])
    /\ \/ /\ pc' = IF pc = "first_pong" THEN "first" ELSE "more"
          /\ wire' = NoFrame
          /\ UNCHANGED ret
       \/ Fails("io_error")
    /\ UNCHANGED <<serverVars, count, opcode, ping>>

-----------------------------------------------------------------------------
(* ws_recvmsg().                                                           *)

\* A fragment has been counted: the message is complete, or there is room
\* left for another fragment, or the buffer is full.
AfterFragment ==
    IF wire.fin
      THEN pc' = "returned" /\ ret' = "none" /\ wire' = NoFrame
      ELSE IF count' < Total
             THEN pc' = "more" /\ wire' = NoFrame /\ UNCHANGED ret
             ELSE Fails("message_size")

RecvFirst ==
    /\ pc = "first"
    /\ Arrived(DataOps)
    /\ buf' = Write(0, wire.payload)
    /\ count' = Len(wire.payload)
    /\ opcode' = wire.op
    /\ AfterFragment
    /\ UNCHANGED <<serverVars, ping, pong>>

RecvMore_AtBase ==
    /\ pc = "more"
    /\ Arrived({"continue"})
    /\ buf' = Write(0, wire.payload)
    /\ count' = count + Len(wire.payload)
    /\ AfterFragment
    /\ UNCHANGED <<serverVars, opcode, ping, pong>>

RecvMore_AnyOpcode ==
    /\ pc = "more"
    /\ Arrived(DataOps \cup {"continue"})
    /\ buf' = Write(count, wire.payload)
    /\ count' = count + Len(wire.payload)
    /\ AfterFragment
    /\ UNCHANGED <<serverVars, opcode, ping, pong>>

RecvMore ==
    /\ pc = "more"
    /\ Arrived({"continue"})
    /\ buf' = Write(count, wire.payload)
    /\ count' = count + Len(wire.payload)
    /\ AfterFragment
    /\ UNCHANGED <<serverVars, opcode, ping, pong>>

\* A continuation with nothing to continue, or a new message inside another.
RecvUnexpected ==
    /\ Arrived(IF pc = "first" THEN {"continue"} ELSE DataOps)
    /\ Fails("ws_proto")
    /\ UNCHANGED <<serverVars, msgVars, ping, pong>>

\* The caller has used the message and asks for the next one.
Recvmsg ==
    /\ pc = "returned"
    /\ pc' = "first"
    /\ count' = 0 /\ opcode' = "none"
    /\ UNCHANGED <<wire, serverVars, buf, ret, ping, pong>>

RecvStep ==
    \/ RecvInvalid
    \/ RecvError
    \/ RecvClose
    \/ RecvPong
    \/ RecvPing
    \/ SendPong
    \/ RecvFirst
    \/ RecvMore
    \/ RecvUnexpected

Next ==
    \/ \E h \in Headers : ServerSends(h)
    \/ RecvStep
    \/ Recvmsg

\* The client's thread runs, and a read ends at the latest by its timeout;
\* nothing is assumed of the server.
Spec == Init /\ [][Next]_vars /\ WF_vars(RecvStep)

-----------------------------------------------------------------------------
(* Properties.                                                             *)

\* Types; and nothing is ever written outside the caller's buffer.
TypeOK ==
    /\ pc \in {"first", "first_pong", "more", "more_pong", "returned", "failed"}
    /\ buf \in Seq(Int) /\ Len(buf) = Total
    /\ count \in 0..Total
    /\ opcode \in DataOps \cup {"none"}
    /\ ret \in {"none", "eof", "io_error", "ws_proto", "invalid_argument",
               "message_size"}
    /\ {open, lawful, shortest} \subseteq BOOLEAN

\* A message that ws_recvmsg() returns is the one the server sent: all its
\* bytes in order, of its type, and complete, whatever control frames came in
\* between and used the buffer.
MessageIntact ==
    pc = "returned" =>
      /\ ~open
      /\ SubSeq(buf, 1, count) = sent
      /\ opcode = sentOp

\* The PONG carries the payload of the PING it answers (RFC6455 5.5.3),
\* wherever in the buffer that was.
PongEchoesPing == pc \in {"first", "more", "returned"} => pong = ping

\* The server has sent no frame that the RFC forbids; what the payload means,
\* such as the UTF-8 of a text, is not part of this.
KeepsRfc == lawful /\ shortest

\* A server that keeps to the RFC is never accused of a protocol error.
ConformantAccepted == KeepsRfc => ret \notin {"ws_proto", "invalid_argument"}

\* Behind a frame that the RFC forbids nothing is delivered, nor in it: except
\* that the length of a data frame may be written in more bytes than it needs,
\* which RFC6455 5.2 forbids and ws_recv_any_frame() lets pass.
DeviantNotDelivered == pc = "returned" => KeepsRfc \/ (lawful /\ ~shortest)

\* Both ways round: what the RFC allows is taken, and what it forbids is not,
\* with that one exception.
FollowsRfc == ConformantAccepted /\ DeviantNotDelivered

\* Frames that bring ws_recvmsg() no nearer to the end of the message or of
\* the buffer.
Idle(h) == h.op \in Control \/ (h.len = 0 /\ ~h.fin)

\* ws_recvmsg() returns, or fails, unless the server sends such frames for
\* ever; in particular a message without end is stopped by the buffer.
RecvmsgEnds ==
    <>[][\A h \in Headers : Idle(h) => ~ServerSends(h)]_vars
      => (pc = "first" ~> pc \in {"returned", "failed"})

=============================================================================
