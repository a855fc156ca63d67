------------------------------ MODULE WsFrame -------------------------------
(***************************************************************************)
(* One WebSocket frame on the wire: ws_prepare_frame() and ws_send_frame() *)
(* for those the client sends, ws_recv_any_frame() for those it receives,  *)
(* with the three encodings of the length, the mask, and a connection that *)
(* may end at any byte.  WsRecv takes over from here, a frame at a time.   *)
(*                                                                         *)
(* The sizes are parameters: a length digit has Base values (256), lengths *)
(* from Inline (126) on take two digits, and from the square of Base on    *)
(* eight.  The flags of the two header bytes are the fields of a record.   *)
(* A payload byte is a bit, since the mask acts on each bit of a byte      *)
(* alone.                                                                  *)
(***************************************************************************)
EXTENDS Integers, Sequences

CONSTANTS
    Base,           \* values of a length digit (256)
    Inline,         \* the code for two digits (126); Inline + 1 for eight
    Total,          \* size of the receive buffer
    Lengths,        \* bound: the payload lengths tried
    Masks           \* bound: the masks tried

\* Eight digits of which the first leaves the top bit alone (2^63).
LengthLimit ==
    (Base \div 2) * Base * Base * Base * Base * Base * Base * Base

ASSUME ConstantsAssumption ==
    /\ {Base, Inline, Total} \subseteq Nat \ {0}
    /\ Base % 2 = 0 /\ Inline < Base * Base
    /\ Lengths \subseteq 0..(LengthLimit - 1)
    /\ Masks \subseteq [1..4 -> {0, 1}]

Control == {"close", "ping", "pong"}
Opcodes == Control \cup {"text", "binary", "continue"}

VARIABLES
    pc,
    wire,           \* bytes that have arrived and were not read
    meant,          \* history: the frame, as its sender means it
    fin, opcode,    \* *fin and *opcode of ws_recv_any_frame()
    length,         \* its local `length`
    buf,            \* the caller's buffer up to *count
    ret,            \* what the call returned
    out             \* bytes that went to the server

recvVars == <<fin, opcode, length, buf>>
vars == <<pc, wire, meant, recvVars, ret, out>>

NoFrame == [op |-> "none"]

Init ==
    /\ pc = "idle"
    /\ wire = <<>> /\ out = <<>>
    /\ meant = NoFrame
    /\ fin = FALSE /\ opcode = "none" /\ length = 0 /\ buf = <<>>
    /\ ret = "none"

-----------------------------------------------------------------------------
(* The length, as digits.                                                  *)

\* count >> 8
Shr(n) == n \div Base

\* The digits (count >> 8 * k) & 0xff, the most significant one first.
Digits2(n) == <<Shr(n) % Base, n % Base>>

Digits8(n) ==
    LET n1 == Shr(n)
        n2 == Shr(n1)
        n3 == Shr(n2)
        n4 == Shr(n3)
        n5 == Shr(n4)
        n6 == Shr(n5)
        n7 == Shr(n6)
    IN  <<n7 % Base, n6 % Base, n5 % Base, n4 % Base,
          n3 % Base, n2 % Base, n1 % Base, n % Base>>

\* The sum of the digits, each shifted to its place.
Value2(d) == d[1] * Base + d[2]

Value8(d) ==
    LET b2 == Base * Base
        b3 == Base * b2
        b4 == Base * b3
        b5 == Base * b4
        b6 == Base * b5
        b7 == Base * b6
    IN  d[1] * b7 + d[2] * b6 + d[3] * b5 + d[4] * b4
          + d[5] * b3 + d[6] * b2 + d[7] * Base + d[8]

LengthBytes_ShortTooLong(n) ==
    IF n < Inline THEN <<[mask |-> TRUE, len |-> n]>>
    ELSE IF n <= Base * Base
      THEN <<[mask |-> TRUE, len |-> Inline]>> \o Digits2(n)
    ELSE <<[mask |-> TRUE, len |-> Inline + 1]>> \o Digits8(n)

LengthBytes(n) ==
    IF n < Inline THEN <<[mask |-> TRUE, len |-> n]>>
    ELSE IF n < Base * Base
      THEN <<[mask |-> TRUE, len |-> Inline]>> \o Digits2(n)
    ELSE <<[mask |-> TRUE, len |-> Inline + 1]>> \o Digits8(n)

-----------------------------------------------------------------------------
(* ws_prepare_frame() and ws_send_frame().                                 *)

\* base[i] ^ mask[i % mask_size]
Masked(payload, mask) ==
    [i \in 1..Len(payload) |-> (payload[i] + mask[((i - 1) % 4) + 1]) % 2]

PrepareFrame(first, payload, mask) ==
    <<first>> \o LengthBytes(Len(payload)) \o mask \o Masked(payload, mask)

\* Payloads of n bytes with one bit set, or none.
Payloads(n) == {[k \in 1..n |-> IF k = j THEN 1 ELSE 0] : j \in 0..n}

\* netx_sendn() sends it all, or fails behind any number of bytes.
SendFrame ==
    /\ pc = "idle"
    /\ \E op \in Opcodes, f \in BOOLEAN, n \in Lengths, mask \in Masks :
         \E payload \in Payloads(n) :
           LET bytes == PrepareFrame([fin |-> f, rsv |-> FALSE, op |-> op],
                                     payload, mask)
           IN  /\ meant' = [op |-> op, fin |-> f, payload |-> payload]
               /\ \/ out' = bytes /\ pc' = "sent" /\ UNCHANGED ret
                  \/ /\ \E k \in 0..Len(bytes) - 1 : out' = SubSeq(bytes, 1, k)
                     /\ pc' = "failed" /\ ret' = "io_error"
    /\ UNCHANGED <<wire, recvVars>>

-----------------------------------------------------------------------------
(* The server.                                                             *)

\* How it may write a length: not only the shortest way.  The last form has
\* the top bit set, which the RFC forbids.
ServerLengths(n, m) ==
    (IF n < Inline THEN {<<[mask |-> m, len |-> n]>>} ELSE {})
    \cup (IF n < Base * Base
            THEN {<<[mask |-> m, len |-> Inline]>> \o Digits2(n)} ELSE {})
    \cup {<<[mask |-> m, len |-> Inline + 1]>> \o Digits8(n),
          <<[mask |-> m, len |-> Inline + 1]>>
            \o [Digits8(n) EXCEPT ![1] = @ + Base \div 2]}

\* A frame, right or wrong, of which the connection may carry only a part.
\* Payload bytes are numbered here: they are not masked.
ServerSends ==
    /\ pc = "idle"
    /\ \E op \in Opcodes \cup {"unknown"}, f, rsv, m \in BOOLEAN, n \in Lengths :
         \E size \in ServerLengths(n, m) :
           LET first == [fin |-> f, rsv |-> rsv, op |-> op]
               bytes == <<first>> \o size \o [k \in 1..n |-> k]
           IN  \E k \in 0..Len(bytes) :
                 /\ wire' = SubSeq(bytes, 1, k)
                 /\ meant' = [op |-> op, fin |-> f, rsv |-> rsv, mask |-> m,
                              payload |-> [j \in 1..n |-> j], code |-> size[1].len,
                              top |-> Len(size) = 9 /\ size[2] >= Base \div 2,
                              whole |-> k = Len(bytes)]
    /\ pc' = "header"
    /\ UNCHANGED <<recvVars, ret, out>>

-----------------------------------------------------------------------------
(* ws_recv_any_frame().                                                    *)

Fails(err) ==
    /\ ret' = err
    /\ pc' = "failed"
    /\ UNCHANGED <<length, buf>>

\* netx_recvn() for n bytes.
Recvn(n) ==
    /\ Len(wire) >= n
    /\ wire' = SubSeq(wire, n + 1, Len(wire))

RecvnFails ==
    /\ \/ pc = "header" /\ Len(wire) < 2
       \/ pc = "len16" /\ Len(wire) < 2
       \/ pc = "len64" /\ Len(wire) < 8
       \/ pc = "body" /\ Len(wire) < length
    /\ wire' = <<>>
    /\ Fails("eof")
    /\ UNCHANGED <<meant, fin, opcode, out>>

\* The length is known.
Sized_Unchecked(n) ==
    /\ length' = n
    /\ pc' = IF n > 0 THEN "body" ELSE "got"
    /\ UNCHANGED <<buf, ret>>

Sized(n) ==
    IF n > Total
      THEN Fails("message_size")
      ELSE /\ length' = n
           /\ pc' = IF n > 0 THEN "body" ELSE "got"
           /\ UNCHANGED <<buf, ret>>

ControlTooLong_OffByOne(op, f, code) ==
    op \in Control /\ (code >= Inline - 1 \/ ~f)

\* length > 125 || *fin == false
ControlTooLong(op, f, code) == op \in Control /\ (code >= Inline \/ ~f)

RecvHeader ==
    /\ pc = "header"
    /\ Recvn(2)
    /\ LET first == wire[1]
           second == wire[2]
       IN  /\ fin' = first.fin
           /\ opcode' = IF first.rsv THEN "none" ELSE first.op
           /\ IF first.rsv \/ first.op \notin Opcodes THEN Fails("ws_proto")
              ELSE IF second.mask THEN Fails("invalid_argument")
              ELSE IF ControlTooLong(first.op, first.fin, second.len)
                THEN Fails("ws_proto")
              ELSE IF second.len < Inline THEN Sized(second.len)
              ELSE /\ length' = second.len
                   /\ pc' = IF second.len = Inline THEN "len16" ELSE "len64"
                   /\ UNCHANGED <<buf, ret>>
    /\ UNCHANGED <<meant, out>>

RecvLen16 ==
    /\ pc = "len16"
    /\ Recvn(2)
    /\ Sized(Value2(wire))
    /\ UNCHANGED <<meant, fin, opcode, out>>

RecvLen64_TopBitDropped ==
    /\ pc = "len64"
    /\ Recvn(8)
    /\ Sized(Value8([wire EXCEPT ![1] = @ % (Base \div 2)]))
    /\ UNCHANGED <<meant, fin, opcode, out>>

\* (len_buf[0] & 0x80) != 0
RecvLen64 ==
    /\ pc = "len64"
    /\ Recvn(8)
    /\ IF wire[1] >= Base \div 2
         THEN Fails("ws_proto")
         ELSE Sized(Value8(wire))
    /\ UNCHANGED <<meant, fin, opcode, out>>

RecvBody ==
    /\ pc = "body"
    /\ Recvn(length)
    /\ buf' = SubSeq(wire, 1, length)
    /\ pc' = "got"
    /\ UNCHANGED <<meant, fin, opcode, length, ret, out>>

Next ==
    \/ SendFrame
    \/ ServerSends
    \/ RecvnFails
    \/ RecvHeader
    \/ RecvLen16
    \/ RecvLen64
    \/ RecvBody

Spec == Init /\ [][Next]_vars

-----------------------------------------------------------------------------
(* What RFC6455 makes of bytes that come from a client.                    *)

Incomplete == [op |-> "incomplete"]
Bad == [op |-> "bad"]

\* A number with one more digit behind it.
Then(n, digit) == n * Base + digit

\* The number written with eight digits.
Number8(d) ==
    Then(Then(Then(Then(Then(Then(Then(
      d[1], d[2]), d[3]), d[4]), d[5]), d[6]), d[7]), d[8])

\* How many digits the code announces, the length, and whether that is the
\* shortest way to write it.
Width(code) ==
    IF code = Inline THEN 2 ELSE IF code = Inline + 1 THEN 8 ELSE 0

RfcLength(bytes) ==
    LET code == bytes[2].len
    IN  IF Width(code) = 0 THEN code
        ELSE IF Width(code) = 2 THEN Then(bytes[3], bytes[4])
        ELSE Number8([k \in 1..8 |-> bytes[2 + k]])

Shortest(code, n) ==
    IF Width(code) = 0 THEN TRUE
    ELSE IF Width(code) = 2 THEN n >= Inline
    ELSE n >= Base * Base

\* The frame that starts and ends with these bytes; masked, and its length
\* written in the shortest way.
RfcFrame(bytes) ==
    LET code == bytes[2].len
        start == 2 + Width(code)
        n == RfcLength(bytes)
        key(k) == bytes[start + 1 + ((k - 1) % 4)]
    IN  IF Len(bytes) < 2 THEN Incomplete
        ELSE IF ~bytes[2].mask THEN Bad
        ELSE IF Len(bytes) < start THEN Incomplete
        ELSE IF ~Shortest(code, n) THEN Bad
        ELSE IF Len(bytes) < start + 4 + n THEN Incomplete
        ELSE IF Len(bytes) > start + 4 + n THEN Bad
        ELSE [op |-> bytes[1].op, fin |-> bytes[1].fin,
              payload |-> [k \in 1..n |-> (bytes[start + 4 + k] + key(k)) % 2]]

\* Why a server's frame must be refused.
Deviant ==
    \/ meant.rsv \/ meant.op \notin Opcodes \/ meant.mask \/ meant.top
    \/ meant.op \in Control /\ (~meant.fin \/ meant.code >= Inline)

-----------------------------------------------------------------------------
(* Properties.                                                             *)

\* Types; and nothing is written outside the receive buffer.
TypeOK ==
    /\ pc \in {"idle", "header", "len16", "len64", "body", "got", "failed", "sent"}
    /\ fin \in BOOLEAN
    /\ opcode \in Opcodes \cup {"none", "unknown"}
    /\ length \in Nat
    /\ pc = "body" => length \in 1..Total
    /\ Len(buf) <= Total
    /\ ret \in {"none", "eof", "io_error", "ws_proto", "invalid_argument",
               "message_size"}

\* The server sees in the bytes of ws_send_frame() just the frame that was
\* meant, with the payload as it was before the buffer was masked in place; and
\* of a transfer that broke off it sees no frame at all.
ServerSeesFrame ==
    /\ pc = "sent" => RfcFrame(out) = meant
    /\ pc = "failed" /\ ret = "io_error" => RfcFrame(out) = Incomplete

\* A frame is handed up only if the server sent just that one, with whatever
\* encoding of its length, and all of it has arrived; nothing behind it or of
\* it is left to be taken for the next header.
FrameAsSent ==
    pc = "got" =>
      /\ meant.whole /\ wire = <<>>
      /\ fin = meant.fin /\ opcode = meant.op
      /\ buf = meant.payload
      /\ ~Deviant

\* A frame is refused for a reason: a protocol error for what the RFC forbids,
\* its size only if the payload does not fit, the end of the stream only if
\* the frame was cut.
RefusedForReason ==
    /\ ret \in {"ws_proto", "invalid_argument"} => Deviant
    /\ ret = "message_size" => Len(meant.payload) > Total
    /\ ret = "eof" => ~meant.whole

=============================================================================
