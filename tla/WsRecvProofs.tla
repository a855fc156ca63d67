---------------------------- MODULE WsRecvProofs ----------------------------
(* Proofs about WsRecv, for every size of the buffer and of the payloads.   *)
EXTENDS WsRecv, TLAPS

-----------------------------------------------------------------------------
(* Sequences and frames.                                                    *)

\* A function on 1..n is a sequence of length n.
LEMMA FunctionAsSeq ==
  ASSUME NEW n \in Nat, NEW f \in [1..n -> Int]
  PROVE  f \in Seq(Int) /\ Len(f) = n
  OBVIOUS

LEMMA SubSeqElements ==
  ASSUME NEW s \in Seq(Int), NEW m \in Nat, NEW n \in Nat, m + n <= Len(s)
  PROVE  /\ SubSeq(s, m + 1, m + n) \in Seq(Int)
         /\ Len(SubSeq(s, m + 1, m + n)) = n
         /\ \A k \in 1..n : SubSeq(s, m + 1, m + n)[k] = s[m + k]
  OBVIOUS

LEMMA ConcatElements ==
  ASSUME NEW s \in Seq(Int), NEW t \in Seq(Int)
  PROVE  /\ s \o t \in Seq(Int)
         /\ Len(s \o t) = Len(s) + Len(t)
         /\ \A k \in 1..Len(s) : (s \o t)[k] = s[k]
         /\ \A k \in 1..Len(t) : (s \o t)[Len(s) + k] = t[k]
  OBVIOUS

\* Sequences of the same elements are the same.
LEMMA SameElements ==
  ASSUME NEW s \in Seq(Int), NEW t \in Seq(Int), Len(s) = Len(t),
         \A k \in 1..Len(s) : s[k] = t[k]
  PROVE  s = t
  OBVIOUS

Frames == [op : Opcodes, fin : BOOLEAN, valid : BOOLEAN, shortest : BOOLEAN,
           payload : Seq(Int)]

LEMMA FrameIsThere == \A frame \in Frames : frame # NoFrame
  BY DEF Frames, Opcodes, Control, DataOps, NoFrame

-----------------------------------------------------------------------------
(* The inductive invariant.                                                 *)

\* ws_recvmsg() is reading, or is behind the first fragment.
Active == pc \in {"first", "first_pong", "more", "more_pong"}
Inside == pc \in {"more", "more_pong"}
Answering == pc \in {"first_pong", "more_pong"}

DataTypes ==
    /\ wire = NoFrame \/ wire \in Frames
    /\ pc \in {"first", "first_pong", "more", "more_pong", "returned", "failed"}
    /\ buf \in [1..Total -> Int]
    /\ count \in Nat /\ count <= Total
    /\ opcode \in DataOps \cup {"none"}
    /\ ret \in {"none", "eof", "io_error", "ws_proto", "invalid_argument",
               "message_size"}
    /\ open \in BOOLEAN /\ lawful \in BOOLEAN /\ shortest \in BOOLEAN
    /\ sent \in Seq(Int) /\ ping \in Seq(Int) /\ pong \in Seq(Int)

\* No frame that is still to be looked at is between what the server has sent
\* of the message and what was received of it.
Settled == wire = NoFrame \/ wire.op \in Control

\* The server's history and the place where ws_recvmsg() is agree, up to the
\* frame that is arriving; and that frame decides whether the server conforms.
FrameInv ==
    /\ Active /\ Settled => (open <=> Inside)
    /\ Active /\ ~Settled => (open <=> ~wire.fin)
    /\ Active /\ wire = NoFrame => lawful
    /\ Active /\ wire # NoFrame =>
         (lawful <=> /\ ~Rejected
                     /\ wire.op \in DataOps => ~Inside
                     /\ wire.op = "continue" => Inside)
    /\ Answering => wire # NoFrame /\ wire.op = "ping" /\ ~Rejected
    /\ pc = "returned" => wire = NoFrame /\ lawful /\ ~open
    /\ pc # "failed" => ret = "none"

\* The bytes received are the first ones of those sent, and the rest is the
\* payload that is arriving.
BytesInv ==
    /\ \A k \in 1..Len(sent) : sent[k] = k
    /\ Inside \/ pc = "returned" => \A k \in 1..count : buf[k] = k
    /\ (Inside /\ Settled) \/ pc = "returned" =>
         count = Len(sent) /\ opcode = sentOp
    /\ Inside /\ wire # NoFrame /\ wire.op = "continue" =>
         /\ Len(sent) = count + Len(wire.payload)
         /\ \A k \in 1..Len(wire.payload) : wire.payload[k] = count + k
         /\ opcode = sentOp
    /\ Active /\ wire # NoFrame /\ wire.op \in DataOps =>
         /\ Len(sent) = Len(wire.payload)
         /\ \A k \in 1..Len(wire.payload) : wire.payload[k] = k
         /\ sentOp = wire.op

\* Until the PONG is sent, the payload of the PING stands behind the message.
PongInv ==
    /\ Answering =>
         /\ ping = wire.payload
         /\ count + Len(wire.payload) <= Total
         /\ \A k \in 1..Len(wire.payload) : buf[count + k] = wire.payload[k]
    /\ PongEchoesPing

\* Nobody is accused for more than ws_recvmsg() looks at.
LawfulAccepted == lawful => ret \notin {"ws_proto", "invalid_argument"}

IInv == DataTypes /\ FrameInv /\ BytesInv /\ PongInv /\ LawfulAccepted

-----------------------------------------------------------------------------
(* The server's step.                                                       *)

\* Any frame may come, and the history tells whether the RFC allows it.
LEMMA ServerKeeps ==
  ASSUME IInv, NEW h \in Headers, ServerSends(h)
  PROVE  IInv'
<1> DEFINE before == IF h.op = "continue" THEN sent ELSE <<>>
           bytes  == [k \in 1..h.len |-> Len(before) + k]
           payload == IF h.op \in Control THEN ControlPayload(h.len) ELSE bytes
<1>1. /\ pc \in {"first", "more"} /\ wire = NoFrame
      /\ wire' = [op |-> h.op, fin |-> h.fin, valid |-> h.valid,
                shortest |-> h.shortest, payload |-> payload]
      /\ lawful' = (lawful /\ Allowed(h))
      /\ shortest' \in BOOLEAN
      /\ UNCHANGED <<pc, buf, count, opcode, ret, ping, pong>>
  BY DEF ServerSends, msgVars
<1>2. /\ h.op \in Control => UNCHANGED <<open, sent, sentOp>>
      /\ h.op \notin Control =>
           /\ open' = ~h.fin
           /\ sent' = before \o bytes
           /\ sentOp' = IF h.op \in DataOps THEN h.op ELSE sentOp
  BY DEF ServerSends
<1>3. /\ h.op \in Opcodes /\ h.fin \in BOOLEAN /\ h.valid \in BOOLEAN
      /\ h.shortest \in BOOLEAN /\ h.len \in Nat
  BY ConstantsAssumption DEF Headers
<1>4. before \in Seq(Int) /\ Len(before) \in Nat
  BY DEF IInv, DataTypes
<1>5. /\ bytes \in Seq(Int) /\ Len(bytes) = h.len
      /\ \A k \in 1..h.len : bytes[k] = Len(before) + k
  <2>1. bytes \in [1..h.len -> Int]
    BY <1>3, <1>4
  <2> QED
    BY <1>3, <2>1, FunctionAsSeq
<1>6. ControlPayload(h.len) \in Seq(Int) /\ Len(ControlPayload(h.len)) = h.len
  <2>1. ControlPayload(h.len) \in [1..h.len -> Int]
    BY <1>3 DEF ControlPayload
  <2> QED
    BY <1>3, <2>1, FunctionAsSeq
<1>7. payload \in Seq(Int) /\ Len(payload) = h.len
      /\ (h.op \notin Control => payload = bytes)
  BY <1>5, <1>6
<1> HIDE DEF bytes, payload
<1>8. /\ before \o bytes \in Seq(Int)
      /\ Len(before \o bytes) = Len(before) + h.len
      /\ \A k \in 1..Len(before) : (before \o bytes)[k] = before[k]
      /\ \A k \in 1..h.len : (before \o bytes)[Len(before) + k] = bytes[k]
  <2>1. before \in Seq(Int) /\ bytes \in Seq(Int)
    BY <1>4, <1>5
  <2> HIDE DEF before
  <2>2. /\ before \o bytes \in Seq(Int)
        /\ Len(before \o bytes) = Len(before) + Len(bytes)
        /\ \A k \in 1..Len(before) : (before \o bytes)[k] = before[k]
        /\ \A k \in 1..Len(bytes) : (before \o bytes)[Len(before) + k] = bytes[k]
    BY <2>1, ConcatElements
  <2> QED
    BY <2>2, <1>5
<1>9. wire' \in Frames /\ wire' # NoFrame
  <2>1. wire' \in Frames
    BY <1>1, <1>3, <1>7 DEF Frames
  <2> QED
    BY <2>1, FrameIsThere
<1>10. /\ wire'.op = h.op /\ wire'.fin = h.fin /\ wire'.valid = h.valid
       /\ wire'.shortest = h.shortest /\ wire'.payload = payload
  BY <1>1
<1>11. /\ lawful \in BOOLEAN /\ open \in BOOLEAN
       /\ lawful /\ (open <=> pc = "more") /\ ret = "none"
  <2>1. Active /\ Settled /\ pc # "failed" /\ (Inside <=> pc = "more")
    BY <1>1 DEF Active, Settled, Inside
  <2>2. lawful \in BOOLEAN /\ open \in BOOLEAN
    BY DEF IInv, DataTypes
  <2>3. lawful /\ (open <=> Inside) /\ ret = "none"
    BY <1>1, <2>1 DEF IInv, FrameInv
  <2> QED
    BY <2>1, <2>2, <2>3
<1>12. h.op \in Control \/ h.op \in DataOps \/ h.op = "continue"
  BY <1>3 DEF Opcodes
<1>13. DataTypes'
  <2>1. sent' \in Seq(Int)
    BY <1>2, <1>8 DEF IInv, DataTypes
  <2>2. open' \in BOOLEAN /\ lawful' \in BOOLEAN
    BY <1>1, <1>2, <1>3, <1>11
  <2> QED
    BY <1>1, <1>9, <2>1, <2>2 DEF IInv, DataTypes
<1>14. FrameInv'
  <2>1. Allowed(h) <=> /\ ~Rejected'
                       /\ h.op \in DataOps => ~(pc = "more")
                       /\ h.op = "continue" => pc = "more"
    <3>1. Len(wire'.payload) = h.len
      BY <1>7, <1>10
    <3>2. Rejected' <=> \/ ~h.valid
                        \/ h.op \in Control /\ (~h.fin \/ h.len > MaxControl \/ ~h.shortest)
      BY <1>10, <3>1 DEF Rejected
    <3>3. ~(h.len > MaxControl) <=> h.len <= MaxControl
      BY <1>3, ConstantsAssumption
    <3> QED
      BY <3>2, <3>3, <1>11 DEF Allowed
  <2>2. (Active /\ Settled => (open <=> Inside))'
    BY <1>1, <1>2, <1>9, <1>10, <1>11 DEF Active, Settled, Inside
  <2>3. (Active /\ ~Settled => (open <=> ~wire.fin))'
    BY <1>2, <1>9, <1>10 DEF Settled
  <2>4. (Active /\ wire # NoFrame =>
           (lawful <=> /\ ~Rejected
                       /\ wire.op \in DataOps => ~Inside
                       /\ wire.op = "continue" => Inside))'
    <3>1. (Inside)' <=> pc = "more"
      BY <1>1 DEF Inside
    <3>2. lawful' <=> Allowed(h)
      BY <1>1, <1>11
    <3> QED
      BY <2>1, <3>1, <3>2, <1>10
  <2> QED
    BY <1>1, <1>9, <1>11, <2>2, <2>3, <2>4 DEF FrameInv, Active, Answering
<1>15. BytesInv'
  <2>0. /\ \A k \in 1..Len(sent) : sent[k] = k
        /\ Inside => /\ \A k \in 1..count : buf[k] = k
                     /\ count = Len(sent) /\ opcode = sentOp
    BY <1>1 DEF IInv, BytesInv, Settled
  <2>1. ASSUME NEW k \in 1..Len(sent')
        PROVE  sent'[k] = k
    <3>1. CASE h.op \in Control
      BY <1>2, <2>0, <3>1
    <3>2. CASE h.op \notin Control /\ k <= Len(before)
      <4>1. k \in 1..Len(before) /\ before[k] = k
        BY <2>0, <3>2, <1>4
      <4> QED
        BY <1>2, <1>8, <3>2, <4>1
    <3>3. CASE h.op \notin Control /\ ~(k <= Len(before))
      <4> HIDE DEF before
      <4>1. Len(sent') = Len(before) + h.len /\ sent' = before \o bytes
        BY <1>2, <1>8, <3>3
      <4>2. k - Len(before) \in 1..h.len
        BY <1>3, <1>4, <3>3, <4>1
      <4>3. (before \o bytes)[Len(before) + (k - Len(before))] = Len(before) + (k - Len(before))
        BY <1>5, <1>8, <4>2
      <4> QED
        BY <1>4, <4>1, <4>3
    <3> QED
      BY <3>1, <3>2, <3>3
  <2>2. (Inside \/ pc = "returned" => \A k \in 1..count : buf[k] = k)'
    BY <1>1, <2>0 DEF Inside
  <2>3. ((Inside /\ Settled) \/ pc = "returned" =>
           count = Len(sent) /\ opcode = sentOp)'
    BY <1>1, <1>2, <1>9, <1>10, <2>0 DEF Inside, Settled
  <2>4. (Inside /\ wire # NoFrame /\ wire.op = "continue" =>
          /\ Len(sent) = count + Len(wire.payload)
          /\ \A k \in 1..Len(wire.payload) : wire.payload[k] = count + k
          /\ opcode = sentOp)'
    <3> SUFFICES ASSUME Inside, h.op = "continue"
                 PROVE  /\ Len(sent') = count + Len(payload)
                        /\ \A k \in 1..Len(payload) : payload[k] = count + k
                        /\ opcode = sentOp'
      BY <1>1, <1>10 DEF Inside
    <3>1. h.op \notin Control /\ h.op \notin DataOps
      BY DEF Control, DataOps
    <3>2. before = sent
      OBVIOUS
    <3> HIDE DEF before
    <3> QED
      BY <1>2, <1>5, <1>7, <1>8, <2>0, <3>1, <3>2
  <2>5. (Active /\ wire # NoFrame /\ wire.op \in DataOps =>
          /\ Len(sent) = Len(wire.payload)
          /\ \A k \in 1..Len(wire.payload) : wire.payload[k] = k
          /\ sentOp = wire.op)'
    <3> SUFFICES ASSUME h.op \in DataOps
                 PROVE  /\ Len(sent') = Len(payload)
                        /\ \A k \in 1..Len(payload) : payload[k] = k
                        /\ sentOp' = h.op
      BY <1>10
    <3>1. h.op \notin Control /\ h.op # "continue"
      BY DEF Control, DataOps
    <3>2. Len(before) = 0
      BY <3>1
    <3> HIDE DEF before
    <3>3. \A k \in 1..h.len : bytes[k] = k
      BY <1>5, <3>2
    <3>4. Len(sent') = h.len
      BY <1>2, <1>3, <1>8, <3>1, <3>2
    <3> QED
      BY <1>2, <1>7, <3>1, <3>3, <3>4
  <2> QED
    BY <2>1, <2>2, <2>3, <2>4, <2>5 DEF BytesInv
<1>16. PongInv' /\ LawfulAccepted'
  BY <1>1, <1>11 DEF IInv, PongInv, PongEchoesPing, Answering, LawfulAccepted
<1> QED
  BY <1>13, <1>14, <1>15, <1>16 DEF IInv
-----------------------------------------------------------------------------
(* The client's steps.                                                      *)

\* What is written stands in the buffer from `at`, and the rest is as it was.
LEMMA WriteElements ==
  ASSUME DataTypes, NEW at \in Nat, NEW bytes \in Seq(Int),
         at + Len(bytes) <= Total
  PROVE  /\ Write(at, bytes) \in [1..Total -> Int]
         /\ \A k \in 1..at : Write(at, bytes)[k] = buf[k]
         /\ \A k \in 1..Len(bytes) : Write(at, bytes)[at + k] = bytes[k]
<1>1. Total \in Nat /\ Len(bytes) \in Nat /\ buf \in [1..Total -> Int]
  BY ConstantsAssumption DEF DataTypes
<1>2. Write(at, bytes) =
        [k \in 1..Total |->
           IF k \in at + 1..at + Len(bytes) THEN bytes[k - at] ELSE buf[k]]
  BY <1>1 DEF Write
<1>3. \A k \in at + 1..at + Len(bytes) : bytes[k - at] \in Int
  <2> SUFFICES ASSUME NEW k \in at + 1..at + Len(bytes)
               PROVE  bytes[k - at] \in Int
    OBVIOUS
  <2>1. k - at \in 1..Len(bytes)
    BY <1>1
  <2> QED
    BY <2>1
<1>4. Write(at, bytes) \in [1..Total -> Int]
  BY <1>1, <1>2, <1>3
<1>5. ASSUME NEW k \in 1..at
      PROVE  Write(at, bytes)[k] = buf[k]
  BY <1>1, <1>2
<1>6. ASSUME NEW k \in 1..Len(bytes)
      PROVE  Write(at, bytes)[at + k] = bytes[k]
  <2>1. at + k \in at + 1..at + Len(bytes) /\ at + k \in 1..Total
    BY <1>1
  <2>2. (at + k) - at = k
    OBVIOUS
  <2> QED
    BY <1>2, <2>1, <2>2
<1> QED
  BY <1>4, <1>5, <1>6

\* What the types say of the frame that has come.
Typing ==
    /\ wire \in Frames /\ wire # NoFrame
    /\ wire.op \in Opcodes /\ wire.fin \in BOOLEAN
    /\ wire.payload \in Seq(Int) /\ Len(wire.payload) \in Nat
    /\ count \in Nat /\ Total \in Nat /\ count <= Total
    /\ sent \in Seq(Int) /\ Len(sent) \in Nat

LEMMA Types ==
  ASSUME DataTypes, wire # NoFrame
  PROVE  Typing
  BY ConstantsAssumption DEF Typing, DataTypes, Frames

\* A frame that is not too big for what is left of the buffer fits in it.
LEMMA Fits ==
  ASSUME Typing, ~BufferTooSmall
  PROVE  count + Len(wire.payload) <= Total
  BY DEF Typing, BufferTooSmall

Errors == {"eof", "io_error", "ws_proto", "invalid_argument", "message_size"}

\* After a failure nothing is looked at but the error.
LEMMA FailKeeps ==
  ASSUME IInv, NEW err \in Errors, Fails(err),
         lawful => err \notin {"ws_proto", "invalid_argument"},
         buf' \in [1..Total -> Int],
         count' \in Nat, count' <= Total, opcode' \in DataOps \cup {"none"},
         pong' \in Seq(Int), UNCHANGED <<serverVars, ping>>
  PROVE  IInv'
<1>1. /\ pc' = "failed" /\ ret' = err /\ wire' = NoFrame
      /\ UNCHANGED <<open, sent, sentOp, lawful, shortest, ping>>
  BY DEF Fails, serverVars
<1>2. DataTypes'
  BY <1>1 DEF IInv, DataTypes, Errors
<1>3. FrameInv'
  BY <1>1 DEF FrameInv, Active, Answering
<1>4. BytesInv'
  BY <1>1 DEF IInv, BytesInv, Active, Inside
<1>5. PongInv'
  BY <1>1 DEF PongInv, PongEchoesPing, Answering
<1>6. LawfulAccepted'
  BY <1>1 DEF LawfulAccepted
<1> QED
  BY <1>2, <1>3, <1>4, <1>5, <1>6 DEF IInv

\* Of a frame that is refused: only what breaks the RFC is called a breach.
LEMMA RecvInvalidKeeps ==
  ASSUME IInv, RecvInvalid
  PROVE  IInv'
<1>1. /\ pc \in {"first", "more"} /\ wire # NoFrame
      /\ UNCHANGED <<serverVars, buf, count, opcode, ping, pong>>
  BY DEF RecvInvalid, msgVars
<1>2. /\ buf \in [1..Total -> Int] /\ count \in Nat /\ count <= Total
      /\ opcode \in DataOps \cup {"none"} /\ pong \in Seq(Int)
  BY DEF IInv, DataTypes
<1>3. CASE Rejected /\ \E err \in Rejection : Fails(err)
  <2>1. PICK err \in Rejection : Fails(err)
    BY <1>3
  <2>2. err \in Errors
    BY DEF Rejection, Errors
  <2>3. ~lawful
    <3>1. Active
      BY <1>1 DEF Active
    <3> QED
      BY <1>1, <1>3, <3>1 DEF IInv, DataTypes, FrameInv
  <2> QED
    BY <1>1, <1>2, <2>1, <2>2, <2>3, FailKeeps
<1>4. CASE Fails("message_size")
  <2>1. "message_size" \in Errors
    BY DEF Errors
  <2> QED
    BY <1>1, <1>2, <1>4, <2>1, FailKeeps
<1> QED
  BY <1>3, <1>4 DEF RecvInvalid

LEMMA RecvErrorKeeps ==
  ASSUME IInv, RecvError \/ RecvClose
  PROVE  IInv'
<1>1. /\ \E err \in {"eof", "io_error"} : Fails(err)
      /\ UNCHANGED <<serverVars, buf, count, opcode, ping, pong>>
  BY DEF RecvError, RecvClose, msgVars
<1>2. PICK err \in {"eof", "io_error"} : Fails(err)
  BY <1>1
<1>3. /\ buf \in [1..Total -> Int] /\ count \in Nat /\ count <= Total
      /\ opcode \in DataOps \cup {"none"} /\ pong \in Seq(Int)
  BY DEF IInv, DataTypes
<1>4. err \in Errors /\ err \notin {"ws_proto", "invalid_argument"}
  BY <1>2 DEF Errors
<1> QED
  BY <1>1, <1>2, <1>3, <1>4, FailKeeps

\* A fragment where the RFC has none.
LEMMA RecvUnexpectedKeeps ==
  ASSUME IInv, RecvUnexpected
  PROVE  IInv'
<1>1. /\ pc \in {"first", "more"} /\ wire # NoFrame /\ Fails("ws_proto")
      /\ pc = "first" => wire.op = "continue"
      /\ pc # "first" => wire.op \in DataOps
      /\ UNCHANGED <<serverVars, buf, count, opcode, ping, pong>>
  BY DEF RecvUnexpected, Arrived, msgVars
<1>2. /\ buf \in [1..Total -> Int] /\ count \in Nat /\ count <= Total
      /\ opcode \in DataOps \cup {"none"} /\ pong \in Seq(Int)
  BY DEF IInv, DataTypes
<1>3. "ws_proto" \in Errors
  BY DEF Errors
<1>4. ~lawful
  <2>1. Active /\ (Inside <=> pc = "more")
    BY <1>1 DEF Active, Inside
  <2> QED
    BY <1>1, <2>1 DEF IInv, FrameInv
<1> QED
  BY <1>1, <1>2, <1>3, <1>4, FailKeeps
\* What the invariant says when a frame that may be taken is there.
LEMMA WhenArrived ==
  ASSUME IInv, NEW ops, Arrived(ops)
  PROVE  /\ Typing /\ wire.op \in ops /\ pc \in {"first", "more"}
         /\ count + Len(wire.payload) <= Total
         /\ Active /\ (Inside <=> pc = "more") /\ ~Answering
         /\ lawful <=> /\ wire.op \in DataOps => pc # "more"
                       /\ wire.op = "continue" => pc = "more"
         /\ Settled => (open <=> pc = "more")
         /\ ~Settled => (open <=> ~wire.fin)
         /\ ret = "none"
<1>1. /\ pc \in {"first", "more"} /\ wire # NoFrame /\ wire.op \in ops
      /\ ~Rejected /\ ~BufferTooSmall
  BY DEF Arrived
<1>2. Typing
  BY <1>1, Types DEF IInv
<1>3. count + Len(wire.payload) <= Total
  BY <1>1, <1>2, Fits
<1>4. Active /\ (Inside <=> pc = "more") /\ ~Answering
  BY <1>1 DEF Active, Inside, Answering
<1>5. ret = "none"
  BY <1>1 DEF IInv, FrameInv
<1>6. /\ lawful <=> /\ wire.op \in DataOps => ~Inside
                    /\ wire.op = "continue" => Inside
      /\ Settled => (open <=> Inside)
      /\ ~Settled => (open <=> ~wire.fin)
  <2>1. lawful \in BOOLEAN
    BY DEF IInv, DataTypes
  <2> QED
    BY <1>1, <1>4, <2>1 DEF IInv, FrameInv
<1> QED
  BY <1>1, <1>2, <1>3, <1>4, <1>5, <1>6

\* A PONG is read into the free end of the buffer and forgotten.
LEMMA RecvPongKeeps ==
  ASSUME IInv, RecvPong
  PROVE  IInv'
<1>1. /\ Arrived({"pong"}) /\ buf' = Write(count, wire.payload) /\ wire' = NoFrame
      /\ UNCHANGED <<open, sent, sentOp, lawful, shortest, pc, count, opcode, ret, ping, pong>>
  BY DEF RecvPong, serverVars
<1>2. /\ Typing /\ wire.op = "pong" /\ pc \in {"first", "more"}
      /\ count + Len(wire.payload) <= Total
      /\ (Inside <=> pc = "more") /\ ret = "none"
      /\ lawful <=> /\ wire.op \in DataOps => pc # "more"
                    /\ wire.op = "continue" => pc = "more"
      /\ Settled => (open <=> pc = "more")
  BY <1>1, WhenArrived
<1>3. Settled /\ lawful /\ (open <=> Inside)
  BY <1>2 DEF Settled, Control, DataOps
<1>4. /\ buf' \in [1..Total -> Int]
      /\ \A k \in 1..count : buf'[k] = buf[k]
  BY <1>1, <1>2, WriteElements DEF IInv, Typing
<1>5. DataTypes'
  BY <1>1, <1>4 DEF IInv, DataTypes
<1>6. FrameInv'
  BY <1>1, <1>2, <1>3 DEF FrameInv, Active, Inside, Settled, Answering
<1>7. BytesInv'
  BY <1>1, <1>2, <1>3, <1>4 DEF IInv, BytesInv, Active, Inside, Settled
<1>8. PongInv' /\ LawfulAccepted'
  BY <1>1, <1>2 DEF IInv, PongInv, PongEchoesPing, Answering, LawfulAccepted
<1> QED
  BY <1>5, <1>6, <1>7, <1>8 DEF IInv

\* The payload of a PING stands behind the message.
LEMMA RecvPingKeeps ==
  ASSUME IInv, RecvPing
  PROVE  IInv'
<1>1. /\ Arrived({"ping"}) /\ buf' = Write(count, wire.payload)
      /\ ping' = wire.payload
      /\ pc' = IF pc = "first" THEN "first_pong" ELSE "more_pong"
      /\ UNCHANGED <<wire, open, sent, sentOp, lawful, shortest, count, opcode, ret, pong>>
  BY DEF RecvPing, serverVars
<1>2. /\ Typing /\ wire.op = "ping" /\ pc \in {"first", "more"}
      /\ count + Len(wire.payload) <= Total
      /\ Active /\ (Inside <=> pc = "more") /\ ret = "none"
      /\ lawful <=> /\ wire.op \in DataOps => pc # "more"
                    /\ wire.op = "continue" => pc = "more"
      /\ Settled => (open <=> pc = "more")
  BY <1>1, WhenArrived
<1>3. /\ Settled /\ lawful /\ (open <=> Inside) /\ ~Rejected
      /\ wire.op \notin DataOps /\ wire.op # "continue"
  BY <1>1, <1>2 DEF Settled, Control, DataOps, Arrived
<1>4. /\ buf' \in [1..Total -> Int]
      /\ \A k \in 1..count : buf'[k] = buf[k]
      /\ \A k \in 1..Len(wire.payload) : buf'[count + k] = wire.payload[k]
  BY <1>1, <1>2, WriteElements DEF IInv, Typing
<1>5. /\ Active' /\ (Inside' <=> Inside) /\ Settled' /\ Answering' /\ ~Rejected'
      /\ pc' \in {"first_pong", "more_pong"}
  BY <1>1, <1>2, <1>3 DEF Active, Inside, Settled, Answering, Rejected
<1>6. DataTypes'
  BY <1>1, <1>2, <1>4, <1>5 DEF IInv, DataTypes, Typing
<1>7. FrameInv'
  <2>1. wire' # NoFrame /\ wire'.op = "ping" /\ (open' <=> Inside')
        /\ wire'.op \notin DataOps /\ wire'.op # "continue" /\ lawful'
    BY <1>1, <1>2, <1>3, <1>5 DEF Typing
  <2> QED
    BY <1>1, <1>2, <1>5, <2>1 DEF FrameInv
<1>8. BytesInv'
  BY <1>1, <1>2, <1>3, <1>4, <1>5 DEF IInv, BytesInv
<1>9. PongInv'
  BY <1>1, <1>2, <1>4, <1>5 DEF PongInv, PongEchoesPing
<1>10. LawfulAccepted'
  BY <1>1 DEF IInv, LawfulAccepted
<1> QED
  BY <1>6, <1>7, <1>8, <1>9, <1>10 DEF IInv

\* What is sent is what stands there; masking it leaves the message alone.
LEMMA SendPongKeeps ==
  ASSUME IInv, SendPong
  PROVE  IInv'
<1> DEFINE masked == [k \in 1..Len(wire.payload) |-> Junk]
<1>1. /\ pc \in {"first_pong", "more_pong"}
      /\ pong' = SubSeq(buf, count + 1, count + Len(wire.payload))
      /\ buf' = Write(count, masked)
      /\ UNCHANGED <<open, sent, sentOp, lawful, shortest, count, opcode, ping>>
      /\ \/ /\ pc' = IF pc = "first_pong" THEN "first" ELSE "more"
            /\ wire' = NoFrame
            /\ UNCHANGED ret
         \/ Fails("io_error")
  BY DEF SendPong, serverVars
<1>2. Active /\ Answering /\ (Inside <=> pc = "more_pong")
  BY <1>1 DEF Active, Answering, Inside
<1>3. wire # NoFrame /\ wire.op = "ping" /\ ~Rejected /\ ret = "none"
  BY <1>1, <1>2 DEF IInv, FrameInv
<1>4. /\ Typing /\ wire.op \notin DataOps /\ wire.op # "continue" /\ Settled
  BY <1>3, Types DEF IInv, DataOps, Settled, Control
<1>5. lawful /\ (open <=> Inside)
  BY <1>2, <1>3, <1>4 DEF IInv, FrameInv, DataTypes
<1>6. /\ ping = wire.payload
      /\ count + Len(wire.payload) <= Total
      /\ \A k \in 1..Len(wire.payload) : buf[count + k] = wire.payload[k]
  BY <1>2 DEF IInv, PongInv
<1>7. masked \in Seq(Int) /\ Len(masked) = Len(wire.payload)
  <2>1. masked \in [1..Len(wire.payload) -> Int]
    BY DEF Junk
  <2> QED
    BY <1>4, <2>1, FunctionAsSeq DEF Typing
<1> HIDE DEF masked
<1>8. /\ buf' \in [1..Total -> Int]
      /\ \A k \in 1..count : buf'[k] = buf[k]
  BY <1>1, <1>4, <1>6, <1>7, WriteElements DEF IInv, Typing
<1>9. pong' \in Seq(Int) /\ pong' = ping
  <2>1. buf \in Seq(Int) /\ Len(buf) = Total
    BY <1>4, FunctionAsSeq DEF IInv, DataTypes, Typing
  <2>2. /\ pong' \in Seq(Int) /\ Len(pong') = Len(wire.payload)
        /\ \A k \in 1..Len(wire.payload) : pong'[k] = buf[count + k]
    <3>1. /\ count \in Nat /\ Len(wire.payload) \in Nat
          /\ count + Len(wire.payload) <= Len(buf)
      BY <1>4, <1>6, <2>1 DEF Typing
    <3> DEFINE n == Len(wire.payload)
    <3> HIDE DEF n
    <3>2. /\ SubSeq(buf, count + 1, count + n) \in Seq(Int)
          /\ Len(SubSeq(buf, count + 1, count + n)) = n
          /\ \A k \in 1..n : SubSeq(buf, count + 1, count + n)[k] = buf[count + k]
      BY <2>1, <3>1, SubSeqElements DEF n
    <3> QED
      BY <1>1, <3>2 DEF n
  <2>3. \A k \in 1..Len(wire.payload) : pong'[k] = wire.payload[k]
    BY <1>6, <2>2
  <2>4. pong' = wire.payload
    BY <1>4, <2>2, <2>3, SameElements DEF Typing
  <2> QED
    BY <1>6, <2>2, <2>4
<1>10. CASE Fails("io_error")
  <2>1. "io_error" \in Errors
    BY DEF Errors
  <2>2. /\ count' \in Nat /\ count' <= Total /\ opcode' \in DataOps \cup {"none"}
        /\ UNCHANGED <<serverVars, ping>>
    BY <1>1 DEF IInv, DataTypes, serverVars
  <2> QED
    BY <1>8, <1>9, <1>10, <2>1, <2>2, FailKeeps
<1>11. CASE /\ pc' = IF pc = "first_pong" THEN "first" ELSE "more"
            /\ wire' = NoFrame
            /\ UNCHANGED ret
  <2>1. /\ pc' \in {"first", "more"} /\ Active' /\ (Inside' <=> Inside) /\ Settled'
        /\ ~Answering' /\ wire' = NoFrame
    BY <1>1, <1>2, <1>11 DEF Active, Inside, Settled, Answering
  <2>2. DataTypes'
    BY <1>1, <1>8, <1>9, <1>11, <2>1 DEF IInv, DataTypes
  <2>3. FrameInv'
    BY <1>1, <1>3, <1>5, <1>11, <2>1 DEF FrameInv
  <2>4. BytesInv'
    BY <1>1, <1>4, <1>8, <2>1 DEF IInv, BytesInv
  <2>5. PongInv' /\ LawfulAccepted'
    BY <1>1, <1>3, <1>9, <1>11, <2>1 DEF PongInv, PongEchoesPing, LawfulAccepted
  <2> QED
    BY <2>2, <2>3, <2>4, <2>5 DEF IInv
<1> QED
  BY <1>1, <1>10, <1>11
\* Where a fragment ends up: it went behind what there was of the message, and
\* with it the message is all that the server has sent.
LEMMA FragmentKeeps ==
  ASSUME IInv, Typing, pc \in {"first", "more"}, ret = "none", lawful,
         open <=> ~wire.fin, AfterFragment,
         buf' \in [1..Total -> Int],
         count' \in Nat, count' <= Total, count' = Len(sent),
         \A k \in 1..count' : buf'[k] = k,
         opcode' \in DataOps \cup {"none"}, opcode' = sentOp,
         UNCHANGED <<serverVars, ping, pong>>
  PROVE  IInv'
<1>1. UNCHANGED <<open, sent, sentOp, lawful, shortest, ping, pong>> /\ pong \in Seq(Int)
  BY DEF serverVars, IInv, DataTypes
<1>2. PongEchoesPing /\ pong = ping
  BY DEF IInv, PongInv, PongEchoesPing
<1>3. CASE Fails("message_size")
  <2>1. "message_size" \in Errors
    BY DEF Errors
  <2> QED
    BY <1>1, <1>3, <2>1, FailKeeps
<1>4. CASE /\ wire.fin /\ pc' = "returned" /\ ret' = "none" /\ wire' = NoFrame
  <2>1. ~Active' /\ ~Inside' /\ ~Answering'
    BY <1>4 DEF Active, Inside, Answering
  <2>2. DataTypes'
    BY <1>1, <1>4 DEF IInv, DataTypes
  <2>3. FrameInv'
    BY <1>1, <1>4, <2>1 DEF FrameInv
  <2>4. BytesInv'
    BY <1>1, <1>4, <2>1 DEF IInv, BytesInv
  <2>5. PongInv' /\ LawfulAccepted'
    BY <1>1, <1>2, <1>4, <2>1 DEF PongInv, PongEchoesPing, LawfulAccepted
  <2> QED
    BY <2>2, <2>3, <2>4, <2>5 DEF IInv
<1>5. CASE ~wire.fin /\ pc' = "more" /\ wire' = NoFrame /\ UNCHANGED ret
  <2>1. Active' /\ Inside' /\ ~Answering' /\ Settled'
    BY <1>5 DEF Active, Inside, Answering, Settled
  <2>2. DataTypes'
    BY <1>1, <1>5 DEF IInv, DataTypes
  <2>3. FrameInv'
    BY <1>1, <1>5, <2>1 DEF FrameInv
  <2>4. BytesInv'
    BY <1>1, <1>5, <2>1 DEF IInv, BytesInv
  <2>5. PongInv' /\ LawfulAccepted'
    BY <1>1, <1>2, <1>5, <2>1 DEF PongInv, PongEchoesPing, LawfulAccepted
  <2> QED
    BY <2>2, <2>3, <2>4, <2>5 DEF IInv
<1> QED
  BY <1>3, <1>4, <1>5 DEF AfterFragment

LEMMA RecvFirstKeeps ==
  ASSUME IInv, RecvFirst
  PROVE  IInv'
<1>1. /\ pc = "first" /\ Arrived(DataOps) /\ AfterFragment
      /\ buf' = Write(0, wire.payload) /\ count' = Len(wire.payload)
      /\ opcode' = wire.op
      /\ UNCHANGED <<serverVars, ping, pong>>
  BY DEF RecvFirst
<1>2. /\ Typing /\ wire.op \in DataOps /\ count + Len(wire.payload) <= Total
      /\ Active /\ ret = "none"
      /\ lawful <=> /\ wire.op \in DataOps => pc # "more"
                    /\ wire.op = "continue" => pc = "more"
      /\ ~Settled => (open <=> ~wire.fin)
  BY <1>1, WhenArrived
<1>3. ~Settled /\ lawful /\ (open <=> ~wire.fin)
  BY <1>1, <1>2 DEF Settled, Typing, DataOps, Control
<1>4. /\ Len(sent) = Len(wire.payload)
      /\ \A k \in 1..Len(wire.payload) : wire.payload[k] = k
      /\ sentOp = wire.op
  BY <1>2 DEF IInv, BytesInv, Typing
<1>5. /\ Len(wire.payload) \in Nat /\ Len(wire.payload) <= Total
      /\ 0 + Len(wire.payload) <= Total
  BY <1>2 DEF Typing
<1>6. /\ buf' \in [1..Total -> Int]
      /\ \A k \in 1..Len(wire.payload) : buf'[0 + k] = wire.payload[k]
  BY <1>1, <1>2, <1>5, WriteElements DEF IInv, Typing
<1>7. \A k \in 1..count' : buf'[k] = k
  <2> SUFFICES ASSUME NEW k \in 1..Len(wire.payload)
               PROVE  buf'[k] = k
    BY <1>1
  <2>1. 0 + k = k
    OBVIOUS
  <2> QED
    BY <1>4, <1>6, <2>1
<1> QED
  BY <1>1, <1>2, <1>3, <1>4, <1>5, <1>6, <1>7, FragmentKeeps

LEMMA RecvMoreKeeps ==
  ASSUME IInv, RecvMore
  PROVE  IInv'
<1>1. /\ pc = "more" /\ Arrived({"continue"}) /\ AfterFragment
      /\ buf' = Write(count, wire.payload)
      /\ count' = count + Len(wire.payload)
      /\ UNCHANGED <<serverVars, opcode, ping, pong>>
  BY DEF RecvMore
<1>2. /\ Typing /\ wire.op = "continue" /\ count + Len(wire.payload) <= Total
      /\ Inside /\ ret = "none"
      /\ lawful <=> /\ wire.op \in DataOps => pc # "more"
                    /\ wire.op = "continue" => pc = "more"
      /\ ~Settled => (open <=> ~wire.fin)
  BY <1>1, WhenArrived
<1>3. ~Settled /\ lawful /\ (open <=> ~wire.fin)
  BY <1>1, <1>2 DEF Settled, Typing, DataOps, Control
<1>4. /\ Len(sent) = count + Len(wire.payload)
      /\ \A k \in 1..Len(wire.payload) : wire.payload[k] = count + k
      /\ opcode = sentOp /\ opcode \in DataOps \cup {"none"}
      /\ \A k \in 1..count : buf[k] = k
  BY <1>2 DEF IInv, DataTypes, BytesInv, Typing
<1>5. /\ buf' \in [1..Total -> Int]
      /\ \A k \in 1..count : buf'[k] = buf[k]
      /\ \A k \in 1..Len(wire.payload) : buf'[count + k] = wire.payload[k]
  BY <1>1, <1>2, WriteElements DEF IInv, Typing
<1>6. count' \in Nat /\ count' <= Total
  BY <1>1, <1>2 DEF Typing
<1>7. ASSUME NEW k \in 1..count'
      PROVE  buf'[k] = k
  <2>1. CASE k <= count
    <3>1. k \in 1..count
      BY <1>2, <2>1 DEF Typing
    <3> QED
      BY <1>4, <1>5, <3>1
  <2>2. CASE ~(k <= count)
    <3>1. k - count \in 1..Len(wire.payload) /\ count + (k - count) = k
      BY <1>1, <1>2, <2>2 DEF Typing
    <3>2. buf'[count + (k - count)] = count + (k - count)
      BY <1>4, <1>5, <3>1
    <3> QED
      BY <3>1, <3>2
  <2> QED
    BY <2>1, <2>2
<1> QED
  BY <1>1, <1>2, <1>3, <1>4, <1>5, <1>6, <1>7, FragmentKeeps

LEMMA RecvmsgKeeps ==
  ASSUME IInv, Recvmsg \/ UNCHANGED vars
  PROVE  IInv'
<1>1. CASE Recvmsg
  <2>1. /\ pc = "returned" /\ pc' = "first" /\ count' = 0 /\ opcode' = "none"
        /\ UNCHANGED <<wire, open, sent, sentOp, lawful, shortest, buf, ret, ping, pong>>
    BY <1>1 DEF Recvmsg, serverVars
  <2>2. wire = NoFrame /\ lawful /\ ~open /\ ret = "none"
    BY <2>1 DEF IInv, FrameInv
  <2>3. Active' /\ ~Inside' /\ ~Answering' /\ Settled'
    BY <2>1, <2>2 DEF Active, Inside, Answering, Settled
  <2>4. DataTypes'
    <3>1. Total \in Nat
      BY ConstantsAssumption
    <3>2. 0 \in Nat /\ 0 <= Total
      BY <3>1
    <3> QED
      BY <2>1, <3>2 DEF IInv, DataTypes
  <2>5. FrameInv'
    BY <2>1, <2>2, <2>3 DEF FrameInv
  <2>6. BytesInv'
    BY <2>1, <2>2, <2>3 DEF IInv, BytesInv
  <2>7. PongInv' /\ LawfulAccepted'
    BY <2>1, <2>3 DEF IInv, PongInv, PongEchoesPing, LawfulAccepted
  <2> QED
    BY <2>4, <2>5, <2>6, <2>7 DEF IInv
<1>2. CASE UNCHANGED vars
  BY <1>2 DEF vars, serverVars, msgVars, IInv, DataTypes, FrameInv, BytesInv,
     PongInv, PongEchoesPing, LawfulAccepted, Active, Inside, Answering,
     Settled, Rejected
<1> QED
  BY <1>1, <1>2

LEMMA InvInit == Init => IInv
<1> SUFFICES ASSUME Init
             PROVE  IInv
  OBVIOUS
<1> USE DEF Init
<1>1. Active /\ ~Inside /\ ~Answering /\ Settled
  BY DEF Active, Inside, Answering, Settled
<1>2. DataTypes
  <2>1. Total \in Nat /\ 0 <= Total
    BY ConstantsAssumption
  <2>2. /\ sent \in Seq(Int) /\ ping \in Seq(Int) /\ pong \in Seq(Int)
        /\ buf \in [1..Total -> Int]
    BY DEF Junk, NoPayload
  <2>3. open \in BOOLEAN /\ lawful \in BOOLEAN /\ shortest \in BOOLEAN
    OBVIOUS
  <2> QED
    BY <2>1, <2>2, <2>3 DEF DataTypes
<1>3. FrameInv
  BY <1>1 DEF FrameInv
<1>4. BytesInv
  BY <1>1 DEF BytesInv
<1>5. PongInv /\ LawfulAccepted
  BY <1>1 DEF PongInv, PongEchoesPing, LawfulAccepted
<1> QED
  BY <1>2, <1>3, <1>4, <1>5 DEF IInv

LEMMA InvStep == IInv /\ [Next]_vars => IInv'
<1> SUFFICES ASSUME IInv, [Next]_vars
             PROVE  IInv'
  OBVIOUS
<1>1. ASSUME NEW h \in Headers, ServerSends(h)
      PROVE  IInv'
  BY <1>1, ServerKeeps
<1>2. CASE RecvInvalid
  BY <1>2, RecvInvalidKeeps
<1>3. CASE RecvError \/ RecvClose
  BY <1>3, RecvErrorKeeps
<1>4. CASE RecvPong
  BY <1>4, RecvPongKeeps
<1>5. CASE RecvPing
  BY <1>5, RecvPingKeeps
<1>6. CASE SendPong
  BY <1>6, SendPongKeeps
<1>7. CASE RecvFirst
  BY <1>7, RecvFirstKeeps
<1>8. CASE RecvMore
  BY <1>8, RecvMoreKeeps
<1>9. CASE RecvUnexpected
  BY <1>9, RecvUnexpectedKeeps
<1>10. CASE Recvmsg \/ UNCHANGED vars
  BY <1>10, RecvmsgKeeps
<1> QED
  BY <1>1, <1>2, <1>3, <1>4, <1>5, <1>6, <1>7, <1>8, <1>9, <1>10
     DEF Next, RecvStep

-----------------------------------------------------------------------------
(* The theorems.                                                            *)

\* In every behaviour the buffer holds the message so far and, while a PING is
\* being answered, its payload behind it (ws_recvmsg(), ws_recv_frame()).
THEOREM WsRecvInvariant == Spec => []IInv
<1> QED
  BY InvInit, InvStep, PTL DEF Spec

\* Nothing is written outside the caller's buffer, and *count stays in it,
\* whatever frames the server sends (the checks in ws_recv_any_frame()).
THEOREM TypeCorrect == Spec => []TypeOK
<1>1. IInv => TypeOK
  <2> SUFFICES ASSUME IInv
               PROVE  TypeOK
    OBVIOUS
  <2>1. /\ buf \in [1..Total -> Int] /\ Total \in Nat
        /\ count \in Nat /\ count <= Total
    BY ConstantsAssumption DEF IInv, DataTypes
  <2>2. buf \in Seq(Int) /\ Len(buf) = Total /\ count \in 0..Total
    BY <2>1, FunctionAsSeq
  <2>3. {open, lawful, shortest} \subseteq BOOLEAN
    BY DEF IInv, DataTypes
  <2> QED
    BY <2>2, <2>3 DEF IInv, DataTypes, TypeOK
<1> QED
  BY <1>1, WsRecvInvariant, PTL

\* A message that ws_recvmsg() returns is the one that was sent, for every size
\* of the buffer and every way to cut it in fragments with PINGs in between.
THEOREM MessagesAreIntact == Spec => []MessageIntact
<1>1. IInv => MessageIntact
  <2> SUFFICES ASSUME IInv, pc = "returned"
               PROVE  ~open /\ SubSeq(buf, 1, count) = sent /\ opcode = sentOp
    BY DEF MessageIntact
  <2>1. /\ ~open /\ count = Len(sent) /\ opcode = sentOp
        /\ \A k \in 1..count : buf[k] = k
        /\ \A k \in 1..Len(sent) : sent[k] = k
        /\ sent \in Seq(Int) /\ buf \in [1..Total -> Int]
        /\ count \in Nat /\ count <= Total /\ Total \in Nat
    BY ConstantsAssumption DEF IInv, DataTypes, FrameInv, BytesInv
  <2>2. buf \in Seq(Int) /\ Len(buf) = Total
    BY <2>1, FunctionAsSeq
  <2>3. /\ SubSeq(buf, 0 + 1, 0 + count) \in Seq(Int)
        /\ Len(SubSeq(buf, 0 + 1, 0 + count)) = count
        /\ \A k \in 1..count : SubSeq(buf, 0 + 1, 0 + count)[k] = buf[0 + k]
    BY <2>1, <2>2, SubSeqElements
  <2> DEFINE got == SubSeq(buf, 1, count)
  <2>4. got \in Seq(Int) /\ Len(got) = Len(sent) /\ \A k \in 1..count : got[k] = k
    <3>1. 0 + 1 = 1 /\ 0 + count = count /\ \A k \in 1..count : 0 + k = k
      BY <2>1
    <3> QED
      BY <2>1, <2>3, <3>1
  <2> HIDE DEF got
  <2>5. got = sent
    BY <2>1, <2>4, SameElements
  <2> QED
    BY <2>1, <2>5 DEF got
<1> QED
  BY <1>1, WsRecvInvariant, PTL

\* Every PONG carries the payload of its PING, wherever in the buffer it was.
THEOREM PongsEchoPings == Spec => []PongEchoesPing
<1>1. IInv => PongEchoesPing
  BY DEF IInv, PongInv
<1> QED
  BY <1>1, WsRecvInvariant, PTL

\* What RFC6455 allows is never called a breach of it, for every sequence of
\* frames; and a message that is delivered comes from a stream that broke it in
\* nothing but the form of the lengths of data frames.
THEOREM FollowsTheRfc == Spec => []FollowsRfc
<1>1. IInv => FollowsRfc
  BY DEF IInv, DataTypes, FrameInv, FollowsRfc, ConformantAccepted,
     DeviantNotDelivered, KeepsRfc, LawfulAccepted
<1> QED
  BY <1>1, WsRecvInvariant, PTL

=============================================================================
