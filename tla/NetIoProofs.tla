---------------------------- MODULE NetIoProofs -----------------------------
(* Proofs about NetIo, for every size of the buffers, every number of bytes *)
(* and every timeout.                                                       *)
EXTENDS NetIo, SequenceTheorems, TLAPS

-----------------------------------------------------------------------------
(* Sequences.                                                               *)

\* A sequence is the function of its elements.
LEMMA SeqAsFunction ==
  ASSUME NEW s \in Seq(Int)
  PROVE  /\ Len(s) \in Nat
         /\ s = [k \in 1..Len(s) |-> s[k]]
         /\ \A k \in 1..Len(s) : s[k] \in Int
  OBVIOUS

\* A function on 1..n is a sequence of length n.
LEMMA FunctionAsSeq ==
  ASSUME NEW n \in Nat, NEW f \in [1..n -> Int]
  PROVE  f \in Seq(Int) /\ Len(f) = n
  OBVIOUS

LEMMA SubSeqElements ==
  ASSUME NEW s \in Seq(Int), NEW m \in Nat, NEW n \in Nat, m <= n, n <= Len(s)
  PROVE  /\ SubSeq(s, m + 1, n) \in Seq(Int)
         /\ Len(SubSeq(s, m + 1, n)) = n - m
         /\ \A k \in 1..n - m : SubSeq(s, m + 1, n)[k] = s[k + m]
  OBVIOUS

LEMMA ConcatElements ==
  ASSUME NEW s \in Seq(Int), NEW t \in Seq(Int)
  PROVE  /\ s \o t \in Seq(Int)
         /\ Len(s \o t) = Len(s) + Len(t)
         /\ \A k \in 1..Len(s) : (s \o t)[k] = s[k]
         /\ \A k \in 1..Len(t) : (s \o t)[Len(s) + k] = t[k]
  OBVIOUS

-----------------------------------------------------------------------------
(* The inductive invariant.                                                 *)

Bytes == Seq(Int)

DataTypes ==
    /\ inQ \in Bytes /\ outStream \in Bytes /\ buf \in [1..count -> Int]
    /\ {peerSent, start, unread, handshakes} \subseteq Nat

\* What has not been read is the end of what was sent.
InInv == \A k \in 1..Len(inQ) : inQ[k] = peerSent - Len(inQ) + k

\* What was sent is the calls' bytes, in order.
OutInv == \A k \in 1..Len(outStream) : outStream[k] = k

\* How far the transfer has got, in its stream and in its buffer.
ProgressInv ==
    /\ pc # "done" => err = "none"
    /\ pc # "idle" => start + count <= MaxBytes /\ op # "none"
    /\ pc # "idle" /\ op = "recvn" =>
         /\ peerSent - Len(inQ) = start + off
         /\ \A k \in 1..off : buf[k] = start + k
    /\ pc # "idle" /\ op = "sendn" =>
         /\ Len(outStream) = start + off
         /\ \A k \in 1..count : buf[k] = start + k
    /\ pc = "done" /\ err = "none" => off = count

IInv == DataTypes /\ InInv /\ OutInv /\ ProgressInv

-----------------------------------------------------------------------------
(* Each step.                                                               *)

\* The steps that move no bytes: of the peer, of the TLS engine, and of the
\* wait for the socket.
QuietStep ==
    \/ PeerReads \/ PeerSendsRecord \/ PeerCloses
    \/ RecvEof \/ IoFails
    \/ TlsNeeds \/ TlsGoesOn
    \/ Waits \/ PollReady \/ PollFails \/ Tick \/ PollInterrupted
    \/ NextCall

LEMMA QuietKeeps ==
  ASSUME TypeOK, IInv, QuietStep \/ UNCHANGED vars
  PROVE  TypeOK' /\ IInv'
<1> USE ConstantsAssumption
    DEF TypeOK, IInv, DataTypes, InInv, OutInv, ProgressInv, Bytes,
        peerVars, tlsVars, opVars
<1>1. CASE PeerReads
  <2>1. unread' \in 0..Capacity /\ unread' \in Nat
    BY <1>1 DEF PeerReads
  <2> QED
    BY <1>1, <2>1 DEF PeerReads
<1>2. CASE PeerSendsRecord
  BY <1>2 DEF PeerSendsRecord
<1>3. CASE PeerCloses
  BY <1>3 DEF PeerCloses
<1>4. CASE RecvEof
  BY <1>4 DEF RecvEof, Fails
<1>5. CASE IoFails
  BY <1>5 DEF IoFails, Fails
<1>6. CASE TlsNeeds
  BY <1>6, SMTT(30) DEF TlsNeeds
<1>7. CASE TlsGoesOn
  BY <1>7 DEF TlsGoesOn
<1>8. CASE Waits
  BY <1>8, SMTT(30) DEF Waits, Direction
<1>9. CASE PollReady
  BY <1>9 DEF PollReady, Waiting
<1>10. CASE PollFails
  BY <1>10 DEF PollFails, Waiting, Fails
<1>11. CASE Tick
  <2>1. left' \in 0..PollTimeout
    BY <1>11 DEF Tick
  <2> QED
    BY <1>11, <2>1 DEF Tick, Waiting
<1>12. CASE PollInterrupted
  <2>1. left' \in 0..PollTimeout
    BY <1>12 DEF PollInterrupted
  <2> QED
    BY <1>12, <2>1 DEF PollInterrupted, Waiting
<1>13. CASE NextCall
  BY <1>13 DEF NextCall
<1>14. CASE UNCHANGED vars
  BY <1>14 DEF vars
<1> QED
  BY <1>1, <1>2, <1>3, <1>4, <1>5, <1>6, <1>7, <1>8, <1>9, <1>10, <1>11, <1>12, <1>13, <1>14 DEF QuietStep

\* What the types say, as the steps below use it.
Typing ==
    /\ inQ \in Seq(Int) /\ outStream \in Seq(Int)
    /\ buf \in [1..count -> Int]
    /\ Len(inQ) \in Nat /\ Len(outStream) \in Nat
    /\ peerSent \in Nat /\ start \in Nat /\ unread \in Nat
    /\ count \in Nat /\ off \in Nat /\ handshakes \in Nat
    /\ off <= count /\ count <= MaxCount /\ unread <= Capacity
    /\ Len(inQ) <= peerSent /\ Len(outStream) <= MaxBytes
    /\ Capacity \in Nat /\ MaxCount \in Nat /\ MaxBytes \in Nat
    /\ PollTimeout \in Nat

LEMMA Types == TypeOK /\ IInv => Typing
  BY ConstantsAssumption DEF Typing, TypeOK, IInv, DataTypes, Bytes

\* A byte arrives: it is the next one of the stream.
LEMMA PeerSendsKeeps ==
  ASSUME TypeOK, IInv, PeerSends
  PROVE  TypeOK' /\ IInv'
<1>t. Typing
  BY Types
<1> USE <1>t DEF Typing, PeerSends
<1>1. /\ inQ' \in Seq(Int) /\ Len(inQ') = Len(inQ) + 1
      /\ \A k \in 1..Len(inQ) : inQ'[k] = inQ[k]
      /\ inQ'[Len(inQ) + 1] = peerSent + 1
  OBVIOUS
<1>2. UNCHANGED <<unread, peerClosed, outStream, tls, want, record, handshakes,
                  op, count, start, left, off, buf, pc, err>>
  BY DEF tlsVars, opVars
<1>3. peerSent' \in 0..MaxBytes /\ Len(inQ') <= peerSent'
  BY <1>1
<1>4. TypeOK'
  BY <1>2, <1>3 DEF TypeOK
<1>5. DataTypes'
  BY <1>1, <1>2 DEF IInv, DataTypes, Bytes
<1>6. InInv'
  <2> SUFFICES ASSUME NEW k \in 1..Len(inQ) + 1
               PROVE  inQ'[k] = peerSent' - Len(inQ') + k
    BY <1>1 DEF InInv
  <2>1. CASE k = Len(inQ) + 1
    BY <1>1, <2>1
  <2>2. CASE k # Len(inQ) + 1
    <3>1. k \in 1..Len(inQ)
      BY <2>2
    <3>2. inQ[k] = peerSent - Len(inQ) + k
      BY <3>1 DEF IInv, InInv
    <3> QED
      BY <1>1, <3>1, <3>2
  <2> QED
    BY <2>1, <2>2
<1>7. OutInv'
  BY <1>2 DEF IInv, OutInv
<1>8. ProgressInv'
  BY <1>1, <1>2, SMTT(30) DEF IInv, ProgressInv
<1> QED
  BY <1>4, <1>5, <1>6, <1>7, <1>8 DEF IInv

\* Any number of the bytes there are go behind those the buffer has.
LEMMA RecvSomeKeeps ==
  ASSUME TypeOK, IInv, RecvSome
  PROVE  TypeOK' /\ IInv'
<1>t. Typing
  BY Types
<1> USE <1>t DEF Typing
<1>1. PICK n \in 1..count - off :
        /\ n <= Len(inQ)
        /\ buf' = [k \in 1..count |->
                     IF k \in off + 1..off + n THEN inQ[k - off] ELSE buf[k]]
        /\ inQ' = SubSeq(inQ, n + 1, Len(inQ))
        /\ Moved(n)
  BY DEF RecvSome
<1>2. /\ pc = "io" /\ op = "recvn"
      /\ UNCHANGED <<peerSent, unread, peerClosed, outStream, tls, want, record,
                     handshakes, op, count, start, left, err>>
      /\ off' = off + n
      /\ pc' \in {"io", "done"} /\ (pc' = "done" => off' = count)
  BY <1>1 DEF RecvSome, Moved, tlsVars, opVars
<1>n. n \in Nat /\ n >= 1 /\ n <= Len(inQ) /\ off + n <= count
  BY <1>1
<1>3. /\ inQ' \in Seq(Int) /\ Len(inQ') = Len(inQ) - n
      /\ \A k \in 1..Len(inQ) - n : inQ'[k] = inQ[k + n]
  BY <1>1, <1>n, SubSeqElements, SMTT(30)
<1>4. /\ buf' \in [1..count -> Int]
      /\ \A k \in 1..off : buf'[k] = buf[k]
      /\ \A k \in off + 1..off + n : buf'[k] = inQ[k - off]
  <2>1. \A k \in off + 1..off + n : k - off \in 1..Len(inQ)
    BY <1>n
  <2>2. \A k \in off + 1..off + n : inQ[k - off] \in Int
    BY <2>1, SeqAsFunction
  <2> QED
    BY <1>1, <1>n, <2>2, SMTT(30)
<1>5. Len(buf') = count
  BY <1>4, FunctionAsSeq
<1>6. off' \in 0..count
  BY <1>2, <1>n
<1>7. TypeOK'
  <2>1. Len(inQ') <= peerSent'
    BY <1>2, <1>3, <1>n
  <2> QED
    BY <1>2, <1>5, <1>6, <2>1 DEF TypeOK
<1>8. DataTypes'
  BY <1>2, <1>3, <1>4 DEF IInv, DataTypes, Bytes
<1>9. InInv'
  <2> SUFFICES ASSUME NEW k \in 1..Len(inQ) - n
               PROVE  inQ'[k] = peerSent - (Len(inQ) - n) + k
    BY <1>2, <1>3 DEF InInv
  <2>1. k + n \in 1..Len(inQ)
    BY <1>n
  <2>2. inQ[k + n] = peerSent - Len(inQ) + (k + n)
    BY <2>1 DEF IInv, InInv
  <2> QED
    BY <1>3, <1>n, <2>2
<1>10. OutInv'
  BY <1>2 DEF IInv, OutInv
<1>11. ProgressInv'
  <2>1. /\ peerSent - Len(inQ) = start + off
        /\ \A k \in 1..off : buf[k] = start + k
        /\ start + count <= MaxBytes /\ err = "none"
    BY <1>2 DEF IInv, ProgressInv
  <2>2. ASSUME NEW k \in 1..off + n
        PROVE  buf'[k] = start + k
    <3>1. CASE k <= off
      BY <1>4, <2>1, <3>1
    <3>2. CASE ~(k <= off)
      <4>1. k \in off + 1..off + n /\ k - off \in 1..Len(inQ)
        BY <1>n, <3>2
      <4>2. inQ[k - off] = peerSent - Len(inQ) + (k - off)
        BY <4>1 DEF IInv, InInv
      <4> QED
        BY <1>4, <2>1, <4>1, <4>2, SMTT(30)
    <3> QED
      BY <3>1, <3>2
  <2>3. peerSent' - Len(inQ') = start + (off + n)
    <3>1. peerSent' = peerSent /\ Len(inQ') = Len(inQ) - n
      BY <1>2, <1>3
    <3> QED
      BY <3>1, <1>n, <2>1
  <2> QED
    BY <1>2, <1>n, <2>1, <2>2, <2>3 DEF ProgressInv
<1> QED
  BY <1>7, <1>8, <1>9, <1>10, <1>11 DEF IInv

\* The kernel takes any number of the bytes that are left, from the front.
LEMMA SendSomeKeeps ==
  ASSUME TypeOK, IInv, SendSome
  PROVE  TypeOK' /\ IInv'
<1>t. Typing
  BY Types
<1> USE <1>t DEF Typing
<1>1. PICK n \in 1..count - off :
        /\ n <= Capacity - unread
        /\ outStream' = outStream \o SubSeq(buf, off + 1, off + n)
        /\ unread' = unread + n
        /\ Moved(n)
  BY DEF SendSome
<1>2. /\ pc = "io" /\ op = "sendn"
      /\ UNCHANGED <<inQ, peerSent, peerClosed, tls, want, record, handshakes,
                     op, count, start, left, buf, err>>
      /\ off' = off + n
      /\ pc' \in {"io", "done"} /\ (pc' = "done" => off' = count)
  BY <1>1 DEF SendSome, Moved, tlsVars, opVars
<1>n. n \in Nat /\ n >= 1 /\ off + n <= count /\ unread + n <= Capacity
  BY <1>1
<1>3. buf \in Seq(Int) /\ Len(buf) = count
  BY FunctionAsSeq
<1>4. /\ SubSeq(buf, off + 1, off + n) \in Seq(Int)
      /\ Len(SubSeq(buf, off + 1, off + n)) = n
      /\ \A k \in 1..n : SubSeq(buf, off + 1, off + n)[k] = buf[k + off]
  BY <1>3, <1>n, SubSeqElements
<1>5. /\ outStream' \in Seq(Int) /\ Len(outStream') = Len(outStream) + n
      /\ \A k \in 1..Len(outStream) : outStream'[k] = outStream[k]
      /\ \A k \in 1..n : outStream'[Len(outStream) + k] = buf[k + off]
  <2> DEFINE chunk == SubSeq(buf, off + 1, off + n)
  <2>1. /\ chunk \in Seq(Int) /\ Len(chunk) = n
        /\ \A k \in 1..n : chunk[k] = buf[k + off]
        /\ outStream' = outStream \o chunk
    BY <1>1, <1>4
  <2> HIDE DEF chunk
  <2> QED
    BY <2>1, ConcatElements
<1>6. /\ Len(outStream) = start + off
      /\ start + count <= MaxBytes
      /\ \A k \in 1..count : buf[k] = start + k
  BY <1>2 DEF IInv, ProgressInv
<1>7. /\ off' \in 0..count /\ unread' \in 0..Capacity
      /\ Len(outStream') \in 0..MaxBytes
  BY <1>1, <1>2, <1>n, <1>5, <1>6, SMTT(30)
<1>8. TypeOK'
  BY <1>2, <1>7 DEF TypeOK
<1>9. DataTypes'
  BY <1>2, <1>5, <1>7 DEF IInv, DataTypes, Bytes
<1>10. InInv'
  BY <1>2 DEF IInv, InInv
<1>11. OutInv'
  <2> SUFFICES ASSUME NEW k \in 1..Len(outStream) + n
               PROVE  outStream'[k] = k
    BY <1>5 DEF OutInv
  <2>1. CASE k <= Len(outStream)
    <3>1. k \in 1..Len(outStream)
      BY <2>1
    <3>2. outStream[k] = k
      BY <3>1 DEF IInv, OutInv
    <3> QED
      BY <1>5, <3>1, <3>2
  <2>2. CASE ~(k <= Len(outStream))
    <3>1. k - Len(outStream) \in 1..n
      BY <2>2, <1>n
    <3>2. outStream'[Len(outStream) + (k - Len(outStream))] = buf[(k - Len(outStream)) + off]
      BY <1>5, <3>1
    <3>3. (k - Len(outStream)) + off \in 1..count
      BY <1>n, <3>1
    <3> QED
      BY <1>6, <3>2, <3>3
  <2> QED
    BY <2>1, <2>2
<1>12. ProgressInv'
  <2>1. Len(outStream') = start' + off'
    BY <1>2, <1>5, <1>6, <1>n
  <2>2. pc' # "done" => err' = "none"
    BY <1>2 DEF IInv, ProgressInv
  <2> QED
    BY <1>2, <1>6, <2>1, <2>2 DEF ProgressInv
<1> QED
  BY <1>8, <1>9, <1>10, <1>11, <1>12 DEF IInv

\* A transfer begins behind all that was read, or sent, before it.
LEMMA CallKeeps ==
  ASSUME TypeOK, IInv, NEW o \in {"recvn", "sendn"}, NEW n \in 0..MaxCount, Call(o, n)
  PROVE  TypeOK' /\ IInv'
<1> USE ConstantsAssumption DEF TypeOK, IInv, DataTypes, Bytes
<1>1. /\ op' = o /\ count' = n /\ off' = 0 /\ start' = Position(o)
      /\ pc' \in {"io", "done"} /\ (pc' = "done" => n = 0)
      /\ UNCHANGED <<inQ, peerSent, unread, peerClosed, outStream, tls, want,
                     record, handshakes, left, err>>
      /\ pc = "idle" /\ Position(o) + n <= MaxBytes
  BY DEF Call, peerVars, tlsVars
<1>2. Position(o) \in Nat
  BY SMTT(30) DEF Position
<1>3. buf' = [k \in 1..n |-> IF o = "recvn" THEN 0 ELSE Position(o) + k]
  BY DEF Call
<1>4. /\ buf' \in [1..n -> Int]
      /\ o = "sendn" => \A k \in 1..n : buf'[k] = Position(o) + k
  BY <1>2, <1>3, SMTT(30)
<1>5. Len(buf') = n
  BY <1>4, FunctionAsSeq
<1>6. TypeOK'
  BY <1>1, <1>5, SMTT(30)
<1>7. DataTypes'
  BY <1>1, <1>2, <1>4
<1>8. InInv' /\ OutInv'
  BY <1>1 DEF InInv, OutInv
<1>9. ProgressInv'
  BY <1>1, <1>2, <1>4, SMTT(30) DEF ProgressInv, Position
<1> QED
  BY <1>6, <1>7, <1>8, <1>9

\* Every step.
LEMMA InvStep == TypeOK /\ IInv /\ [Next]_vars => (TypeOK /\ IInv)'
<1> SUFFICES ASSUME TypeOK, IInv, [Next]_vars
             PROVE  (TypeOK /\ IInv)'
  OBVIOUS
<1>1. CASE QuietStep \/ UNCHANGED vars
  BY <1>1, QuietKeeps
<1>2. CASE PeerSends
  BY <1>2, PeerSendsKeeps
<1>3. CASE RecvSome
  BY <1>3, RecvSomeKeeps
<1>4. CASE SendSome
  BY <1>4, SendSomeKeeps
<1>5. ASSUME NEW o \in {"recvn", "sendn"}, NEW n \in 0..MaxCount, Call(o, n)
      PROVE  (TypeOK /\ IInv)'
  BY <1>5, CallKeeps
<1> QED
  BY <1>1, <1>2, <1>3, <1>4, <1>5 DEF Next, Client, Transfer, Peer, QuietStep

-----------------------------------------------------------------------------
(* The theorems.                                                            *)

\* Type correctness and the inductive invariant: which bytes are where, and how
\* far the transfer has got.
THEOREM NetIoInvariant == Spec => [](TypeOK /\ IInv)
<1>1. ASSUME Init
      PROVE  TypeOK /\ IInv
  <2> USE <1>1, ConstantsAssumption DEF Init
  <2>1. TypeOK
    <3>1. {tls, peerClosed, record} \subseteq BOOLEAN
      BY Zenon
    <3>2. Len(inQ) = 0 /\ Len(outStream) = 0 /\ Len(buf) = 0
      OBVIOUS
    <3> QED
      BY <3>1, <3>2 DEF TypeOK
  <2>2. DataTypes
    BY DEF DataTypes, Bytes
  <2>3. InInv /\ OutInv /\ ProgressInv
    BY DEF InInv, OutInv, ProgressInv
  <2> QED
    BY <2>1, <2>2, <2>3 DEF IInv
<1> QED
  BY <1>1, InvStep, PTL DEF Spec

\* netx_recvn() and netx_sendn() are byte exact, for every way in which the
\* bytes may come and go in pieces.
THEOREM TransfersAreExact == Spec => []TransfersExact
<1>1. TypeOK /\ IInv => RecvnExact
  <2> SUFFICES ASSUME TypeOK, IInv, pc = "done", err = "none", op = "recvn"
               PROVE  buf = [k \in 1..count |-> start + k]
    BY DEF RecvnExact
  <2> QED
    BY DEF TypeOK, IInv, DataTypes, ProgressInv
<1>2. TypeOK /\ IInv => SendnExact
  BY SMTT(30) DEF TypeOK, IInv, DataTypes, Bytes, OutInv, ProgressInv, SendnExact
<1> QED
  BY <1>1, <1>2, NetIoInvariant, PTL DEF TransfersExact

=============================================================================
