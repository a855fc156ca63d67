------------------------------- MODULE NetIo --------------------------------
(***************************************************************************)
(* netx_recvn() and netx_sendn() down to recv(), send(), SSL_read() and    *)
(* SSL_write() on a non-blocking socket: partial transfers, the wait with  *)
(* a timeout between two tries, and TLS records that make a read need a    *)
(* writeable socket or a write a readable one.                             *)
(*                                                                         *)
(* The bytes of each direction are numbered 1, 2, ... so that one lost,    *)
(* repeated or out of place shows.  The kernel's receive buffer has no     *)
(* bound of its own beyond MaxBytes; the send buffer holds Capacity bytes. *)
(***************************************************************************)
EXTENDS Integers, Sequences

CONSTANTS
    Capacity,            \* size of the kernel's send buffer
    MaxCount,            \* bound: the longest transfer asked for
    MaxBytes,            \* bound: bytes of all transfers, per direction
    MaxHandshakes,       \* bound: how often TLS needs the other direction
    PollTimeout          \* settings_.timeout, in ticks

ASSUME ConstantsAssumption ==
    /\ {Capacity, MaxCount} \subseteq Nat \ {0}
    /\ {MaxBytes, MaxHandshakes, PollTimeout} \subseteq Nat

VARIABLES
    tls,                \* protocol_flag_tls
    inQ,                \* bytes that arrived and were not read
    peerSent,           \* how many bytes the peer has sent
    outStream,          \* bytes the kernel accepted from the client
    unread,             \* how many of them still fill the send buffer
    peerClosed,         \* the peer has closed or reset the connection
    want, record,       \* what the TLS engine needs; its record has arrived
    handshakes,         \* how often it needed something
    op, count,          \* netx_recvn() or netx_sendn(), and its count
    off, buf, start,    \* progress; the buffer; stream position at the call
    left,               \* time that poll() has left
    pc, err

peerVars == <<inQ, peerSent, unread, peerClosed>>
tlsVars == <<tls, want, record, handshakes>>
opVars == <<op, count, start, left>>
vars == <<peerVars, outStream, tlsVars, opVars, off, buf, pc, err>>

Init ==
    /\ tls \in BOOLEAN
    /\ inQ = <<>> /\ peerSent = 0
    /\ outStream = <<>> /\ unread = 0
    /\ peerClosed = FALSE
    /\ want = "none" /\ record = FALSE /\ handshakes = 0
    /\ op = "none" /\ count = 0 /\ start = 0 /\ left = 0
    /\ off = 0 /\ buf = <<>>
    /\ pc = "idle" /\ err = "none"

Readable == inQ # <<>> \/ record \/ peerClosed
Writeable == unread < Capacity \/ peerClosed

-----------------------------------------------------------------------------
(* The peer and the network.                                               *)

PeerSends ==
    /\ ~peerClosed
    /\ peerSent < MaxBytes
    /\ want # "read" /\ ~record
    /\ peerSent' = peerSent + 1
    /\ inQ' = Append(inQ, peerSent + 1)
    /\ UNCHANGED <<unread, peerClosed, outStream, tlsVars, opVars, off, buf, pc, err>>

PeerReads ==
    /\ unread > 0
    /\ \E n \in 0..unread - 1 : unread' = n
    /\ UNCHANGED <<inQ, peerSent, peerClosed, outStream, tlsVars, opVars, off, buf, pc, err>>

PeerSendsRecord ==
    /\ ~peerClosed
    /\ want = "read" /\ ~record
    /\ record' = TRUE
    /\ UNCHANGED <<peerVars, outStream, tls, want, handshakes, opVars, off, buf, pc, err>>

PeerCloses ==
    /\ ~peerClosed
    /\ peerClosed' = TRUE
    /\ UNCHANGED <<inQ, peerSent, unread, outStream, tlsVars, opVars, off, buf, pc, err>>

Peer == PeerSends \/ PeerReads \/ PeerSendsRecord \/ PeerCloses

-----------------------------------------------------------------------------
(* netx_recvn() and netx_sendn().                                          *)

\* Where in its stream a transfer begins: behind all that was read or sent.
Position(o) == IF o = "recvn" THEN peerSent - Len(inQ) ELSE Len(outStream)

Call(o, n) ==
    /\ pc = "idle"
    /\ Position(o) + n <= MaxBytes
    /\ op' = o /\ count' = n /\ start' = Position(o)
    /\ off' = 0
    /\ buf' = [k \in 1..n |-> IF o = "recvn" THEN 0 ELSE Position(o) + k]
    /\ pc' = IF n = 0 THEN "done" ELSE "io"
    /\ UNCHANGED <<peerVars, outStream, tlsVars, left, err>>

\* One netx_recv() or netx_send() has moved n bytes: around the loop again
\* until all are.
Moved(n) ==
    /\ off' = off + n
    /\ pc' = IF off + n = count THEN "done" ELSE "io"
    /\ UNCHANGED err

Fails(e) ==
    /\ err' = e
    /\ pc' = "done"
    /\ UNCHANGED off

-----------------------------------------------------------------------------
(* netx_recv_nonblocking() and netx_send_nonblocking().                    *)

RecvSome_WholeCount ==
    /\ pc = "io" /\ op = "recvn" /\ want = "none"
    /\ \E n \in 1..count :
         /\ n <= Len(inQ)
         /\ buf' = [k \in 1..count |->
                      IF k \in off + 1..off + n THEN inQ[k - off] ELSE buf[k]]
         /\ inQ' = SubSeq(inQ, n + 1, Len(inQ))
         /\ Moved(n)
    /\ UNCHANGED <<peerSent, unread, peerClosed, outStream, tlsVars, opVars>>

\* recv() or SSL_read() at base + off, for count - off bytes.
RecvSome ==
    /\ pc = "io" /\ op = "recvn" /\ want = "none"
    /\ \E n \in 1..count - off :
         /\ n <= Len(inQ)
         /\ buf' = [k \in 1..count |->
                      IF k \in off + 1..off + n THEN inQ[k - off] ELSE buf[k]]
         /\ inQ' = SubSeq(inQ, n + 1, Len(inQ))
         /\ Moved(n)
    /\ UNCHANGED <<peerSent, unread, peerClosed, outStream, tlsVars, opVars>>

RecvEof ==
    /\ pc = "io" /\ op = "recvn" /\ want = "none"
    /\ inQ = <<>> /\ peerClosed
    /\ Fails("eof")
    /\ UNCHANGED <<peerVars, outStream, tlsVars, opVars, buf>>

SendSome_FromBase ==
    /\ pc = "io" /\ op = "sendn" /\ want = "none"
    /\ \E n \in 1..count - off :
         /\ n <= Capacity - unread
         /\ outStream' = outStream \o SubSeq(buf, 1, n)
         /\ unread' = unread + n
         /\ Moved(n)
    /\ UNCHANGED <<inQ, peerSent, peerClosed, tlsVars, opVars, buf>>

\* send() or SSL_write() of the count - off bytes at base + off.
SendSome ==
    /\ pc = "io" /\ op = "sendn" /\ want = "none"
    /\ \E n \in 1..count - off :
         /\ n <= Capacity - unread
         /\ outStream' = outStream \o SubSeq(buf, off + 1, off + n)
         /\ unread' = unread + n
         /\ Moved(n)
    /\ UNCHANGED <<inQ, peerSent, peerClosed, tlsVars, opVars, buf>>

\* Any error but those that mean "try again", EINTR among them; of a closed
\* connection in the middle of a handshake, too.
IoFails ==
    /\ pc = "io"
    /\ Fails("io_error")
    /\ UNCHANGED <<peerVars, outStream, tlsVars, opVars, buf>>

\* Before any application data can go on, the TLS engine has to read or to
\* write a record of its own.
TlsNeeds ==
    /\ pc = "io" /\ tls /\ want = "none"
    /\ inQ = <<>>
    /\ handshakes < MaxHandshakes
    /\ handshakes' = handshakes + 1
    /\ want' \in {"read", "write"}
    /\ UNCHANGED <<peerVars, outStream, tls, record, opVars, off, buf, pc, err>>

TlsGoesOn ==
    /\ pc = "io"
    /\ \/ want = "read" /\ record
       \/ want = "write" /\ unread < Capacity
    /\ want' = "none"
    /\ record' = FALSE
    /\ UNCHANGED <<peerVars, outStream, tls, handshakes, opVars, off, buf, pc, err>>

-----------------------------------------------------------------------------
(* netx_recv() and netx_send(): wait and try again.                        *)

\* operation_would_block waits for the direction of the call, ssl_want_read
\* and ssl_want_write for the one the TLS engine named.
Blocked ==
    \/ want = "read" /\ ~record
    \/ want = "write" /\ unread >= Capacity
    \/ want = "none" /\ op = "recvn" /\ inQ = <<>> /\ ~peerClosed
    \/ want = "none" /\ op = "sendn" /\ unread >= Capacity

Direction_OfTheCall == IF op = "recvn" THEN "wait_readable" ELSE "wait_writeable"

Direction ==
    IF want = "read" \/ (want = "none" /\ op = "recvn")
      THEN "wait_readable" ELSE "wait_writeable"

Waits ==
    /\ pc = "io"
    /\ Blocked
    /\ ~peerClosed
    /\ pc' = Direction
    /\ left' = PollTimeout
    /\ UNCHANGED <<peerVars, outStream, tlsVars, op, count, start, off, buf, err>>

Waiting == pc \in {"wait_readable", "wait_writeable"}
Ready ==
    \/ pc = "wait_readable" /\ Readable
    \/ pc = "wait_writeable" /\ Writeable

PollReady ==
    /\ Waiting /\ Ready
    /\ pc' = "io"
    /\ UNCHANGED <<peerVars, outStream, tlsVars, opVars, off, buf, err>>

Tick ==
    /\ Waiting
    /\ left > 0
    /\ left' = left - 1
    /\ UNCHANGED <<peerVars, outStream, tlsVars, op, count, start, off, buf, pc, err>>

\* A signal: poll() is called again, for the whole timeout.
PollInterrupted ==
    /\ Waiting
    /\ left' = PollTimeout
    /\ UNCHANGED <<peerVars, outStream, tlsVars, op, count, start, off, buf, pc, err>>

PollFails ==
    /\ Waiting
    /\ \/ left = 0 /\ ~Ready /\ Fails("timed_out")
       \/ Fails("io_error")
    /\ UNCHANGED <<peerVars, outStream, tlsVars, opVars, buf>>

\* The caller goes on with the connection only after a success.
NextCall ==
    /\ pc = "done" /\ err = "none"
    /\ pc' = "idle"
    /\ UNCHANGED <<peerVars, outStream, tlsVars, opVars, off, buf, err>>

Transfer ==
    \/ RecvSome
    \/ RecvEof
    \/ SendSome
    \/ IoFails
    \/ TlsNeeds
    \/ TlsGoesOn
    \/ Waits
    \/ PollReady
    \/ PollFails
    \/ Tick

Client ==
    \/ \E o \in {"recvn", "sendn"}, n \in 0..MaxCount : Call(o, n)
    \/ Transfer
    \/ NextCall

Next == Client \/ PollInterrupted \/ Peer

\* The client's thread runs, time passes, and poll() ends when its timeout is
\* over; nothing is assumed of the peer.
Spec == Init /\ [][Next]_vars /\ WF_vars(Transfer)

-----------------------------------------------------------------------------
(* Properties.                                                             *)

TypeOK ==
    /\ {peerSent, Len(outStream)} \subseteq 0..MaxBytes
    /\ Len(inQ) <= peerSent
    /\ unread \in 0..Capacity
    /\ {tls, peerClosed, record} \subseteq BOOLEAN
    /\ want \in {"none", "read", "write"}
    /\ op \in {"none", "recvn", "sendn"}
    /\ left \in 0..PollTimeout
    /\ count \in 0..MaxCount /\ off \in 0..count /\ Len(buf) = count
    /\ pc \in {"idle", "io", "wait_readable", "wait_writeable", "done"}
    /\ err \in {"none", "eof", "io_error", "timed_out"}

\* netx_recvn() that returns none has filled the whole buffer with the next
\* bytes of the stream, in order and none twice, however they arrived.
RecvnExact ==
    pc = "done" /\ err = "none" /\ op = "recvn" =>
      buf = [k \in 1..count |-> start + k]

\* netx_sendn() that returns none has sent its whole buffer; and whatever
\* happened, what went out is the calls' bytes in order, none twice.
SendnExact ==
    /\ outStream = [k \in 1..Len(outStream) |-> k]
    /\ pc = "done" /\ err = "none" /\ op = "sendn" =>
         Len(outStream) = start + count

\* Byte exact in both directions.
TransfersExact == RecvnExact /\ SendnExact

\* Every transfer ends, even when the peer neither sends nor reads nor
\* answers: no way around the two retry loops for ever.  It takes that signals
\* do not interrupt poll() for ever, for each makes the timeout start anew.
TransferEnds ==
    <>[][~PollInterrupted]_vars => (pc = "io" ~> pc = "done")

=============================================================================
