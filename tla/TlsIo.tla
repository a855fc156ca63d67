------------------------------- MODULE TlsIo --------------------------------
(***************************************************************************)
(* TLS over the client's own BIO: the four operations that call OpenSSL    *)
(* (handshake, SSL_read, SSL_write, SSL_shutdown), the BIO callbacks that  *)
(* OpenSSL calls back, and map_ssl_error(), which tells what happened      *)
(* from four places: the returned number, the thread's error queue, the    *)
(* retry flags of the BIO and errno.  The last three outlive a call, and   *)
(* what they say may be about another one.                                 *)
(*                                                                         *)
(* OpenSSL and the peer are external.  An engine step reads or writes one  *)
(* record through the BIO; which steps an operation takes is its choice.   *)
(* A receive buffer of one record is enough, since the engine reads them   *)
(* one at a time.  OpenSSL always gives the callbacks a BIO, a buffer and  *)
(* a positive count, and the client's data is set before it is used, so    *)
(* their EINVAL returns are not reached.                                   *)
(***************************************************************************)
EXTENDS Naturals

CONSTANT MaxFlight      \* bound: records the engine writes between two reads

ASSUME ConstantsAssumption == MaxFlight \in Nat \ {0}

Operations == {"handshake", "recv", "send", "shutdown"}
Errnos == {"zero", "eagain", "econnreset"}
Blocks == {"blocked_read", "blocked_write"}

VARIABLES
    record, room,    \* a record can be read; the send buffer takes one
    peer,            \* "open", "closed" (end of stream) or "reset"
    errno, queue,    \* the thread's; `queue` tells whether it is not empty
    retry,           \* the retry flag of the BIO
    rw,              \* SSL_want(): which BIO call the engine stopped in
    notified,        \* the engine has received close_notify
    op, pc,
    need, flight,    \* what the engine does next; how often it has written
    cause,           \* history: why the engine stopped in this try
    err,             \* what the operation returned
    shut             \* shutdown(2) has succeeded

peerVars == <<record, room, peer>>
threadVars == <<errno, queue>>
engineVars == <<retry, rw, notified, need, flight, cause>>
vars == <<peerVars, threadVars, engineVars, op, pc, err, shut>>

Init ==
    /\ record = FALSE /\ room = TRUE /\ peer = "open"
    /\ errno \in Errnos /\ queue \in BOOLEAN
    /\ retry = "none" /\ rw = "nothing" /\ notified = FALSE
    /\ op = "handshake" /\ pc = "enter"
    /\ need = "write" /\ flight = 0
    /\ cause = "none" /\ err = "none"
    /\ shut = FALSE

-----------------------------------------------------------------------------
(* The peer, and the rest of the thread.                                   *)

PeerSends ==
    /\ peer = "open" /\ ~record
    /\ record' = TRUE
    /\ UNCHANGED <<room, peer, threadVars, engineVars, op, pc, err, shut>>

PeerReads ==
    /\ ~room
    /\ room' = TRUE
    /\ UNCHANGED <<record, peer, threadVars, engineVars, op, pc, err, shut>>

PeerLeaves ==
    /\ peer = "open"
    /\ peer' \in {"closed", "reset"}
    /\ record' = (record /\ peer' = "closed")
    /\ UNCHANGED <<room, threadVars, engineVars, op, pc, err, shut>>

\* Between two operations the thread makes system calls that fail, and uses
\* OpenSSL for other connections.
ThreadGoesOn ==
    /\ pc = "returned"
    /\ errno' \in Errnos
    /\ queue' \in BOOLEAN
    /\ UNCHANGED <<peerVars, engineVars, op, pc, err, shut>>

-----------------------------------------------------------------------------
(* The operations.                                                         *)

\* Only a shutdown may follow an operation that failed.
Begin(o) ==
    /\ pc = "returned"
    /\ err = "none" \/ o = "shutdown"
    /\ o # "handshake" /\ op # "shutdown"
    /\ op' = o
    /\ pc' = "enter"
    /\ UNCHANGED <<peerVars, threadVars, engineVars, err, shut>>

Enter_KeepsQueue ==
    /\ pc = "enter"
    /\ pc' = "engine"
    /\ UNCHANGED queue
    /\ errno' = IF op \in {"recv", "send"} THEN "zero" ELSE errno
    /\ rw' = "nothing"
    /\ cause' = "none"
    /\ need' \in (IF op = "shutdown" THEN {"write"} ELSE {"read", "write"})
    /\ UNCHANGED <<peerVars, retry, notified, flight, op, err, shut>>

\* Before each try netx_recv_nonblocking() and netx_send_nonblocking() do
\* SetLastError(0) and ERR_clear_error(); the handshake and the shutdown only
\* the latter.  The engine then knows what it has to do next.
Enter ==
    /\ pc = "enter"
    /\ pc' = "engine"
    /\ queue' = FALSE
    /\ errno' = IF op \in {"recv", "send"} THEN "zero" ELSE errno
    /\ rw' = "nothing"
    /\ cause' = "none"
    /\ need' \in (IF op = "shutdown" THEN {"write"} ELSE {"read", "write"})
    /\ UNCHANGED <<peerVars, retry, notified, flight, op, err, shut>>

\* The engine returns to its caller, which looks for the reason.
Stops(why) ==
    /\ cause' = why
    /\ pc' = "map"
    /\ UNCHANGED <<op, err, shut>>

\* Nothing to do: application data was already decrypted, or the connection
\* already ended by close_notify.
EngineAnswers ==
    /\ pc = "engine" /\ op = "recv" /\ need = "read"
    /\ Stops(IF notified THEN "close_notify" ELSE "done")
    /\ UNCHANGED <<peerVars, threadVars, retry, rw, notified, need, flight>>

-----------------------------------------------------------------------------
(* libndt7_bio_read() and libndt7_bio_write().                             *)

\* A record was moved: BIO_clear_retry_flags() and nothing else.  The engine
\* is done, or goes on, or does not like what it got.
BioReadSucceeds ==
    /\ pc = "engine" /\ need = "read"
    /\ record
    /\ record' = FALSE
    /\ retry' = "none" /\ rw' = "nothing" /\ flight' = 0
    /\ \/ /\ need' \in {"read", "write"}
          /\ UNCHANGED <<queue, notified, cause, op, pc, err, shut>>
       \/ Stops("done") /\ UNCHANGED <<queue, notified, need>>
       \/ Stops("close_notify") /\ notified' = TRUE /\ UNCHANGED <<queue, need>>
       \/ Stops("protocol") /\ queue' = TRUE /\ UNCHANGED <<notified, need>>
    /\ UNCHANGED <<room, peer, errno>>

\* SSL_shutdown() returns 0 when close_notify is sent but was not received.
BioWriteSucceeds ==
    /\ pc = "engine" /\ need = "write"
    /\ room /\ peer # "reset"
    /\ room' \in BOOLEAN
    /\ retry' = "none" /\ rw' = "nothing"
    /\ IF op = "shutdown"
         THEN /\ Stops(IF notified THEN "done" ELSE "half")
              /\ UNCHANGED <<need, flight>>
         ELSE \/ Stops("done") /\ UNCHANGED <<need, flight>>
              \/ /\ flight < MaxFlight
                 /\ flight' = flight + 1
                 /\ need' \in {"read", "write"}
                 /\ UNCHANGED <<cause, op, pc, err, shut>>
    /\ UNCHANGED <<record, peer, threadVars, notified>>

BioBlocks_OneFlag ==
    /\ pc = "engine"
    /\ \/ /\ need = "read" /\ ~record /\ peer = "open"
          /\ rw' = "reading"
          /\ Stops("blocked_read")
       \/ /\ need = "write" /\ ~room /\ peer # "reset"
          /\ rw' = "writing"
          /\ Stops("blocked_write")
    /\ retry' = "read"
    /\ errno' = "eagain"
    /\ UNCHANGED <<peerVars, queue, notified, need, flight>>

\* Recv() or Send() would block: the flag for the direction is set.
BioBlocks ==
    /\ pc = "engine"
    /\ \/ /\ need = "read" /\ ~record /\ peer = "open"
          /\ retry' = "read" /\ rw' = "reading"
          /\ Stops("blocked_read")
       \/ /\ need = "write" /\ ~room /\ peer # "reset"
          /\ retry' = "write" /\ rw' = "writing"
          /\ Stops("blocked_write")
    /\ errno' = "eagain"
    /\ UNCHANGED <<peerVars, queue, notified, need, flight>>

BioEof_KeepsRetry ==
    /\ pc = "engine" /\ need = "read"
    /\ ~record /\ peer = "closed"
    /\ rw' = "reading"
    /\ queue' \in {queue, TRUE}
    /\ Stops("eof")
    /\ UNCHANGED <<peerVars, errno, retry, notified, need, flight>>

\* Recv() returned 0, and errno stays as it was.  OpenSSL 3 puts an entry into
\* the queue for it, older versions do not.
BioEof ==
    /\ pc = "engine" /\ need = "read"
    /\ ~record /\ peer = "closed"
    /\ retry' = "none" /\ rw' = "reading"
    /\ queue' \in {queue, TRUE}
    /\ Stops("eof")
    /\ UNCHANGED <<peerVars, errno, notified, need, flight>>

BioFails ==
    /\ pc = "engine"
    /\ peer = "reset"
    /\ retry' = "none"
    /\ rw' = IF need = "read" THEN "reading" ELSE "writing"
    /\ errno' = "econnreset"
    /\ Stops("reset")
    /\ UNCHANGED <<peerVars, queue, notified, need, flight>>

Engine ==
    \/ EngineAnswers
    \/ BioReadSucceeds
    \/ BioWriteSucceeds
    \/ BioBlocks
    \/ BioEof
    \/ BioFails

-----------------------------------------------------------------------------
(* map_ssl_error() and the retry loops.                                    *)

\* What OpenSSL makes of the returned number, the queue, the flags of the BIO
\* and the state of the connection.
SslGetError ==
    IF cause = "done" THEN "none"
    ELSE IF queue THEN "ssl"
    ELSE IF rw # "nothing" /\ retry = "read" THEN "want_read"
    ELSE IF rw # "nothing" /\ retry = "write" THEN "want_write"
    ELSE IF notified THEN "zero_return"
    ELSE "syscall"

\* netx_map_errno(); it asserts that errno is not 0.
MapErrno(e) ==
    IF e = "zero" THEN "assertion_failed"
    ELSE IF e = "eagain" THEN "operation_would_block"
    ELSE "connection_reset"

SyscallError_AlwaysErrno == MapErrno(errno)

SyscallError == IF errno = "zero" THEN "ssl_syscall" ELSE MapErrno(errno)

MapSslError ==
    IF SslGetError = "none" THEN "none"
    ELSE IF SslGetError = "zero_return" THEN "eof"
    ELSE IF SslGetError = "want_read" THEN "ssl_want_read"
    ELSE IF SslGetError = "want_write" THEN "ssl_want_write"
    ELSE IF SslGetError = "syscall" THEN SyscallError
    ELSE "ssl_generic"

\* Which errors each loop waits and tries again for.  ssl_retry_unary_op() does
\* not know operation_would_block.
Readable(e) ==
    e = "ssl_want_read" \/ (e = "operation_would_block" /\ op = "recv")
Writeable(e) ==
    e = "ssl_want_write" \/ (e = "operation_would_block" /\ op = "send")

Return(e) ==
    /\ err' = e
    /\ pc' = "returned"

Maps ==
    /\ pc = "map"
    /\ \/ Readable(MapSslError) /\ pc' = "wait_readable" /\ UNCHANGED err
       \/ Writeable(MapSslError) /\ pc' = "wait_writeable" /\ UNCHANGED err
       \/ /\ ~Readable(MapSslError) /\ ~Writeable(MapSslError)
          /\ IF MapSslError = "none" /\ op = "shutdown"
               THEN pc' = "shutdown" /\ UNCHANGED err
               ELSE Return(MapSslError)
    /\ UNCHANGED <<peerVars, threadVars, engineVars, op, shut>>

PollReady ==
    /\ \/ pc = "wait_readable" /\ (record \/ peer # "open")
       \/ pc = "wait_writeable" /\ (room \/ peer = "reset")
    /\ pc' = "enter"
    /\ UNCHANGED <<peerVars, threadVars, engineVars, op, err, shut>>

PollTimesOut ==
    /\ \/ pc = "wait_readable" /\ ~record /\ peer = "open"
       \/ pc = "wait_writeable" /\ ~room /\ peer # "reset"
    /\ Return("timed_out")
    /\ UNCHANGED <<peerVars, threadVars, engineVars, op, shut>>

\* netx_shutdown_both(): shutdown(2) behind a complete SSL_shutdown().
SysShutdown ==
    /\ pc = "shutdown"
    /\ \/ Return("none") /\ shut' = TRUE /\ UNCHANGED errno
       \/ Return("connection_reset") /\ errno' = "econnreset" /\ UNCHANGED shut
    /\ UNCHANGED <<peerVars, queue, engineVars, op>>

Step ==
    \/ Enter
    \/ Engine
    \/ Maps
    \/ PollReady
    \/ PollTimesOut
    \/ SysShutdown

Next ==
    \/ Step
    \/ \E o \in Operations : Begin(o)
    \/ ThreadGoesOn
    \/ PeerSends
    \/ PeerReads
    \/ PeerLeaves

\* The client's thread runs, and poll() returns, at the latest by its timeout.
\* Nothing is assumed of the peer.
Spec == Init /\ [][Next]_vars /\ WF_vars(Step)

-----------------------------------------------------------------------------
(* Properties.                                                             *)

Errors ==
    {"none", "eof", "ssl_generic", "ssl_syscall", "connection_reset",
     "operation_would_block", "timed_out"}

\* Types; and the assertion of netx_map_errno() does not fail.
TypeOK ==
    /\ {record, room, queue, notified, shut} \subseteq BOOLEAN
    /\ peer \in {"open", "closed", "reset"}
    /\ errno \in Errnos
    /\ retry \in {"none", "read", "write"}
    /\ rw \in {"nothing", "reading", "writing"}
    /\ op \in Operations
    /\ pc \in {"enter", "engine", "map", "wait_readable", "wait_writeable",
              "shutdown", "returned"}
    /\ need \in {"read", "write"}
    /\ flight \in 0..MaxFlight
    /\ cause \in {"none", "done", "half", "close_notify", "eof", "reset",
                 "protocol"} \cup Blocks
    /\ err \in Errors

\* The client sleeps only because OpenSSL could not go on, and for the
\* direction in which it could not: never for a flag, a queue entry or an errno
\* that some earlier call has left.
WaitsAsBlocked ==
    /\ pc = "wait_readable" => cause = "blocked_read"
    /\ pc = "wait_writeable" => cause = "blocked_write"

\* What an operation returns is about this operation: success only when the
\* engine finished it, the end of stream only when the peer has announced it, a
\* broken protocol only when OpenSSL found one (or a cut stream) in this call, and
\* for netx_recv() and netx_send() a reset only when the socket had one, and
\* never that they would block.  Handshake and shutdown do not reset errno, so
\* nothing is said of what they return at the end of the stream.
ErrorIsOwn ==
    pc = "returned" =>
      /\ err = "none" => cause = "done"
      /\ cause = "done" /\ op # "shutdown" => err = "none"
      /\ err = "eof" => notified
      /\ err = "ssl_generic" => cause \in {"protocol", "eof"}
      /\ err = "timed_out" => cause \in Blocks
      /\ op \in {"recv", "send"} =>
           /\ err = "connection_reset" => cause = "reset"
           /\ err # "operation_would_block"

\* Every operation ends, even when the peer has closed the connection or stays
\* silent, unless it goes on sending records for ever.
OperationEnds ==
    <>[][~PeerSends]_vars => (pc = "enter" ~> pc = "returned")

=============================================================================
