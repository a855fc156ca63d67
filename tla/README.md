# A TLA+ model of libndt7

This directory holds TLA+ specifications of the C++ ndt7 client in this
repository (`include/libndt7/` and `ndt7-client-cc.cpp`), the TLC configurations
that check them, and proofs for TLAPS. Line numbers below are those of
`include/libndt7/libndt7.cpp` unless another file is named.

## 1. Inventory

A `Client` object is used by one thread. `run()` asks the Locate API for
servers, then runs the download and the upload against them, each over a
connection of its own. The calls go down through layers:

    main() / application                       ndt7-client-cc.cpp
      run()                                    361-420
        query_locate_api()  -> curl            531-595, internal/curlx.hpp
        ndt7_download() / ndt7_upload()        600-788
          ndt7_connect()                       790-809
            netx_maybews_dial()                1542-1567   WebSocket handshake
              netx_maybessl_dial()             1569-1701   TLS, BIO method
                netx_maybesocks5h_dial()       1703-1923   proxy
                  netx_dial()                  1989-2091   resolve, socket, connect
          ws_recvmsg(), ws_send_frame()        953-1340
            netx_recvn(), netx_sendn()         2095-2265
              poll(), recv(), SSL_read(), ...  2348-2461, internal/sys.hpp

| Component | State | Operations | What makes it correct |
| --- | --- | --- | --- |
| Connection life cycle | `sock_`, `fd_to_ssl_`, `settings_.protocol_flags`, the process's descriptors | `ndt7_connect()`, the four `*_dial()` layers, `netx_closesocket()`, destructor | never closes or uses a number that is not its own; no SSL object without its socket; never in clear when TLS is asked for; the I/O of each attempt on its own socket; nothing leaks |
| Test run and summary | `summary_`, `measurement_`, `connection_info_`, the clock of a subtest | `run()`, `ndt7_download()`, `ndt7_upload()`, `summary()` | verdict follows from the attempts; servers in order until one succeeds; results are those of the server that succeeded; the deadlines end the loops of a run, if each call to the network ends |
| WebSocket receive path | the caller's buffer, `*count`, `*opcode` | `ws_recvmsg()`, `ws_recv_frame()`, `ws_recv_any_frame()` | messages whole, in order, inside the buffer; PINGs echoed; RFC 6455 violations refused (but for the form of a length), conforming streams not |
| Network I/O | progress of a transfer, what TLS waits for, errno and the error queue | `netx_recvn()`, `netx_sendn()`, `netx_recv/send()`, `netx_poll()`, `ssl_retry_unary_op()`, `netx_shutdown_both()`, the maps of errors | exactly the bytes asked for; errors that are about this call; ends by a timeout at the latest |
| OpenSSL BIO method | one `static` pointer, flag and mutex for the process; the retry flags of a BIO | `libndt7_bio_method()`, `libndt7_bio_read/write()` | built once, never seen incomplete, never freed in use, whatever the threads do; flags mirror the system's errors |
| WebSocket handshake | a line, the headers seen, the count of lines | `ws_handshake()`, `ws_sendln()`, `ws_recvln()` | accepts only a complete 101 answer, refuses only for a reason, reads nothing beyond it |
| WebSocket frame encoding | none | `ws_prepare_frame()`, `ws_send_frame()`, `ws_recv_any_frame()` | lengths and masks survive encoding and decoding; a cut frame is not taken for a frame |
| SOCKSv5h messages | none beyond the connection | `netx_maybesocks5h_dial()` | the right host and port asked for; the reply read to its last byte, since the server's bytes follow |
| Locate API query | curl handle, options, the answer | `query_locate_api()`, `get_static_locate_result()`, `Curlx` | handle freed on every path; no answer but a whole one used; asked as the settings say |
| Command line client | options | `main()`, `BatchClient`, `StandardClient` | settings follow the options; success means tested; the program ends, if what it calls does |
| System calls, errors, logging, timeouts | none | `Sys`, `Err`, macros | - |

How they interact: by calls down the layers and error codes up; by the shared
fields `sock_`, `fd_to_ssl_` and `protocol_flags`, which every I/O function
consults to choose between TLS and plain calls; by virtual callbacks upward
(`on_performance()`, `on_result()`, logging), which keep no state of the client;
and by process-wide state, namely descriptor numbers, which the embedding
application allocates from too, and the BIO method, shared by all clients.

Hard behaviour. There are some thirty error paths in the dial, each with its own
idea of who closes the socket. Servers are retried, so an attempt inherits what
a failed one left in `sock_`, `fd_to_ssl_`, the flags, the summary and the
measurement. Control frames arrive between the fragments of a message and share
its buffer. Non-blocking I/O is partial, may time out, and under TLS may need
the opposite direction. The BIO method is initialised by several threads with
double-checked locking. A call into OpenSSL reports through a number, a queue of
errors, flags and errno, of which three outlive the call. The bytes of a proxy,
of the handshake and of the first frame follow each other on one stream, so a
reader that takes one too many or too few spoils the next. `PROJECT.json` lists
each hazard at its line, with the property about it or the reason why there is
none.

## 2. Plan

Done, in this order (most consequential first):

1. `Connection`, with `ConnectionProofs`: the shared fields everything relies on.
2. `RunPromise` (abstract) and `Ndt7Run` (detailed), with `Ndt7RunProofs`: what a
   user sees.
3. `WsRecv`, with `WsRecvProofs`: the most intricate data path.
4. `NetIo`, with `NetIoProofs`: what the layers above take for granted.
5. `BioMethod`, with `OpenSslProofs`: the one place with threads.
6. `WsHandshake`, and `WsDial`, which composes the dialogue with the proxy and the
   handshake over one stream; with `WsDialProofs` for both.
7. `TlsIo`, also with `OpenSslProofs`: what OpenSSL's four ways to report an error
   make of a call.
8. `WsFrame`, with `WsFrameProofs`: the bytes of a frame, below the frames of
   `WsRecv`.
9. `Locate`, and `ClientMain`, which composes the command line, the Locate query
   and `run()` as `RunPromise` promises it; with `ClientMainProofs`.

Left:

10. `WsRecv` over `WsFrame`: its steps `RecvInvalid` and those that take a frame
    stand for what `WsFrame` does byte by byte. `FramesAsSent` and
    `RefusalsForReason` are the two facts that this rests on; stating them as a
    refinement needs a sequence of frames in `WsFrame`.
11. `Ndt7Run` composed with `Connection`, the one step "connect" of the former being
    a whole dial of the latter. The two share no variable but the outcome of the
    dial, of which `Ndt7Run` already allows both.

## 3. Modules

Definitions with names like `Name_Variant` are mutated forms of `Name`: what the
action would be with a plausible bug. No specification uses them. They document
which bug each property would catch (`mutants` in `PROJECT.json`). Every `MC*`
module only gives values to the constants of the module it extends. The modules
`*Proofs` extend the modules that they are about.

**Connection.** `pc` is the point of the dial the client thread has reached.
`sock` is `sock_`, `fdToSsl` the key set of `fd_to_ssl_`, `flags` is
`settings_.protocol_flags` and `savedFlags` the local copy that
`netx_maybessl_dial()` restores. `owner` is the descriptor table of the process;
`AppOpens` and `AppCloses` are the rest of the process, interleaved freely. One
action stands for the code between two system (or OpenSSL) calls whose failure
takes different paths. The number of addresses a name resolves to is not fixed:
after each failure `TryNextAddress` either continues or gives up, and then
`NetxDialReturns` takes the result from `sock`, as the code does (2085-2090).
`NetxClosesocket` keeps the code's peculiarity that with TLS it refuses a
descriptor without an SSL object. `strayClose` is a history variable. The
destructor is called only between runs, as C++ requires. The copy of the flags
in `Init` is what `main()` does; an application that sets the flags itself
without the TLS one is the case `settings.tls = FALSE`.

**RunPromise** says what a caller of `run()` may rely on in terms of attempts and
the verdict alone. **Ndt7Run** is the code: `run()`'s two loops with
`test`, `i` and `success`, the dial as one step, the heads of the two subtest
loops (`DownloadCheck`, `UploadCheck`), one action per outcome of
`ws_recvmsg()` or of a send, and `Tick` for the clock between any two of them.
`Waiting` are the points where the thread is inside such a call, which need not
end. A
summary field holds where its value came from (a server's number, 0 after a
reset, `Garbage` if never assigned), which is what the properties need; `bytesAt`
is when `total` last grew. `P == INSTANCE RunPromise` maps the abstract variables
by name.

**WsRecv.** `ServerSends` puts any frame on the wire, allowed by RFC 6455 or
not, and remembers what the server has sent (`sent`), whether the order and the
headers of the frames conform (`lawful`), and whether every length was written in
the shortest way (`shortest`), which RFC 6455 asks for as well and the code checks
only of control frames.
The client's actions are the checks of `ws_recv_any_frame()` in the order of the code
(`RecvInvalid`), the control frames of `ws_recv_frame()`, and the first and the
further fragments of `ws_recvmsg()`. The PING's payload is written at
`base + *count` and masked there by the PONG; bytes of the message are numbers,
so a damaged message is visible. `Write` would grow `buf` if anything were
written past the end, and `TypeOK` would then fail.

**NetIo.** A transfer is `Call`, then rounds of a non-blocking try
(`RecvSome`, `SendSome`, `TlsNeeds`, `TlsGoesOn`, errors) and waits (`Waits`,
`PollReady`, `PollFails`). `left` is the time `poll()` has left; a signal
(`PollInterrupted`) starts it anew, as the code does. The peer sends, reads,
closes or stays silent. Bytes are numbered per direction. TLS is present by its
need for the other direction only; a `TlsNeeds` happens before application data,
as renegotiation or post-handshake messages do.

**TlsIo.** The four operations that go through OpenSSL. A try is `Enter` (what the
code resets before it), steps of the engine that end in one of the BIO callbacks,
and `Maps`: `SslGetError` as OpenSSL documents it, `MapSslError`, and the retry
loops with the errors each of them knows. `errno` and `queue` belong to the
thread and outlive a call, as does `retry`, the flag in the BIO; `ThreadGoesOn`
spoils the first two between operations. `cause` is a history variable: why the
engine really stopped in this try. The properties compare it with what the client
concludes. Which records an operation needs is the engine's choice.

**BioMethod.** One action per access to the flag, the mutex or the static
pointer, for any set of threads; `at` is where each of them stands. (Its names
differ from those of `TlsIo`, for `OpenSslProofs` extends both.) The flag is a `std::atomic_bool` with
sequentially consistent accesses, and every access to the pointer is ordered by
the mutex or the flag; interleaving is therefore a faithful model.

**WsHandshake.** A symbol on the wire is `'\r'`, `'\n'` or a text: one of the lines
that the code compares with, or `Other`. `text` and `request` are history
variables: all that was read without the `'\r'`, and the lines sent. `line`, `flags`
and `headers` are the locals of `ws_handshake()`. What a reply says is defined
from `text` alone (`IsLine`, `Has`, `Over`, `TooLong`, `TooMany`), apart from the
reader that the properties judge.

**WsDial** extends it with the dialogue that precedes it on the stream. `stage` is
the message of `netx_maybesocks5h_dial()` that comes next. Bytes the code looks
at are numbers up to a small `MaxByte`, so that the length of a name and the two
bytes of a port reach their limits; the rest are `Data`. `unread` are the proxy's
bytes not read so far: what the reader leaves there becomes input of the
handshake (`StrayByte`) before any byte of the server. `asked` and `told` record
the request and the proxy's messages. The proxy may send one byte too many behind
its choice of a method (`BehindMethod`), which the client takes for the start of
the reply, and one behind the reply (`Behind`).

**WsFrame** has the bytes of one frame. A digit of the length has `Base` values
for 256 and `Inline` stands for 126; there are two digits or eight, as in the
code. `PrepareFrame` and `SendFrame` are the sender, with a transfer that may break
off behind any byte; `RecvHeader`, `RecvLen16`, `RecvLen64` and `RecvBody` the
receiver, of frames written in every way a server may write a length, and cut at
every byte. `Digits8` shifts the length as the sender does, `Value8` sums the shifted
digits as the receiver does. The reference for the sender is `RfcFrame`, a decoder
that takes one digit after the other (`Then`, `Number8`) and is used by nothing else.

**Locate** is `query_locate_api()`: the static answer, or the request, one
`Setopt` per option of `Curlx::Get()` each of which may fail, `Perform`, and the
reading of the answer: `ParseBody`, `TakeResult` for each result that has URLs (one
without them is skipped and leaves nothing behind), `ResultsEnd`. `handle` is the curl handle, `opts` the options set so far,
`received` what the write callback has put together, `body` what
`query_locate_api()` takes it for, `urls` its result. Of an answer only what
`run()` looks at exists, and whether the value of "urls" has any members. Of the
characters of a host name or a port there is one bit, `selfReplacing`: whether
they contain their own placeholder, in which case the static answer is never made
(`ReplaceForever`). **ClientMain** is `main()`: the options by name, in the
order of the parser, the settings they change, the checks, then `Locate`, then the
actions of `RunPromise` (`P == INSTANCE RunPromise WITH targets <- Offered`) in
the place of `run()`, and the exit status. Crashes of the code are steps to
`"crashed"`.

## 4. Runs

| Run | Bounds | What it shows |
| --- | --- | --- |
| `connection` | 2 descriptor numbers | in every sequence of attempts, failures, subtests and destruction, with the application opening and closing descriptors: no stray close, SSL objects only for the live socket, TLS when configured, I/O only on an own socket, no leak without TLS |
| `connection_leak` | same | violated: with TLS a descriptor leaks when the setup fails before the SSL object is registered |
| `run` | 2 servers, deadlines at 1 tick, interval 0, clock to 2 | the summary comes from the server that succeeded, and speeds only count bytes moved within their time; `Ndt7Run` implements `RunPromise`; `run()` returns unless one single call to the network never ends |
| `run_garbage` | same | violated: a run completed one subtest and succeeded, and the summary fields of the other, not asked for or offered by no server, were never assigned |
| `run_batch_null` | same | violated: the batch summary reads a null `connection_info_` |
| `ws_recv` | buffer of 3 bytes, control payloads up to 2, any payload up to 4 | messages are intact, PONGs echo, conforming streams never give a protocol error; others are not delivered, unless all they break is the form of the lengths of data frames; `ws_recvmsg()` ends, unless the server sends frames without content for ever |
| `net_io` | transfers up to 3 bytes, 4 bytes per direction, send buffer of 2, TLS needs the other direction once, timeout of 1 tick | byte exactness both ways, and every transfer ends |
| `tls_io` | up to 2 records written between two reads | the client waits for what OpenSSL is blocked on, an error is about the call that returns it, the assertion of `netx_map_errno()` holds, every operation ends |
| `bio_method` | 3 threads | methods handed out are complete and never freed; null only for one's own failure; calls return, also behind a failed one, unless others fail without end |
| `ws_dial` | lines below 2 symbols, 5 header lines, bytes up to 2, addresses of 2 and 3 bytes | the proxy is asked for the right server and read to exactly the end of its reply; the WebSocket is accepted only with a whole reply, refused only for a reason, nothing is read behind the blank line; the dial ends |
| `ws_frame` | base 4, `Inline` 2, buffer of 16, lengths 0, 1, 2, 3, 5, 15, 16, 17, 4 masks | what is sent reads back by RFC 6455; what is received is what was sent, or is refused for a reason |
| `client` | up to 2 results of Locate | success means tested when the server is named; only whole answers are used; the query follows the settings and the proxy; the program ends, with two exceptions (below) |

Why the bounds are enough. Two descriptors let a closed number be taken by the
application, or by the client's own next socket, while the other one is in use;
the client holds one socket at a time plus possibly leaked ones (which need no
more than one number to show). Two servers give fail-then-succeed,
skip-then-succeed, both fail and both skip; server k+1 only ever sees what server
k left, and nothing looks further back. Ticks: the code only compares with the
deadlines, so below, at and above is what matters, and `MaxClock` lies past both.
A buffer of 3 bytes takes two or three fragments with a control frame that does
or does not fit in between; `MaxControl` < `Total` < `MaxPayload` keeps the order
of 125, 2^24 and the longest frame. Transfers of 3 bytes through a send buffer of
2 are always partial, and 4 bytes per direction leave room for a second transfer
after the first. Two records per flight let the engine block behind one it has
written. Three threads give one that builds, one that waits for the mutex and one
that comes later or after a failed construction. Four header lines and a blank
one just fit below the limit of 5, so that a reply with one line more is at it.
Bytes up to 2 make a base of 3: a name of 3 is too long and 9 is the first port
that is too large. The lengths of `ws_frame` lie on both sides of `Inline` (2), of
`Base`^2 (16) and of the buffer (16). Two results of Locate are needed for an
answer of which the first is unusable. The proofs below cover the safety properties of
every run for all values of the bounds.

`CHECK_DEADLOCK FALSE` is used where the system stops: a destroyed client, a
returned `run()`, a failed, closed or completed connection or dial, a frame that
is done, a program that has ended. `bio_method` and `tls_io` are checked for
deadlock.

### Fairness

Nothing is ever assumed of a server, a proxy, a peer or the Locate service.

- `Ndt7Run`: `WF(OwnStep)`, since the client's thread is scheduled, and `WF(Tick)`,
  since time passes. Nothing is assumed of the points `Waiting`, where the thread is
  in the Locate query, a dial, a `ws_recvmsg()`, or the sending of a measurement or of data:
  such a call need not end (`RecvmsgEnds`, `DialEnds`, `OperationEnds` and
  `TransferEnds` say when those below do). So `Returns` reads: `run()` returns, or
  stays in one single call for ever. A server that sends messages for ever, or takes
  all it is sent, does not keep it.
- `RunPromise`: `WF(Return)`, that is, a verdict that the attempts have decided is
  returned; neither Locate nor an attempt is promised to end. `run` checks that
  `Ndt7Run` implements it.
- `WsRecv`: `WF(RecvStep)`. `RecvmsgEnds` holds unless the server for ever sends
  frames that bring no message nearer (control frames, empty fragments). The
  code has no deadline against those: the clock of a subtest is looked at only
  between messages.
- `NetIo`: `WF(Transfer)`, since the thread is scheduled and `poll()` honours its
  timeout. `TransferEnds` holds if signals do not interrupt `poll()` for ever. How
  often TLS needs a record is bounded by `MaxHandshakes`.
- `TlsIo`: `WF(Step)`; `OperationEnds` holds unless the peer sends for ever, as
  `ssl_retry_unary_op()` has no bound of its own.
- `BioMethod`: `WF(MethodStep(t))` for each thread. Acquiring the mutex is only weakly
  fair, as `std::mutex` promises no order, and no thread is obliged to call.
  `CallsReturn` therefore excepts a thread that waits while others take the mutex
  and fail in `BIO_meth_new()` again and again.
- `WsDial`: `WF(Dial)`; `DialEnds` holds unless the server sends `'\r'` for ever:
  these are skipped and count neither for the line nor for the number of lines.
- `ClientMain`: `WF(Step)`, without `Perform` (the answer of the Locate service: what ends
  a silent one is the option `"timeout"`), `ReplaceForever` and the attempts of
  `run()`. `Ends` names the two ways in which the program may not end: a host name or
  port that contains its own placeholder (525), and an attempt that is due and never
  ends. A crash counts as an end.
- `Connection` and `WsFrame` state safety only and assume no fairness.

## 5. Proofs

Eight modules hold the theorems. Each component has an invariant that is inductive
(`IInv`, in `OpenSslProofs` also `MethodIInv`, in `WsDialProofs` `DialInv` for the dial),
because the properties are not, and a lemma or a step per action. Each of these
invariants was an invariant of the component's run before it was proved. Every
invariant that a run checks is proved, and the one action property
(`NullOnlyOnFailure`).

`ConnectionProofs` proves, for every set of descriptor numbers (natural numbers,
`FdsAssumption`), type correctness and all invariants of the run `connection`.
That `netx_closesocket()` never hits somebody else's descriptor needs to know,
point by point of the dial, whether `sock_` is open. `IInv` therefore has
`FlagsInv` (at which points the TLS flag is hidden, and that the saved copy has
it), `SockInv` (whether the socket is held, absent, or, after a failed TLS setup,
a stale number), `SslInv` (at which points there is an SSL object), and the
properties themselves. The stale number is harmless just because TLS is set and
no SSL object carries it, so `netx_closesocket()` refuses; this is the one
argument that connects all parts.

`OpenSslProofs` proves of `BioMethod`, for any set of threads (`None` not among them), type
correctness and the safety properties of the run `bio_method`, with two more:
that all are given the same method, and that builders exclude each other. `MethodIInv`
consists of `MutexInv` (the thread between lock and unlock holds the mutex),
`BuildInv` (how flag and pointer stand at each point of the builder) and
`MethodInv` (a pointer that is set was configured, nothing is freed, and results
are that pointer).

`Ndt7RunProofs` proves, for any number of servers and any deadlines,
`SummaryFromWinner` and `SpeedCoversBytes`, and with `RunKeepsPromise` the safety
part of the refinement: initial states and steps of `Ndt7Run` are initial states
and steps, or stutters, of `RunPromise`. `LoopInv` says where `run()` is in its
loops, `AttemptInv` ties `i` and `success` to the outcomes (all earlier servers of
the list failed or have no URL, the upload starts only behind a download that did
not fail), `SummaryInv` where each field may come from while an attempt is going
on, and `TimeInv` that no byte counted is later than the clock.

`WsRecvProofs` proves type correctness (no write outside the buffer),
`MessageIntact`, `PongEchoesPing` and `FollowsRfc` (with its exception for the form of
lengths) for every size of buffer and payload. `BytesInv` says that the buffer below `*count` is what the server has sent
of the message, which a PING must not disturb; `FrameInv` that the frame on the
wire continues it; `PongInv` that a PONG that is due has its payload at
`base + *count`.

`NetIoProofs` proves type correctness and `TransfersExact` for every count,
capacity and number of bytes: `InInv` (what is queued is the end of what was sent),
`OutInv` (what went out is 1, 2, ...) and `ProgressInv` (the first `off` bytes of
the buffer are those after `start`).

Of `TlsIo` it proves type correctness, `WaitsAsBlocked` and `ErrorIsOwn`:
`EngineInv` and `MapInv` say what `errno`, the queue and the retry flags can be at
each point of a try, given why the engine stopped; `ShutdownInv` that `shutdown(2)`
follows a complete `SSL_shutdown()`.

`WsDialProofs` proves type correctness and the three invariants of the
handshake for all limits: `RequestInv` (the lines sent so far), and `ReplyInv` with
`LineInv` (`line` is the text since the last end of line, `flags` are the headers that
the text has, and the lines it has are `headers` and the status).

Of the dial it proves `ThroughProxy` for all lengths of names and addresses. The
core of its invariant is that `unread` is the last r bytes of the proxy's reply,
where r follows from the stage; with a byte too many behind the method (`Spoilt`) the
reply reads as one that is not granted. `DialIsAHandshake` shows that the dial implements
`WsHandshake` (its steps are handshake steps or stutters, the proxy's stray byte
being one more symbol on the wire), and `DialKeepsHandshake` carries the invariants
of the handshake over.

`WsFrameProofs` proves the four invariants of `WsFrame` for every base of the digits,
every buffer, every length below 2^63 (in the base's terms: `LengthLimit`) and every
mask. Its first half is about operators. `EightDigits` shows that the shifted and
cut digits, read one after the other, give the length back, which needs the limit,
and `SumOfDigits` that the receiver's sum of shifted digits is that same number;
`MaskTwice` undoes the mask. From these follow `WholeFrameRead` and `CutFrameRead`: to
the RFC's decoder the sender's bytes are the frame that was meant, and no prefix of
them is a frame. The receiver is the second half. `WireInv` says that at each read
the unread bytes are the server's frame from the place where the previous read
stopped, up to where the connection was cut; only with that does "the read failed"
mean "the frame was cut", and a digit mean a digit. `HeaderInv` keeps what the header
was checked for until the length is known, since `*fin` and `*opcode` are written
before the checks. `FailsStep` and `SizedStep` are the two ways out that the actions
share.

`ClientMainProofs` proves the four invariants of `ClientMain` for any number of
results. `SettingsInv` and `QueryInv` follow the settings and the query through the
points of the program (an answer is parsed only when it was received whole),
`OptsInv` says that the curl options set so far are the first of the list and none
is left when the request is sent, so that the proxy, first of the list, is set;
`ParamsInv` what the request carries; `RunInv` that attempts are made only on servers
that `run()` was given, which is the one static answer when the user names a host.
`StaticServerTested` then follows from the scheme: the answer's keys are those that
`run()` looks for, so that no subtest is skipped.

The only assumptions are those on the constants in the modules, which TLC
evaluates in the runs.

Only model-checked: liveness and whatever speaks of fairness (`Returns`,
`RecvmsgEnds`, `TransferEnds`, `OperationEnds`, `CallsReturn`, `DialEnds`, `Ends`, and
the fairness of `Promise`), which the prover's backends cannot handle.

## 6. Disagreements with the repository's words

Each of these is a run that is expected to find a violation, and a finding in
`PROJECT.json` with the quoted line:

- a descriptor leak when TLS setup fails early (1609, 1621-1642, 2451-2453)
  against "Don't leak resources" (791);
- `summary_` is never initialised (libndt7.h:597), so some fields are read
  uninitialised;
- `BatchClient::summary()` dereferences `connection_info_` after checking only
  `measurement_`.

Met while modelling, in the models as they are in the code, without a run:

- `run()` returns true without a test when no server has a URL for the scheme
  (370, 375-378, 398-401), which `RunPromise` states (`Settled`);
- `ndt7_upload()` does not reset `upload_retrans` (708), so that of a failed
  server may survive; `SummaryFromWinner` therefore leaves that field out;
- the upload takes its own constant of 10 s (703, 716) and not `max_runtime`
  (libndt7.h:264);
- the length of a data frame may be written in more bytes than it needs, which RFC
  6455 section 5.2 forbids: the code reads the 16-bit and 64-bit lengths (1136-1174)
  without looking at that, and delivers the message; `FollowsRfc` names the
  exception;
- an end of stream, in the middle of a frame too, ends the download as a success
  (638, TODO at 1048);
- a PING between fragments may fail a message that still fits, for its payload
  needs room in the same buffer (1176-1178, 1308);
- `SSL_shutdown()` returning 0, close_notify sent but none received, is taken for an
  error, so that `shutdown(2)` is not reached (2434);
- handshake and shutdown do not reset `errno`, so that at an end of stream they may
  report an old one (1515-1540, 1452-1513); `ErrorIsOwn` says so;
- the `Host` header is empty when Locate chose the server (869);
- with debug messages on, the first key of "urls" is logged (587-590): of an empty
  object it is read through the end iterator, which is undefined, and if "urls" is
  no object it throws in a function that is `noexcept`; a URL that is not a string
  ends the program in the same way (379). All are `"crashed"` in `ClientMain`;
- `replace_all_with()` searches again from where it replaced (525), so that a host
  name or a port that contains its own placeholder is replaced for ever, or until
  memory runs out; `Ends` names the case;
- PINGs without end keep `ws_recvmsg()` answering (TODO at 1249), and carriage returns
  without end keep `ws_recvln()` reading (840): no deadline applies inside these
  calls, so `run()` does not return; `Returns` names the case.

## 7. Not modelled, and why

- `single_include/libndt7.hpp` (24855 of the 29165 lines of the implementation): the
  generated concatenation of the sources modelled here and of the vendored JSON
  library. Modelling it would say the same twice. What remains are about 4300
  lines, of which much is comments, logging and declarations.
- `third_party/`, `test/`: vendored code, and tests that were read as documentation.
- `Err` and logging: names and text; no state.
- `Sys`: one virtual method per system call, each a step of the module that calls
  it. `strtonum()`, which has code of its own, is `IsPort` in `WsDial`.
- The characters of URLs, host names and the query string (but for the placeholder in
  a host name or port), and the values that only get printed: speeds and rates are represented by their origin, the lines of the
  handshake by symbols, URLs by whether they are there and are strings.
- `netx_resolve()` (numeric first, then by name; a list that is freed on its only way
  out) is the step `Resolve` of `Connection`, with both outcomes; `netx_setnonblocking()`
  is one of the reasons for its `ConnectFails`.
- What curl does inside a transfer: `Perform` has its outcomes.
- Windows: the socket type and error codes differ, the control does not.
