----------------------------- MODULE Connection -----------------------------
(***************************************************************************)
(* The life of the one connection a libndt7::Client holds: ndt7_connect()  *)
(* and the layered dial below it (WebSocket over TLS over SOCKSv5h over    *)
(* TCP), the map from descriptors to SSL objects, the protocol flags that  *)
(* decide how every I/O call treats the descriptor, and the destructor.    *)
(*                                                                         *)
(* The descriptor table belongs to the whole process: the application that *)
(* embeds the library opens and closes descriptors of its own at any time, *)
(* and a number the client has closed may come back as somebody else's.    *)
(* What bytes travel on the connection is not modelled here.               *)
(***************************************************************************)
EXTENDS Integers

CONSTANT Fds          \* the descriptor numbers of the process

ASSUME FdsAssumption == Fds \subseteq Nat

NoSocket == -1        \* the value (internal::Socket)-1

Tls == "tls"                 \* protocol_flag_tls
WebSocket == "websocket"     \* protocol_flag_websocket
ProtocolFlags == {Tls, WebSocket}

Owners == {"free", "client", "app"}

Settings == [tls : BOOLEAN, verify : BOOLEAN, socks5h : BOOLEAN]

\* Where the client thread stands: outside ndt7_connect() ("idle"), inside it,
\* using the connection ("connected"), or gone ("destroyed").
DialPoints == {"resolve", "getaddrinfo", "socket", "connect"}
Socks5hPoints == {"auth", "request", "reply"}
TlsPoints == {"ca_bundle", "ssl_new", "bio", "ssl_handshake"}
ClientPoints == {"idle", "ws_handshake", "connected", "destroyed"}
                  \cup DialPoints \cup Socks5hPoints \cup TlsPoints

VARIABLES
    settings,      \* the Settings the client was constructed with
    caBundle,      \* settings_.ca_bundle_path is not empty
    flags,         \* settings_.protocol_flags
    savedFlags,    \* local `flags` of netx_maybessl_dial()
    sock,          \* sock_
    fdToSsl,       \* the keys of fd_to_ssl_
    owner,         \* descriptor table of the process
    pc,            \* where the client thread stands
    strayClose     \* history: a close() hit a descriptor not the client's

clientVars ==
    <<settings, caBundle, flags, savedFlags, sock, fdToSsl, pc, strayClose>>
vars == <<clientVars, owner>>

TypeOK ==
    /\ settings \in Settings
    /\ caBundle \in BOOLEAN
    /\ flags \in SUBSET ProtocolFlags
    /\ savedFlags \in SUBSET ProtocolFlags
    /\ sock \in Fds \cup {NoSocket}
    /\ fdToSsl \in SUBSET Fds
    /\ owner \in [Fds -> Owners]
    /\ pc \in ClientPoints
    /\ strayClose \in BOOLEAN

\* A client is constructed with no socket; main() sets the TLS flag for wss
\* and nobody but ndt7_connect() sets the WebSocket flag.
Init ==
    /\ settings \in Settings
    /\ caBundle \in BOOLEAN
    /\ flags = IF settings.tls THEN {Tls} ELSE {}
    /\ savedFlags = {}
    /\ sock = NoSocket
    /\ fdToSsl = {}
    /\ owner \in [Fds -> {"free", "app"}]
    /\ pc = "idle"
    /\ strayClose = FALSE

-----------------------------------------------------------------------------
(* Closing.                                                                *)

\* sys->Closesocket(fd): whoever owns the number loses it.
OsClose(fd) ==
    /\ owner' = [owner EXCEPT ![fd] = "free"]
    /\ strayClose' = (strayClose \/ owner[fd] # "client")

NetxClosesocket_IgnoresMap(fd) ==
    /\ OsClose(fd)
    /\ fdToSsl' = fdToSsl \ {fd}

NetxClosesocket_KeepsEntry(fd) ==
    IF Tls \in flags /\ fd \notin fdToSsl
      THEN UNCHANGED <<owner, strayClose, fdToSsl>>
      ELSE OsClose(fd) /\ UNCHANGED fdToSsl

\* With TLS the descriptor is closed only together with its SSL object, and
\* a descriptor that has none is refused with invalid_argument.
NetxClosesocket(fd) ==
    IF Tls \in flags /\ fd \notin fdToSsl
      THEN UNCHANGED <<owner, strayClose, fdToSsl>>
      ELSE /\ OsClose(fd)
           /\ fdToSsl' = IF Tls \in flags THEN fdToSsl \ {fd} ELSE fdToSsl

CloseIfHeld ==
    IF sock # NoSocket
      THEN NetxClosesocket(sock)
      ELSE UNCHANGED <<owner, strayClose, fdToSsl>>

-----------------------------------------------------------------------------
(* ndt7_connect() down to the first system call.                           *)

Ndt7Connect_NoClose ==
    /\ pc = "idle"
    /\ sock' = NoSocket
    /\ savedFlags' = flags \cup {WebSocket}
    /\ flags' = savedFlags' \ {Tls}
    /\ pc' = "resolve"
    /\ UNCHANGED <<settings, caBundle, fdToSsl, owner, strayClose>>

\* Drops the socket of the previous attempt, turns WebSocket on, and enters
\* netx_maybessl_dial(), which hides the TLS flag from the layers below.
Ndt7Connect ==
    /\ pc = "idle"
    /\ CloseIfHeld
    /\ sock' = NoSocket
    /\ savedFlags' = flags \cup {WebSocket}
    /\ flags' = savedFlags' \ {Tls}
    /\ pc' = "resolve"
    /\ UNCHANGED <<settings, caBundle>>

Socks5hDialReturns_RestoresOnSuccess(ok) ==
    /\ flags' = IF ok THEN savedFlags ELSE flags
    /\ pc' = IF ~ok THEN "idle"
             ELSE IF Tls \in savedFlags THEN "ca_bundle" ELSE "ws_handshake"

Socks5hDialReturns_ChecksPlainOnly(ok) ==
    /\ flags' = savedFlags
    /\ pc' = IF Tls \in savedFlags THEN "ca_bundle"
             ELSE IF ~ok THEN "idle" ELSE "ws_handshake"

\* netx_maybesocks5h_dial() returns to netx_maybessl_dial(), which restores
\* the flags before it looks at the error.
Socks5hDialReturns(ok) ==
    /\ flags' = savedFlags
    /\ pc' = IF ~ok THEN "idle"
             ELSE IF Tls \in savedFlags THEN "ca_bundle" ELSE "ws_handshake"

-----------------------------------------------------------------------------
(* netx_dial(): resolve, then try every address of every result in turn.   *)

\* netx_dial() returns: it has succeeded if *sock is not -1.  Behind it the
\* SOCKS5h exchange starts if there is a proxy.
NetxDialReturns ==
    IF sock' # NoSocket /\ settings.socks5h
      THEN pc' = "auth" /\ UNCHANGED flags
      ELSE Socks5hDialReturns(sock' # NoSocket)

\* How many addresses there are is not fixed: after a failed try there is
\* another address of this result; or the next result, unless *sock says that
\* there is a connection; or the loops are over.
TryNextAddress ==
    \/ pc' = "socket" /\ UNCHANGED flags
    \/ sock' = NoSocket /\ pc' = "getaddrinfo" /\ UNCHANGED flags
    \/ NetxDialReturns

\* Refused when there still is a socket, or the name does not resolve.
Resolve ==
    /\ pc = "resolve"
    /\ \/ sock = NoSocket /\ pc' = "getaddrinfo" /\ UNCHANGED flags
       \/ Socks5hDialReturns(FALSE)
    /\ UNCHANGED <<settings, caBundle, savedFlags, sock, fdToSsl, owner, strayClose>>

Getaddrinfo ==
    /\ pc = "getaddrinfo"
    /\ \/ pc' = "socket" /\ UNCHANGED flags
       \/ Socks5hDialReturns(FALSE)
    /\ UNCHANGED <<settings, caBundle, savedFlags, sock, fdToSsl, owner, strayClose>>

NewSocket ==
    /\ pc = "socket"
    /\ \E fd \in Fds :
         /\ owner[fd] = "free"
         /\ owner' = [owner EXCEPT ![fd] = "client"]
         /\ sock' = fd
    /\ pc' = "connect"
    /\ UNCHANGED <<settings, caBundle, flags, savedFlags, fdToSsl, strayClose>>

NewSocketFails ==
    /\ pc = "socket"
    /\ sock' = NoSocket
    /\ TryNextAddress
    /\ UNCHANGED <<settings, caBundle, savedFlags, fdToSsl, owner, strayClose>>

ConnectSucceeds ==
    /\ pc = "connect"
    /\ UNCHANGED sock
    /\ NetxDialReturns
    /\ UNCHANGED <<settings, caBundle, savedFlags, fdToSsl, owner, strayClose>>

ConnectFails_KeepsSock ==
    /\ pc = "connect"
    /\ OsClose(sock)
    /\ UNCHANGED sock
    /\ TryNextAddress
    /\ UNCHANGED <<settings, caBundle, savedFlags, fdToSsl>>

\* fcntl(), connect(), the wait for it or SO_ERROR failed.
ConnectFails ==
    /\ pc = "connect"
    /\ OsClose(sock)
    /\ sock' = NoSocket
    /\ TryNextAddress
    /\ UNCHANGED <<settings, caBundle, savedFlags, fdToSsl>>

-----------------------------------------------------------------------------
(* netx_maybesocks5h_dial() with a proxy, once connected to it.            *)

Socks5hStep(from, to) ==
    /\ pc = from
    /\ pc' = to
    /\ UNCHANGED <<settings, caBundle, flags, savedFlags, sock, fdToSsl, owner,
                   strayClose>>

Socks5hReply ==
    /\ pc = "reply"
    /\ Socks5hDialReturns(TRUE)
    /\ UNCHANGED <<settings, caBundle, savedFlags, sock, fdToSsl, owner, strayClose>>

Socks5hFails ==
    /\ pc \in Socks5hPoints
    /\ NetxClosesocket(sock)
    /\ sock' = NoSocket
    /\ Socks5hDialReturns(FALSE)
    /\ UNCHANGED <<settings, caBundle, savedFlags>>

-----------------------------------------------------------------------------
(* netx_maybessl_dial() after the TCP connection, netx_maybews_dial().     *)

\* A CA bundle that was not configured is searched for once and remembered.
FindCaBundle ==
    /\ pc = "ca_bundle"
    /\ caBundle' = (caBundle \/ settings.verify)
    /\ pc' = "ssl_new"
    /\ UNCHANGED <<settings, flags, savedFlags, sock, fdToSsl, owner,
                   strayClose>>

\* No CA bundle to verify the peer with: returns without closing.
NoCaBundle ==
    /\ pc = "ca_bundle"
    /\ settings.verify
    /\ ~caBundle
    /\ pc' = "idle"
    /\ UNCHANGED <<settings, caBundle, flags, savedFlags, sock, fdToSsl, owner,
                   strayClose>>

\* SSL_CTX_new(), loading the CA bundle or SSL_new() failed: the descriptor
\* has no SSL object yet when it is handed to netx_closesocket().
SslNewFails ==
    /\ pc = "ssl_new"
    /\ NetxClosesocket(sock)
    /\ pc' = "idle"
    /\ UNCHANGED <<settings, caBundle, flags, savedFlags, sock>>

SslNew ==
    /\ pc = "ssl_new"
    /\ fdToSsl' = fdToSsl \cup {sock}
    /\ pc' = "bio"
    /\ UNCHANGED <<settings, caBundle, flags, savedFlags, sock, owner, strayClose>>

TlsStep(from, to) ==
    /\ pc = from
    /\ pc' = to
    /\ UNCHANGED <<settings, caBundle, flags, savedFlags, sock, fdToSsl, owner,
                   strayClose>>

\* BIO_new(), setting the host to verify, or the handshake failed.
TlsFails ==
    /\ pc \in {"bio", "ssl_handshake"}
    /\ NetxClosesocket(sock)
    /\ pc' = "idle"
    /\ UNCHANGED <<settings, caBundle, flags, savedFlags, sock>>

WsHandshake ==
    /\ pc = "ws_handshake"
    /\ pc' = "connected"
    /\ UNCHANGED <<settings, caBundle, flags, savedFlags, sock, fdToSsl, owner,
                   strayClose>>

WsHandshakeFails ==
    /\ pc = "ws_handshake"
    /\ NetxClosesocket(sock)
    /\ sock' = NoSocket
    /\ pc' = "idle"
    /\ UNCHANGED <<settings, caBundle, flags, savedFlags>>

-----------------------------------------------------------------------------
(* After the dial, the destructor, and the rest of the process.            *)

\* A subtest is over, well or badly; the socket stays as it is.
SubtestReturns ==
    /\ pc = "connected"
    /\ pc' = "idle"
    /\ UNCHANGED <<settings, caBundle, flags, savedFlags, sock, fdToSsl, owner,
                   strayClose>>

Destroy ==
    /\ pc = "idle"
    /\ CloseIfHeld
    /\ pc' = "destroyed"
    /\ UNCHANGED <<settings, caBundle, flags, savedFlags, sock>>

AppOpens(fd) ==
    /\ owner[fd] = "free"
    /\ owner' = [owner EXCEPT ![fd] = "app"]
    /\ UNCHANGED clientVars

AppCloses(fd) ==
    /\ owner[fd] = "app"
    /\ owner' = [owner EXCEPT ![fd] = "free"]
    /\ UNCHANGED clientVars

Dial ==
    \/ Ndt7Connect
    \/ Resolve
    \/ Getaddrinfo
    \/ NewSocket
    \/ NewSocketFails
    \/ ConnectSucceeds
    \/ ConnectFails

Socks5h ==
    \/ Socks5hStep("auth", "request")
    \/ Socks5hStep("request", "reply")
    \/ Socks5hReply
    \/ Socks5hFails

Secure ==
    \/ FindCaBundle
    \/ NoCaBundle
    \/ SslNewFails
    \/ SslNew
    \/ TlsStep("bio", "ssl_handshake")
    \/ TlsStep("ssl_handshake", "ws_handshake")
    \/ TlsFails

Client ==
    \/ Dial
    \/ Socks5h
    \/ Secure
    \/ WsHandshake
    \/ WsHandshakeFails
    \/ SubtestReturns
    \/ Destroy

App == \E fd \in Fds : AppOpens(fd) \/ AppCloses(fd)

Next == Client \/ App

Spec == Init /\ [][Next]_vars

-----------------------------------------------------------------------------
(* Properties.                                                             *)

Holding == {"connect"} \cup Socks5hPoints \cup TlsPoints
             \cup {"ws_handshake", "connected"}

\* The client never closes a number it does not own: neither one the
\* application was given after the client's own close, nor one already closed.
\* After a failed TLS setup sock_ keeps the number that was closed, so the
\* next ndt7_connect() or the destructor runs netx_closesocket() on it again.
NoStrayClose == ~strayClose

\* An SSL object exists only for the current socket, and that socket is open
\* and the client's: no object outlives its descriptor, so none is found again
\* when the number comes back (fd_to_ssl_, netx_closesocket()).
SslOnlyForSock ==
    \A fd \in fdToSsl : fd = sock /\ owner[fd] = "client"

\* assert(fd_to_ssl_.count(*sock) == 0) in netx_maybessl_dial(), whatever
\* number socket() returned and whatever earlier attempts left behind.
AssertNoSslYet == pc = "ssl_new" => sock \notin fdToSsl

\* A client configured for TLS never runs the WebSocket handshake or a subtest
\* in clear, also after any number of failed attempts; and it never tries TLS
\* on the bytes meant for the proxy (the flag juggling of
\* netx_maybessl_dial()).
TlsWhenConfigured ==
    /\ pc \in {"ws_handshake", "connected"} =>
         (settings.tls <=> Tls \in flags /\ sock \in fdToSsl)
    /\ pc \in Socks5hPoints => Tls \notin flags

\* Wherever ndt7_connect() or a subtest does I/O on sock_, the number is open
\* and the client's.  netx_dial() tells success by *sock alone: an address that
\* failed must leave -1 there, or its closed number passes for a connection.
IoOnOwnSocket == pc \in Holding => sock \in Fds /\ owner[sock] = "client"

\* "Don't leak resources if the socket is already open.": whatever is still
\* open is the current socket, and nothing is open once the client is gone.
NoLeak ==
    \A fd \in Fds : owner[fd] = "client" => fd = sock /\ pc # "destroyed"

\* The same for a client without TLS, for which it holds: with no SSL object
\* to look for, netx_closesocket() always closes.
NoLeakWithoutTls == settings.tls \/ NoLeak

=============================================================================
