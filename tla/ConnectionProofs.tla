-------------------------- MODULE ConnectionProofs --------------------------
(* Proofs about Connection for every set of descriptor numbers.            *)
EXTENDS Connection, TLAPS

\* -1 is no descriptor number.
LEMMA NoSocketIsNoFd == NoSocket \notin Fds
  BY FdsAssumption DEF NoSocket

-----------------------------------------------------------------------------
(* The inductive invariant, by the point the client thread has reached.    *)

BeforeSocket == {"resolve", "getaddrinfo", "socket"}
WithoutTls == DialPoints \cup Socks5hPoints

\* netx_maybessl_dial() hides the TLS flag below itself and nowhere else.
FlagsInv ==
    /\ pc \in WithoutTls => /\ flags = savedFlags \ {Tls}
                            /\ settings.tls <=> Tls \in savedFlags
    /\ pc \notin WithoutTls => (settings.tls <=> Tls \in flags)

\* What sock_ is.
SockInv ==
    /\ pc \in BeforeSocket => sock = NoSocket
    /\ pc \in Holding => sock \in Fds /\ owner[sock] = "client"
    /\ pc \in TlsPoints => settings.tls
    /\ ~settings.tls /\ sock # NoSocket /\ pc # "destroyed" =>
         owner[sock] = "client"

\* Which SSL objects there are.
SslInv ==
    /\ pc \in WithoutTls \cup {"ca_bundle", "ssl_new", "destroyed"} =>
         fdToSsl = {}
    /\ pc \in {"bio", "ssl_handshake"} => fdToSsl = {sock}
    /\ pc \in {"ws_handshake", "connected"} =>
         fdToSsl = IF settings.tls THEN {sock} ELSE {}
    /\ ~settings.tls => fdToSsl = {}

IInv ==
    /\ FlagsInv
    /\ SockInv
    /\ SslInv
    /\ SslOnlyForSock
    /\ NoLeakWithoutTls
    /\ NoStrayClose

-----------------------------------------------------------------------------
(* Type correctness.                                                       *)

\* Every variable keeps its type, in every action of the client and of the
\* application: in particular an SSL object is only ever created for a real
\* descriptor number.  The part of SockInv the type of fdToSsl needs (ssl_new
\* is reached with a socket) is carried along.
HasSocket == pc \in Holding => sock \in Fds

LEMMA TypeStep ==
  ASSUME TypeOK, HasSocket, [Next]_vars
  PROVE  TypeOK' /\ HasSocket'
<1> USE DEF TypeOK, HasSocket, Holding, ClientPoints, DialPoints, Socks5hPoints,
        TlsPoints, ProtocolFlags, Owners

<1>1. CASE Ndt7Connect
  BY <1>1 DEF Ndt7Connect, CloseIfHeld, NetxClosesocket, OsClose
<1>2. CASE Resolve
  BY <1>2 DEF Resolve, Socks5hDialReturns
<1>3. CASE Getaddrinfo
  BY <1>3 DEF Getaddrinfo, Socks5hDialReturns
<1>4. CASE NewSocket
  BY <1>4 DEF NewSocket
<1>5. CASE NewSocketFails
  BY <1>5 DEF NewSocketFails, TryNextAddress, NetxDialReturns, Socks5hDialReturns
<1>6. CASE ConnectSucceeds
  BY <1>6 DEF ConnectSucceeds, NetxDialReturns, Socks5hDialReturns
<1>7. CASE ConnectFails
  BY <1>7 DEF ConnectFails, TryNextAddress, NetxDialReturns, Socks5hDialReturns, OsClose
<1>8. CASE Socks5hStep("auth", "request")
  BY <1>8 DEF Socks5hStep
<1>9. CASE Socks5hStep("request", "reply")
  BY <1>9 DEF Socks5hStep
<1>10. CASE Socks5hReply
  BY <1>10 DEF Socks5hReply, Socks5hDialReturns
<1>11. CASE Socks5hFails
  BY <1>11 DEF Socks5hFails, Socks5hDialReturns, NetxClosesocket, OsClose
<1>12. CASE FindCaBundle
  BY <1>12 DEF FindCaBundle
<1>13. CASE NoCaBundle
  BY <1>13 DEF NoCaBundle
<1>14. CASE SslNewFails
  BY <1>14 DEF SslNewFails, NetxClosesocket, OsClose
<1>15. CASE SslNew
  BY <1>15 DEF SslNew
<1>16. CASE TlsStep("bio", "ssl_handshake")
  BY <1>16 DEF TlsStep
<1>17. CASE TlsStep("ssl_handshake", "ws_handshake")
  BY <1>17 DEF TlsStep
<1>18. CASE TlsFails
  BY <1>18 DEF TlsFails, NetxClosesocket, OsClose
<1>19. CASE WsHandshake
  BY <1>19 DEF WsHandshake
<1>20. CASE WsHandshakeFails
  BY <1>20 DEF WsHandshakeFails, NetxClosesocket, OsClose
<1>21. CASE SubtestReturns
  BY <1>21 DEF SubtestReturns
<1>22. CASE Destroy
  BY <1>22 DEF Destroy, CloseIfHeld, NetxClosesocket, OsClose
<1>23. CASE App
  BY <1>23 DEF App, AppOpens, AppCloses, clientVars
<1>24. CASE UNCHANGED vars
  BY <1>24 DEF vars, clientVars
<1> QED
  BY <1>1, <1>2, <1>3, <1>4, <1>5, <1>6, <1>7, <1>8, <1>9, <1>10, <1>11, <1>12, <1>13, <1>14, <1>15, <1>16, <1>17, <1>18, <1>19, <1>20, <1>21, <1>22, <1>23, <1>24
     DEF Next, Client, Dial, Socks5h, Secure

\* Every step of the dial, of the destructor and of the application keeps the
\* inductive invariant, from any state of the right types.
LEMMA InvStep ==
  ASSUME TypeOK, HasSocket, IInv, [Next]_vars
  PROVE  IInv'
<1> USE NoSocketIsNoFd DEF TypeOK, HasSocket, IInv, FlagsInv, SockInv, SslInv, SslOnlyForSock,
        NoLeakWithoutTls, NoLeak, NoStrayClose, WithoutTls, BeforeSocket,
        Holding, ClientPoints, DialPoints, Socks5hPoints, TlsPoints,
        ProtocolFlags, Settings, Tls, WebSocket
<1>1. CASE Ndt7Connect
  BY <1>1 DEF Ndt7Connect, CloseIfHeld, NetxClosesocket, OsClose
<1>2. CASE Resolve
  BY <1>2 DEF Resolve, Socks5hDialReturns
<1>3. CASE Getaddrinfo
  BY <1>3 DEF Getaddrinfo, Socks5hDialReturns
<1>4. CASE NewSocket
  BY <1>4 DEF NewSocket
<1>5. CASE NewSocketFails
  BY <1>5 DEF NewSocketFails, TryNextAddress, NetxDialReturns, Socks5hDialReturns
<1>6. CASE ConnectSucceeds
  BY <1>6 DEF ConnectSucceeds, NetxDialReturns, Socks5hDialReturns
<1>7. CASE ConnectFails
  BY <1>7 DEF ConnectFails, TryNextAddress, NetxDialReturns, Socks5hDialReturns, OsClose
<1>8. CASE Socks5hStep("auth", "request")
  BY <1>8 DEF Socks5hStep
<1>9. CASE Socks5hStep("request", "reply")
  BY <1>9 DEF Socks5hStep
<1>10. CASE Socks5hReply
  BY <1>10 DEF Socks5hReply, Socks5hDialReturns
<1>11. CASE Socks5hFails
  BY <1>11 DEF Socks5hFails, Socks5hDialReturns, NetxClosesocket, OsClose
<1>12. CASE FindCaBundle
  BY <1>12 DEF FindCaBundle
<1>13. CASE NoCaBundle
  BY <1>13 DEF NoCaBundle
<1>14. CASE SslNewFails
  BY <1>14 DEF SslNewFails, NetxClosesocket, OsClose
<1>15. CASE SslNew
  BY <1>15 DEF SslNew
<1>16. CASE TlsStep("bio", "ssl_handshake")
  BY <1>16 DEF TlsStep
<1>17. CASE TlsStep("ssl_handshake", "ws_handshake")
  BY <1>17 DEF TlsStep
<1>18. CASE TlsFails
  BY <1>18 DEF TlsFails, NetxClosesocket, OsClose
<1>19. CASE WsHandshake
  BY <1>19 DEF WsHandshake
<1>20. CASE WsHandshakeFails
  BY <1>20 DEF WsHandshakeFails, NetxClosesocket, OsClose
<1>21. CASE SubtestReturns
  BY <1>21 DEF SubtestReturns
<1>22. CASE Destroy
  BY <1>22 DEF Destroy, CloseIfHeld, NetxClosesocket, OsClose
<1>23. CASE App
  BY <1>23 DEF App, AppOpens, AppCloses, clientVars
<1>24. CASE UNCHANGED vars
  BY <1>24 DEF vars, clientVars
<1> QED
  BY <1>1, <1>2, <1>3, <1>4, <1>5, <1>6, <1>7, <1>8, <1>9, <1>10, <1>11, <1>12, <1>13, <1>14, <1>15, <1>16, <1>17, <1>18, <1>19, <1>20, <1>21, <1>22, <1>23, <1>24
     DEF Next, Client, Dial, Socks5h, Secure

-----------------------------------------------------------------------------
(* The theorems.                                                           *)

\* Type correctness, for any set of descriptor numbers: every variable the
\* dial, the TLS setup, the destructor and the application change keeps its
\* type.
THEOREM TypeCorrect == Spec => [](TypeOK /\ HasSocket)
<1>1. Init => TypeOK /\ HasSocket
  BY DEF Init, TypeOK, HasSocket, Holding, ClientPoints, Socks5hPoints,
         TlsPoints, ProtocolFlags, Owners
<1>2. TypeOK /\ HasSocket /\ [Next]_vars => (TypeOK /\ HasSocket)'
  BY TypeStep
<1> QED
  BY <1>1, <1>2, PTL DEF Spec

\* The inductive invariant: at every point of the dial, what sock_ is, which
\* SSL objects exist, whether the TLS flag is set, and who owns what.
THEOREM ConnectionInvariant == Spec => []IInv
<1>1. Init => IInv
  BY DEF Init, IInv, FlagsInv, SockInv, SslInv, SslOnlyForSock,
         NoLeakWithoutTls, NoLeak, NoStrayClose, WithoutTls, BeforeSocket,
         Holding, DialPoints, Socks5hPoints, TlsPoints, Tls
<1>2. TypeOK /\ HasSocket /\ IInv /\ [Next]_vars => IInv'
  BY InvStep
<1> QED
  BY <1>1, <1>2, TypeCorrect, PTL DEF Spec

\* The client never closes a descriptor number it does not own, whatever the
\* application does with the numbers in between.
THEOREM NeverClosesStray == Spec => []NoStrayClose
<1>1. IInv => NoStrayClose
  BY DEF IInv
<1> QED
  BY <1>1, ConnectionInvariant, PTL

\* Every SSL object in fd_to_ssl_ belongs to the current, open socket.
THEOREM SslObjectsAreTheSockets == Spec => []SslOnlyForSock
<1>1. IInv => SslOnlyForSock
  BY DEF IInv
<1> QED
  BY <1>1, ConnectionInvariant, PTL

\* The assertion of netx_maybessl_dial() before it stores the SSL object holds.
THEOREM SslAssertionHolds == Spec => []AssertNoSslYet
<1>1. IInv => AssertNoSslYet
  BY DEF IInv, SslInv, AssertNoSslYet
<1> QED
  BY <1>1, ConnectionInvariant, PTL

\* A client configured for TLS never talks WebSocket in clear, and never uses
\* TLS towards the proxy.
THEOREM NoPlaintextWithTls == Spec => []TlsWhenConfigured
<1>1. IInv => TlsWhenConfigured
  BY DEF IInv, FlagsInv, SockInv, SslInv, TlsWhenConfigured, WithoutTls,
         DialPoints, Socks5hPoints
<1> QED
  BY <1>1, ConnectionInvariant, PTL

\* All I/O of the dial and of a subtest is on a descriptor the client owns.
THEOREM IoGoesToOwnSocket == Spec => []IoOnOwnSocket
<1>1. IInv => IoOnOwnSocket
  BY DEF IInv, SockInv, IoOnOwnSocket
<1> QED
  BY <1>1, ConnectionInvariant, PTL

\* A client without TLS leaks no descriptor.
THEOREM PlainClientsDoNotLeak == Spec => []NoLeakWithoutTls
<1>1. IInv => NoLeakWithoutTls
  BY DEF IInv
<1> QED
  BY <1>1, ConnectionInvariant, PTL

=============================================================================
