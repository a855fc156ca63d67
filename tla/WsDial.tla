------------------------------- MODULE WsDial -------------------------------
(***************************************************************************)
(* netx_maybews_dial() as a conversation: through the proxy, when there is *)
(* one, netx_maybesocks5h_dial() first asks it for the server, and then    *)
(* ws_handshake() speaks to the server over the same stream of bytes.  TLS *)
(* between the two hands bytes on as they are.                             *)
(*                                                                         *)
(* A byte whose value the code looks at is a number; `Bad` is one that it  *)
(* does not expect and `Data` one that it does not look at.  The proxy     *)
(* answers what it likes, with an address as long as it says, and may send *)
(* a byte too many behind either of its messages.  A message that never    *)
(* comes, or not whole, is a failure of netx_recvn().                      *)
(***************************************************************************)
EXTENDS WsHandshake

CONSTANTS
    MaxByte,        \* UINT8_MAX
    IPv4, IPv6      \* the lengths of the addresses

ASSUME DialAssumption == MaxByte \in Nat /\ IPv4 \in Nat /\ IPv6 \in Nat

Version == 5
Bad == 9
Data == 7
Bytes == 0..MaxByte \cup {Version, Bad, Data, 1, 3, 4}
Base == MaxByte + 1
Lengths == 0..MaxByte + 1       \* of host names
Ports == -1..Base * Base        \* -1: what is not a number

VARIABLES
    stage,          \* the next message of the dialogue with the proxy
    need,           \* the length of the address that comes next
    unread,         \* bytes from the proxy that were not read
    asked,          \* history: the server, and the request for it
    told,           \* history: what the proxy has sent
    err             \* what netx_maybesocks5h_dial() returned

dialogue == <<stage, need, unread, asked, told, err>>
dialVars == <<vars, dialogue>>

NotAsked == [host |-> 0, port |-> 0, message |-> <<>>]

\* settings_.socks5h_port may be empty.
DialInit ==
    /\ Init
    /\ stage \in {"auth", "open"}
    /\ need = 0 /\ unread = <<>>
    /\ asked = NotAsked /\ told = <<>>
    /\ err = "none"

-----------------------------------------------------------------------------
(* The proxy.                                                              *)

Repeat(n) == [k \in 1..n |-> Data]

\* A byte too many behind the method is the next that the client looks at.
BehindMethod == {<<>>, <<Version>>, <<Bad>>}
Behind == {<<>>, <<Data>>}

ProxyAnswers(message, behind) ==
    /\ unread' = unread \o message \o behind
    /\ told' = told \o <<message, behind>>
    /\ UNCHANGED <<stage, need, asked, err>>

ProxyChoosesMethod ==
    /\ stage = "auth_reply" /\ told = <<>>
    /\ \E version \in {Version, Bad}, method \in {0, Bad},
          behind \in BehindMethod :
         ProxyAnswers(<<version, method>>, behind)

Addresses ==
    {<<1>> \o Repeat(IPv4), <<4>> \o Repeat(IPv6), <<Bad>>}
      \cup {<<3, n>> \o Repeat(n) : n \in 0..MaxByte}

ProxyConnects ==
    /\ stage = "header" /\ Len(told) = 2
    /\ \E version \in {Version, Bad}, error, reserved \in {0, Bad},
          address \in Addresses, behind \in Behind :
         ProxyAnswers(<<version, error, reserved>> \o address \o Repeat(2),
                      behind)

-----------------------------------------------------------------------------
(* The client.                                                             *)

\* netx_closesocket() and the error: the dial is over.
Give(e) ==
    /\ stage' = "failed"
    /\ err' = e

SendAuth ==
    /\ stage = "auth"
    /\ stage' = "auth_reply"
    /\ UNCHANGED <<need, unread, asked, told, err>>

SendFailsToProxy ==
    /\ stage \in {"auth", "connect"}
    /\ \E e \in {"io_error", "timed_out"} : Give(e)
    /\ UNCHANGED <<need, unread, asked, told>>

RecvFailsFromProxy ==
    /\ stage \in {"auth_reply", "header", "length", "address", "port"}
    /\ \E e \in {"eof", "timed_out", "io_error"} : Give(e)
    /\ UNCHANGED <<need, unread, asked, told>>

Recvn(n) ==
    /\ Len(unread) >= n
    /\ unread' = SubSeq(unread, n + 1, Len(unread))

RecvAuth ==
    /\ stage = "auth_reply"
    /\ Recvn(2)
    /\ IF unread[1] = Version /\ unread[2] = 0
         THEN stage' = "connect" /\ UNCHANGED err
         ELSE Give("socks5h")
    /\ UNCHANGED <<need, asked, told>>

LengthByte(n) == n % Base
PortBytes(p) == <<p \div Base, p % Base>>

ConnectRequest(host, port) ==
    <<Version, 1, 0, 3, LengthByte(host)>> \o Repeat(host) \o PortBytes(port)

\* Strtonum() of the port, between 0 and UINT16_MAX.
IsPort(port) == port \in 0..Base * Base - 1

SendConnect_AnyHost(host, port) ==
    /\ stage = "connect"
    /\ IF IsPort(port)
         THEN /\ asked' = [host |-> host, port |-> port,
                           message |-> ConnectRequest(host, port)]
              /\ stage' = "header" /\ UNCHANGED err
         ELSE Give("invalid_argument") /\ UNCHANGED asked
    /\ UNCHANGED <<need, unread, told>>

SendConnect(host, port) ==
    /\ stage = "connect"
    /\ IF host <= MaxByte /\ IsPort(port)
         THEN /\ asked' = [host |-> host, port |-> port,
                           message |-> ConnectRequest(host, port)]
              /\ stage' = "header" /\ UNCHANGED err
         ELSE Give("invalid_argument") /\ UNCHANGED asked
    /\ UNCHANGED <<need, unread, told>>

\* connect_response_hdr: version, error, reserved, type of the address.
RecvHeader ==
    /\ stage = "header"
    /\ Recvn(4)
    /\ \/ unread[1] # Version /\ Give("socks5h") /\ UNCHANGED need
       \/ /\ unread[1] = Version /\ unread[2] # 0
          /\ Give("io_error") /\ UNCHANGED need
       \/ /\ unread[1] = Version /\ unread[2] = 0
          /\ unread[3] # 0 \/ unread[4] \notin {1, 3, 4}
          /\ Give("socks5h") /\ UNCHANGED need
       \/ /\ unread[1] = Version /\ unread[2] = 0 /\ unread[3] = 0
          /\ \/ unread[4] = 1 /\ stage' = "address" /\ need' = IPv4
             \/ unread[4] = 3 /\ stage' = "length" /\ UNCHANGED need
             \/ unread[4] = 4 /\ stage' = "address" /\ need' = IPv6
          /\ UNCHANGED err
    /\ UNCHANGED <<asked, told>>

RecvLength ==
    /\ stage = "length"
    /\ Recvn(1)
    /\ need' = unread[1]
    /\ stage' = "address"
    /\ UNCHANGED <<asked, told, err>>

RecvAddress ==
    /\ stage = "address"
    /\ Recvn(need)
    /\ stage' = "port"
    /\ UNCHANGED <<need, asked, told, err>>

\* The last message; the locals of netx_maybesocks5h_dial() are gone, and the
\* histories with them.
RecvPort ==
    /\ stage = "port"
    /\ Recvn(2)
    /\ stage' = "open"
    /\ need' = 0 /\ asked' = NotAsked /\ told' = <<>>
    /\ UNCHANGED err

Socks ==
    \/ SendAuth
    \/ SendFailsToProxy
    \/ RecvFailsFromProxy
    \/ RecvAuth
    \/ \E host \in Lengths, port \in Ports : SendConnect(host, port)
    \/ RecvHeader
    \/ RecvLength
    \/ RecvAddress
    \/ RecvPort

-----------------------------------------------------------------------------
(* The two over one stream.                                                *)

Dial ==
    \/ Socks /\ UNCHANGED vars
    \/ stage = "open" /\ Client /\ UNCHANGED dialogue

Proxy == ProxyChoosesMethod \/ ProxyConnects

\* What is left of the proxy's bytes comes before anything of the server's.
StrayByte ==
    /\ stage = "open" /\ unread # <<>>
    /\ ServerSends(Other)
    /\ unread' = Tail(unread)
    /\ UNCHANGED <<stage, need, asked, told, err>>

Server ==
    /\ stage = "open" /\ unread = <<>>
    /\ \/ \E symbol \in Symbols : ServerSends(symbol)
       \/ ServerCloses
    /\ UNCHANGED dialogue

DialNext ==
    \/ Dial
    \/ Proxy /\ UNCHANGED vars
    \/ StrayByte
    \/ Server

\* As in WsHandshake; nothing is assumed of the proxy.
DialSpec == DialInit /\ [][DialNext]_dialVars /\ WF_dialVars(Dial)

-----------------------------------------------------------------------------
(* Properties.                                                             *)

\* How RFC 1928 reads a request, and what it calls a granted one.
RequestFor(m) ==
    [host |-> m[5], port |-> m[6 + m[5]] * Base + m[7 + m[5]]]
WellFormed(m) == Len(m) >= 5 /\ Len(m) = 7 + m[5]
MethodAgreed == told[1] = <<Version, 0>>
WellMade == told[3][1] = Version /\ told[3][3] = 0 /\ told[3][4] \in {1, 3, 4}
Granted == WellMade /\ told[3][2] = 0

\* The stream is handed on as the server's only after the proxy was asked for
\* that very host and port, in a request that reads so by the RFC, has agreed
\* and granted it with nothing in between, and after exactly its reply has been
\* read, of whatever kind the address in it is.
HandsOnServer ==
    stage # "open" /\ stage' = "open" =>
      /\ WellFormed(asked.message)
      /\ RequestFor(asked.message) = [host |-> asked.host, port |-> asked.port]
      /\ MethodAgreed /\ told[2] = <<>> /\ Granted
      /\ unread' = told[4]

\* The proxy is accused of a breach of the protocol only for a message that
\* is not one of RFC 1928, for a method that was not offered, or for a byte
\* between its two messages.
AccusesOnlyWrongProxy ==
    stage' = "failed" /\ err' = "socks5h" /\ stage # "failed" =>
      ~MethodAgreed \/ told[2] # <<>> \/ (Len(told) = 4 /\ ~WellMade)

\* What netx_maybesocks5h_dial() tells its caller about the proxy is so.
ThroughProxy == [][HandsOnServer /\ AccusesOnlyWrongProxy]_dialVars

\* The dial ends, unless the server sends carriage returns for ever.
DialEnds == HandshakeEnds \/ <>(stage = "failed")

=============================================================================
