---------------------------- MODULE WsHandshake -----------------------------
(***************************************************************************)
(* ws_handshake(): the eight lines of the HTTP upgrade request, and the    *)
(* reply read byte by byte by ws_recvln(), with its limits on the length   *)
(* of a line and on the number of lines.                                   *)
(*                                                                         *)
(* A symbol on the wire is '\r', '\n' or a text.  The texts that the code  *)
(* compares a line with are symbols of their own and `Other` is any other  *)
(* text, so a line is right when it is that one symbol.  The server sends  *)
(* what it likes, as long as it likes, whether it was asked or not.        *)
(***************************************************************************)
EXTENDS Integers, Sequences, FiniteSets

CONSTANTS
    MaxLine,        \* max_line_length, in symbols
    MaxHeaders      \* max_headers

ASSUME ConstantsAssumption ==
    /\ MaxLine \in Nat \ {0, 1}
    /\ MaxHeaders \in Nat \ {0}

CR == "cr"
LF == "lf"
Status == "status"                \* "HTTP/1.1 101 Switching Protocols"
Other == "other"
\* "Upgrade: websocket", "Connection: Upgrade", the accept header for the key
\* of the RFC, and the subprotocol asked for: all of them are in ws_flags.
Required == {"upgrade", "connection", "accept", "protocol"}
Texts == Required \cup {Status, Other}
Symbols == Texts \cup {CR, LF}
None == "none"

\* The lines sent, by the name of their header.
Request == <<"get", "host", "upgrade", "connection", "key", "protocol",
             "version", "blank">>

VARIABLES
    wire,           \* the symbol that has arrived, or None
    closed,         \* the server has closed the connection
    text,           \* history: what was read, without the '\r'
    request,        \* history: the lines that were sent
    pc,
    line,           \* local `line`
    flags,          \* local `flags`
    headers,        \* local `i`
    ret             \* what ws_handshake() returned

netVars == <<wire, closed>>
locals == <<line, flags, headers>>
vars == <<netVars, text, request, pc, locals, ret>>

Init ==
    /\ wire = None /\ closed = FALSE
    /\ text = <<>> /\ request = <<>>
    /\ pc = "send"
    /\ line = <<>> /\ flags = {} /\ headers = 0
    /\ ret = "pending"

-----------------------------------------------------------------------------
(* The server.                                                             *)

ServerSends(symbol) ==
    /\ wire = None /\ ~closed /\ pc # "done"
    /\ wire' = symbol
    /\ UNCHANGED <<closed, text, request, pc, locals, ret>>

ServerCloses ==
    /\ ~closed /\ pc # "done"
    /\ closed' = TRUE
    /\ UNCHANGED <<wire, text, request, pc, locals, ret>>

-----------------------------------------------------------------------------
(* The request.                                                            *)

Return(err) ==
    /\ ret' = err
    /\ pc' = "done"

\* ws_sendln() of the next line.
SendLine ==
    /\ pc = "send"
    /\ request' = Append(request, Request[Len(request) + 1])
    /\ pc' = IF Len(request') = Len(Request) THEN "status" ELSE "send"
    /\ UNCHANGED <<netVars, text, locals, ret>>

\* netx_sendn() fails, be it in the middle of the line.
SendFails ==
    /\ pc = "send"
    /\ Return("io_error")
    /\ UNCHANGED <<netVars, text, request, locals>>

-----------------------------------------------------------------------------
(* ws_recvln().                                                            *)

Reading == pc \in {"status", "header"}

Take(symbol) ==
    /\ Reading
    /\ wire = symbol
    /\ wire' = None

SkipCR ==
    /\ Take(CR)
    /\ UNCHANGED <<closed, text, request, pc, locals, ret>>

\* `*line += ch`, and the condition of the loop before the next byte is read.
AddText(symbol) ==
    /\ Take(symbol)
    /\ text' = Append(text, symbol)
    /\ line' = Append(line, symbol)
    /\ IF Len(line') < MaxLine
         THEN UNCHANGED <<pc, ret>>
         ELSE Return("value_too_large")
    /\ UNCHANGED <<closed, request, flags, headers>>

RecvFails_OnEofOnly ==
    /\ Reading
    /\ wire = None /\ closed
    /\ Return("eof")
    /\ UNCHANGED <<netVars, text, request, locals>>

\* netx_recvn() fails: at the end of the stream, on an error of the socket, or
\* because nothing came in time.
RecvFails ==
    /\ Reading
    /\ \/ wire = None /\ closed /\ Return("eof")
       \/ wire = None /\ ~closed /\ Return("timed_out")
       \/ Return("io_error")
    /\ UNCHANGED <<netVars, text, request, locals>>

-----------------------------------------------------------------------------
(* The reply, line by line.                                                *)

EndOfLine ==
    /\ Take(LF)
    /\ text' = Append(text, LF)
    /\ line' = <<>>
    /\ UNCHANGED <<closed, request>>

StatusLine ==
    /\ pc = "status"
    /\ EndOfLine
    /\ IF line = <<Status>>
         THEN pc' = "header" /\ UNCHANGED ret
         ELSE Return("ws_proto")
    /\ UNCHANGED <<flags, headers>>

NextHeader ==
    /\ headers' = headers + 1
    /\ IF headers' < MaxHeaders
         THEN UNCHANGED <<pc, ret>>
         ELSE Return("value_too_large")

HeaderLine_Assigns ==
    /\ pc = "header"
    /\ line # <<>>
    /\ EndOfLine
    /\ flags' = {h \in Required : line = <<h>>}
    /\ NextHeader

\* Anything but the headers looked for is ignored.
HeaderLine ==
    /\ pc = "header"
    /\ line # <<>>
    /\ EndOfLine
    /\ flags' = flags \cup {h \in Required : line = <<h>>}
    /\ NextHeader

BlankLine_AnyFlag ==
    /\ pc = "header"
    /\ line = <<>>
    /\ EndOfLine
    /\ IF flags \cap Required # {} THEN Return("none") ELSE Return("ws_proto")
    /\ UNCHANGED <<flags, headers>>

BlankLine_GoesOn ==
    /\ pc = "header"
    /\ line = <<>>
    /\ EndOfLine
    /\ IF Required \subseteq flags
         THEN Return("none") /\ UNCHANGED headers
         ELSE NextHeader
    /\ UNCHANGED flags

\* (flags & ws_flags) != ws_flags
BlankLine ==
    /\ pc = "header"
    /\ line = <<>>
    /\ EndOfLine
    /\ IF Required \subseteq flags THEN Return("none") ELSE Return("ws_proto")
    /\ UNCHANGED <<flags, headers>>

Client ==
    \/ SendLine
    \/ SendFails
    \/ SkipCR
    \/ \E symbol \in Texts : AddText(symbol)
    \/ RecvFails
    \/ StatusLine
    \/ HeaderLine
    \/ BlankLine

Next ==
    \/ Client
    \/ \E symbol \in Symbols : ServerSends(symbol)
    \/ ServerCloses

\* The client's thread runs, and netx_recvn() returns at the latest when its
\* timeout is over; nothing is assumed of the server.
Spec == Init /\ [][Next]_vars /\ WF_vars(Client)

-----------------------------------------------------------------------------
(* What a reply says, from its whole text.                                 *)

\* Texts stay below the limits of the code, so a symbol is either one of
\* these or the end of a line.
IsLine(i, symbol) ==      \* the line that ends at position i is this symbol
    /\ text[i] = LF
    /\ i > 1 /\ text[i - 1] = symbol
    /\ i > 2 => text[i - 2] = LF

IsBlank(i) == text[i] = LF /\ (i > 1 => text[i - 1] = LF)

RightStatus == Len(text) >= 2 /\ IsLine(2, Status)
Has(header) == \E i \in 3..Len(text) : IsLine(i, header)
Over == \E i \in 3..Len(text) : IsBlank(i)
LineEnds == {i \in 1..Len(text) : text[i] = LF}
TooLong ==
    \E i \in 1..Len(text) - MaxLine + 1 :
      \A k \in i..i + MaxLine - 1 : text[k] # LF
TooMany == Cardinality(LineEnds) > MaxHeaders

-----------------------------------------------------------------------------
(* Properties.                                                             *)

TypeOK ==
    /\ wire \in Symbols \cup {None}
    /\ closed \in BOOLEAN
    /\ text \in Seq(Texts \cup {LF})
    /\ request \in Seq({Request[k] : k \in 1..Len(Request)})
    /\ Len(request) <= Len(Request)
    /\ pc \in {"send", "status", "header", "done"}
    /\ line \in Seq(Texts) /\ Len(line) <= MaxLine
    /\ pc # "done" => Len(line) < MaxLine
    /\ flags \subseteq Required
    /\ headers \in 0..MaxHeaders
    /\ ret \in {"pending", "none", "io_error", "eof", "timed_out", "ws_proto",
               "value_too_large"}

\* The WebSocket is declared open only after the whole request was sent and a
\* whole reply has come: the right status, each header that was asked for on a
\* line of its own somewhere after it, and the blank line.
AcceptsOnlyUpgrade ==
    ret = "none" =>
      /\ request = Request
      /\ RightStatus /\ Over
      /\ \A header \in Required : Has(header)

\* A server is accused of a protocol error only for a first line that is not
\* the status, or for a reply that ended without one of the headers.
AccusesOnlyWrong ==
    ret = "ws_proto" =>
      \/ ~RightStatus
      \/ Over /\ \E header \in Required : ~Has(header)

\* A reply is given up as too large only for a line at the limit or for as
\* many header lines as the limit, none of them blank.
RefusesOnlyLarge ==
    ret = "value_too_large" => TooLong \/ (TooMany /\ ~Over)

\* A reply is refused only for what is wrong with it.
RefusesForReason == AccusesOnlyWrong /\ RefusesOnlyLarge

\* Nothing is read behind the end of the reply, where the first WebSocket
\* frame may already be.
StopsAtBlankLine ==
    \A i \in 3..Len(text) - 1 : ~IsBlank(i)

\* The handshake ends, unless the server sends carriage returns for ever:
\* those are skipped and count for nothing.
HandshakeEnds ==
    <>[][~ServerSends(CR)]_vars => <>(pc = "done")

=============================================================================
