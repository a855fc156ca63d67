---------------------------- MODULE WsDialProofs ----------------------------
(* Proofs about the dial.  First WsHandshake, for every limit on the length  *)
(* of a line and on the number of lines; then WsDial, for every length of    *)
(* host names and addresses: the dialogue with the proxy, and that what      *)
(* follows it on the stream is a handshake of WsHandshake.                   *)
EXTENDS WsDial, FiniteSetTheorems, SequenceTheorems, TLAPS

-----------------------------------------------------------------------------
(* The inductive invariant of the handshake.                                *)

Types ==
    /\ wire \in Symbols \cup {None}
    /\ closed \in BOOLEAN
    /\ text \in Seq(Texts \cup {LF})
    /\ pc \in {"send", "status", "header", "done"}
    /\ line \in Seq(Texts) /\ Len(line) <= MaxLine
    /\ pc # "done" => Len(line) < MaxLine
    /\ flags \subseteq Required
    /\ headers \in Nat /\ headers <= MaxHeaders
    /\ pc # "done" => headers < MaxHeaders
    /\ ret \in {"pending", "none", "io_error", "eof", "timed_out", "ws_proto",
               "value_too_large"}
    /\ ret = "pending" <=> pc # "done"

\* What a line of the request can be.
Lines == {Request[k] : k \in 1..Len(Request)}

\* The lines sent are the first ones of the request; a reply is read only
\* after all of them.
RequestInv ==
    /\ request \in Seq(Lines) /\ Len(request) <= 8
    /\ \A k \in 1..Len(request) : request[k] = Request[k]
    /\ pc = "send" => Len(request) < 8
    /\ pc \in {"status", "header"} => Len(request) = 8

\* `line` is what was read behind the last end of a line.
LineInv ==
    /\ Len(line) <= Len(text)
    /\ \A k \in 1..Len(line) : text[Len(text) - Len(line) + k] = line[k]
    /\ Len(line) < Len(text) => text[Len(text) - Len(line)] = LF

\* What is known of the reply while it is read.
ReplyInv ==
    /\ pc = "send" => text = <<>> /\ line = <<>>
    /\ pc \in {"send", "status"} =>
         Len(text) = Len(line) /\ flags = {} /\ headers = 0
    /\ pc \in {"status", "header"} => LineInv
    /\ pc = "header" =>
         /\ RightStatus /\ ~Over /\ Len(line) < Len(text)
         /\ \A h \in Required : h \in flags <=> Has(h)
         /\ Cardinality(LineEnds) = headers + 1

IInv ==
    /\ Types /\ RequestInv /\ ReplyInv
    /\ AcceptsOnlyUpgrade /\ RefusesForReason /\ StopsAtBlankLine

-----------------------------------------------------------------------------
(* Sequences.                                                               *)

LEMMA FunctionAsSeq ==
  ASSUME NEW S, NEW n \in Nat, NEW f \in [1..n -> S]
  PROVE  f \in Seq(S) /\ Len(f) = n
  OBVIOUS

LEMMA AppendElements ==
  ASSUME NEW S, NEW s \in Seq(S), NEW x \in S
  PROVE  /\ Append(s, x) \in Seq(S)
         /\ Len(Append(s, x)) = Len(s) + 1
         /\ \A k \in 1..Len(s) : Append(s, x)[k] = s[k]
         /\ Append(s, x)[Len(s) + 1] = x
  OBVIOUS

\* Sequences of the same elements are the same.
LEMMA SameElements ==
  ASSUME NEW S, NEW s \in Seq(S), NEW t \in Seq(S), Len(s) = Len(t),
         \A k \in 1..Len(s) : s[k] = t[k]
  PROVE  s = t
  OBVIOUS

LEMMA RequestFacts ==
  /\ Len(Request) = 8 /\ Request \in Seq(Lines)
  /\ \A k \in 1..8 : Request[k] \in Lines
<1>1. Len(Request) = 8
  BY DEF Request
<1>2. \A k \in 1..8 : Request[k] \in Lines
  BY <1>1 DEF Lines
<1>3. DOMAIN Request = 1..8 /\ Request = [k \in 1..8 |-> Request[k]]
  BY DEF Request
<1>4. Request \in Seq(Lines)
  <2>1. Request \in [1..8 -> Lines] /\ 8 \in Nat
    BY <1>2, <1>3
  <2> QED
    BY <2>1, FunctionAsSeq
<1> QED
  BY <1>1, <1>2, <1>4

LEMMA SymbolFacts ==
  /\ LF \notin Texts /\ Required \subseteq Texts /\ Status \in Texts
  /\ Status \notin Required
  BY DEF LF, Texts, Required, Status, Other

\* The ends of the lines of a text are finitely many.
LEMMA LineEndsFinite ==
  ASSUME Len(text) \in Nat
  PROVE  IsFiniteSet(LineEnds)
<1>1. IsFiniteSet(1..Len(text))
  BY FS_Interval
<1>2. LineEnds \subseteq 1..Len(text)
  BY DEF LineEnds
<1> QED
  BY <1>1, <1>2, FS_Subset

-----------------------------------------------------------------------------
(* Steps that read nothing, or only a '\r'.                                 *)

LEMMA QuietKeeps ==
  ASSUME IInv, UNCHANGED <<text, request, line, flags, headers>>,
         wire' \in Symbols \cup {None}, closed' \in BOOLEAN,
         \/ pc' = pc /\ ret' = ret
         \/ /\ pc # "done" /\ pc' = "done"
            /\ ret' \in {"io_error", "eof", "timed_out"}
  PROVE  IInv'
<1>1. Types'
  BY DEF IInv, Types
<1>2. RequestInv'
  BY DEF IInv, RequestInv
<1>3. ReplyInv'
  BY DEF IInv, ReplyInv, LineInv, RightStatus, Over, Has, LineEnds, IsLine, IsBlank
<1>4. AcceptsOnlyUpgrade' /\ RefusesForReason' /\ StopsAtBlankLine'
  BY DEF IInv, AcceptsOnlyUpgrade, RefusesForReason, AccusesOnlyWrong,
     RefusesOnlyLarge, StopsAtBlankLine, TooLong, TooMany, RightStatus, Over,
     Has, LineEnds, IsLine, IsBlank
<1> QED
  BY <1>1, <1>2, <1>3, <1>4 DEF IInv

\* The next line of the request goes out.
LEMMA SendKeeps ==
  ASSUME IInv, SendLine
  PROVE  IInv'
<1>1. /\ pc = "send" /\ request' = Append(request, Request[Len(request) + 1])
      /\ pc' = IF Len(request') = Len(Request) THEN "status" ELSE "send"
      /\ UNCHANGED <<wire, closed, text, line, flags, headers, ret>>
  BY DEF SendLine, netVars, locals
<1>2. /\ request \in Seq(Lines) /\ Len(request) \in Nat /\ Len(request) < 8
      /\ \A k \in 1..Len(request) : request[k] = Request[k]
  BY <1>1 DEF IInv, RequestInv
<1>3. Request[Len(request) + 1] \in Lines
  BY <1>2, RequestFacts
<1>4. /\ request' \in Seq(Lines) /\ Len(request') = Len(request) + 1
      /\ \A k \in 1..Len(request) : request'[k] = request[k]
      /\ request'[Len(request) + 1] = Request[Len(request) + 1]
  BY <1>1, <1>2, <1>3, AppendElements
<1>5. /\ text = <<>> /\ line = <<>> /\ flags = {} /\ headers = 0 /\ ret = "pending"
  BY <1>1 DEF IInv, ReplyInv, Types
<1>6. pc' \in {"send", "status"}
  BY <1>1
<1>7. Types'
  BY <1>1, <1>6 DEF IInv, Types
<1>8. RequestInv'
  <2>1. \A k \in 1..Len(request) + 1 : request'[k] = Request[k]
    <3> SUFFICES ASSUME NEW k \in 1..Len(request) + 1
                 PROVE  request'[k] = Request[k]
      OBVIOUS
    <3>1. CASE k = Len(request) + 1
      BY <1>4, <3>1
    <3>2. CASE k # Len(request) + 1
      <4>1. k \in 1..Len(request)
        BY <1>2, <3>2
      <4> QED
        BY <1>2, <1>4, <4>1
    <3> QED
      BY <3>1, <3>2
  <2>2. Len(request') <= 8 /\ (pc' = "send" => Len(request') < 8)
        /\ (pc' = "status" => Len(request') = 8)
    BY <1>1, <1>2, <1>4, RequestFacts
  <2> QED
    BY <1>4, <1>6, <2>1, <2>2 DEF RequestInv
<1>9. ReplyInv'
  <2>1. text' = <<>> /\ line' = <<>> /\ Len(text') = 0 /\ Len(line') = 0
    BY <1>1, <1>5
  <2>2. LineInv'
    BY <2>1 DEF LineInv
  <2> QED
    BY <1>1, <1>5, <1>6, <2>1, <2>2 DEF ReplyInv
<1>10. AcceptsOnlyUpgrade' /\ RefusesForReason'
  BY <1>1, <1>5 DEF AcceptsOnlyUpgrade, RefusesForReason, AccusesOnlyWrong,
     RefusesOnlyLarge
<1>11. StopsAtBlankLine'
  BY <1>1, <1>5 DEF StopsAtBlankLine
<1> QED
  BY <1>7, <1>8, <1>9, <1>10, <1>11 DEF IInv

-----------------------------------------------------------------------------
(* Steps that read a symbol of the reply.                                   *)

LEMMA WhenReading ==
  ASSUME IInv, Reading
  PROVE  /\ text \in Seq(Texts \cup {LF}) /\ Len(text) \in Nat
         /\ line \in Seq(Texts) /\ Len(line) \in Nat
         /\ Len(line) < MaxLine /\ MaxLine \in Nat
         /\ LineInv /\ ret = "pending" /\ request = Request
         /\ \A k \in 1..Len(line) : line[k] \in Texts
         /\ \A k \in 3..Len(text) : ~IsBlank(k)
<1>1. /\ pc \in {"status", "header"}
      /\ pc \notin {"send", "done"}
  BY DEF Reading
<1>2. /\ text \in Seq(Texts \cup {LF}) /\ Len(text) \in Nat
      /\ line \in Seq(Texts) /\ Len(line) \in Nat
      /\ Len(line) < MaxLine /\ ret = "pending"
  BY <1>1 DEF IInv, Types
<1>3. MaxLine \in Nat
  BY ConstantsAssumption
<1>4. LineInv
  BY <1>1 DEF IInv, ReplyInv
<1>5. request = Request
  <2>1. /\ request \in Seq(Lines) /\ Len(request) = 8
        /\ \A k \in 1..Len(request) : request[k] = Request[k]
    BY <1>1 DEF IInv, RequestInv
  <2> QED
    BY <2>1, RequestFacts, SameElements
<1>6. \A k \in 1..Len(line) : line[k] \in Texts
  BY <1>2
<1>7. ASSUME NEW k \in 3..Len(text)
      PROVE  ~IsBlank(k)
  <2>1. CASE pc = "header"
    BY <2>1 DEF IInv, ReplyInv, Over
  <2>2. CASE pc = "status"
    <3>1. Len(text) = Len(line)
      BY <2>2 DEF IInv, ReplyInv
    <3>2. k \in 1..Len(line) /\ Len(text) - Len(line) + k = k
      BY <1>2, <3>1
    <3>3. text[k] = line[k]
      BY <1>4, <3>2 DEF LineInv
    <3> QED
      BY <1>6, <3>2, <3>3, SymbolFacts DEF IsBlank
  <2> QED
    BY <1>1, <2>1, <2>2
<1> QED
  BY <1>2, <1>3, <1>4, <1>5, <1>6, <1>7

\* What was said of the lines before stays true when a symbol is read.
LEMMA TextGrows ==
  ASSUME IInv, Reading, NEW x \in Texts \cup {LF}, text' = Append(text, x)
  PROVE  /\ text' \in Seq(Texts \cup {LF}) /\ Len(text') = Len(text) + 1
         /\ \A k \in 1..Len(text) : text'[k] = text[k]
         /\ text'[Len(text) + 1] = x
         /\ \A k \in 1..Len(text) : IsBlank(k)' <=> IsBlank(k)
         /\ \A k \in 1..Len(text) : \A h : IsLine(k, h)' <=> IsLine(k, h)
         /\ StopsAtBlankLine'
         /\ RightStatus => RightStatus'
<1>1. text \in Seq(Texts \cup {LF}) /\ Len(text) \in Nat
  BY WhenReading
<1>2. /\ text' \in Seq(Texts \cup {LF}) /\ Len(text') = Len(text) + 1
      /\ \A k \in 1..Len(text) : text'[k] = text[k]
      /\ text'[Len(text) + 1] = x
  BY <1>1, AppendElements
<1>3. ASSUME NEW k \in 1..Len(text)
      PROVE  IsBlank(k)' <=> IsBlank(k)
  <2>1. k > 1 => k - 1 \in 1..Len(text)
    BY <1>1
  <2> QED
    BY <1>2, <2>1 DEF IsBlank
<1>4. ASSUME NEW k \in 1..Len(text), NEW h
      PROVE  IsLine(k, h)' <=> IsLine(k, h)
  <2>1. /\ k > 1 => k - 1 \in 1..Len(text)
        /\ k > 2 => k - 2 \in 1..Len(text)
    BY <1>1
  <2> QED
    BY <1>2, <2>1 DEF IsLine
<1>5. StopsAtBlankLine'
  <2> SUFFICES ASSUME NEW k \in 3..Len(text') - 1
               PROVE  ~IsBlank(k)'
    BY DEF StopsAtBlankLine
  <2>1. k \in 1..Len(text) /\ k \in 3..Len(text)
    BY <1>1, <1>2
  <2> QED
    BY <1>3, <2>1, WhenReading
<1>6. RightStatus => RightStatus'
  <2> SUFFICES ASSUME RightStatus
               PROVE  RightStatus'
    OBVIOUS
  <2>1. Len(text) >= 2 /\ IsLine(2, Status)
    BY DEF RightStatus
  <2>2. 2 \in 1..Len(text) /\ Len(text') >= 2
    BY <1>1, <1>2, <2>1
  <2>3. IsLine(2, Status)'
    BY <1>4, <2>1, <2>2
  <2> QED
    BY <2>2, <2>3 DEF RightStatus
<1> QED
  BY <1>2, <1>3, <1>4, <1>5, <1>6
\* What is behind a text, or before the first symbol of the reply.
LEMMA AddTextKeeps ==
  ASSUME IInv, NEW symbol \in Texts, AddText(symbol)
  PROVE  IInv'
<1>1. /\ Reading /\ pc \in {"status", "header"} /\ wire' = None
      /\ text' = Append(text, symbol) /\ line' = Append(line, symbol)
      /\ UNCHANGED <<closed, request, flags, headers>>
      /\ IF Len(line') < MaxLine
           THEN UNCHANGED <<pc, ret>>
           ELSE pc' = "done" /\ ret' = "value_too_large"
  BY DEF AddText, Take, Return, Reading
<1>2. /\ text \in Seq(Texts \cup {LF}) /\ Len(text) \in Nat
      /\ line \in Seq(Texts) /\ Len(line) \in Nat
      /\ Len(line) < MaxLine /\ MaxLine \in Nat
      /\ LineInv /\ ret = "pending"
  BY <1>1, WhenReading
<1>3. /\ text' \in Seq(Texts \cup {LF}) /\ Len(text') = Len(text) + 1
      /\ \A k \in 1..Len(text) : text'[k] = text[k]
      /\ text'[Len(text) + 1] = symbol
      /\ \A k \in 1..Len(text) : IsBlank(k)' <=> IsBlank(k)
      /\ \A k \in 1..Len(text) : \A h : IsLine(k, h)' <=> IsLine(k, h)
      /\ StopsAtBlankLine'
      /\ RightStatus => RightStatus'
  BY <1>1, TextGrows
<1>4. /\ line' \in Seq(Texts) /\ Len(line') = Len(line) + 1
      /\ \A k \in 1..Len(line) : line'[k] = line[k]
      /\ line'[Len(line) + 1] = symbol
  BY <1>1, <1>2, AppendElements
<1>5. symbol # LF
  BY SymbolFacts
<1>6. RequestInv'
  BY <1>1 DEF IInv, RequestInv
<1>7. LineInv'
  <2>1. /\ Len(line) <= Len(text)
        /\ \A k \in 1..Len(line) : text[Len(text) - Len(line) + k] = line[k]
        /\ Len(line) < Len(text) => text[Len(text) - Len(line)] = LF
    BY <1>2 DEF LineInv
  <2>2. Len(text') - Len(line') = Len(text) - Len(line)
    BY <1>2, <1>3, <1>4
  <2>3. ASSUME NEW k \in 1..Len(line')
        PROVE  text'[Len(text) - Len(line) + k] = line'[k]
    <3>1. CASE k = Len(line) + 1
      <4>1. Len(text) - Len(line) + k = Len(text) + 1
        BY <1>2, <3>1
      <4> QED
        BY <1>3, <1>4, <3>1, <4>1
    <3>2. CASE k # Len(line) + 1
      <4>1. k \in 1..Len(line) /\ Len(text) - Len(line) + k \in 1..Len(text)
        BY <1>2, <1>4, <2>1, <3>2
      <4>2. text'[Len(text) - Len(line) + k] = text[Len(text) - Len(line) + k]
        BY <1>3, <4>1
      <4> QED
        BY <1>4, <2>1, <4>1, <4>2
    <3> QED
      BY <3>1, <3>2
  <2>4. Len(line) < Len(text) => text'[Len(text) - Len(line)] = LF
    <3> SUFFICES ASSUME Len(line) < Len(text)
                 PROVE  text'[Len(text) - Len(line)] = LF
      OBVIOUS
    <3>1. Len(text) - Len(line) \in 1..Len(text)
      BY <1>2
    <3>2. text'[Len(text) - Len(line)] = text[Len(text) - Len(line)]
      BY <1>3, <3>1
    <3> QED
      BY <2>1, <3>2
  <2>5. Len(line') <= Len(text') /\ (Len(line') < Len(text') => Len(line) < Len(text))
    BY <1>2, <1>3, <1>4, <2>1
  <2> QED
    BY <2>2, <2>3, <2>4, <2>5 DEF LineInv
<1>8. CASE Len(line') < MaxLine
  <2>1. pc' = pc /\ ret' = ret
    BY <1>1, <1>8
  <2>2. Types'
    BY <1>1, <1>2, <1>3, <1>4, <1>8, <2>1 DEF IInv, Types
  <2>3. pc = "status" => Len(text') = Len(line') /\ flags' = {} /\ headers' = 0
    BY <1>1, <1>3, <1>4 DEF IInv, ReplyInv
  <2>4. ASSUME pc = "header"
        PROVE  /\ RightStatus' /\ ~Over' /\ Len(line') < Len(text')
               /\ \A h \in Required : h \in flags' <=> Has(h)'
               /\ Cardinality(LineEnds)' = headers' + 1
    <3>1. /\ RightStatus /\ ~Over /\ Len(line) < Len(text)
          /\ \A h \in Required : h \in flags <=> Has(h)
          /\ Cardinality(LineEnds) = headers + 1
      BY <2>4 DEF IInv, ReplyInv
    <3>2. \A k \in 3..Len(text') : (k \in 1..Len(text) /\ k \in 3..Len(text))
                                   \/ k = Len(text) + 1
      BY <1>2, <1>3
    <3>3. \A k : k = Len(text) + 1 => ~IsBlank(k)' /\ \A h : ~IsLine(k, h)'
      BY <1>3, <1>5 DEF IsBlank, IsLine
    <3>4. ~Over'
      <4> SUFFICES ASSUME NEW k \in 3..Len(text')
                   PROVE  ~IsBlank(k)'
        BY DEF Over
      <4>1. k \in 3..Len(text) => ~IsBlank(k)
        BY <3>1 DEF Over
      <4> QED
        BY <1>3, <3>2, <3>3, <4>1
    <3>5. ASSUME NEW h \in Required
          PROVE  Has(h)' <=> Has(h)
      <4>1. \A k \in 3..Len(text) : k \in 3..Len(text') /\ k \in 1..Len(text)
        BY <1>2, <1>3
      <4> QED
        BY <1>3, <3>2, <3>3, <4>1 DEF Has
    <3>6. LineEnds' = LineEnds
      <4>1. \A k \in 1..Len(text') : k \in 1..Len(text) \/ k = Len(text) + 1
        BY <1>2, <1>3
      <4>2. \A k \in 1..Len(text) : k \in 1..Len(text')
        BY <1>2, <1>3
      <4> QED
        BY <1>3, <1>5, <4>1, <4>2 DEF LineEnds
    <3>7. Len(line') < Len(text')
      BY <1>2, <1>3, <1>4, <3>1
    <3> QED
      BY <1>1, <1>3, <3>1, <3>4, <3>5, <3>6, <3>7
  <2>5. ReplyInv'
    BY <1>1, <1>7, <2>1, <2>3, <2>4 DEF ReplyInv
  <2>6. AcceptsOnlyUpgrade' /\ RefusesForReason'
    BY <1>2, <2>1 DEF AcceptsOnlyUpgrade, RefusesForReason, AccusesOnlyWrong,
       RefusesOnlyLarge
  <2> QED
    BY <1>3, <1>6, <2>2, <2>5, <2>6 DEF IInv
<1>9. CASE ~(Len(line') < MaxLine)
  <2>1. pc' = "done" /\ ret' = "value_too_large"
    BY <1>1, <1>9
  <2>2. Len(line') = MaxLine
    BY <1>2, <1>4, <1>9
  <2>3. Types'
    BY <1>1, <1>2, <1>3, <1>4, <2>1, <2>2 DEF IInv, Types
  <2>4. ReplyInv'
    BY <2>1 DEF ReplyInv
  <2>5. TooLong'
    <3>1. /\ MaxLine <= Len(text')
          /\ \A k \in 1..MaxLine : text'[Len(text') - MaxLine + k] = line'[k]
      BY <1>7, <2>2 DEF LineInv
    <3>2. \A k \in 1..MaxLine : line'[k] \in Texts
      BY <1>4, <2>2
    <3> DEFINE first == Len(text') - MaxLine + 1
    <3>3. first \in 1..Len(text') - MaxLine + 1
      BY <1>2, <1>3, <3>1
    <3>4. ASSUME NEW k \in first..first + MaxLine - 1
          PROVE  text'[k] # LF
      <4>1. k - (Len(text') - MaxLine) \in 1..MaxLine
        BY <1>2, <1>3
      <4>2. Len(text') - MaxLine + (k - (Len(text') - MaxLine)) = k
        BY <1>2, <1>3
      <4>3. text'[k] \in Texts
        BY <3>1, <3>2, <4>1, <4>2
      <4> QED
        BY <4>3, SymbolFacts
    <3> HIDE DEF first
    <3> QED
      BY <3>3, <3>4 DEF TooLong
  <2>6. AcceptsOnlyUpgrade' /\ RefusesForReason'
    BY <2>1, <2>5 DEF AcceptsOnlyUpgrade, RefusesForReason, AccusesOnlyWrong,
       RefusesOnlyLarge
  <2> QED
    BY <1>3, <1>6, <2>3, <2>4, <2>6 DEF IInv
<1> QED
  BY <1>8, <1>9

\* What every end of a line does.
LEMMA LineEnded ==
  ASSUME IInv, EndOfLine
  PROVE  /\ Reading /\ wire' = None /\ line' = <<>> /\ UNCHANGED <<closed, request>>
         /\ text' \in Seq(Texts \cup {LF}) /\ Len(text') = Len(text) + 1
         /\ Len(text) \in Nat
         /\ \A k \in 1..Len(text) : text'[k] = text[k]
         /\ text'[Len(text) + 1] = LF
         /\ \A k \in 1..Len(text) : IsBlank(k)' <=> IsBlank(k)
         /\ \A k \in 1..Len(text) : \A h : IsLine(k, h)' <=> IsLine(k, h)
         /\ StopsAtBlankLine' /\ (RightStatus => RightStatus')
         /\ LineInv' /\ (pc' # "send" => RequestInv')
         /\ IsFiniteSet(LineEnds)' /\ Cardinality(LineEnds)' = Cardinality(LineEnds) + 1
<1>1. /\ Reading /\ wire' = None /\ line' = <<>> /\ text' = Append(text, LF)
      /\ UNCHANGED <<closed, request>>
  BY DEF EndOfLine, Take
<1>2. text \in Seq(Texts \cup {LF}) /\ Len(text) \in Nat
  BY <1>1, WhenReading
<1>3. /\ text' \in Seq(Texts \cup {LF}) /\ Len(text') = Len(text) + 1
      /\ \A k \in 1..Len(text) : text'[k] = text[k]
      /\ text'[Len(text) + 1] = LF
      /\ \A k \in 1..Len(text) : IsBlank(k)' <=> IsBlank(k)
      /\ \A k \in 1..Len(text) : \A h : IsLine(k, h)' <=> IsLine(k, h)
      /\ StopsAtBlankLine'
      /\ RightStatus => RightStatus'
  <2>1. LF \in Texts \cup {LF}
    OBVIOUS
  <2> QED
    BY <1>1, <2>1, TextGrows
<1>4. LineInv'
  <2>1. Len(line') = 0
    BY <1>1
  <2>2. Len(text') - Len(line') = Len(text) + 1
    BY <1>2, <1>3, <2>1
  <2>3. Len(line') <= Len(text')
    BY <1>2, <1>3, <2>1
  <2>4. \A k \in 1..Len(line') : FALSE
    BY <2>1
  <2> QED
    BY <1>3, <2>2, <2>3, <2>4 DEF LineInv
<1>5. pc' # "send" => RequestInv'
  <2>1. pc \in {"status", "header"}
    BY <1>1 DEF Reading
  <2>2. Len(request) = 8
    BY <2>1 DEF IInv, RequestInv
  <2> QED
    BY <1>1, <2>2 DEF IInv, RequestInv
<1>6. IsFiniteSet(LineEnds)' /\ Cardinality(LineEnds)' = Cardinality(LineEnds) + 1
  <2>1. LineEnds' = LineEnds \cup {Len(text) + 1}
    <3>1. \A k \in 1..Len(text') : k \in 1..Len(text) \/ k = Len(text) + 1
      BY <1>2, <1>3
    <3>2. /\ \A k \in 1..Len(text) : k \in 1..Len(text')
          /\ Len(text) + 1 \in 1..Len(text')
      BY <1>2, <1>3
    <3> QED
      BY <1>3, <3>1, <3>2 DEF LineEnds
  <2>2. Len(text) + 1 \notin LineEnds
    BY <1>2 DEF LineEnds
  <2>3. IsFiniteSet(LineEnds)
    BY <1>2, LineEndsFinite
  <2> QED
    BY <2>1, <2>2, <2>3, FS_AddElement
<1> QED
  BY <1>1, <1>2, <1>3, <1>4, <1>5, <1>6
\* The first line, at which there was no end of a line before.
LEMMA StatusKeeps ==
  ASSUME IInv, StatusLine
  PROVE  IInv'
<1>1. /\ pc = "status" /\ EndOfLine /\ UNCHANGED <<flags, headers>>
      /\ IF line = <<Status>>
           THEN pc' = "header" /\ ret' = ret
           ELSE pc' = "done" /\ ret' = "ws_proto"
  BY DEF StatusLine, Return
<1>2. /\ Reading /\ wire' = None /\ line' = <<>> /\ UNCHANGED <<closed, request>>
      /\ text' \in Seq(Texts \cup {LF}) /\ Len(text') = Len(text) + 1
      /\ Len(text) \in Nat
      /\ \A k \in 1..Len(text) : text'[k] = text[k]
      /\ text'[Len(text) + 1] = LF
      /\ StopsAtBlankLine'
      /\ LineInv' /\ (pc' # "send" => RequestInv')
      /\ Cardinality(LineEnds)' = Cardinality(LineEnds) + 1
  BY <1>1, LineEnded
<1>3. /\ line \in Seq(Texts) /\ Len(line) \in Nat /\ LineInv /\ ret = "pending"
      /\ \A k \in 1..Len(line) : line[k] \in Texts
  BY <1>2, WhenReading
<1>4. Len(text) = Len(line) /\ flags = {} /\ headers = 0
  BY <1>1 DEF IInv, ReplyInv
<1>5. ASSUME NEW k \in 1..Len(line)
      PROVE  text'[k] = line[k] /\ text[k] = line[k]
  <2>1. Len(text) - Len(line) + k = k /\ k \in 1..Len(text)
    BY <1>3, <1>4
  <2>2. text[k] = line[k]
    BY <1>3, <2>1 DEF LineInv
  <2> QED
    BY <1>2, <2>1, <2>2
<1>6. Len(line') = 0 /\ MaxLine \in Nat /\ 0 < MaxLine
  BY <1>2, ConstantsAssumption
<1>7. Types'
  BY <1>1, <1>2, <1>3, <1>6 DEF IInv, Types
<1>8. RequestInv'
  BY <1>1, <1>2
<1>9. CASE line = <<Status>>
  <2>1. Len(line) = 1 /\ line[1] = Status
    BY <1>9
  <2>2. Len(text') = 2 /\ text'[1] = Status /\ text'[2] = LF
    BY <1>2, <1>4, <1>5, <2>1
  <2>3. RightStatus'
    BY <2>2 DEF RightStatus, IsLine
  <2>4. ~Over' /\ \A h \in Required : ~Has(h)'
    <3>1. \A k \in 3..Len(text') : FALSE
      BY <2>2
    <3> QED
      BY <3>1 DEF Over, Has
  <2>5. Cardinality(LineEnds) = 0
    <3>1. LineEnds = {}
      BY <1>3, <1>4, <1>5, SymbolFacts DEF LineEnds
    <3> QED
      BY <3>1, FS_EmptySet
  <2>6. ReplyInv'
    <3>1. pc' = "header" /\ flags' = {} /\ headers' = 0 /\ Len(line') < Len(text')
      BY <1>1, <1>4, <1>6, <1>9, <2>2
    <3>2. Cardinality(LineEnds)' = headers' + 1
      BY <1>2, <2>5, <3>1
    <3> QED
      BY <1>2, <2>3, <2>4, <3>1, <3>2 DEF ReplyInv
  <2>7. AcceptsOnlyUpgrade' /\ RefusesForReason'
    BY <1>1, <1>3, <1>9 DEF AcceptsOnlyUpgrade, RefusesForReason, AccusesOnlyWrong,
       RefusesOnlyLarge
  <2> QED
    BY <1>2, <1>7, <1>8, <2>6, <2>7 DEF IInv
<1>10. CASE line # <<Status>>
  <2>1. pc' = "done" /\ ret' = "ws_proto"
    BY <1>1, <1>10
  <2>2. ~RightStatus'
    <3> SUFFICES ASSUME RightStatus'
                 PROVE  FALSE
      OBVIOUS
    <3>1. Len(text') >= 2 /\ text'[2] = LF /\ text'[1] = Status
      BY DEF RightStatus, IsLine
    <3>2. 1 \in 1..Len(line)
      BY <1>2, <1>3, <1>4, <3>1
    <3>3. ~(2 \in 1..Len(line))
      BY <1>3, <1>5, <3>1, SymbolFacts
    <3>4. Len(line) = 1 /\ line[1] = Status
      <4>1. Len(line) \in Nat /\ line[1] = Status
        BY <1>3, <1>5, <3>1, <3>2
      <4>2. Len(line) >= 1 /\ ~(Len(line) >= 2)
        BY <3>2, <3>3, <4>1
      <4>3. Len(line) = 1
        BY <4>1, <4>2, SMTT(30)
      <4> QED
        BY <4>1, <4>3
    <3>5. line = <<Status>>
      BY <1>3, <3>4
    <3> QED
      BY <1>10, <3>5
  <2>3. ReplyInv'
    BY <2>1 DEF ReplyInv
  <2>4. AcceptsOnlyUpgrade' /\ RefusesForReason'
    BY <2>1, <2>2 DEF AcceptsOnlyUpgrade, RefusesForReason, AccusesOnlyWrong,
       RefusesOnlyLarge
  <2> QED
    BY <1>2, <1>7, <1>8, <2>3, <2>4 DEF IInv
<1> QED
  BY <1>9, <1>10

\* Whether the line that ends is a header that was asked for, or blank.
LEMMA HeaderEnded ==
  ASSUME IInv, pc = "header", EndOfLine
  PROVE  /\ RightStatus'
         /\ Over' <=> line = <<>>
         /\ \A h \in Required : Has(h)' <=> h \in flags \/ line = <<h>>
         /\ Cardinality(LineEnds)' = headers + 2
         /\ headers \in Nat
<1>1. /\ Reading
      /\ text' \in Seq(Texts \cup {LF}) /\ Len(text') = Len(text) + 1
      /\ Len(text) \in Nat
      /\ \A k \in 1..Len(text) : text'[k] = text[k]
      /\ text'[Len(text) + 1] = LF
      /\ \A k \in 1..Len(text) : IsBlank(k)' <=> IsBlank(k)
      /\ \A k \in 1..Len(text) : \A h : IsLine(k, h)' <=> IsLine(k, h)
      /\ RightStatus => RightStatus'
      /\ Cardinality(LineEnds)' = Cardinality(LineEnds) + 1
  BY LineEnded
<1>2. /\ line \in Seq(Texts) /\ Len(line) \in Nat /\ LineInv
      /\ \A k \in 1..Len(line) : line[k] \in Texts
  BY <1>1, WhenReading
<1>3. /\ RightStatus /\ ~Over /\ Len(line) < Len(text)
      /\ \A h \in Required : h \in flags <=> Has(h)
      /\ Cardinality(LineEnds) = headers + 1
      /\ headers \in Nat
  BY DEF IInv, ReplyInv, Types
<1>4. Len(text) >= 2
  BY <1>3 DEF RightStatus
<1>5. /\ \A k \in 1..Len(line) : text[Len(text) - Len(line) + k] = line[k]
      /\ text[Len(text) - Len(line)] = LF
  BY <1>3, <1>2 DEF LineInv
<1>6. line = <<>> <=> text[Len(text)] = LF
  <2>1. CASE line = <<>>
    <3>1. Len(text) - Len(line) = Len(text)
      BY <1>1, <2>1
    <3> QED
      BY <1>5, <2>1, <3>1
  <2>2. CASE line # <<>>
    <3>1. Len(line) \in 1..Len(line)
      BY <1>2, <2>2
    <3>2. Len(text) - Len(line) + Len(line) = Len(text)
      BY <1>1, <1>2
    <3>3. text[Len(text)] \in Texts
      BY <1>2, <1>5, <3>1, <3>2
    <3> QED
      BY <2>2, <3>3, SymbolFacts
  <2> QED
    BY <2>1, <2>2
<1>7. ASSUME NEW h \in Required
      PROVE  line = <<h>> <=> text[Len(text)] = h /\ text[Len(text) - 1] = LF
  <2>1. h \in Texts /\ h # LF
    BY SymbolFacts
  <2>2. CASE line = <<h>>
    <3>1. Len(line) = 1 /\ line[1] = h
      BY <2>2
    <3>2. Len(text) - Len(line) = Len(text) - 1 /\ Len(text) - Len(line) + 1 = Len(text)
      BY <1>1, <3>1
    <3>3. 1 \in 1..Len(line)
      BY <3>1
    <3>4. text[Len(text) - Len(line) + 1] = line[1]
      BY <1>5, <3>3
    <3> QED
      BY <1>5, <2>2, <3>1, <3>2, <3>4
  <2>3. CASE text[Len(text)] = h /\ text[Len(text) - 1] = LF
    <3>1. line # <<>>
      BY <1>6, <2>1, <2>3
    <3>2. Len(line) >= 1
      BY <1>2, <3>1
    <3>3. ~(Len(line) >= 2)
      <4> SUFFICES ASSUME Len(line) >= 2
                   PROVE  FALSE
        OBVIOUS
      <4>1. Len(line) - 1 \in 1..Len(line)
        BY <1>2
      <4>2. Len(text) - Len(line) + (Len(line) - 1) = Len(text) - 1
        BY <1>1, <1>2
      <4>3. text[Len(text) - 1] \in Texts
        BY <1>2, <1>5, <4>1, <4>2
      <4> QED
        BY <2>3, <4>3, SymbolFacts
    <3>4. Len(line) = 1 /\ 1 \in 1..Len(line)
      <4>1. Len(line) \in Nat
        BY <1>2
      <4>2. Len(line) = 1
        BY <3>2, <3>3, <4>1
      <4> QED
        BY <4>2
    <3>5. Len(text) - Len(line) + 1 = Len(text)
      BY <1>1, <3>4
    <3>6. line[1] = h
      BY <1>5, <2>3, <3>4, <3>5
    <3>7. line = <<h>>
      BY <1>2, <3>4, <3>6
    <3> QED
      BY <2>3, <3>7
  <2> QED
    BY <2>2, <2>3
<1>8. /\ \A k \in 3..Len(text') : (k \in 3..Len(text) /\ k \in 1..Len(text))
                                  \/ k = Len(text) + 1
      /\ \A k \in 3..Len(text) : k \in 3..Len(text') /\ k \in 1..Len(text)
      /\ Len(text) + 1 \in 3..Len(text')
  BY <1>1, <1>4
<1>9. /\ Len(text) \in 1..Len(text) /\ Len(text) - 1 \in 1..Len(text)
      /\ \A k : k = Len(text) + 1 => k > 1 /\ k > 2 /\ k - 1 = Len(text)
                                     /\ k - 2 = Len(text) - 1
  BY <1>1, <1>4
<1>10. \A k : k = Len(text) + 1 => (IsBlank(k)' <=> line = <<>>)
  BY <1>1, <1>6, <1>9 DEF IsBlank
<1>11. ASSUME NEW h \in Required
       PROVE  \A k : k = Len(text) + 1 => (IsLine(k, h)' <=> line = <<h>>)
  <2>1. text'[Len(text)] = text[Len(text)] /\ text'[Len(text) - 1] = text[Len(text) - 1]
    BY <1>1, <1>9
  <2> QED
    BY <1>1, <1>7, <1>9, <2>1 DEF IsLine
<1>12. Over' <=> line = <<>>
  <2>1. Over' => line = <<>>
    <3> SUFFICES ASSUME NEW k \in 3..Len(text'), IsBlank(k)'
                 PROVE  line = <<>>
      BY DEF Over
    <3>1. ~(k \in 3..Len(text) /\ k \in 1..Len(text))
      BY <1>1, <1>3 DEF Over
    <3> QED
      BY <1>8, <1>10, <3>1
  <2>2. line = <<>> => Over'
    BY <1>8, <1>10 DEF Over
  <2> QED
    BY <2>1, <2>2
<1>13. ASSUME NEW h \in Required
       PROVE  Has(h)' <=> h \in flags \/ line = <<h>>
  <2>1. ASSUME NEW k \in 3..Len(text'), IsLine(k, h)'
        PROVE  h \in flags \/ line = <<h>>
    <3>1. CASE k \in 3..Len(text) /\ k \in 1..Len(text)
      <4>1. IsLine(k, h)
        BY <1>1, <2>1, <3>1
      <4> QED
        BY <1>3, <3>1, <4>1 DEF Has
    <3>2. CASE k = Len(text) + 1
      BY <1>11, <2>1, <3>2
    <3> QED
      BY <1>8, <3>1, <3>2
  <2>2. h \in flags => Has(h)'
    <3> SUFFICES ASSUME h \in flags
                 PROVE  Has(h)'
      OBVIOUS
    <3>1. PICK k \in 3..Len(text) : IsLine(k, h)
      BY <1>3 DEF Has
    <3>2. k \in 3..Len(text') /\ IsLine(k, h)'
      BY <1>1, <1>8, <3>1
    <3> QED
      BY <3>2 DEF Has
  <2>3. line = <<h>> => Has(h)'
    BY <1>8, <1>11 DEF Has
  <2> QED
    BY <2>1, <2>2, <2>3 DEF Has
<1> QED
  BY <1>1, <1>3, <1>12, <1>13
\* A header line that is not the last one the limit allows.
LEMMA HeaderKeeps ==
  ASSUME IInv, HeaderLine
  PROVE  IInv'
<1>1. /\ pc = "header" /\ line # <<>> /\ EndOfLine
      /\ flags' = flags \cup {h \in Required : line = <<h>>}
      /\ headers' = headers + 1
      /\ IF headers' < MaxHeaders
           THEN UNCHANGED <<pc, ret>>
           ELSE pc' = "done" /\ ret' = "value_too_large"
  BY DEF HeaderLine, NextHeader, Return
<1>2. /\ Reading /\ wire' = None /\ line' = <<>> /\ UNCHANGED <<closed, request>>
      /\ text' \in Seq(Texts \cup {LF}) /\ Len(text') = Len(text) + 1
      /\ Len(text) \in Nat
      /\ StopsAtBlankLine' /\ LineInv' /\ (pc' # "send" => RequestInv')
  BY <1>1, LineEnded
<1>3. /\ RightStatus' /\ ~Over'
      /\ \A h \in Required : Has(h)' <=> h \in flags \/ line = <<h>>
      /\ Cardinality(LineEnds)' = headers + 2
      /\ headers \in Nat
  BY <1>1, HeaderEnded
<1>4. ret = "pending"
  BY <1>2, WhenReading
<1>5. /\ Len(line') = 0 /\ MaxLine \in Nat /\ 0 < MaxLine
      /\ MaxHeaders \in Nat /\ 0 < MaxHeaders
  BY <1>2, ConstantsAssumption
<1>6. flags' \subseteq Required /\ headers < MaxHeaders + 1 /\ headers <= MaxHeaders
  <2>1. flags \subseteq Required /\ headers <= MaxHeaders
    BY DEF IInv, Types
  <2> QED
    BY <1>1, <1>3, <1>5, <2>1
<1>7. CASE headers' < MaxHeaders
  <2>1. pc' = "header" /\ ret' = "pending"
    BY <1>1, <1>4, <1>7
  <2>2. headers' \in Nat /\ headers' <= MaxHeaders
    BY <1>1, <1>3, <1>5, <1>7
  <2>3. Types'
    BY <1>1, <1>2, <1>5, <1>6, <2>1, <2>2 DEF IInv, Types
  <2>4. Len(line') < Len(text') /\ Cardinality(LineEnds)' = headers' + 1
    BY <1>1, <1>2, <1>3, <1>5
  <2>5. \A h \in Required : h \in flags' <=> Has(h)'
    BY <1>1, <1>3
  <2>6. ReplyInv'
    BY <1>2, <1>3, <2>1, <2>4, <2>5 DEF ReplyInv
  <2>7. AcceptsOnlyUpgrade' /\ RefusesForReason'
    BY <2>1 DEF AcceptsOnlyUpgrade, RefusesForReason, AccusesOnlyWrong,
       RefusesOnlyLarge
  <2> QED
    BY <1>2, <2>1, <2>3, <2>6, <2>7 DEF IInv
<1>8. CASE ~(headers' < MaxHeaders)
  <2>1. pc' = "done" /\ ret' = "value_too_large"
    BY <1>1, <1>8
  <2>2. headers' = MaxHeaders
    <3>1. headers < MaxHeaders
      <4>1. pc # "done"
        BY <1>1
      <4> QED
        BY <4>1 DEF IInv, Types
    <3> QED
      BY <1>1, <1>3, <1>5, <1>8, <3>1
  <2>3. Types'
    BY <1>1, <1>2, <1>5, <1>6, <2>1, <2>2 DEF IInv, Types
  <2>4. ReplyInv'
    BY <2>1 DEF ReplyInv
  <2>5. TooMany'
    BY <1>1, <1>3, <1>5, <2>2 DEF TooMany
  <2>6. AcceptsOnlyUpgrade' /\ RefusesForReason'
    BY <1>3, <2>1, <2>5 DEF AcceptsOnlyUpgrade, RefusesForReason, AccusesOnlyWrong,
       RefusesOnlyLarge
  <2> QED
    BY <1>2, <2>1, <2>3, <2>4, <2>6 DEF IInv
<1> QED
  BY <1>7, <1>8

\* The blank line, at which the reply is judged.
LEMMA BlankKeeps ==
  ASSUME IInv, BlankLine
  PROVE  IInv'
<1>1. /\ pc = "header" /\ line = <<>> /\ EndOfLine /\ UNCHANGED <<flags, headers>>
      /\ pc' = "done"
      /\ ret' = IF Required \subseteq flags THEN "none" ELSE "ws_proto"
  BY DEF BlankLine, Return
<1>2. /\ Reading /\ wire' = None /\ line' = <<>> /\ UNCHANGED <<closed, request>>
      /\ text' \in Seq(Texts \cup {LF})
      /\ StopsAtBlankLine' /\ (pc' # "send" => RequestInv')
  BY <1>1, LineEnded
<1>3. /\ RightStatus' /\ Over'
      /\ \A h \in Required : Has(h)' <=> h \in flags \/ line = <<h>>
  BY <1>1, HeaderEnded
<1>4. request = Request
  BY <1>2, WhenReading
<1>5. Len(line') = 0 /\ MaxLine \in Nat /\ 0 < MaxLine
  BY <1>2, ConstantsAssumption
<1>6. Types'
  BY <1>1, <1>2, <1>5 DEF IInv, Types
<1>7. ReplyInv'
  BY <1>1 DEF ReplyInv
<1>8. \A h \in Required : Has(h)' <=> h \in flags
  BY <1>1, <1>3
<1>9. AcceptsOnlyUpgrade'
  BY <1>1, <1>2, <1>3, <1>4, <1>8 DEF AcceptsOnlyUpgrade
<1>10. RefusesForReason'
  <2>1. AccusesOnlyWrong'
    BY <1>1, <1>3, <1>8 DEF AccusesOnlyWrong
  <2>2. RefusesOnlyLarge'
    BY <1>1 DEF RefusesOnlyLarge
  <2> QED
    BY <2>1, <2>2 DEF RefusesForReason
<1> QED
  BY <1>1, <1>2, <1>6, <1>7, <1>9, <1>10 DEF IInv

-----------------------------------------------------------------------------
(* Every step.                                                              *)

LEMMA InvInit == Init => IInv
<1> SUFFICES ASSUME Init
             PROVE  IInv
  OBVIOUS
<1> USE DEF Init
<1>1. /\ Len(text) = 0 /\ Len(line) = 0 /\ Len(request) = 0
      /\ text \in Seq(Texts \cup {LF}) /\ line \in Seq(Texts) /\ request \in Seq(Lines)
      /\ MaxLine \in Nat /\ 0 < MaxLine /\ MaxHeaders \in Nat /\ 0 < MaxHeaders
  BY ConstantsAssumption
<1>2. Types
  <2>1. closed \in BOOLEAN /\ (ret = "pending" <=> pc # "done")
    OBVIOUS
  <2> QED
    BY <1>1, <2>1 DEF Types
<1>3. RequestInv
  BY <1>1 DEF RequestInv
<1>4. ReplyInv
  BY <1>1 DEF ReplyInv
<1>5. AcceptsOnlyUpgrade /\ RefusesForReason
  BY DEF AcceptsOnlyUpgrade, RefusesForReason, AccusesOnlyWrong, RefusesOnlyLarge
<1>6. StopsAtBlankLine
  BY <1>1 DEF StopsAtBlankLine
<1> QED
  BY <1>2, <1>3, <1>4, <1>5, <1>6 DEF IInv

LEMMA InvStep == IInv /\ [Next]_vars => IInv'
<1> SUFFICES ASSUME IInv, [Next]_vars
             PROVE  IInv'
  OBVIOUS
<1>1. wire \in Symbols \cup {None} /\ closed \in BOOLEAN
  BY DEF IInv, Types
<1>2. CASE SendLine
  BY <1>2, SendKeeps
<1>3. CASE SendFails
  BY <1>1, <1>3, QuietKeeps DEF SendFails, Return, netVars, locals
<1>4. CASE SkipCR
  BY <1>1, <1>4, QuietKeeps DEF SkipCR, Take, locals
<1>5. ASSUME NEW symbol \in Texts, AddText(symbol)
      PROVE  IInv'
  BY <1>5, AddTextKeeps
<1>6. CASE RecvFails
  <2>1. /\ pc # "done" /\ pc' = "done" /\ ret' \in {"eof", "timed_out", "io_error"}
        /\ UNCHANGED <<wire, closed, text, request, line, flags, headers>>
    BY <1>6 DEF RecvFails, Reading, Return, netVars, locals
  <2> QED
    BY <1>1, <2>1, QuietKeeps
<1>7. CASE StatusLine
  BY <1>7, StatusKeeps
<1>8. CASE HeaderLine
  BY <1>8, HeaderKeeps
<1>9. CASE BlankLine
  BY <1>9, BlankKeeps
<1>10. ASSUME NEW symbol \in Symbols, ServerSends(symbol)
       PROVE  IInv'
  BY <1>1, <1>10, QuietKeeps DEF ServerSends, locals
<1>11. CASE ServerCloses
  BY <1>1, <1>11, QuietKeeps DEF ServerCloses, locals
<1>12. CASE UNCHANGED vars
  BY <1>1, <1>12, QuietKeeps DEF vars, netVars, locals
<1> QED
  BY <1>2, <1>3, <1>4, <1>5, <1>6, <1>7, <1>8, <1>9, <1>10, <1>11, <1>12
     DEF Next, Client

-----------------------------------------------------------------------------
(* The theorems.                                                            *)

\* In every behaviour `line` is what was read behind the last end of a line, and
\* the flags are the headers the reply had so far (ws_handshake(), ws_recvln()).
THEOREM HandshakeInvariant == Spec => []IInv
<1> QED
  BY InvInit, InvStep, PTL DEF Spec

\* A line stays below its limit until it is given up, and the headers within
\* theirs, whatever the server sends.
THEOREM TypeCorrect == Spec => []TypeOK
<1>1. IInv => TypeOK
  <2> SUFFICES ASSUME IInv
               PROVE  TypeOK
    OBVIOUS
  <2>1. headers \in 0..MaxHeaders
    BY ConstantsAssumption DEF IInv, Types
  <2>2. request \in Seq({Request[k] : k \in 1..Len(Request)})
        /\ Len(request) <= Len(Request)
    BY RequestFacts DEF IInv, RequestInv, Lines
  <2> QED
    BY <2>1, <2>2 DEF IInv, Types, TypeOK
<1> QED
  BY <1>1, HandshakeInvariant, PTL

\* The WebSocket is open only after a complete reply with the status and all
\* the headers, for every limit and every order of the headers.
THEOREM AcceptsOnlyTheUpgrade == Spec => []AcceptsOnlyUpgrade
<1>1. IInv => AcceptsOnlyUpgrade
  BY DEF IInv
<1> QED
  BY <1>1, HandshakeInvariant, PTL

\* A reply is called a breach of the protocol, or too large, only if it is.
THEOREM RefusalsHaveReasons == Spec => []RefusesForReason
<1>1. IInv => RefusesForReason
  BY DEF IInv
<1> QED
  BY <1>1, HandshakeInvariant, PTL

\* What comes behind the blank line is left for ws_recvmsg().
THEOREM ReadsNoFrame == Spec => []StopsAtBlankLine
<1>1. IInv => StopsAtBlankLine
  BY DEF IInv
<1> QED
  BY <1>1, HandshakeInvariant, PTL

-----------------------------------------------------------------------------
(* The inductive invariant of the dialogue.                                 *)

Stages == {"auth", "auth_reply", "connect", "header", "length", "address",
           "port", "open", "failed"}

DialTypes ==
    /\ stage \in Stages
    /\ need \in Nat
    /\ unread \in Seq(Int)
    /\ told \in Seq(Seq(Int))

\* What is unread is the last r bytes of the proxy's reply, and what it sent
\* behind that.
Rest(r) ==
    /\ Len(told) = 4
    /\ r \in 0..Len(told[3])
    /\ Len(unread) = r + Len(told[4])
    /\ \A k \in 1..r : unread[k] = told[3][Len(told[3]) - r + k]
    /\ \A k \in 1..Len(told[4]) : unread[r + k] = told[4][k]

\* The address of a reply is as long as its type says.
Reply(m) ==
    /\ Len(m) >= 6
    /\ m[4] = 1 => Len(m) = IPv4 + 6
    /\ m[4] = 3 => m[5] \in Nat /\ Len(m) = m[5] + 7
    /\ m[4] = 4 => Len(m) = IPv6 + 6

\* The proxy was asked for the server.
Asked ==
    /\ WellFormed(asked.message)
    /\ RequestFor(asked.message) = [host |-> asked.host, port |-> asked.port]

Answered == Asked /\ MethodAgreed /\ told[2] = <<>> /\ Granted

\* The byte behind the method is the first one unread: the reply, read from
\* there, is not granted.
Spoilt ==
    /\ Len(told) = 4 /\ told[2] # <<>>
    /\ unread[1] # Version \/ unread[2] # 0

StageInv ==
    /\ stage = "auth" => told = <<>> /\ unread = <<>>
    /\ stage = "auth_reply" =>
         \/ told = <<>> /\ unread = <<>>
         \/ /\ Len(told) = 2 /\ Len(told[1]) = 2
            /\ told[2] \in BehindMethod /\ unread = told[1] \o told[2]
    /\ stage = "connect" =>
         /\ Len(told) = 2 /\ MethodAgreed
         /\ told[2] \in BehindMethod /\ unread = told[2]
    /\ stage = "header" =>
         /\ Asked /\ MethodAgreed
         /\ \/ Len(told) = 2 /\ told[2] \in BehindMethod /\ unread = told[2]
            \/ told[2] = <<>> /\ Rest(Len(told[3])) /\ Reply(told[3])
            \/ Spoilt
    /\ stage = "length" =>
         /\ Answered /\ told[3][4] = 3
         /\ Reply(told[3]) /\ Rest(Len(told[3]) - 4)
    /\ stage = "address" => Answered /\ Rest(need + 2)
    /\ stage = "port" => Answered /\ Rest(2)

DialInv == DialTypes /\ StageInv

-----------------------------------------------------------------------------
(* Messages.                                                                *)

LEMMA ConcatElements ==
  ASSUME NEW s \in Seq(Int), NEW t \in Seq(Int)
  PROVE  /\ s \o t \in Seq(Int) /\ Len(s \o t) = Len(s) + Len(t)
         /\ \A k \in 1..Len(s) : (s \o t)[k] = s[k]
         /\ \A k \in 1..Len(t) : (s \o t)[Len(s) + k] = t[k]
  OBVIOUS

LEMMA RepeatElements ==
  ASSUME NEW n \in Nat
  PROVE  Repeat(n) \in Seq(Int) /\ Len(Repeat(n)) = n
<1>1. Repeat(n) \in [1..n -> Int]
  BY DEF Repeat, Data
<1> QED
  BY <1>1, FunctionAsSeq

\* A port is the number its two bytes stand for.
LEMMA PortIsItsBytes ==
  ASSUME NEW p \in Nat, NEW b \in Nat \ {0}
  PROVE  (p \div b) * b + (p % b) = p /\ p \div b \in Int /\ p % b \in Int
  OBVIOUS

LEMMA SubSeqElements ==
  ASSUME NEW s \in Seq(Int), NEW n \in Nat, n <= Len(s)
  PROVE  /\ SubSeq(s, n + 1, Len(s)) \in Seq(Int)
         /\ Len(SubSeq(s, n + 1, Len(s))) = Len(s) - n
         /\ \A k \in 1..Len(s) - n : SubSeq(s, n + 1, Len(s))[k] = s[n + k]
  OBVIOUS

LEMMA TwoMore ==
  ASSUME NEW s \in Seq(Seq(Int)), Len(s) = 2, NEW a \in Seq(Int), NEW b \in Seq(Int)
  PROVE  /\ s \o <<a, b>> \in Seq(Seq(Int)) /\ Len(s \o <<a, b>>) = 4
         /\ (s \o <<a, b>>)[1] = s[1] /\ (s \o <<a, b>>)[2] = s[2]
         /\ (s \o <<a, b>>)[3] = a /\ (s \o <<a, b>>)[4] = b
<1>1. /\ <<a, b>> \in Seq(Seq(Int)) /\ Len(<<a, b>>) = 2
      /\ <<a, b>>[1] = a /\ <<a, b>>[2] = b
  OBVIOUS
<1> DEFINE t == <<a, b>>
<1> HIDE DEF t
<1>2. t \in Seq(Seq(Int)) /\ Len(t) = 2 /\ t[1] = a /\ t[2] = b
  BY <1>1 DEF t
<1>3. /\ s \o t \in Seq(Seq(Int)) /\ Len(s \o t) = Len(s) + Len(t)
      /\ \A k \in 1..Len(s) + Len(t) :
           (s \o t)[k] = IF k <= Len(s) THEN s[k] ELSE t[k - Len(s)]
  BY <1>2, ConcatProperties
<1>4. Len(s \o t) = 4 /\ \A k \in 1..4 : k \in 1..Len(s) + Len(t)
  BY <1>2, <1>3
<1>5. /\ (s \o t)[1] = s[1] /\ (s \o t)[2] = s[2]
      /\ (s \o t)[3] = t[1] /\ (s \o t)[4] = t[2]
  BY <1>3, <1>4
<1> QED
  BY <1>2, <1>3, <1>4, <1>5 DEF t

\* The request reads by the RFC as what it was made for.
LEMMA RequestReads ==
  ASSUME NEW host \in 0..MaxByte, NEW port \in Ports, IsPort(port)
  PROVE  /\ WellFormed(ConnectRequest(host, port))
         /\ RequestFor(ConnectRequest(host, port)) = [host |-> host, port |-> port]
<1> DEFINE head == <<Version, 1, 0, 3, LengthByte(host)>>
           ends == PortBytes(port)
           m == ConnectRequest(host, port)
<1>1. host \in Nat /\ port \in Nat /\ Base \in Nat \ {0} /\ host < Base
  BY DialAssumption DEF Base, IsPort, Ports
<1>2. LengthByte(host) = host
  BY <1>1 DEF LengthByte
<1>3. /\ (port \div Base) * Base + (port % Base) = port
      /\ port \div Base \in Int /\ port % Base \in Int
  BY <1>1, PortIsItsBytes
<1>4. /\ ends \in Seq(Int) /\ Len(ends) = 2
      /\ ends[1] = port \div Base /\ ends[2] = port % Base
  BY <1>3 DEF PortBytes
<1>5. head \in Seq(Int) /\ Len(head) = 5 /\ head[5] = host
  BY <1>1, <1>2 DEF Version
<1>6. Repeat(host) \in Seq(Int) /\ Len(Repeat(host)) = host
  BY <1>1, RepeatElements
<1> HIDE DEF head, ends
<1> DEFINE front == head \o Repeat(host)
<1>7. front \in Seq(Int) /\ Len(front) = 5 + host /\ front[5] = host
  <2>1. 5 \in 1..Len(head)
    BY <1>5
  <2>2. front \in Seq(Int) /\ Len(front) = Len(head) + Len(Repeat(host))
    BY <1>5, <1>6, ConcatElements
  <2>3. \A k \in 1..Len(head) : front[k] = head[k]
    BY <1>5, <1>6, ConcatElements
  <2>4. front[5] = head[5]
    BY <2>1, <2>3
  <2> QED
    BY <1>1, <1>5, <1>6, <2>2, <2>4
<1>8. m = front \o ends
  BY DEF m, ConnectRequest, front, head, ends
<1> HIDE DEF m, front
<1>9. /\ Len(m) = 7 + host /\ m[5] = host
      /\ m[6 + host] = ends[1] /\ m[7 + host] = ends[2]
  <2>1. 5 \in 1..Len(front) /\ 1 \in 1..Len(ends) /\ 2 \in 1..Len(ends)
    BY <1>1, <1>4, <1>7
  <2>2. Len(m) = Len(front) + Len(ends)
    BY <1>4, <1>7, <1>8, ConcatElements
  <2>3. m[5] = front[5]
    BY <1>4, <1>7, <1>8, <2>1, ConcatElements
  <2>4. m[Len(front) + 1] = ends[1] /\ m[Len(front) + 2] = ends[2]
    BY <1>4, <1>7, <1>8, <2>1, ConcatElements
  <2>5. Len(front) + 1 = 6 + host /\ Len(front) + 2 = 7 + host
    BY <1>1, <1>7
  <2> QED
    BY <1>1, <1>4, <1>7, <2>2, <2>3, <2>4, <2>5, SMTT(30)
<1>10. WellFormed(m) /\ RequestFor(m) = [host |-> host, port |-> port]
  BY <1>1, <1>3, <1>4, <1>9, SMTT(30) DEF WellFormed, RequestFor
<1> QED
  BY <1>10 DEF m

\* What the proxy can answer to it.
LEMMA AnswerReads ==
  ASSUME NEW version \in Int, NEW error \in Int, NEW reserved \in Int,
         NEW address \in Addresses
  PROVE  /\ <<version, error, reserved>> \o address \o Repeat(2) \in Seq(Int)
         /\ Reply(<<version, error, reserved>> \o address \o Repeat(2))
         /\ (<<version, error, reserved>> \o address \o Repeat(2))[1] = version
<1> DEFINE head == <<version, error, reserved>>
           m == head \o address \o Repeat(2)
<1>1. head \in Seq(Int) /\ Len(head) = 3 /\ head[1] = version
  OBVIOUS
<1>2. Repeat(2) \in Seq(Int) /\ Len(Repeat(2)) = 2
  BY RepeatElements
<1> DEFINE Sized ==
             /\ address \in Seq(Int) /\ Len(address) >= 1
             /\ address[1] = 1 => Len(address) = IPv4 + 1
             /\ address[1] = 3 => address[2] \in Nat /\ Len(address) = address[2] + 2
             /\ address[1] = 4 => Len(address) = IPv6 + 1
<1>3. Sized
  <2>1. CASE address = <<1>> \o Repeat(IPv4)
    <3>1. Repeat(IPv4) \in Seq(Int) /\ Len(Repeat(IPv4)) = IPv4 /\ IPv4 \in Nat
      BY DialAssumption, RepeatElements
    <3>2. <<1>> \in Seq(Int) /\ Len(<<1>>) = 1 /\ <<1>>[1] = 1
      OBVIOUS
    <3> QED
      BY <2>1, <3>1, <3>2, ConcatElements
  <2>2. CASE address = <<4>> \o Repeat(IPv6)
    <3>1. Repeat(IPv6) \in Seq(Int) /\ Len(Repeat(IPv6)) = IPv6 /\ IPv6 \in Nat
      BY DialAssumption, RepeatElements
    <3>2. <<4>> \in Seq(Int) /\ Len(<<4>>) = 1 /\ <<4>>[1] = 4
      OBVIOUS
    <3> QED
      BY <2>2, <3>1, <3>2, ConcatElements
  <2>3. CASE address = <<Bad>>
    BY <2>3 DEF Bad
  <2>4. ASSUME NEW n \in 0..MaxByte, address = <<3, n>> \o Repeat(n)
        PROVE  Sized
    <3>1. Repeat(n) \in Seq(Int) /\ Len(Repeat(n)) = n /\ n \in Nat
      BY DialAssumption, RepeatElements
    <3>2. /\ <<3, n>> \in Seq(Int) /\ Len(<<3, n>>) = 2
          /\ <<3, n>>[1] = 3 /\ <<3, n>>[2] = n
      BY <3>1
    <3> QED
      BY <2>4, <3>1, <3>2, ConcatElements
  <2> QED
    BY <2>1, <2>2, <2>3, <2>4 DEF Addresses
<1> DEFINE front == head \o address
<1> HIDE DEF head
<1>4. /\ front \in Seq(Int) /\ Len(front) = 3 + Len(address)
      /\ front[1] = version
      /\ \A k \in 1..Len(address) : front[3 + k] = address[k]
  <2>1. front \in Seq(Int) /\ Len(front) = Len(head) + Len(address)
    BY <1>1, <1>3, ConcatElements
  <2>2. \A k \in 1..Len(address) : front[Len(head) + k] = address[k]
    BY <1>1, <1>3, ConcatElements
  <2>3. front[1] = head[1]
    <3>1. 1 \in 1..Len(head)
      BY <1>1
    <3> QED
      BY <1>1, <1>3, <3>1, ConcatElements
  <2> QED
    BY <1>1, <2>1, <2>2, <2>3
<1>5. m = front \o Repeat(2)
  OBVIOUS
<1> HIDE DEF m, front
<1>6. /\ m \in Seq(Int) /\ Len(m) = 5 + Len(address)
      /\ \A k \in 1..Len(address) : m[3 + k] = address[k]
  <2>1. m \in Seq(Int) /\ Len(m) = Len(front) + Len(Repeat(2))
    BY <1>2, <1>4, <1>5, ConcatElements
  <2>2. Len(address) \in Nat
    BY <1>3
  <2>3. ASSUME NEW k \in 1..Len(address)
        PROVE  m[3 + k] = address[k]
    <3>1. 3 + k \in 1..Len(front)
      BY <1>4, <2>2
    <3>2. m[3 + k] = front[3 + k]
      BY <1>2, <1>4, <1>5, <3>1, ConcatElements
    <3> QED
      BY <1>4, <3>2
  <2>4. Len(m) = 5 + Len(address)
    <3>1. Len(front) = 3 + Len(address) /\ Len(Repeat(2)) = 2
      BY <1>2, <1>4
    <3>2. Len(m) = (3 + Len(address)) + 2
      BY <2>1, <3>1
    <3> QED
      BY <2>2, <3>2
  <2> QED
    BY <2>1, <2>3, <2>4
<1>7. m[4] = address[1] /\ (address[1] = 3 => m[5] = address[2])
  <2>1. m[3 + 1] = address[1]
    BY <1>3, <1>6
  <2>2. ASSUME address[1] = 3
        PROVE  m[3 + 2] = address[2]
    <3>1. 2 \in 1..Len(address)
      BY <1>3, <2>2
    <3> QED
      BY <1>6, <3>1
  <2> QED
    BY <2>1, <2>2
<1>8. m[1] = version
  <2>1. 1 \in 1..Len(front)
    BY <1>3, <1>4
  <2>2. m[1] = front[1]
    BY <1>2, <1>4, <1>5, <2>1, ConcatElements
  <2> QED
    BY <1>4, <2>2
<1>9. m \in Seq(Int) /\ Reply(m)
  <2>1. Len(address) \in Nat
    BY <1>3
  <2>2. Len(m) >= 6
    BY <1>3, <1>6, <2>1
  <2>3. m[4] = 1 => Len(m) = IPv4 + 6
    BY <1>3, <1>6, <1>7, <2>1, DialAssumption, SMTT(30)
  <2>4. m[4] = 3 => m[5] \in Nat /\ Len(m) = m[5] + 7
    BY <1>3, <1>6, <1>7, <2>1, SMTT(30)
  <2>5. m[4] = 4 => Len(m) = IPv6 + 6
    BY <1>3, <1>6, <1>7, <2>1, DialAssumption, SMTT(30)
  <2> QED
    BY <1>6, <2>2, <2>3, <2>4, <2>5 DEF Reply
<1> QED
  BY <1>8, <1>9 DEF m, head

\* netx_recvn() of n bytes leaves n fewer.
LEMMA RestShrinks ==
  ASSUME DialTypes, NEW r, Rest(r), NEW n \in Nat, n <= r, Recvn(n), told' = told
  PROVE  Rest(r - n)' /\ unread' \in Seq(Int)
<1>1. /\ r \in Nat /\ r <= Len(told[3]) /\ told[3] \in Seq(Int) /\ told[4] \in Seq(Int)
      /\ Len(told[3]) \in Nat /\ Len(told[4]) \in Nat /\ Len(told) = 4
      /\ unread \in Seq(Int) /\ Len(unread) = r + Len(told[4])
  <2>1. /\ Len(told) = 4 /\ r \in 0..Len(told[3]) /\ told \in Seq(Seq(Int))
        /\ unread \in Seq(Int) /\ Len(unread) = r + Len(told[4])
    BY DEF DialTypes, Rest
  <2>2. told[3] \in Seq(Int) /\ told[4] \in Seq(Int)
    <3>1. 3 \in 1..Len(told) /\ 4 \in 1..Len(told)
      BY <2>1
    <3> QED
      BY <2>1, <3>1, ElementOfSeq
  <2> QED
    BY <2>1, <2>2
<1>2. /\ unread' \in Seq(Int) /\ Len(unread') = Len(unread) - n
      /\ \A k \in 1..Len(unread) - n : unread'[k] = unread[n + k]
  <2>1. unread' = SubSeq(unread, n + 1, Len(unread)) /\ n <= Len(unread)
    BY DEF Recvn
  <2>2. Len(unread) \in Nat
    BY <1>1
  <2> QED
    BY <1>1, <2>1, <2>2, SubSeqElements
<1>3. \A k \in 1..r - n : unread'[k] = told[3][Len(told[3]) - (r - n) + k]
  <2> TAKE k \in 1..r - n
  <2>1. k \in 1..Len(unread) - n /\ n + k \in 1..r
    BY <1>1
  <2>2. unread'[k] = unread[n + k]
    BY <1>2, <2>1
  <2>3. unread[n + k] = told[3][Len(told[3]) - r + (n + k)]
    BY <2>1 DEF Rest
  <2>4. Len(told[3]) - r + (n + k) = Len(told[3]) - (r - n) + k
    BY <1>1
  <2> QED
    BY <2>2, <2>3, <2>4
<1>4. \A k \in 1..Len(told[4]) : unread'[(r - n) + k] = told[4][k]
  <2> TAKE k \in 1..Len(told[4])
  <2>1. (r - n) + k \in 1..Len(unread) - n /\ n + ((r - n) + k) = r + k
    BY <1>1
  <2>2. unread'[(r - n) + k] = unread[r + k]
    BY <1>2, <2>1
  <2> QED
    BY <2>2 DEF Rest
<1> QED
  BY <1>1, <1>2, <1>3, <1>4 DEF Rest

-----------------------------------------------------------------------------
(* The steps.                                                               *)

LEMMA DialInvInit == DialInit => DialInv
  BY DEF DialInit, DialInv, DialTypes, StageInv, Stages

\* A dialogue that is over has no more to keep.
LEMMA GiveKeeps ==
  ASSUME DialInv, NEW e, Give(e), need' \in Nat, unread' \in Seq(Int), told' = told
  PROVE  DialInv'
  BY DEF DialInv, DialTypes, StageInv, Stages, Give

LEMMA BehindMethodBytes ==
  ASSUME NEW b \in BehindMethod
  PROVE  b \in Seq(Int) /\ Len(b) <= 1
<1>1. CASE b = <<>>
  BY <1>1
<1>2. CASE b = <<Version>>
  BY <1>2 DEF Version
<1>3. CASE b = <<Bad>>
  BY <1>3 DEF Bad
<1> QED
  BY <1>1, <1>2, <1>3 DEF BehindMethod

LEMMA MethodKeeps ==
  ASSUME DialInv, ProxyChoosesMethod
  PROVE  DialInv'
<1>1. PICK version \in {Version, Bad}, method \in {0, Bad}, behind \in BehindMethod :
        ProxyAnswers(<<version, method>>, behind)
  BY DEF ProxyChoosesMethod
<1> DEFINE m == <<version, method>>
<1>2. /\ stage = "auth_reply" /\ told = <<>> /\ unread = <<>>
      /\ UNCHANGED <<stage, need, asked>>
      /\ unread' = (unread \o m) \o behind /\ told' = told \o <<m, behind>>
  BY <1>1 DEF ProxyChoosesMethod, ProxyAnswers, DialInv, StageInv
<1>3. m \in Seq(Int) /\ Len(m) = 2
  BY DEF Version, Bad
<1>4. behind \in Seq(Int)
  BY BehindMethodBytes
<1> HIDE DEF m
<1>5. unread' = m \o behind /\ unread' \in Seq(Int)
  <2>1. unread \o m = m
    BY <1>2, <1>3, ConcatEmptySeq
  <2> QED
    BY <1>2, <1>3, <1>4, <2>1, ConcatElements
<1>6. /\ told' = <<m, behind>> /\ told' \in Seq(Seq(Int)) /\ Len(told') = 2
      /\ told'[1] = m /\ told'[2] = behind
  BY <1>2, <1>3, <1>4
<1>7. stage' = "auth_reply" /\ need' = need
  BY <1>2
<1> QED
  BY <1>3, <1>5, <1>6, <1>7 DEF DialInv, DialTypes, StageInv, Stages

LEMMA ConnectsKeeps ==
  ASSUME DialInv, ProxyConnects
  PROVE  DialInv'
<1>1. PICK version \in {Version, Bad}, error \in {0, Bad}, reserved \in {0, Bad},
           address \in Addresses, behind \in Behind :
        ProxyAnswers(<<version, error, reserved>> \o address \o Repeat(2), behind)
  BY DEF ProxyConnects
<1> DEFINE m == <<version, error, reserved>> \o address \o Repeat(2)
<1>2. m \in Seq(Int) /\ Reply(m) /\ m[1] = version
  <2>1. version \in Int /\ error \in Int /\ reserved \in Int
    BY DEF Version, Bad
  <2> QED
    BY <2>1, AnswerReads
<1>3. /\ stage = "header" /\ Len(told) = 2 /\ told \in Seq(Seq(Int))
      /\ UNCHANGED <<stage, need, asked>>
      /\ unread' = (unread \o m) \o behind /\ told' = told \o <<m, behind>>
  BY <1>1 DEF ProxyConnects, ProxyAnswers, DialInv, DialTypes
<1> HIDE DEF m
<1>4. /\ told[2] \in BehindMethod /\ unread = told[2]
      /\ Asked /\ MethodAgreed /\ need \in Nat
  BY <1>3 DEF DialInv, DialTypes, StageInv, Rest, Spoilt
<1>5. behind \in Seq(Int) /\ Len(m) \in Nat /\ Len(m) >= 6 /\ Len(behind) \in Nat
  <2>1. Len(m) \in Nat /\ Len(m) >= 6
    BY <1>2 DEF Reply
  <2>2. CASE behind = <<>>
    BY <2>1, <2>2
  <2>3. CASE behind = <<Data>>
    BY <2>1, <2>3 DEF Data
  <2> QED
    BY <2>2, <2>3 DEF Behind
<1>6. /\ told' \in Seq(Seq(Int)) /\ Len(told') = 4
      /\ told'[1] = told[1] /\ told'[2] = told[2]
      /\ told'[3] = m /\ told'[4] = behind
  BY <1>2, <1>3, <1>5, TwoMore
<1>7. Asked' /\ MethodAgreed'
  BY <1>3, <1>4, <1>6 DEF Asked, MethodAgreed
<1>8. CASE told[2] = <<>>
  <2>1. unread' = m \o behind
    BY <1>2, <1>3, <1>4, <1>8, ConcatEmptySeq
  <2>2. /\ unread' \in Seq(Int) /\ Len(unread') = Len(m) + Len(behind)
        /\ \A k \in 1..Len(m) : unread'[k] = m[k]
        /\ \A k \in 1..Len(behind) : unread'[Len(m) + k] = behind[k]
    BY <1>2, <1>5, <2>1, ConcatElements
  <2>3. Rest(Len(told[3]))'
    <3>1. \A k \in 1..Len(m) : Len(m) - Len(m) + k = k
      BY <1>5
    <3> QED
      BY <1>5, <1>6, <2>2, <3>1, SMTT(30) DEF Rest
  <2>4. Reply(told'[3]) /\ told'[2] = <<>> /\ stage' = "header"
    BY <1>2, <1>3, <1>6, <1>8
  <2> QED
    BY <1>3, <1>4, <1>6, <1>7, <2>2, <2>3, <2>4
       DEF DialInv, DialTypes, StageInv, Stages
<1>9. CASE told[2] # <<>>
  <2>1. PICK b \in {Version, Bad} : told[2] = <<b>>
    BY <1>4, <1>9 DEF BehindMethod
  <2>2. unread \in Seq(Int) /\ Len(unread) = 1 /\ unread[1] = b
    <3>1. <<b>> \in Seq(Int) /\ Len(<<b>>) = 1 /\ <<b>>[1] = b
      BY DEF Version, Bad
    <3> QED
      BY <1>4, <2>1, <3>1
  <2> DEFINE both == unread \o m
  <2>3. /\ both \in Seq(Int) /\ Len(both) = 1 + Len(m)
        /\ both[1] = b /\ both[2] = version
    <3>1. /\ both \in Seq(Int) /\ Len(both) = Len(unread) + Len(m)
          /\ \A k \in 1..Len(unread) : both[k] = unread[k]
          /\ \A k \in 1..Len(m) : both[Len(unread) + k] = m[k]
      BY <1>2, <2>2, ConcatElements
    <3>2. 1 \in 1..Len(unread) /\ 1 \in 1..Len(m) /\ Len(unread) + 1 = 2
      BY <1>5, <2>2
    <3> QED
      BY <1>2, <2>2, <3>1, <3>2
  <2> HIDE DEF both
  <2>4. unread' \in Seq(Int) /\ unread'[1] = b /\ unread'[2] = version
    <3>1. unread' = both \o behind
      BY <1>3 DEF both
    <3>2. 1 \in 1..Len(both) /\ 2 \in 1..Len(both)
      BY <1>5, <2>3
    <3> QED
      BY <1>5, <2>3, <3>1, <3>2, ConcatElements
  <2>5. version # 0
    BY DEF Version, Bad
  <2>6. Spoilt'
    BY <1>6, <1>9, <2>4, <2>5 DEF Spoilt
  <2>7. stage' = "header" /\ need' \in Nat
    BY <1>3, <1>4
  <2> QED
    BY <1>6, <1>7, <2>4, <2>6, <2>7 DEF DialInv, DialTypes, StageInv, Stages
<1> QED
  BY <1>8, <1>9

LEMMA RecvAuthKeeps ==
  ASSUME DialInv, RecvAuth
  PROVE  DialInv' /\ (stage' = "failed" => ~MethodAgreed)
<1>1. /\ stage = "auth_reply" /\ Len(unread) >= 2
      /\ unread' = SubSeq(unread, 2 + 1, Len(unread)) /\ UNCHANGED <<need, asked, told>>
      /\ need \in Nat /\ unread \in Seq(Int) /\ told \in Seq(Seq(Int))
  BY DEF RecvAuth, Recvn, DialInv, DialTypes
<1> DEFINE m == told[1]
           behind == told[2]
<1>2. Len(told) = 2 /\ Len(m) = 2 /\ behind \in BehindMethod /\ unread = m \o behind
  <2>1. unread # <<>>
    BY <1>1
  <2> QED
    BY <1>1, <2>1, Zenon DEF DialInv, StageInv
<1>3. m \in Seq(Int) /\ behind \in Seq(Int)
  <2>1. 1 \in 1..Len(told)
    BY <1>2
  <2>2. m \in Seq(Int)
    BY <1>1, <2>1, ElementOfSeq
  <2> QED
    BY <1>2, <2>2, BehindMethodBytes
<1> HIDE DEF m, behind
<1>4. /\ Len(unread) = 2 + Len(behind) /\ unread[1] = m[1] /\ unread[2] = m[2]
      /\ \A k \in 1..Len(behind) : unread[2 + k] = behind[k]
  <2>1. 1 \in 1..Len(m) /\ 2 \in 1..Len(m)
    BY <1>2
  <2>2. /\ Len(unread) = Len(m) + Len(behind)
        /\ \A k \in 1..Len(m) : unread[k] = m[k]
        /\ \A k \in 1..Len(behind) : unread[Len(m) + k] = behind[k]
    BY <1>2, <1>3, ConcatElements, Zenon
  <2> QED
    BY <1>2, <2>1, <2>2
<1>5. unread' = behind
  <2>1. /\ unread' \in Seq(Int) /\ Len(unread') = Len(unread) - 2
        /\ \A k \in 1..Len(unread) - 2 : unread'[k] = unread[2 + k]
    <3>1. 2 \in Nat /\ 2 <= Len(unread)
      BY <1>1
    <3> QED
      BY <1>1, <3>1, SubSeqElements, Zenon
  <2>2. Len(behind) \in Nat /\ Len(unread) - 2 = Len(behind)
    BY <1>3, <1>4
  <2>3. Len(unread') = Len(behind) /\ \A k \in 1..Len(unread') : unread'[k] = behind[k]
    BY <1>4, <2>1, <2>2
  <2> QED
    BY <1>3, <2>1, <2>3, SeqEqual
<1>6. CASE unread[1] = Version /\ unread[2] = 0
  <2>1. stage' = "connect"
    BY <1>6 DEF RecvAuth
  <2>2. m = <<Version, 0>>
    <3>1. <<Version, 0>> \in Seq(Int) /\ Len(<<Version, 0>>) = 2
      BY DEF Version
    <3> QED
      BY <1>2, <1>3, <1>4, <1>6, <3>1, SeqEqual
  <2>3. MethodAgreed'
    BY <1>1, <2>2 DEF MethodAgreed, m
  <2>4. /\ told' = told /\ need' = need /\ told'[2] = behind
        /\ unread' = told'[2] /\ unread' \in Seq(Int)
    BY <1>1, <1>3, <1>5 DEF behind
  <2> QED
    BY <1>1, <1>2, <2>1, <2>3, <2>4 DEF DialInv, DialTypes, StageInv, Stages
<1>7. CASE ~(unread[1] = Version /\ unread[2] = 0)
  <2>1. Give("socks5h")
    BY <1>7 DEF RecvAuth
  <2>2. ~MethodAgreed
    BY <1>4, <1>7 DEF MethodAgreed, m
  <2> QED
    BY <1>1, <1>3, <1>5, <2>1, <2>2, GiveKeeps
<1> QED
  BY <1>6, <1>7

LEMMA SendConnectKeeps ==
  ASSUME DialInv, NEW host \in Lengths, NEW port \in Ports, SendConnect(host, port)
  PROVE  DialInv' /\ (stage' = "failed" => err' = "invalid_argument")
<1>1. /\ stage = "connect" /\ UNCHANGED <<need, unread, told>>
      /\ need \in Nat /\ unread \in Seq(Int) /\ told \in Seq(Seq(Int))
      /\ Len(told) = 2 /\ MethodAgreed
      /\ told[2] \in BehindMethod /\ unread = told[2]
  BY DEF SendConnect, DialInv, DialTypes, StageInv
<1>2. CASE host <= MaxByte /\ IsPort(port)
  <2>1. /\ asked' = [host |-> host, port |-> port,
                     message |-> ConnectRequest(host, port)]
        /\ stage' = "header"
    BY <1>2 DEF SendConnect
  <2>2. host \in 0..MaxByte
    BY <1>2, DialAssumption DEF Lengths
  <2>3. Asked'
    BY <1>2, <2>1, <2>2, RequestReads DEF Asked
  <2>4. MethodAgreed'
    BY <1>1 DEF MethodAgreed
  <2> QED
    BY <1>1, <2>1, <2>3, <2>4 DEF DialInv, DialTypes, StageInv, Stages
<1>3. CASE ~(host <= MaxByte /\ IsPort(port))
  <2>1. Give("invalid_argument")
    BY <1>3 DEF SendConnect
  <2> QED
    BY <1>1, <2>1, GiveKeeps DEF Give
<1> QED
  BY <1>2, <1>3

\* The first bytes unread are those of the reply.
LEMMA HeaderIsReplys ==
  ASSUME DialInv, RecvHeader, ~Spoilt
  PROVE  /\ told[2] = <<>>
         /\ Rest(Len(told[3])) /\ Reply(told[3]) /\ Asked /\ MethodAgreed
         /\ Len(told[3]) \in Nat /\ Len(told[3]) >= 6 /\ Len(told) = 4
         /\ unread[1] = told[3][1] /\ unread[2] = told[3][2]
         /\ unread[3] = told[3][3] /\ unread[4] = told[3][4]
<1>1. stage = "header" /\ Len(unread) >= 4 /\ told \in Seq(Seq(Int))
  BY DEF RecvHeader, Recvn, DialInv, DialTypes
<1>2. /\ Asked /\ MethodAgreed
      /\ told[2] = <<>> /\ Rest(Len(told[3])) /\ Reply(told[3])
  <2>1. ~(told[2] \in BehindMethod /\ unread = told[2])
    BY <1>1, BehindMethodBytes
  <2> QED
    BY <1>1, <2>1 DEF DialInv, StageInv
<1>3. Len(told) = 4 /\ 3 \in 1..Len(told)
  BY <1>2 DEF Rest
<1>4. told[3] \in Seq(Int)
  BY <1>1, <1>3, ElementOfSeq
<1>5. Len(told[3]) \in Nat /\ Len(told[3]) >= 6
  BY <1>2, <1>4 DEF Reply
<1>6. \A k \in 1..Len(told[3]) : unread[k] = told[3][k]
  <2>1. \A k \in 1..Len(told[3]) : Len(told[3]) - Len(told[3]) + k = k
    BY <1>5
  <2> QED
    BY <1>2, <2>1 DEF Rest
<1>7. \A k \in 1..4 : k \in 1..Len(told[3])
  BY <1>5
<1> QED
  BY <1>2, <1>3, <1>5, <1>6, <1>7

LEMMA SpoiltFails ==
  ASSUME DialInv, RecvHeader, Spoilt
  PROVE  DialInv' /\ stage' = "failed" /\ told[2] # <<>>
<1>1. /\ UNCHANGED told /\ unread \in Seq(Int) /\ need \in Nat /\ Len(unread) >= 4
      /\ unread' = SubSeq(unread, 4 + 1, Len(unread))
  BY DEF RecvHeader, Recvn, DialInv, DialTypes
<1>2. unread' \in Seq(Int)
  BY <1>1, SubSeqElements
<1>3. PICK e \in {"socks5h", "io_error"} : Give(e) /\ UNCHANGED need
  BY DEF RecvHeader, Spoilt
<1> QED
  BY <1>1, <1>2, <1>3, GiveKeeps DEF Give, Spoilt

LEMMA RecvHeaderKeeps ==
  ASSUME DialInv, RecvHeader, ~Spoilt
  PROVE  DialInv' /\ (stage' = "failed" /\ err' = "socks5h" => ~WellMade)
<1>1. /\ told[2] = <<>>
      /\ Rest(Len(told[3])) /\ Reply(told[3]) /\ Asked /\ MethodAgreed
      /\ Len(told[3]) \in Nat /\ Len(told[3]) >= 6 /\ Len(told) = 4
      /\ unread[1] = told[3][1] /\ unread[2] = told[3][2]
      /\ unread[3] = told[3][3] /\ unread[4] = told[3][4]
  BY HeaderIsReplys
<1>2. /\ UNCHANGED <<asked, told>> /\ DialTypes /\ Recvn(4)
      /\ need \in Nat /\ told \in Seq(Seq(Int))
  BY DEF RecvHeader, DialInv, DialTypes
<1>3. Rest(Len(told[3]) - 4)' /\ unread' \in Seq(Int)
  BY <1>1, <1>2, RestShrinks
<1>4. CASE unread[1] # Version /\ Give("socks5h") /\ UNCHANGED need
  <2>1. ~WellMade
    BY <1>1, <1>4 DEF WellMade
  <2> QED
    BY <1>2, <1>3, <1>4, <2>1, GiveKeeps
<1>5. CASE Give("io_error") /\ UNCHANGED need
  BY <1>2, <1>3, <1>5, GiveKeeps DEF Give
<1>6. CASE /\ unread[3] # 0 \/ unread[4] \notin {1, 3, 4}
           /\ Give("socks5h") /\ UNCHANGED need
  <2>1. ~WellMade
    BY <1>1, <1>6 DEF WellMade
  <2> QED
    BY <1>2, <1>3, <1>6, <2>1, GiveKeeps
<1>7. ASSUME unread[1] = Version, unread[2] = 0, unread[3] = 0,
             \/ unread[4] = 1 /\ stage' = "address" /\ need' = IPv4
             \/ unread[4] = 3 /\ stage' = "length" /\ UNCHANGED need
             \/ unread[4] = 4 /\ stage' = "address" /\ need' = IPv6
      PROVE  DialInv' /\ stage' # "failed"
  <2>1. Granted
    BY <1>1, <1>7 DEF Granted, WellMade
  <2>2. Answered' /\ Reply(told[3])'
    BY <1>1, <1>2, <2>1 DEF Answered, Asked, MethodAgreed, Granted, WellMade
  <2>3. CASE stage' = "length"
    <3>1. told'[3][4] = 3 /\ need' \in Nat
      BY <1>1, <1>2, <1>7, <2>3
    <3> QED
      BY <1>2, <1>3, <2>2, <2>3, <3>1 DEF DialInv, DialTypes, StageInv, Stages
  <2>4. CASE stage' = "address"
    <3>1. need' \in Nat /\ Len(told[3]) - 4 = need' + 2
      BY <1>1, <1>7, <2>4, DialAssumption DEF Reply
    <3>2. Rest(need + 2)'
      BY <1>2, <1>3, <3>1
    <3> QED
      BY <1>2, <1>3, <2>2, <2>4, <3>1, <3>2 DEF DialInv, DialTypes, StageInv, Stages
  <2> QED
    BY <1>7, <2>3, <2>4
<1> QED
  BY <1>4, <1>5, <1>6, <1>7 DEF RecvHeader

LEMMA RecvLengthKeeps ==
  ASSUME DialInv, RecvLength
  PROVE  DialInv'
<1>1. /\ stage = "length" /\ Recvn(1) /\ need' = unread[1] /\ stage' = "address"
      /\ UNCHANGED <<asked, told>> /\ DialTypes /\ told \in Seq(Seq(Int))
      /\ Answered /\ told[3][4] = 3 /\ Reply(told[3]) /\ Rest(Len(told[3]) - 4)
  BY DEF RecvLength, DialInv, DialTypes, StageInv
<1>2. /\ told[3][5] \in Nat /\ Len(told[3]) = told[3][5] + 7
      /\ Len(told[3]) \in Nat
  BY <1>1 DEF Reply
<1>3. unread[1] = told[3][5]
  <2>1. 1 \in 1..Len(told[3]) - 4 /\ Len(told[3]) - (Len(told[3]) - 4) + 1 = 5
    BY <1>2
  <2>2. unread[1] = told[3][Len(told[3]) - (Len(told[3]) - 4) + 1]
    BY <1>1, <2>1 DEF Rest
  <2> QED
    BY <2>1, <2>2
<1>4. Rest(Len(told[3]) - 4 - 1)' /\ unread' \in Seq(Int)
  <2>1. 1 <= Len(told[3]) - 4
    BY <1>2
  <2> QED
    BY <1>1, <2>1, RestShrinks
<1>5. need' \in Nat /\ Len(told[3]) - 4 - 1 = need' + 2
  <2> DEFINE n == told[3][5]
             l == Len(told[3])
  <2>1. n \in Nat /\ l = n + 7 /\ need' = n
    BY <1>1, <1>2, <1>3
  <2> HIDE DEF n, l
  <2>2. need' \in Nat /\ l - 4 - 1 = need' + 2
    BY <2>1
  <2> QED
    BY <2>2 DEF l
<1>6. Rest(need + 2)'
  BY <1>1, <1>4, <1>5
<1>7. Answered'
  BY <1>1 DEF Answered, Asked, MethodAgreed, Granted, WellMade
<1> QED
  BY <1>1, <1>4, <1>5, <1>6, <1>7 DEF DialInv, DialTypes, StageInv, Stages

LEMMA RecvAddressKeeps ==
  ASSUME DialInv, RecvAddress
  PROVE  DialInv'
<1>1. /\ stage = "address" /\ Recvn(need) /\ stage' = "port" /\ need \in Nat
      /\ UNCHANGED <<need, asked, told>> /\ DialTypes /\ told \in Seq(Seq(Int))
      /\ Answered /\ Rest(need + 2)
  BY DEF RecvAddress, DialInv, DialTypes, StageInv
<1>2. Rest(need + 2 - need)' /\ unread' \in Seq(Int)
  BY <1>1, RestShrinks
<1>3. Rest(2)'
  <2>1. need + 2 - need = 2
    BY <1>1
  <2> QED
    BY <1>1, <1>2, <2>1
<1>4. Answered'
  BY <1>1 DEF Answered, Asked, MethodAgreed, Granted, WellMade
<1> QED
  BY <1>1, <1>2, <1>3, <1>4 DEF DialInv, DialTypes, StageInv, Stages

\* After the port what is unread is what the proxy sent behind its reply.
LEMMA RecvPortHandsOn ==
  ASSUME DialInv, RecvPort
  PROVE  DialInv' /\ Answered /\ unread' = told[4]
<1>1. /\ stage = "port" /\ stage' = "open" /\ need' = 0 /\ told' = <<>>
      /\ Len(unread) >= 2 /\ unread' = SubSeq(unread, 2 + 1, Len(unread))
      /\ unread \in Seq(Int) /\ told \in Seq(Seq(Int)) /\ Answered /\ Rest(2)
  BY DEF RecvPort, Recvn, DialInv, DialTypes, StageInv
<1>2. Len(told) = 4 /\ 4 \in 1..Len(told) /\ Len(unread) = 2 + Len(told[4])
  BY <1>1 DEF Rest
<1>3. told[4] \in Seq(Int) /\ Len(told[4]) \in Nat
  <2>1. told[4] \in Seq(Int)
    BY <1>1, <1>2, ElementOfSeq
  <2> QED
    BY <2>1
<1>4. /\ unread' \in Seq(Int) /\ Len(unread') = Len(unread) - 2
      /\ \A k \in 1..Len(unread) - 2 : unread'[k] = unread[2 + k]
  BY <1>1, SubSeqElements
<1>5. \A k \in 1..Len(told[4]) : unread'[k] = told[4][k]
  <2> TAKE k \in 1..Len(told[4])
  <2>1. k \in 1..Len(unread) - 2
    BY <1>2, <1>3
  <2>2. unread'[k] = unread[2 + k]
    BY <1>4, <2>1
  <2>3. unread[2 + k] = told[4][k]
    BY <1>1 DEF Rest
  <2> QED
    BY <2>2, <2>3
<1>6. Len(unread') = Len(told[4])
  BY <1>2, <1>3, <1>4
<1>7. unread' = told[4]
  BY <1>3, <1>4, <1>5, <1>6, SeqEqual
<1>8. told' \in Seq(Seq(Int)) /\ need' \in Nat
  BY <1>1
<1> QED
  BY <1>1, <1>4, <1>7, <1>8 DEF DialInv, DialTypes, StageInv, Stages

LEMMA DialogueStep ==
  ASSUME DialInv, [DialNext]_dialVars
  PROVE  DialInv' /\ HandsOnServer /\ AccusesOnlyWrongProxy
<1>1. /\ stage \in Stages /\ need \in Nat /\ unread \in Seq(Int)
      /\ told \in Seq(Seq(Int))
  BY DEF DialInv, DialTypes
<1> DEFINE Goal == DialInv' /\ HandsOnServer /\ AccusesOnlyWrongProxy
<1>2. ASSUME UNCHANGED dialogue
      PROVE  Goal
  BY <1>2 DEF dialogue, DialInv, DialTypes, StageInv, Answered, Spoilt, Asked,
              MethodAgreed, Granted, WellMade, Rest, HandsOnServer, AccusesOnlyWrongProxy
<1>3. CASE SendAuth
  <2>1. /\ stage' = "auth_reply" /\ told = <<>> /\ unread = <<>>
        /\ UNCHANGED <<need, unread, told>>
    BY <1>3 DEF SendAuth, DialInv, StageInv
  <2> QED
    BY <1>1, <2>1
       DEF DialInv, DialTypes, StageInv, Stages, HandsOnServer, AccusesOnlyWrongProxy
<1>4. CASE SendFailsToProxy
  BY <1>1, <1>4, GiveKeeps
     DEF SendFailsToProxy, Give, HandsOnServer, AccusesOnlyWrongProxy
<1>5. CASE RecvFailsFromProxy
  BY <1>1, <1>5, GiveKeeps
     DEF RecvFailsFromProxy, Give, HandsOnServer, AccusesOnlyWrongProxy
<1>6. CASE RecvAuth
  <2>1. stage' # "open"
    BY <1>6 DEF RecvAuth, Give
  <2> QED
    BY <1>6, <2>1, RecvAuthKeeps DEF HandsOnServer, AccusesOnlyWrongProxy
<1>7. ASSUME NEW host \in Lengths, NEW port \in Ports, SendConnect(host, port)
      PROVE  Goal
  <2>1. stage' # "open"
    BY <1>7 DEF SendConnect, Give
  <2> QED
    BY <1>7, <2>1, SendConnectKeeps DEF HandsOnServer, AccusesOnlyWrongProxy
<1>8. CASE RecvHeader
  <2>1. stage' # "open"
    BY <1>8 DEF RecvHeader, Give
  <2>2. CASE Spoilt
    BY <1>8, <2>1, <2>2, SpoiltFails DEF HandsOnServer, AccusesOnlyWrongProxy
  <2>3. CASE ~Spoilt
    <3>1. Len(told) = 4
      BY <1>8, <2>3, HeaderIsReplys
    <3> QED
      BY <1>8, <2>1, <2>3, <3>1, RecvHeaderKeeps
         DEF HandsOnServer, AccusesOnlyWrongProxy
  <2> QED
    BY <2>2, <2>3
<1>9. CASE RecvLength
  <2>1. stage' = "address"
    BY <1>9 DEF RecvLength
  <2> QED
    BY <1>9, <2>1, RecvLengthKeeps DEF HandsOnServer, AccusesOnlyWrongProxy
<1>10. CASE RecvAddress
  <2>1. stage' = "port"
    BY <1>10 DEF RecvAddress
  <2> QED
    BY <1>10, <2>1, RecvAddressKeeps DEF HandsOnServer, AccusesOnlyWrongProxy
<1>11. CASE RecvPort
  <2>1. stage' = "open"
    BY <1>11 DEF RecvPort
  <2> QED
    BY <1>11, <2>1, RecvPortHandsOn
       DEF Answered, Asked, HandsOnServer, AccusesOnlyWrongProxy
<1>12. CASE Proxy
  <2>1. stage' = stage
    BY <1>12 DEF Proxy, ProxyChoosesMethod, ProxyConnects, ProxyAnswers
  <2>2. DialInv'
    BY <1>12, MethodKeeps, ConnectsKeeps DEF Proxy
  <2> QED
    BY <2>1, <2>2, SMTT(30) DEF HandsOnServer, AccusesOnlyWrongProxy
<1>13. CASE StrayByte
  <2>1. stage = "open" /\ unread # <<>> /\ UNCHANGED <<stage, need, told>>
    BY <1>13 DEF StrayByte
  <2>2. unread' \in Seq(Int)
    <3>1. unread' = Tail(unread)
      BY <1>13 DEF StrayByte
    <3> QED
      BY <1>1, <2>1, <3>1, HeadTailProperties
  <2> QED
    BY <1>1, <2>1, <2>2 DEF DialInv, DialTypes, StageInv, HandsOnServer,
                            AccusesOnlyWrongProxy
<1>14. CASE Server
  BY <1>2, <1>14 DEF Server
<1>15. CASE stage = "open" /\ Client /\ UNCHANGED dialogue
  BY <1>2, <1>15
<1>16. CASE UNCHANGED dialVars
  BY <1>2, <1>16 DEF dialVars
<1> QED
  BY <1>3, <1>4, <1>5, <1>6, <1>7, <1>8, <1>9, <1>10, <1>11, <1>12, <1>13, <1>14,
     <1>15, <1>16
     DEF DialNext, Dial, Socks

\* Every step of the dial is one of ws_handshake() and its server, or none.
LEMMA StepIsHandshakes == [DialNext]_dialVars => [Next]_vars
<1> SUFFICES ASSUME [DialNext]_dialVars
             PROVE  [Next]_vars
  OBVIOUS
<1>1. CASE Dial
  BY <1>1 DEF Dial, Next
<1>2. CASE Proxy /\ UNCHANGED vars
  BY <1>2
<1>3. CASE StrayByte
  <2>1. ServerSends(Other) /\ Other \in Symbols
    BY <1>3 DEF StrayByte, Symbols, Texts
  <2> QED
    BY <2>1 DEF Next
<1>4. CASE Server
  BY <1>4 DEF Server, Next
<1>5. CASE UNCHANGED dialVars
  BY <1>5 DEF dialVars
<1> QED
  BY <1>1, <1>2, <1>3, <1>4, <1>5 DEF DialNext

-----------------------------------------------------------------------------
(* The theorems.                                                            *)

\* At each message of netx_maybesocks5h_dial() the bytes that are unread are
\* the rest of the proxy's answer, from where the next message begins.
THEOREM DialogueInvariant == DialSpec => []DialInv
<1>1. DialInv /\ [DialNext]_dialVars => DialInv'
  BY DialogueStep
<1> QED
  BY <1>1, DialInvInit, PTL DEF DialSpec

\* The stream is handed to the next layer only when the proxy was asked for the
\* right server, has granted it, and its reply was read to the last byte and no
\* further; and it is called a breach of the protocol only if it was one.
THEOREM ProxyIsTakenAtItsWord == DialSpec => ThroughProxy
<1>1. DialInv /\ [DialNext]_dialVars =>
        [HandsOnServer /\ AccusesOnlyWrongProxy]_dialVars
  BY DialogueStep
<1> QED
  BY <1>1, DialogueInvariant, PTL DEF DialSpec, ThroughProxy

\* Behind a proxy or not, and whatever the proxy leaves on the stream, the dial
\* is a behaviour of ws_handshake() with a server that sends what it likes.
THEOREM DialIsAHandshake == DialSpec => Init /\ [][Next]_vars
<1>1. DialInit => Init
  BY DEF DialInit
<1> QED
  BY <1>1, StepIsHandshakes, PTL DEF DialSpec

\* So what holds of a handshake holds of the dial: it succeeds only with a
\* complete reply, refuses for a reason, and reads no frame.
THEOREM DialKeepsHandshake ==
  DialSpec => [](AcceptsOnlyUpgrade /\ RefusesForReason /\ StopsAtBlankLine)
<1>1. IInv => AcceptsOnlyUpgrade /\ RefusesForReason /\ StopsAtBlankLine
  BY DEF IInv
<1> QED
  BY <1>1, DialIsAHandshake, InvInit, InvStep, PTL

=============================================================================
