---------------------------- MODULE Ndt7RunProofs ----------------------------
(* Proofs about Ndt7Run, for every number of servers and every deadline.     *)
EXTENDS Ndt7Run, TLAPS

-----------------------------------------------------------------------------
(* The inductive invariant.                                                 *)

\* run() tries a server; the clock of the subtest goes.
Trying == pc \in {"connect", "loop", "recv", "measure", "send"}
Timed == pc \in {"loop", "recv", "measure", "send"}

\* The servers with a URL for the subtest.
Offer(t) == {k \in 1..Len(targets) : targets[k][t]}

RunTypes ==
    /\ enabled \subseteq Tests
    /\ targets = <<>> \/ targets \in TargetLists
    /\ pc \in {"locate", "select", "connect", "loop", "recv", "measure",
               "send", "over", "returned"}
    /\ test \in Tests
    /\ i \in Nat /\ 1 <= i /\ i <= Len(targets) + 1
    /\ success \in BOOLEAN
    /\ outcome \in [Tests -> [Servers -> {"untried", "failed", "ok"}]]
    /\ verdict \in {"none", "true", "false"}

DataTypes ==
    /\ clock \in 0..MaxClock /\ elapsed \in 0..MaxClock /\ latest \in 0..MaxClock
    /\ bytesAt \in {Never} \cup 0..MaxClock
    /\ summary \in [Fields -> Provenance]
    /\ measurement \in {0} \cup Servers /\ connectionInfo \in {0} \cup Servers

\* Where run() is in its loops.
LoopInv ==
    /\ pc # "returned" <=> verdict = "none"
    /\ pc \notin {"locate", "returned"} => targets \in TargetLists
    /\ pc = "locate" =>
         /\ targets = <<>> /\ test = "download" /\ i = 1 /\ success
         /\ \A t \in Tests, k \in Servers : outcome[t][k] = "untried"
    /\ Trying \/ pc = "over" => test \in enabled /\ i \in Offer(test)
    /\ i > 1 => test \in enabled

\* The attempts of the current loop: those made failed, unless this one is over.
AttemptInv ==
    /\ pc = "select" \/ Trying =>
         /\ \A k \in Offer(test) : k < i => outcome[test][k] = "failed"
         /\ \A k \in Servers : k >= i => outcome[test][k] = "untried"
         /\ \A k \in Servers : outcome[test][k] # "ok"
         /\ success <=> \A k \in Offer(test) : k >= i
    /\ pc = "over" =>
         /\ success /\ outcome[test][i] = "ok"
         /\ \A k \in Servers : outcome[test][k] = "ok" => k = i
    /\ test = "download" => \A k \in Servers : outcome["upload"][k] = "untried"
    /\ test = "upload" =>
         \/ "download" \notin enabled
         \/ Offer("download") = {}
         \/ \E k \in Servers : outcome["download"][k] = "ok"

\* While a subtest runs, its part of the summary is about this attempt.
SummaryInv ==
    /\ Timed /\ test = "download" =>
         /\ summary["download_speed"] = 0
         /\ summary["download_retrans"] \in {0, i}
         /\ summary["min_rtt"] \in {0, summary["download_retrans"]}
    /\ Timed /\ test = "upload" => summary["upload_speed"] = 0
    /\ pc = "recv" => test = "download"
    /\ pc \in {"measure", "send"} => test = "upload"
    /\ SummaryFromWinner

\* The bytes counted are not younger than the clock, nor, where the speed of
\* the download is computed, than `elapsed`.
TimeInv ==
    /\ Timed => bytesAt <= clock
    /\ pc = "recv" => bytesAt <= elapsed

IInv == RunTypes /\ DataTypes /\ LoopInv /\ AttemptInv /\ SummaryInv /\ TimeInv

-----------------------------------------------------------------------------
(* The lists of servers, and the outcomes.                                  *)

LEMMA TargetListFacts ==
  ASSUME NEW list \in TargetLists
  PROVE  /\ Len(list) \in Nat /\ 1 <= Len(list) /\ Len(list) <= MaxTargets
         /\ list # <<>>
         /\ \A k \in 1..Len(list) : k \in Servers
         /\ \A k \in 1..Len(list), t \in Tests : list[k][t] \in BOOLEAN
<1>1. PICK n \in 1..MaxTargets : list \in [1..n -> Targets]
  BY DEF TargetLists
<1>2. n \in Nat /\ n >= 1 /\ n <= MaxTargets /\ MaxTargets \in Nat
  BY ConstantsAssumption
<1>3. Len(list) = n /\ list \in Seq(Targets)
  BY <1>1, <1>2
<1>4. \A k \in 1..n : k \in Servers /\ list[k] \in Targets
  BY <1>1, <1>2 DEF Servers
<1>5. list # <<>>
  BY <1>2, <1>3
<1> QED
  BY <1>2, <1>3, <1>4, <1>5 DEF Targets

\* There are no servers before Locate has answered.
LEMMA ListFacts ==
  ASSUME RunTypes
  PROVE  /\ Len(targets) \in Nat /\ Len(targets) <= MaxTargets
         /\ \A k \in 1..Len(targets) : k \in Servers
         /\ targets \in TargetLists => targets # <<>>
<1>1. CASE targets = <<>>
  <2>1. Len(targets) = 0 /\ targets \notin TargetLists
    BY <1>1, TargetListFacts
  <2> QED
    BY <2>1, ConstantsAssumption
<1>2. CASE targets \in TargetLists
  BY <1>2, TargetListFacts
<1> QED
  BY <1>1, <1>2 DEF RunTypes

LEMMA OutcomeFacts ==
  ASSUME RunTypes, NEW k \in Servers, NEW r \in {"failed", "ok"},
         outcome' = [outcome EXCEPT ![test][k] = r]
  PROVE  /\ outcome' \in [Tests -> [Servers -> {"untried", "failed", "ok"}]]
         /\ outcome'[test][k] = r
         /\ \A j \in Servers : j # k => outcome'[test][j] = outcome[test][j]
         /\ \A t \in Tests : t # test => outcome'[t] = outcome[t]
  BY DEF RunTypes

\* A server that is being tried is one of those there are.
LEMMA TryingFacts ==
  ASSUME IInv, Trying
  PROVE  /\ test \in Tests /\ i \in Nat /\ i \in Servers
         /\ Len(targets) \in Nat /\ i <= Len(targets)
         /\ test \in enabled /\ i \in Offer(test) /\ verdict = "none"
         /\ targets \in TargetLists /\ pc \notin {"locate", "returned", "over", "select"}
         /\ \A k \in Servers : k \in Nat
<1>1. Len(targets) \in Nat /\ \A k \in 1..Len(targets) : k \in Servers
  BY ListFacts DEF IInv
<1>2. test \in enabled /\ i \in Offer(test)
  BY DEF IInv, LoopInv
<1>3. pc \notin {"locate", "returned", "over", "select"}
  BY DEF Trying
<1>4. verdict = "none" /\ targets \in TargetLists
  BY <1>3 DEF IInv, LoopInv
<1>5. i \in 1..Len(targets)
  BY <1>2 DEF Offer
<1>6. \A k \in Servers : k \in Nat
  BY ConstantsAssumption DEF Servers
<1> QED
  BY <1>1, <1>2, <1>3, <1>4, <1>5, <1>6 DEF IInv, RunTypes

-----------------------------------------------------------------------------
(* The steps of an attempt.                                                 *)

\* Steps in the middle of an attempt leave the loops alone.
LEMMA MiddleKeeps ==
  ASSUME IInv, Trying, Trying', UNCHANGED runVars,
         test = "upload" =>
           /\ summary'["download_speed"] = summary["download_speed"]
           /\ summary'["download_retrans"] = summary["download_retrans"]
           /\ summary'["min_rtt"] = summary["min_rtt"]
  PROVE  RunTypes' /\ LoopInv' /\ AttemptInv' /\ SummaryFromWinner'
<1>1. UNCHANGED <<enabled, targets, test, i, success, outcome, verdict>>
  BY DEF runVars
<1>2. pc' \notin {"locate", "returned", "over", "select"}
  BY DEF Trying
<1>3. Offer(test)' = Offer(test) /\ Offer("download")' = Offer("download")
  BY <1>1 DEF Offer
<1>4. RunTypes'
  BY <1>1 DEF IInv, RunTypes, Trying
<1>5. LoopInv'
  BY <1>1, <1>2, <1>3, TryingFacts DEF IInv, LoopInv
<1>6. AttemptInv'
  BY <1>1, <1>2, <1>3 DEF IInv, AttemptInv
<1>7. SummaryFromWinner'
  <2>1. CASE test = "download"
    <3>1. \A k \in Servers : outcome'["download"][k] # "ok"
                             /\ outcome'["upload"][k] # "ok"
      BY <1>1, <2>1 DEF IInv, AttemptInv
    <3> QED
      BY <3>1 DEF SummaryFromWinner
  <2>2. CASE test = "upload"
    <3>1. \A k \in Servers : outcome'["upload"][k] # "ok"
      BY <1>1, <2>2 DEF IInv, AttemptInv
    <3> QED
      BY <1>1, <2>2, <3>1 DEF IInv, SummaryInv, SummaryFromWinner
  <2> QED
    BY <2>1, <2>2, TryingFacts DEF Tests
<1> QED
  BY <1>4, <1>5, <1>6, <1>7

\* After a failure the next server is tried, and what the summary has of this
\* attempt is nobody's.
LEMMA FailKeeps ==
  ASSUME IInv, Trying, AttemptFails, DataTypes',
         test = "upload" =>
           /\ summary'["download_speed"] = summary["download_speed"]
           /\ summary'["download_retrans"] = summary["download_retrans"]
           /\ summary'["min_rtt"] = summary["min_rtt"]
  PROVE  IInv'
<1>1. /\ success' = FALSE /\ i' = i + 1 /\ pc' = "select"
      /\ outcome' = [outcome EXCEPT ![test][i] = "failed"]
      /\ UNCHANGED <<enabled, targets, test, verdict>>
  BY DEF AttemptFails
<1>2. /\ test \in Tests /\ i \in Nat /\ i \in Servers
      /\ Len(targets) \in Nat /\ i <= Len(targets)
      /\ test \in enabled /\ i \in Offer(test) /\ verdict = "none"
      /\ targets \in TargetLists
      /\ \A k \in Servers : k \in Nat
  BY TryingFacts
<1>3. /\ outcome' \in [Tests -> [Servers -> {"untried", "failed", "ok"}]]
      /\ outcome'[test][i] = "failed"
      /\ \A j \in Servers : j # i => outcome'[test][j] = outcome[test][j]
      /\ \A t \in Tests : t # test => outcome'[t] = outcome[t]
  <2>1. RunTypes /\ "failed" \in {"failed", "ok"}
    BY DEF IInv
  <2> QED
    BY <1>1, <1>2, <2>1, OutcomeFacts
<1>4. Offer(test)' = Offer(test) /\ Offer("download")' = Offer("download")
  BY <1>1 DEF Offer
<1>5. ~Trying' /\ ~Timed' /\ pc' = "select"
  BY <1>1 DEF Trying, Timed
<1>6. RunTypes'
  <2>1. i' \in Nat /\ 1 <= i' /\ i' <= Len(targets) + 1
    BY <1>1, <1>2
  <2>2. success' \in BOOLEAN
    BY <1>1
  <2> QED
    BY <1>1, <1>3, <2>1, <2>2 DEF IInv, RunTypes
<1>7. LoopInv'
  BY <1>1, <1>2, <1>5 DEF LoopInv
<1>8. /\ \A k \in Offer(test) : k < i => outcome[test][k] = "failed"
      /\ \A k \in Servers : k >= i => outcome[test][k] = "untried"
      /\ \A k \in Servers : outcome[test][k] # "ok"
      /\ test = "download" => \A k \in Servers : outcome["upload"][k] = "untried"
  BY DEF IInv, AttemptInv
<1>9. \A k \in Offer(test) : k \in Servers /\ k \in Nat
  BY <1>2, ListFacts DEF IInv, Offer
<1>10. AttemptInv'
  <2>1. \A k \in Offer(test) : k < i + 1 => outcome'[test][k] = "failed"
    BY <1>2, <1>3, <1>8, <1>9
  <2>2. \A k \in Servers : k >= i + 1 => outcome'[test][k] = "untried"
    BY <1>2, <1>3, <1>8
  <2>3. \A k \in Servers : outcome'[test][k] # "ok"
    BY <1>3, <1>8
  <2>4. ~(\A k \in Offer(test) : k >= i + 1)
    BY <1>2
  <2>5. test' = "download" => \A k \in Servers : outcome'["upload"][k] = "untried"
    BY <1>1, <1>3, <1>8 DEF Tests
  <2>6. test' = "upload" =>
          \/ "download" \notin enabled'
          \/ Offer("download")' = {}
          \/ \E k \in Servers : outcome'["download"][k] = "ok"
    BY <1>1, <1>3, <1>4 DEF IInv, AttemptInv, Tests
  <2> QED
    BY <1>1, <1>4, <1>5, <2>1, <2>2, <2>3, <2>4, <2>5, <2>6 DEF AttemptInv
<1>11. SummaryFromWinner'
  <2>1. \A k \in Servers : outcome'[test][k] # "ok"
    BY <1>3, <1>8
  <2>2. CASE test = "download"
    <3>1. \A k \in Servers : outcome'["upload"][k] = "untried"
      BY <1>3, <1>8, <2>2 DEF Tests
    <3> QED
      BY <2>1, <2>2, <3>1 DEF SummaryFromWinner
  <2>3. CASE test = "upload"
    <3>1. outcome'["download"] = outcome["download"]
      BY <1>3, <2>3 DEF Tests
    <3> QED
      BY <2>1, <2>3, <3>1 DEF IInv, SummaryInv, SummaryFromWinner
  <2> QED
    BY <1>2, <2>2, <2>3 DEF Tests
<1>12. SummaryInv' /\ TimeInv'
  BY <1>1, <1>5, <1>11 DEF SummaryInv, TimeInv
<1> QED
  BY <1>6, <1>7, <1>10, <1>12 DEF IInv

\* After a success its server is the only one with that outcome, and the summary
\* is about it.
LEMMA SuccessKeeps ==
  ASSUME IInv, Trying, AttemptSucceeds, DataTypes',
         test = "download" =>
           /\ summary'["download_speed"] \in {0, i}
           /\ summary'["download_retrans"] \in {0, i}
           /\ summary'["min_rtt"] \in {0, summary'["download_retrans"]},
         test = "upload" =>
           /\ summary'["upload_speed"] \in {0, i}
           /\ summary'["download_speed"] = summary["download_speed"]
           /\ summary'["download_retrans"] = summary["download_retrans"]
           /\ summary'["min_rtt"] = summary["min_rtt"]
  PROVE  IInv'
<1>1. /\ success' = TRUE /\ pc' = "over"
      /\ outcome' = [outcome EXCEPT ![test][i] = "ok"]
      /\ UNCHANGED <<enabled, targets, test, i, verdict>>
  BY DEF AttemptSucceeds
<1>2. /\ test \in Tests /\ i \in Nat /\ i \in Servers
      /\ Len(targets) \in Nat /\ i <= Len(targets)
      /\ test \in enabled /\ i \in Offer(test) /\ verdict = "none"
      /\ targets \in TargetLists
  BY TryingFacts
<1>3. /\ outcome' \in [Tests -> [Servers -> {"untried", "failed", "ok"}]]
      /\ outcome'[test][i] = "ok"
      /\ \A j \in Servers : j # i => outcome'[test][j] = outcome[test][j]
      /\ \A t \in Tests : t # test => outcome'[t] = outcome[t]
  <2>1. RunTypes /\ "ok" \in {"failed", "ok"}
    BY DEF IInv
  <2> QED
    BY <1>1, <1>2, <2>1, OutcomeFacts
<1>4. Offer(test)' = Offer(test) /\ Offer("download")' = Offer("download")
  BY <1>1 DEF Offer
<1>5. ~Trying' /\ ~Timed' /\ pc' = "over"
  BY <1>1 DEF Trying, Timed
<1>6. RunTypes'
  BY <1>1, <1>2, <1>3 DEF IInv, RunTypes
<1>7. LoopInv'
  BY <1>1, <1>2, <1>4, <1>5 DEF IInv, LoopInv
<1>8. /\ \A k \in Servers : outcome[test][k] # "ok"
      /\ test = "download" => \A k \in Servers : outcome["upload"][k] = "untried"
  BY DEF IInv, AttemptInv
<1>9. \A k \in Servers : outcome'[test][k] = "ok" => k = i
  BY <1>3, <1>8
<1>10. AttemptInv'
  <2>1. test' = "download" => \A k \in Servers : outcome'["upload"][k] = "untried"
    BY <1>1, <1>3, <1>8 DEF Tests
  <2>2. test' = "upload" =>
          \/ "download" \notin enabled'
          \/ Offer("download")' = {}
          \/ \E k \in Servers : outcome'["download"][k] = "ok"
    BY <1>1, <1>3, <1>4 DEF IInv, AttemptInv, Tests
  <2> QED
    BY <1>1, <1>3, <1>5, <1>9, <2>1, <2>2 DEF AttemptInv
<1>11. SummaryFromWinner'
  <2>1. CASE test = "download"
    <3>1. \A k \in Servers : outcome'["upload"][k] = "untried"
      BY <1>3, <1>8, <2>1 DEF Tests
    <3> QED
      BY <1>9, <2>1, <3>1 DEF SummaryFromWinner
  <2>2. CASE test = "upload"
    <3>1. outcome'["download"] = outcome["download"]
      BY <1>3, <2>2 DEF Tests
    <3> QED
      BY <1>9, <2>2, <3>1 DEF IInv, SummaryInv, SummaryFromWinner
  <2> QED
    BY <1>2, <2>1, <2>2 DEF Tests
<1>12. SummaryInv' /\ TimeInv'
  BY <1>1, <1>5, <1>11 DEF SummaryInv, TimeInv
<1> QED
  BY <1>6, <1>7, <1>10, <1>12 DEF IInv
-----------------------------------------------------------------------------
(* Each step of an attempt.                                                 *)

DownloadKept ==
    /\ summary'["download_speed"] = summary["download_speed"]
    /\ summary'["download_retrans"] = summary["download_retrans"]
    /\ summary'["min_rtt"] = summary["min_rtt"]

LEMMA ConnectKeeps ==
  ASSUME IInv, ConnectFails \/ SubtestBegins
  PROVE  IInv'
<1>1. pc = "connect" /\ Trying
  BY DEF ConnectFails, SubtestBegins, Trying
<1>2. CASE ConnectFails
  <2>1. AttemptFails /\ DataTypes' /\ DownloadKept
    BY <1>2 DEF ConnectFails, IInv, DataTypes, timeVars, dataVars, DownloadKept
  <2> QED
    BY <1>1, <2>1, FailKeeps DEF DownloadKept
<1>3. CASE SubtestBegins
  <2>1. /\ pc' = "loop" /\ UNCHANGED runVars /\ UNCHANGED <<test, i>>
        /\ clock' = 0 /\ elapsed' = 0 /\ latest' = 0 /\ bytesAt' = Never
        /\ UNCHANGED <<measurement, connectionInfo>>
    BY <1>3 DEF SubtestBegins, runVars
  <2>2. test \in Tests /\ summary \in [Fields -> Provenance] /\ 0 \in Provenance
    BY DEF IInv, RunTypes, DataTypes, Provenance
  <2>3. /\ summary' \in [Fields -> Provenance]
        /\ test = "download" =>
             /\ summary'["download_speed"] = 0 /\ summary'["download_retrans"] = 0
             /\ summary'["min_rtt"] = 0
        /\ test = "upload" => summary'["upload_speed"] = 0 /\ DownloadKept
    <3>1. CASE test = "download"
      <4>1. summary' = [[[summary EXCEPT !["download_speed"] = 0]
                            EXCEPT !["download_retrans"] = 0]
                            EXCEPT !["min_rtt"] = 0]
        BY <1>3, <3>1 DEF SubtestBegins
      <4> QED
        BY <2>2, <3>1, <4>1 DEF Fields
    <3>2. CASE test = "upload"
      <4>1. summary' = [summary EXCEPT !["upload_speed"] = 0]
        BY <1>3, <3>2 DEF SubtestBegins
      <4> QED
        BY <2>2, <3>2, <4>1 DEF Fields, DownloadKept
    <3> QED
      BY <2>2, <3>1, <3>2 DEF Tests
  <2>4. DataTypes'
    <3>1. 0 \in 0..MaxClock
      BY ConstantsAssumption
    <3> QED
      BY <2>1, <2>3, <3>1 DEF IInv, DataTypes
  <2>5. Trying' /\ Timed' /\ pc' \notin {"recv", "measure", "send"}
    BY <2>1 DEF Trying, Timed
  <2>6. RunTypes' /\ LoopInv' /\ AttemptInv' /\ SummaryFromWinner'
    BY <1>1, <2>1, <2>3, <2>5, MiddleKeeps DEF DownloadKept
  <2>7. SummaryInv'
    BY <2>1, <2>3, <2>5, <2>6 DEF SummaryInv
  <2>8. TimeInv'
    BY <2>1, <2>5 DEF TimeInv, Never
  <2> QED
    BY <2>4, <2>6, <2>7, <2>8 DEF IInv
<1> QED
  BY <1>2, <1>3

\* The steps that leave the summary, and what the loops have, as they are.
QuietStep ==
    \/ DownloadCheck /\ ~(clock > MaxRuntime)
    \/ RecvData
    \/ UploadCheck /\ ~(clock > UploadTime)
    \/ UploadSend /\ ~AttemptFails
    \/ Tick

LEMMA QuietKeeps ==
  ASSUME IInv, QuietStep
  PROVE  IInv'
<1>t. /\ clock \in 0..MaxClock /\ elapsed \in 0..MaxClock /\ latest \in 0..MaxClock
      /\ bytesAt \in Int /\ MaxClock \in Nat
  BY ConstantsAssumption DEF IInv, DataTypes, Never
<1>1. /\ Trying /\ Timed /\ Trying' /\ Timed' /\ UNCHANGED <<runVars, dataVars>>
      /\ pc' = "recv" => test = "download"
      /\ pc' \in {"measure", "send"} => test = "upload"
      /\ clock' \in 0..MaxClock /\ elapsed' \in {elapsed, clock} /\ latest' = latest
      /\ bytesAt' \in {bytesAt, clock} /\ clock <= clock'
      /\ pc' = "recv" => \/ elapsed' = clock /\ bytesAt' = bytesAt
                         \/ pc = "recv" /\ elapsed' = elapsed /\ bytesAt' = bytesAt
  <2>1. CASE DownloadCheck /\ ~(clock > MaxRuntime)
    BY <1>t, <2>1 DEF DownloadCheck, Trying, Timed, dataVars
  <2>2. CASE RecvData
    BY <1>t, <2>2 DEF RecvData, Counted, Trying, Timed
  <2>3. CASE UploadCheck /\ ~(clock > UploadTime)
    BY <1>t, <2>3 DEF UploadCheck, Trying, Timed, dataVars
  <2>4. CASE UploadSend /\ ~AttemptFails
    BY <1>t, <2>4 DEF UploadSend, Trying, Timed, dataVars
  <2>5. CASE Tick
    <3>1. clock' = clock + 1 /\ clock < MaxClock
          /\ pc \in {"loop", "recv", "measure", "send"}
          /\ UNCHANGED <<runVars, pc, timeVars, dataVars>>
      BY <2>5 DEF Tick
    <3>2. clock' \in 0..MaxClock /\ clock <= clock'
      BY <1>t, <3>1
    <3>3. /\ pc = "recv" => test = "download"
          /\ pc \in {"measure", "send"} => test = "upload"
      BY DEF IInv, SummaryInv
    <3> QED
      BY <3>1, <3>2, <3>3 DEF Trying, Timed, timeVars
  <2> QED
    BY <2>1, <2>2, <2>3, <2>4, <2>5 DEF QuietStep
<1>2. UNCHANGED <<summary, measurement, connectionInfo, test, i>>
  BY <1>1 DEF dataVars, runVars
<1>3. RunTypes' /\ LoopInv' /\ AttemptInv' /\ SummaryFromWinner'
  BY <1>1, <1>2, MiddleKeeps
<1>4. DataTypes'
  BY <1>1, <1>2, <1>t DEF IInv, DataTypes
<1>5. SummaryInv'
  BY <1>1, <1>2, <1>3 DEF IInv, SummaryInv
<1>6. TimeInv'
  BY <1>1, <1>t DEF IInv, TimeInv
<1> QED
  BY <1>3, <1>4, <1>5, <1>6 DEF IInv

\* Only the fields of the download are written, and with this attempt's number.
LEMMA MeasurementKeeps ==
  ASSUME IInv, RecvMeasurement
  PROVE  IInv'
<1>1. /\ pc = "recv" /\ pc' = "loop" /\ Trying /\ Timed /\ Trying' /\ Timed'
      /\ UNCHANGED runVars /\ UNCHANGED <<test, i, clock, elapsed, latest>>
      /\ bytesAt' = clock
      /\ measurement' = i /\ connectionInfo' \in {connectionInfo, i}
  BY DEF RecvMeasurement, Counted, Trying, Timed, runVars
<1>2. test = "download" /\ i \in Servers
  BY <1>1, TryingFacts DEF IInv, SummaryInv
<1>3. summary \in [Fields -> Provenance] /\ i \in Provenance
  BY <1>2 DEF IInv, DataTypes, Provenance
<1>4. /\ summary["download_speed"] = 0
      /\ summary["download_retrans"] \in {0, i}
      /\ summary["min_rtt"] \in {0, summary["download_retrans"]}
  BY <1>1, <1>2 DEF IInv, SummaryInv
<1>5. /\ summary' \in [Fields -> Provenance]
      /\ summary'["download_speed"] = 0
      /\ summary'["download_retrans"] \in {0, i}
      /\ summary'["min_rtt"] \in {0, summary'["download_retrans"]}
  <2>1. CASE summary' = summary
    BY <1>3, <1>4, <2>1
  <2>2. CASE summary' = [summary EXCEPT !["download_retrans"] = i]
    <3>1. /\ summary' \in [Fields -> Provenance]
          /\ summary'["download_speed"] = 0
          /\ summary'["download_retrans"] = i
          /\ summary'["min_rtt"] = summary["min_rtt"]
      BY <1>3, <1>4, <2>2 DEF Fields
    <3>2. summary["min_rtt"] \in {0, i}
      BY <1>4
    <3> QED
      BY <3>1, <3>2
  <2>3. CASE summary' = [[summary EXCEPT !["download_retrans"] = i]
                            EXCEPT !["min_rtt"] = i]
    BY <1>3, <1>4, <2>3 DEF Fields
  <2>4. \/ summary' = summary
        \/ summary' = [summary EXCEPT !["download_retrans"] = i]
        \/ summary' = [[summary EXCEPT !["download_retrans"] = i]
                          EXCEPT !["min_rtt"] = i]
    BY DEF RecvMeasurement
  <2> QED
    BY <2>1, <2>2, <2>3, <2>4
<1>6. RunTypes' /\ LoopInv' /\ AttemptInv' /\ SummaryFromWinner'
  BY <1>1, <1>2, MiddleKeeps
<1>7. DataTypes'
  BY <1>1, <1>2, <1>5 DEF IInv, DataTypes
<1>8. SummaryInv'
  BY <1>1, <1>2, <1>5, <1>6 DEF SummaryInv
<1>9. TimeInv'
  <2>1. clock \in Int
    BY DEF IInv, DataTypes
  <2> QED
    BY <1>1, <2>1 DEF TimeInv
<1> QED
  BY <1>6, <1>7, <1>8, <1>9 DEF IInv

\* Only the retransmission rate of the upload may be written.
LEMMA MeasureKeeps ==
  ASSUME IInv, UploadMeasure
  PROVE  IInv'
<1>1. /\ pc = "measure" /\ Trying /\ Timed
      /\ summary' \in {summary, [summary EXCEPT !["upload_retrans"] = i]}
      /\ UNCHANGED <<clock, elapsed, bytesAt, measurement, connectionInfo>>
      /\ \/ AttemptFails /\ latest' = latest
         \/ pc' = "send" /\ latest' = elapsed /\ UNCHANGED runVars
  BY DEF UploadMeasure, Trying, Timed
<1>2. test = "upload" /\ i \in Servers
  BY <1>1, TryingFacts DEF IInv, SummaryInv
<1>3. summary \in [Fields -> Provenance] /\ i \in Provenance
  BY <1>2 DEF IInv, DataTypes, Provenance
<1>4. /\ summary' \in [Fields -> Provenance] /\ DownloadKept
      /\ summary'["upload_speed"] = summary["upload_speed"]
  <2>1. CASE summary' = summary
    BY <1>3, <2>1 DEF DownloadKept
  <2>2. CASE summary' = [summary EXCEPT !["upload_retrans"] = i]
    BY <1>3, <2>2 DEF Fields, DownloadKept
  <2> QED
    BY <1>1, <2>1, <2>2
<1>5. DataTypes'
  BY <1>1, <1>4 DEF IInv, DataTypes
<1>6. CASE AttemptFails
  BY <1>1, <1>4, <1>5, <1>6, FailKeeps DEF DownloadKept
<1>7. CASE pc' = "send" /\ latest' = elapsed /\ UNCHANGED runVars
  <2>1. Trying' /\ Timed' /\ pc' = "send" /\ UNCHANGED <<test, i>>
    BY <1>7 DEF Trying, Timed, runVars
  <2>2. RunTypes' /\ LoopInv' /\ AttemptInv' /\ SummaryFromWinner'
    BY <1>1, <1>4, <1>7, <2>1, MiddleKeeps DEF DownloadKept
  <2>3. SummaryInv'
    BY <1>1, <1>2, <1>4, <2>1, <2>2 DEF IInv, SummaryInv
  <2>4. TimeInv'
    BY <1>1, <2>1 DEF IInv, TimeInv
  <2> QED
    BY <1>5, <2>2, <2>3, <2>4 DEF IInv
<1> QED
  BY <1>1, <1>6, <1>7

\* The speeds are computed at the end of the attempt that they are about.
LEMMA SpeedFacts ==
  ASSUME i \in Servers, NEW seconds
  PROVE  Speed(seconds) \subseteq {0, i} /\ Speed(seconds) \subseteq Provenance
  BY DEF Speed, Provenance

LEMMA EndKeeps ==
  ASSUME IInv,
         \/ DownloadCheck /\ clock > MaxRuntime
         \/ RecvFails \/ RecvEof
         \/ UploadCheck /\ clock > UploadTime
         \/ UploadSend /\ AttemptFails
  PROVE  IInv'
<1>1. CASE DownloadCheck /\ clock > MaxRuntime
  <2>1. Trying /\ AttemptFails /\ DataTypes' /\ DownloadKept
    BY <1>1 DEF DownloadCheck, Trying, IInv, DataTypes, dataVars, DownloadKept
  <2> QED
    BY <2>1, FailKeeps DEF DownloadKept
<1>2. CASE RecvFails
  <2>1. Trying /\ AttemptFails /\ DataTypes' /\ DownloadKept
    BY <1>2 DEF RecvFails, Trying, IInv, DataTypes, timeVars, dataVars, DownloadKept
  <2> QED
    BY <2>1, FailKeeps DEF DownloadKept
<1>3. CASE RecvEof
  <2>1. PICK speed \in Speed(elapsed) :
          summary' = [summary EXCEPT !["download_speed"] = speed]
    BY <1>3 DEF RecvEof
  <2>2. /\ pc = "recv" /\ Trying /\ Timed /\ AttemptSucceeds
        /\ UNCHANGED <<clock, elapsed, latest, bytesAt, measurement, connectionInfo>>
    BY <1>3 DEF RecvEof, Trying, Timed, timeVars
  <2>3. test = "download" /\ i \in Servers
    BY <2>2, TryingFacts DEF IInv, SummaryInv
  <2>4. speed \in {0, i} /\ speed \in Provenance
    BY <2>1, <2>3, SpeedFacts
  <2>5. summary \in [Fields -> Provenance]
    BY DEF IInv, DataTypes
  <2>6. /\ summary' \in [Fields -> Provenance]
        /\ summary'["download_speed"] = speed
        /\ summary'["download_retrans"] = summary["download_retrans"]
        /\ summary'["min_rtt"] = summary["min_rtt"]
    BY <2>1, <2>4, <2>5 DEF Fields
  <2>7. /\ summary["download_retrans"] \in {0, i}
        /\ summary["min_rtt"] \in {0, summary["download_retrans"]}
    BY <2>2, <2>3 DEF IInv, SummaryInv
  <2>8. DataTypes'
    BY <2>2, <2>6 DEF IInv, DataTypes
  <2> QED
    BY <2>2, <2>3, <2>4, <2>6, <2>7, <2>8, SuccessKeeps
<1>4. CASE UploadCheck /\ clock > UploadTime
  <2>1. PICK speed \in Speed(clock) :
          summary' = [summary EXCEPT !["upload_speed"] = speed]
    BY <1>4 DEF UploadCheck
  <2>2. /\ test = "upload" /\ Trying /\ AttemptSucceeds /\ elapsed' = clock
        /\ UNCHANGED <<clock, latest, bytesAt, measurement, connectionInfo>>
    BY <1>4 DEF UploadCheck, Trying
  <2>3. i \in Servers
    BY <2>2, TryingFacts
  <2>4. speed \in {0, i} /\ speed \in Provenance
    BY <2>1, <2>3, SpeedFacts
  <2>5. summary \in [Fields -> Provenance]
    BY DEF IInv, DataTypes
  <2>6. /\ summary' \in [Fields -> Provenance]
        /\ summary'["upload_speed"] = speed /\ DownloadKept
    BY <2>1, <2>4, <2>5 DEF Fields, DownloadKept
  <2>7. DataTypes'
    BY <2>2, <2>6 DEF IInv, DataTypes
  <2> QED
    BY <2>2, <2>4, <2>6, <2>7, SuccessKeeps DEF DownloadKept
<1>5. CASE UploadSend /\ AttemptFails
  <2>1. Trying /\ AttemptFails /\ DownloadKept
        /\ UNCHANGED <<clock, elapsed, latest, summary, measurement, connectionInfo>>
    BY <1>5 DEF UploadSend, Trying, dataVars, DownloadKept
  <2>2. bytesAt' \in {bytesAt, clock}
    BY <1>5 DEF UploadSend
  <2>3. DataTypes'
    BY <2>1, <2>2 DEF IInv, DataTypes
  <2> QED
    BY <2>1, <2>3, FailKeeps DEF DownloadKept
<1> QED
  BY <1>1, <1>2, <1>3, <1>4, <1>5
-----------------------------------------------------------------------------
(* The steps of run().                                                      *)

\* Steps outside the attempts change nothing that was recorded.
LEMMA RunDataKeeps ==
  ASSUME IInv, ~Timed', UNCHANGED <<outcome, clock, timeVars, dataVars>>
  PROVE  DataTypes' /\ SummaryInv' /\ TimeInv'
<1>1. UNCHANGED <<outcome, clock, elapsed, latest, bytesAt, summary, measurement,
                  connectionInfo>>
  BY DEF timeVars, dataVars
<1>2. pc' \notin {"loop", "recv", "measure", "send"}
  BY DEF Timed
<1>3. DataTypes'
  BY <1>1 DEF IInv, DataTypes
<1>4. SummaryInv'
  BY <1>1, <1>2 DEF IInv, SummaryInv, SummaryFromWinner, Timed
<1>5. TimeInv'
  BY <1>2 DEF TimeInv, Timed
<1> QED
  BY <1>3, <1>4, <1>5

LEMMA LocateKeeps ==
  ASSUME IInv, QueryLocateApi
  PROVE  IInv'
<1>1. /\ pc = "locate"
      /\ \/ targets' \in TargetLists /\ pc' = "select" /\ UNCHANGED verdict
         \/ verdict' = "false" /\ pc' = "returned" /\ UNCHANGED targets
      /\ UNCHANGED <<enabled, test, i, success, outcome, clock, timeVars, dataVars>>
  BY DEF QueryLocateApi
<1>2. /\ targets = <<>> /\ test = "download" /\ i = 1 /\ success /\ verdict = "none"
      /\ \A t \in Tests, k \in Servers : outcome[t][k] = "untried"
  BY <1>1 DEF IInv, LoopInv
<1>3. ~Trying' /\ ~Timed' /\ pc' \in {"select", "returned"}
  BY <1>1 DEF Trying, Timed
<1>4. Len(targets') \in Nat /\ 0 <= Len(targets')
  <2>1. Len(targets) \in Nat
    BY <1>2
  <2> QED
    BY <1>1, <2>1, TargetListFacts
<1>5. RunTypes'
  <2>1. i' \in Nat /\ 1 <= i' /\ i' <= Len(targets') + 1
    BY <1>1, <1>2, <1>4
  <2> QED
    BY <1>1, <1>3, <2>1 DEF IInv, RunTypes
<1>6. LoopInv'
  BY <1>1, <1>2, <1>3 DEF LoopInv
<1>7. AttemptInv'
  <2>1. \A k \in Offer(test)' : k \in Nat /\ k >= 1
    BY <1>1, <1>4 DEF Offer
  <2>2. success' = success /\ success' \in BOOLEAN
    BY <1>1 DEF IInv, RunTypes
  <2>3. \A k \in Offer(test)' : ~(k < i') /\ k >= i'
    BY <1>1, <1>2, <2>1
  <2>4. \A t \in Tests, k \in Servers : outcome'[t][k] = "untried"
    BY <1>1, <1>2
  <2>5. success' <=> \A k \in Offer(test)' : k >= i'
    BY <1>2, <2>2, <2>3
  <2>6. test' = "download" /\ test' \in Tests /\ "upload" \in Tests
    BY <1>1, <1>2 DEF Tests
  <2> QED
    BY <1>3, <2>3, <2>4, <2>5, <2>6 DEF AttemptInv
<1> QED
  BY <1>1, <1>3, <1>5, <1>6, <1>7, RunDataKeeps DEF IInv

LEMMA SchemeKeeps ==
  ASSUME IInv, SchemeNotFound
  PROVE  IInv'
<1>1. /\ pc = "select" /\ pc' = "select" /\ test \in enabled /\ i <= Len(targets)
      /\ ~targets[i][test] /\ i' = i + 1
      /\ UNCHANGED <<enabled, targets, test, success, outcome, verdict, clock,
                     timeVars, dataVars>>
  BY DEF SchemeNotFound, InLoop
<1>2. ~Trying' /\ ~Timed'
  BY <1>1 DEF Trying, Timed
<1>3. Offer(test)' = Offer(test) /\ Offer("download")' = Offer("download")
  BY <1>1 DEF Offer
<1>4. /\ i \in Nat /\ i \notin Offer(test) /\ Len(targets) \in Nat
      /\ \A k \in Offer(test) : k \in Nat
      /\ \A k \in Servers : k \in Nat
  BY <1>1, ListFacts, ConstantsAssumption DEF IInv, RunTypes, Offer, Servers
<1>5. RunTypes'
  <2>1. i' \in Nat /\ 1 <= i' /\ i' <= Len(targets) + 1
    BY <1>1, <1>4
  <2> QED
    BY <1>1, <2>1 DEF IInv, RunTypes
<1>6. LoopInv'
  BY <1>1, <1>2 DEF IInv, LoopInv
<1>7. AttemptInv'
  <2>1. /\ \A k \in Offer(test) : k < i => outcome[test][k] = "failed"
        /\ \A k \in Servers : k >= i => outcome[test][k] = "untried"
        /\ \A k \in Servers : outcome[test][k] # "ok"
        /\ success <=> \A k \in Offer(test) : k >= i
    BY <1>1 DEF IInv, AttemptInv
  <2>2. \A k \in Offer(test) : /\ k < i + 1 <=> k < i
                               /\ k >= i + 1 <=> k >= i
    BY <1>4
  <2>3. \A k \in Servers : k >= i + 1 => outcome[test][k] = "untried"
    BY <1>4, <2>1
  <2>4. (\A k \in Offer(test) : k >= i + 1) <=> (\A k \in Offer(test) : k >= i)
    BY <2>2
  <2> QED
    BY <1>1, <1>2, <1>3, <2>1, <2>2, <2>3, <2>4 DEF IInv, AttemptInv
<1> QED
  BY <1>1, <1>2, <1>5, <1>6, <1>7, RunDataKeeps DEF IInv

LEMMA TryKeeps ==
  ASSUME IInv, TryServer
  PROVE  IInv'
<1>1. /\ pc = "select" /\ pc' = "connect" /\ test \in enabled /\ i <= Len(targets)
      /\ targets[i][test]
      /\ UNCHANGED <<enabled, targets, test, i, success, outcome, verdict, clock,
                     timeVars, dataVars>>
  BY DEF TryServer, InLoop, runVars
<1>2. Trying' /\ ~Timed'
  BY <1>1 DEF Trying, Timed
<1>3. Offer(test)' = Offer(test) /\ Offer("download")' = Offer("download")
  BY <1>1 DEF Offer
<1>4. i \in Offer(test)
  BY <1>1, ListFacts DEF IInv, RunTypes, Offer
<1>5. RunTypes'
  BY <1>1 DEF IInv, RunTypes
<1>6. LoopInv'
  BY <1>1, <1>2, <1>3, <1>4 DEF IInv, LoopInv
<1>7. AttemptInv'
  BY <1>1, <1>2, <1>3 DEF IInv, AttemptInv
<1> QED
  BY <1>1, <1>2, <1>5, <1>6, <1>7, RunDataKeeps DEF IInv

\* A loop that has come to its end without a failure leaves its subtest
\* settled, and with one it leaves it exhausted.
LEMMA WhenOver ==
  ASSUME IInv, TestOver
  PROVE  /\ verdict = "none" /\ targets \in TargetLists /\ test \in Tests
         /\ success \in BOOLEAN
         /\ success => \/ test \notin enabled
                       \/ Offer(test) = {}
                       \/ \E k \in Servers : outcome[test][k] = "ok"
         /\ ~success =>
              /\ test \in enabled /\ Offer(test) # {}
              /\ \A k \in Offer(test) : outcome[test][k] = "failed"
<1>1. pc = "over" \/ (pc = "select" /\ ~InLoop)
  BY DEF TestOver
<1>2. verdict = "none" /\ targets \in TargetLists
  BY <1>1 DEF IInv, LoopInv
<1>3. test \in Tests /\ success \in BOOLEAN /\ i \in Nat /\ i <= Len(targets) + 1
  BY DEF IInv, RunTypes
<1>4. /\ Len(targets) \in Nat
      /\ \A k \in Offer(test) : k \in Nat /\ k <= Len(targets) /\ k \in Servers
  BY ListFacts DEF IInv, Offer
<1>5. CASE pc = "over"
  <2>1. success /\ outcome[test][i] = "ok" /\ i \in Offer(test)
    BY <1>5 DEF IInv, AttemptInv, LoopInv
  <2> QED
    BY <1>2, <1>3, <1>4, <2>1
<1>6. CASE pc = "select" /\ ~InLoop
  <2>1. test \notin enabled \/ ~(i <= Len(targets))
    BY <1>6 DEF InLoop
  <2>2. /\ \A k \in Offer(test) : k < i => outcome[test][k] = "failed"
        /\ success <=> \A k \in Offer(test) : k >= i
    BY <1>6 DEF IInv, AttemptInv
  <2>3. CASE test \notin enabled
    <3>1. ~(i > 1)
      BY <2>3 DEF IInv, LoopInv
    <3>2. \A k \in Offer(test) : k >= i
      BY <1>3, <3>1 DEF Offer
    <3> QED
      BY <1>2, <1>3, <2>2, <2>3, <3>2
  <2>4. CASE test \in enabled /\ ~(i <= Len(targets))
    <3>1. \A k \in Offer(test) : k < i /\ ~(k >= i)
      BY <1>3, <1>4, <2>4
    <3> QED
      BY <1>2, <1>3, <2>2, <2>4, <3>1
  <2> QED
    BY <2>1, <2>3, <2>4
<1> QED
  BY <1>1, <1>5, <1>6

LEMMA OverKeeps ==
  ASSUME IInv, TestOver
  PROVE  IInv'
<1>1. UNCHANGED <<enabled, targets, success, outcome, clock, timeVars, dataVars>>
  BY DEF TestOver
<1>2. /\ verdict = "none" /\ targets \in TargetLists /\ test \in Tests
      /\ success => \/ test \notin enabled
                    \/ Offer(test) = {}
                    \/ \E k \in Servers : outcome[test][k] = "ok"
  BY WhenOver
<1>3. Offer(test)' = Offer(test') /\ Offer("download")' = Offer("download")
      /\ Len(targets) \in Nat
  BY <1>1, ListFacts DEF Offer, IInv
<1>4. CASE success /\ test = "download"
  <2>1. pc' = "select" /\ test' = "upload" /\ i' = 1 /\ UNCHANGED verdict
    BY <1>4 DEF TestOver
  <2>2. ~Trying' /\ ~Timed'
    BY <2>1 DEF Trying, Timed
  <2>3. RunTypes'
    <3>1. 1 \in Nat /\ 1 <= 1 /\ 1 <= Len(targets) + 1
      BY <1>3
    <3> QED
      BY <1>1, <2>1, <3>1 DEF IInv, RunTypes, Tests
  <2>4. LoopInv'
    BY <1>1, <1>2, <2>1, <2>2 DEF LoopInv
  <2>5. AttemptInv'
    <3>1. \A k \in Servers : outcome["upload"][k] = "untried"
      BY <1>4 DEF IInv, AttemptInv
    <3>2. \A k \in Offer("upload") : ~(k < 1) /\ k >= 1
      BY <1>3 DEF Offer
    <3>3. success' /\ success' \in BOOLEAN
      BY <1>1, <1>4
    <3> QED
      BY <1>1, <1>2, <1>3, <1>4, <2>1, <2>2, <3>1, <3>2, <3>3 DEF AttemptInv
  <2> QED
    BY <1>1, <2>2, <2>3, <2>4, <2>5, RunDataKeeps DEF IInv
<1>5. CASE ~(success /\ test = "download")
  <2>1. /\ pc' = "returned" /\ verdict' \in {"true", "false"}
        /\ UNCHANGED <<test, i>>
    BY <1>5 DEF TestOver
  <2>2. ~Trying' /\ ~Timed'
    BY <2>1 DEF Trying, Timed
  <2>3. RunTypes'
    BY <1>1, <2>1 DEF IInv, RunTypes
  <2>4. LoopInv'
    BY <1>1, <2>1, <2>2 DEF IInv, LoopInv
  <2>5. AttemptInv'
    BY <1>1, <1>3, <2>1, <2>2 DEF IInv, AttemptInv
  <2> QED
    BY <1>1, <2>2, <2>3, <2>4, <2>5, RunDataKeeps DEF IInv
<1> QED
  BY <1>4, <1>5

LEMMA InvInit == Init => IInv
<1> SUFFICES ASSUME Init
             PROVE  IInv
  OBVIOUS
<1> USE DEF Init
<1>1. ~Trying /\ ~Timed /\ pc = "locate"
  BY DEF Trying, Timed
<1>2. RunTypes
  <2>1. Len(targets) = 0
    OBVIOUS
  <2>2. i \in Nat /\ 1 <= i /\ i <= Len(targets) + 1
    BY <2>1
  <2>3. success \in BOOLEAN /\ enabled \subseteq Tests
    OBVIOUS
  <2> QED
    BY <2>2, <2>3 DEF RunTypes, Tests
<1>3. DataTypes
  <2>1. 0 \in 0..MaxClock
    BY ConstantsAssumption
  <2> QED
    BY <2>1 DEF DataTypes, Provenance
<1>4. LoopInv
  BY <1>1 DEF LoopInv
<1>5. AttemptInv
  BY <1>1 DEF AttemptInv, Tests
<1>6. SummaryInv
  BY <1>1 DEF SummaryInv, SummaryFromWinner, Tests
<1>7. TimeInv
  BY <1>1 DEF TimeInv
<1> QED
  BY <1>2, <1>3, <1>4, <1>5, <1>6, <1>7 DEF IInv

LEMMA InvStep == IInv /\ [Next]_vars => IInv'
<1> SUFFICES ASSUME IInv, [Next]_vars
             PROVE  IInv'
  OBVIOUS
<1>1. CASE QueryLocateApi
  BY <1>1, LocateKeeps
<1>2. CASE SchemeNotFound
  BY <1>2, SchemeKeeps
<1>3. CASE TryServer
  BY <1>3, TryKeeps
<1>4. CASE TestOver
  BY <1>4, OverKeeps
<1>5. CASE ConnectFails \/ SubtestBegins
  BY <1>5, ConnectKeeps
<1>6. CASE DownloadCheck
  <2>1. CASE clock > MaxRuntime
    BY <1>6, <2>1, EndKeeps
  <2>2. CASE ~(clock > MaxRuntime)
    BY <1>6, <2>2, QuietKeeps DEF QuietStep
  <2> QED
    BY <2>1, <2>2
<1>7. CASE RecvFails \/ RecvEof
  BY <1>7, EndKeeps
<1>8. CASE RecvData \/ Tick
  BY <1>8, QuietKeeps DEF QuietStep
<1>9. CASE RecvMeasurement
  BY <1>9, MeasurementKeeps
<1>10. CASE UploadCheck
  <2>1. CASE clock > UploadTime
    BY <1>10, <2>1, EndKeeps
  <2>2. CASE ~(clock > UploadTime)
    BY <1>10, <2>2, QuietKeeps DEF QuietStep
  <2> QED
    BY <2>1, <2>2
<1>11. CASE UploadMeasure
  BY <1>11, MeasureKeeps
<1>12. CASE UploadSend
  <2>1. CASE AttemptFails
    BY <1>12, <2>1, EndKeeps
  <2>2. CASE ~AttemptFails
    BY <1>12, <2>2, QuietKeeps DEF QuietStep
  <2> QED
    BY <2>1, <2>2
<1>13. CASE UNCHANGED vars
  BY <1>13 DEF vars, runVars, timeVars, dataVars, IInv, RunTypes, DataTypes,
     LoopInv, AttemptInv, SummaryInv, SummaryFromWinner, TimeInv, Trying, Timed,
     Offer
<1> QED
  BY <1>1, <1>2, <1>3, <1>4, <1>5, <1>6, <1>7, <1>8, <1>9, <1>10, <1>11, <1>12,
     <1>13 DEF Next, Run
-----------------------------------------------------------------------------
(* What run() promises: every step is one of RunPromise, or none.           *)

LEMMA PromiseInit == Init => P!Init
  BY DEF Init, P!Init, Tests, P!Tests, Servers

\* The names of the promise mean what those of the loops do.
LEMMA SameNames ==
  /\ P!Tests = Tests /\ P!TargetLists = TargetLists
  /\ \A t : P!Offers(t) = Offer(t)
  /\ \A t : P!Completed(t) <=> \E k \in Servers : outcome[t][k] = "ok"
  BY DEF P!Tests, Tests, P!TargetLists, TargetLists, P!Targets, Targets,
     P!Offers, Offer, P!Completed, Servers

\* The end of an attempt is an attempt that was allowed.
LEMMA AttemptStep ==
  ASSUME IInv, Trying, NEW r \in {"ok", "failed"},
         outcome' = [outcome EXCEPT ![test][i] = r],
         UNCHANGED <<enabled, targets, verdict>>
  PROVE  P!Next
<1>1. /\ test \in Tests /\ i \in Servers /\ i \in Nat
      /\ test \in enabled /\ i \in Offer(test) /\ verdict = "none"
  BY TryingFacts
<1>2. /\ \A k \in Offer(test) : k < i => outcome[test][k] = "failed"
      /\ \A k \in Servers : k >= i => outcome[test][k] = "untried"
      /\ test = "upload" =>
           \/ "download" \notin enabled
           \/ Offer("download") = {}
           \/ \E k \in Servers : outcome["download"][k] = "ok"
  BY DEF IInv, AttemptInv
<1>3. outcome[test][i] = "untried"
  BY <1>1, <1>2
<1>4. test = "upload" => P!Settled("download")
  BY <1>2, SameNames DEF P!Settled
<1>5. P!Attempt(test, i, r)
  BY <1>1, <1>2, <1>3, <1>4, SameNames DEF P!Attempt, P!MayAttempt
<1>6. i \in 1..MaxTargets /\ test \in P!Tests
  BY <1>1, SameNames DEF Servers
<1> QED
  BY <1>5, <1>6 DEF P!Next

LEMMA PromiseStep == IInv /\ [Next]_vars => [P!Next]_(P!vars)
<1> SUFFICES ASSUME IInv, [Next]_vars
             PROVE  P!Next \/ UNCHANGED P!vars
  OBVIOUS
<1>1. CASE QueryLocateApi
  <2>1. pc = "locate" /\ verdict = "none" /\ targets = <<>>
    BY <1>1 DEF QueryLocateApi, IInv, LoopInv
  <2>2. P!Locate
    BY <1>1, <2>1, SameNames DEF QueryLocateApi, P!Locate
  <2> QED
    BY <2>2 DEF P!Next
<1>2. CASE TestOver
  <2>1. UNCHANGED <<enabled, targets, outcome, success>>
    BY <1>2 DEF TestOver
  <2>2. CASE success /\ test = "download"
    BY <1>2, <2>1, <2>2 DEF TestOver, P!vars
  <2>3. CASE ~(success /\ test = "download")
    <3>1. /\ verdict = "none" /\ targets \in TargetLists /\ test \in Tests
          /\ success => \/ test \notin enabled
                        \/ Offer(test) = {}
                        \/ \E k \in Servers : outcome[test][k] = "ok"
          /\ ~success =>
               /\ test \in enabled /\ Offer(test) # {}
               /\ \A k \in Offer(test) : outcome[test][k] = "failed"
      BY <1>2, WhenOver
    <3>2. targets # <<>>
      BY <3>1, TargetListFacts
    <3>3. test = "upload" => P!Settled("download")
      BY SameNames DEF IInv, AttemptInv, P!Settled
    <3>4. CASE success
      <4>1. test = "upload" /\ verdict' = "true"
        BY <1>2, <2>3, <3>1, <3>4 DEF TestOver, Tests
      <4>2. P!Settled("upload") /\ P!Settled("download")
        BY <3>1, <3>3, <3>4, <4>1, SameNames DEF P!Settled
      <4>3. \A t \in P!Tests : P!Settled(t)
        BY <4>2 DEF P!Tests
      <4> QED
        BY <2>1, <3>1, <3>2, <4>1, <4>3 DEF P!Return, P!Next
    <3>5. CASE ~success
      <4>1. verdict' = "false"
        BY <1>2, <2>3, <3>5 DEF TestOver
      <4>2. P!Exhausted(test)
        BY <3>1, <3>5, SameNames DEF P!Exhausted
      <4>3. \/ P!Exhausted("download")
            \/ P!Settled("download") /\ P!Exhausted("upload")
        BY <3>1, <3>3, <4>2 DEF Tests
      <4> QED
        BY <2>1, <3>1, <3>2, <4>1, <4>3 DEF P!Return, P!Next
    <3> QED
      BY <3>4, <3>5
  <2> QED
    BY <2>2, <2>3
<1>3. CASE AttemptFails /\ Trying
  BY <1>3, AttemptStep DEF AttemptFails
<1>4. CASE AttemptSucceeds /\ Trying
  BY <1>4, AttemptStep DEF AttemptSucceeds
<1>5. CASE UNCHANGED <<enabled, targets, outcome, verdict>>
  BY <1>5 DEF P!vars
<1>6. CASE SchemeNotFound \/ TryServer \/ SubtestBegins \/ RecvData
           \/ RecvMeasurement \/ Tick \/ UNCHANGED vars
  <2>1. UNCHANGED <<enabled, targets, outcome, verdict>>
    BY <1>6 DEF SchemeNotFound, TryServer, SubtestBegins, RecvData,
       RecvMeasurement, Counted, Tick, vars, runVars
  <2> QED
    BY <1>5, <2>1
<1>7. CASE \/ ConnectFails \/ RecvFails \/ RecvEof \/ DownloadCheck
           \/ UploadCheck \/ UploadMeasure \/ UploadSend
  <2>1. Trying
    BY <1>7 DEF ConnectFails, RecvFails, RecvEof, DownloadCheck, UploadCheck,
       UploadMeasure, UploadSend, Trying
  <2>2. AttemptFails \/ AttemptSucceeds \/ UNCHANGED runVars
    BY <1>7 DEF ConnectFails, RecvFails, RecvEof, DownloadCheck, UploadCheck,
       UploadMeasure, UploadSend
  <2>3. UNCHANGED runVars => UNCHANGED <<enabled, targets, outcome, verdict>>
    BY DEF runVars
  <2> QED
    BY <1>3, <1>4, <1>5, <2>1, <2>2, <2>3
<1> QED
  BY <1>1, <1>2, <1>6, <1>7 DEF Next, Run

-----------------------------------------------------------------------------
(* The theorems.                                                            *)

\* In every behaviour the attempts behind the current server failed, and while
\* a subtest runs its part of the summary is about it (Client::run()).
THEOREM RunInvariant == Spec => []IInv
<1> QED
  BY InvInit, InvStep, PTL DEF Spec

\* The summary of a download, or an upload, that completed is only about the
\* server it completed with, for every number of servers that failed before.
THEOREM SummaryIsTheWinners == Spec => []SummaryFromWinner
<1>1. IInv => SummaryFromWinner
  BY DEF IInv, SummaryInv
<1> QED
  BY <1>1, RunInvariant, PTL

\* No speed is computed from bytes that are younger than its time, for all
\* deadlines and measurement intervals.
THEOREM SpeedsCoverTheirBytes == Spec => SpeedCoversBytes
<1>1. IInv /\ [Next]_vars =>
        [\A f \in {"download_speed", "upload_speed"} :
           summary'[f] \in Servers /\ summary'[f] # summary[f]
             => bytesAt <= elapsed']_vars
  <2> SUFFICES ASSUME IInv, Next,
                      NEW f \in {"download_speed", "upload_speed"},
                      summary'[f] \in Servers, summary'[f] # summary[f]
               PROVE  bytesAt <= elapsed'
    OBVIOUS
  <2>1. summary \in [Fields -> Provenance] /\ 0 \notin Servers
    BY ConstantsAssumption DEF IInv, DataTypes, Servers
  <2>2. CASE RecvEof
    BY <2>2 DEF RecvEof, IInv, TimeInv, timeVars
  <2>3. CASE UploadCheck
    <3>1. Timed /\ elapsed' = clock
      BY <2>3 DEF UploadCheck, Timed
    <3> QED
      BY <3>1 DEF IInv, TimeInv
  <2>4. CASE SubtestBegins
    <3>1. CASE test = "download"
      <4>1. summary' = [[[summary EXCEPT !["download_speed"] = 0]
                            EXCEPT !["download_retrans"] = 0]
                            EXCEPT !["min_rtt"] = 0]
        BY <2>4, <3>1 DEF SubtestBegins
      <4> QED
        BY <2>1, <4>1 DEF Fields
    <3>2. CASE test # "download"
      <4>1. summary' = [summary EXCEPT !["upload_speed"] = 0]
        BY <2>4, <3>2 DEF SubtestBegins
      <4> QED
        BY <2>1, <4>1 DEF Fields
    <3> QED
      BY <3>1, <3>2
  <2>5. CASE RecvMeasurement
    <3>1. \/ summary' = summary
          \/ summary' = [summary EXCEPT !["download_retrans"] = i]
          \/ summary' = [[summary EXCEPT !["download_retrans"] = i]
                            EXCEPT !["min_rtt"] = i]
      BY <2>5 DEF RecvMeasurement
    <3> QED
      BY <2>1, <3>1 DEF Fields
  <2>6. CASE UploadMeasure
    BY <2>1, <2>6 DEF UploadMeasure, Fields
  <2>7. ~UNCHANGED summary
    OBVIOUS
  <2> QED
    BY <2>2, <2>3, <2>4, <2>5, <2>6, <2>7 DEF Next, Run, QueryLocateApi,
       SchemeNotFound, TryServer, TestOver, ConnectFails, DownloadCheck,
       RecvFails, RecvData, Counted, UploadSend, Tick, dataVars
<1> QED
  BY <1>1, RunInvariant, PTL DEF Spec, SpeedCoversBytes

\* run() is an implementation of RunPromise, as far as safety goes: servers in
\* their order, none after a success, no upload after a failed download, and a
\* verdict that follows from the attempts.
THEOREM RunKeepsPromise == Spec => P!Init /\ [][P!Next]_(P!vars)
<1> QED
  BY PromiseInit, PromiseStep, RunInvariant, PTL DEF Spec

=============================================================================
