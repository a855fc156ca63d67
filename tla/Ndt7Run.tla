------------------------------ MODULE Ndt7Run -------------------------------
(***************************************************************************)
(* Client::run(): the Locate query, the download loop over the servers,    *)
(* the upload loop over the servers, and the two subtests with their       *)
(* clocks, the messages of the server, and the summary they fill in.       *)
(*                                                                         *)
(* A summary field is represented by where its value comes from: Garbage   *)
(* (never assigned), 0 (reset), or the number of the server whose attempt  *)
(* wrote it.  Dialling is one step here (Connection has it in detail), and *)
(* so is one ws_recvmsg() or one send.  Such a call need not end: a server *)
(* that sends nothing but PINGs keeps ws_recvmsg() for ever.               *)
(***************************************************************************)
EXTENDS Integers, Sequences

CONSTANTS
    MaxTargets,      \* bound: how many servers Locate may return
    MaxRuntime,      \* settings_.max_runtime, in ticks
    UploadTime,      \* max_upload_time, in ticks
    Interval,        \* measurement_interval, in ticks
    MaxClock         \* bound: the clock stops here, past both deadlines

ASSUME ConstantsAssumption ==
    /\ MaxTargets \in Nat \ {0}
    /\ {MaxRuntime, UploadTime, Interval, MaxClock} \subseteq Nat
    /\ MaxClock > MaxRuntime /\ MaxClock > UploadTime

Tests == {"download", "upload"}
Targets == [Tests -> BOOLEAN]      \* has a URL for the subtest and the scheme
TargetLists == UNION {[1..n -> Targets] : n \in 1..MaxTargets}

Garbage == -1
Never == -1
Servers == 1..MaxTargets
Provenance == {Garbage, 0} \cup Servers
Fields == {"download_speed", "download_retrans", "min_rtt",
           "upload_speed", "upload_retrans"}

VARIABLES
    enabled,           \* settings_.nettest_flags
    targets,           \* what query_locate_api() returned
    pc,
    test, i,           \* which of the two loops of run(), at which server
    success,           \* local `success` of run()
    clock,             \* time since `begin` of the subtest
    elapsed, latest,   \* locals of the subtest
    bytesAt,           \* when `total` last grew
    summary,           \* summary_
    measurement,       \* measurement_ and connection_info_: 0 for nullptr
    connectionInfo,
    outcome,           \* history: how each attempt ended
    verdict            \* what run() returned

runVars == <<enabled, targets, test, i, success, outcome, verdict>>
timeVars == <<elapsed, latest, bytesAt>>
dataVars == <<summary, measurement, connectionInfo>>
vars == <<runVars, pc, clock, timeVars, dataVars>>

TypeOK ==
    /\ enabled \in SUBSET Tests
    /\ targets \in TargetLists \cup {<<>>}
    /\ pc \in {"locate", "select", "connect", "loop", "recv", "measure",
               "send", "over", "returned"}
    /\ test \in Tests
    /\ i \in 1..MaxTargets + 1
    /\ success \in BOOLEAN
    /\ {clock, elapsed, latest} \subseteq 0..MaxClock
    /\ bytesAt \in {Never} \cup 0..MaxClock
    /\ summary \in [Fields -> Provenance]
    /\ {measurement, connectionInfo} \subseteq {0} \cup Servers
    /\ outcome \in [Tests -> [Servers -> {"untried", "failed", "ok"}]]
    /\ verdict \in {"none", "true", "false"}

\* SummaryData has no initializer and the constructors do not set it.
Init ==
    /\ enabled \in SUBSET Tests
    /\ targets = <<>>
    /\ pc = "locate"
    /\ test = "download" /\ i = 1
    /\ success = TRUE
    /\ clock = 0 /\ elapsed = 0 /\ latest = 0 /\ bytesAt = Never
    /\ summary = [f \in Fields |-> Garbage]
    /\ measurement = 0 /\ connectionInfo = 0
    /\ outcome = [t \in Tests |-> [k \in Servers |-> "untried"]]
    /\ verdict = "none"

-----------------------------------------------------------------------------
(* run().                                                                  *)

QueryLocateApi ==
    /\ pc = "locate"
    /\ \/ targets' \in TargetLists /\ pc' = "select" /\ UNCHANGED verdict
       \/ verdict' = "false" /\ pc' = "returned" /\ UNCHANGED targets
    /\ UNCHANGED <<enabled, test, i, success, outcome, clock, timeVars, dataVars>>

InLoop == pc = "select" /\ test \in enabled /\ i <= Len(targets)

SchemeNotFound ==
    /\ InLoop
    /\ ~targets[i][test]
    /\ i' = i + 1
    /\ UNCHANGED <<enabled, targets, pc, test, success, outcome, verdict, clock,
                   timeVars, dataVars>>

TryServer ==
    /\ InLoop
    /\ targets[i][test]
    /\ pc' = "connect"
    /\ UNCHANGED <<runVars, clock, timeVars, dataVars>>

TestOver_IgnoresDownload ==
    /\ pc = "over" \/ (pc = "select" /\ ~InLoop)
    /\ IF test = "download"
         THEN /\ pc' = "select"
              /\ test' = "upload" /\ i' = 1
              /\ UNCHANGED verdict
         ELSE /\ pc' = "returned"
              /\ verdict' = IF success THEN "true" ELSE "false"
              /\ UNCHANGED <<test, i>>
    /\ UNCHANGED <<enabled, targets, success, outcome, clock, timeVars, dataVars>>

\* The end of a loop: no server left, a break, or a subtest not asked for.
TestOver ==
    /\ pc = "over" \/ (pc = "select" /\ ~InLoop)
    /\ IF success /\ test = "download"
         THEN /\ pc' = "select"
              /\ test' = "upload" /\ i' = 1
              /\ UNCHANGED verdict
         ELSE /\ pc' = "returned"
              /\ verdict' = IF success THEN "true" ELSE "false"
              /\ UNCHANGED <<test, i>>
    /\ UNCHANGED <<enabled, targets, success, outcome, clock, timeVars, dataVars>>

AttemptFails ==
    /\ success' = FALSE
    /\ outcome' = [outcome EXCEPT ![test][i] = "failed"]
    /\ i' = i + 1
    /\ pc' = "select"
    /\ UNCHANGED <<enabled, targets, test, verdict>>

AttemptSucceeds ==
    /\ success' = TRUE
    /\ outcome' = [outcome EXCEPT ![test][i] = "ok"]
    /\ pc' = "over"
    /\ UNCHANGED <<enabled, targets, test, i, verdict>>

\* compute_speed_kbits(): 0 without bytes or without time.
Speed(seconds) ==
    IF bytesAt = Never THEN {0} ELSE IF seconds = 0 THEN {0, i} ELSE {i}

-----------------------------------------------------------------------------
(* Both subtests begin with ndt7_connect() and then start their clock.     *)

ConnectFails ==
    /\ pc = "connect"
    /\ AttemptFails
    /\ UNCHANGED <<clock, timeVars, dataVars>>

SubtestBegins_KeepsRetrans ==
    /\ pc = "connect"
    /\ pc' = "loop"
    /\ clock' = 0 /\ elapsed' = 0 /\ latest' = 0 /\ bytesAt' = Never
    /\ summary' =
         IF test = "download"
           THEN [summary EXCEPT !.download_speed = 0, !.min_rtt = 0]
           ELSE [summary EXCEPT !.upload_speed = 0]
    /\ UNCHANGED <<runVars, measurement, connectionInfo>>

SubtestBegins ==
    /\ pc = "connect"
    /\ pc' = "loop"
    /\ clock' = 0 /\ elapsed' = 0 /\ latest' = 0 /\ bytesAt' = Never
    /\ summary' =
         IF test = "download"
           THEN [summary EXCEPT !.download_speed = 0, !.download_retrans = 0,
                                !.min_rtt = 0]
           ELSE [summary EXCEPT !.upload_speed = 0]
    /\ UNCHANGED <<runVars, measurement, connectionInfo>>

-----------------------------------------------------------------------------
(* ndt7_download().                                                        *)

DownloadCheck_NoDeadline ==
    /\ pc = "loop" /\ test = "download"
    /\ elapsed' = clock
    /\ pc' = "recv"
    /\ UNCHANGED <<runVars, clock, latest, bytesAt, dataVars>>

DownloadCheck_SamplesLate ==
    /\ pc = "loop" /\ test = "download"
    /\ elapsed' = IF clock > MaxRuntime THEN clock ELSE elapsed
    /\ IF clock > MaxRuntime
         THEN AttemptFails
         ELSE pc' = "recv" /\ UNCHANGED runVars
    /\ UNCHANGED <<clock, latest, bytesAt, dataVars>>

DownloadCheck ==
    /\ pc = "loop" /\ test = "download"
    /\ elapsed' = clock
    /\ IF clock > MaxRuntime
         THEN AttemptFails
         ELSE pc' = "recv" /\ UNCHANGED runVars
    /\ UNCHANGED <<clock, latest, bytesAt, dataVars>>

RecvFails ==
    /\ pc = "recv"
    /\ AttemptFails
    /\ UNCHANGED <<clock, timeVars, dataVars>>

\* The end of the stream ends the download well, whoever closed it and when.
RecvEof ==
    /\ pc = "recv"
    /\ \E speed \in Speed(elapsed) :
         summary' = [summary EXCEPT !.download_speed = speed]
    /\ AttemptSucceeds
    /\ UNCHANGED <<clock, timeVars, measurement, connectionInfo>>

\* `total` grows by what came, whatever it is.
Counted ==
    /\ bytesAt' = clock
    /\ pc' = "loop"
    /\ UNCHANGED <<runVars, clock, elapsed, latest>>

\* A binary message, or text that is not JSON.
RecvData ==
    /\ pc = "recv"
    /\ Counted
    /\ UNCHANGED dataVars

\* A measurement: ConnectionInfo may be missing, and the fields of TCPInfo are
\* read one after the other until one is missing or of another type.
RecvMeasurement ==
    /\ pc = "recv"
    /\ measurement' = i
    /\ connectionInfo' \in {connectionInfo, i}
    /\ summary' \in {summary,
                     [summary EXCEPT !.download_retrans = i],
                     [summary EXCEPT !.download_retrans = i, !.min_rtt = i]}
    /\ Counted

-----------------------------------------------------------------------------
(* ndt7_upload().                                                          *)

UploadCheck ==
    /\ pc = "loop" /\ test = "upload"
    /\ elapsed' = clock
    /\ IF clock > UploadTime
         THEN /\ \E speed \in Speed(clock) :
                   summary' = [summary EXCEPT !.upload_speed = speed]
              /\ AttemptSucceeds
         ELSE /\ pc' = IF clock - latest > Interval THEN "measure" ELSE "send"
              /\ UNCHANGED <<runVars, summary>>
    /\ UNCHANGED <<clock, latest, bytesAt, measurement, connectionInfo>>

\* TCP_INFO may not be there; the retransmission rate is written before the
\* measurement is sent, so also when sending it fails.
UploadMeasure ==
    /\ pc = "measure"
    /\ summary' \in {summary, [summary EXCEPT !.upload_retrans = i]}
    /\ \/ AttemptFails /\ UNCHANGED latest
       \/ pc' = "send" /\ latest' = elapsed /\ UNCHANGED runVars
    /\ UNCHANGED <<clock, elapsed, bytesAt, measurement, connectionInfo>>

UploadSend ==
    /\ pc = "send"
    /\ \/ AttemptFails /\ UNCHANGED bytesAt
       \/ pc' = "loop" /\ bytesAt' = clock /\ UNCHANGED runVars
    /\ UNCHANGED <<clock, elapsed, latest, dataVars>>

-----------------------------------------------------------------------------

Tick ==
    /\ pc \in {"loop", "recv", "measure", "send"}
    /\ clock < MaxClock
    /\ clock' = clock + 1
    /\ UNCHANGED <<runVars, pc, timeVars, dataVars>>

Run ==
    \/ QueryLocateApi
    \/ SchemeNotFound
    \/ TryServer
    \/ TestOver
    \/ ConnectFails
    \/ SubtestBegins
    \/ DownloadCheck
    \/ RecvFails
    \/ RecvEof
    \/ RecvData
    \/ RecvMeasurement
    \/ UploadCheck
    \/ UploadMeasure
    \/ UploadSend

Next == Run \/ Tick

\* Where run() waits for others: for the Locate API, a dial, a message or a
\* send.  Nothing here says that such a call ends.
Waiting == {"locate", "connect", "recv", "measure", "send"}

OwnStep == Run /\ pc \notin Waiting

\* Between those calls the client thread goes on, and time passes.
Spec == Init /\ [][Next]_vars /\ WF_vars(OwnStep) /\ WF_vars(Tick)

-----------------------------------------------------------------------------
(* Properties.                                                             *)

\* run() keeps its promise: the servers in order, none after the first
\* success, no upload after a failed download, and a verdict that follows from
\* the attempts, which it returns once they decide it.
P == INSTANCE RunPromise WITH
       enabled <- enabled, targets <- targets,
       outcome <- outcome, verdict <- verdict
Promise == P!Spec

\* run() returns unless one single call to the network never ends: also if a
\* server sends messages for ever or takes everything it is sent, by the
\* deadlines of both subtests, checked at the head of their loops.  A deadline
\* does not end a call: one ws_recvmsg() may answer PINGs, or one ws_recvln()
\* of a dial skip carriage returns, for ever (RecvmsgEnds in WsRecv, DialEnds
\* in WsDial, OperationEnds in NetIo and TlsIo say when they do end).
Returns == <>(verdict # "none") \/ \E call \in Waiting : <>[](pc = call)

\* After a download that failed on one server and succeeded on the next, what
\* the summary says of the download is only about the second; and it has a
\* MinRTT only with a retransmission rate of the same server.
SummaryFromWinner ==
    \A k \in Servers :
      /\ outcome["download"][k] = "ok" =>
           /\ {summary.download_speed, summary.download_retrans} \subseteq {0, k}
           /\ summary.min_rtt \in {0, summary.download_retrans}
      /\ outcome["upload"][k] = "ok" => summary.upload_speed \in {0, k}

\* A speed never counts bytes that came or went after the time they are
\* divided by was taken.
SpeedCoversBytes ==
    [][\A f \in {"download_speed", "upload_speed"} :
         summary'[f] \in Servers /\ summary'[f] # summary[f]
           => bytesAt <= elapsed']_vars

\* "After running a successful test with `run`, `get_summary` returns the test
\* summary metrics.": after a run that succeeded, with at least one subtest
\* completed, each of them was assigned.
SummaryAssigned ==
    verdict = "true" /\ (\E t \in Tests, k \in Servers : outcome[t][k] = "ok")
      => \A f \in Fields : summary[f] # Garbage

\* BatchClient::summary() dereferences connection_info_ when the download has
\* a speed and measurement_ is set.
BatchSummaryReadable ==
    verdict = "true" /\ summary.download_speed # 0 /\ measurement # 0
      => connectionInfo # 0

=============================================================================
