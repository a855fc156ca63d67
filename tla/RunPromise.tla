----------------------------- MODULE RunPromise -----------------------------
(***************************************************************************)
(* What Client::run() promises its caller, without sockets, messages or    *)
(* time: servers are tried in the order the Locate API gave them, one at a *)
(* time, until one completes the subtest; the upload starts only after the *)
(* download has not failed; and the verdict follows from the attempts.     *)
(***************************************************************************)
EXTENDS Naturals, Sequences

CONSTANT MaxTargets       \* bound: how many servers Locate may return

Tests == {"download", "upload"}
Targets == [Tests -> BOOLEAN]      \* which subtests a server has a URL for
TargetLists == UNION {[1..n -> Targets] : n \in 1..MaxTargets}

VARIABLES
    enabled,      \* the subtests the settings ask for
    targets,      \* the servers, in order; empty before Locate has answered
    outcome,      \* how each attempt ended
    verdict       \* what run() returned: "none", "true" or "false"

vars == <<enabled, targets, outcome, verdict>>

Offers(test) == {i \in 1..Len(targets) : targets[i][test]}
Completed(test) == \E i \in 1..MaxTargets : outcome[test][i] = "ok"

\* The subtest did not fail.  One that no server offers has not failed.
Settled(test) ==
    test \notin enabled \/ Offers(test) = {} \/ Completed(test)

Exhausted(test) ==
    /\ test \in enabled
    /\ Offers(test) # {}
    /\ \A i \in Offers(test) : outcome[test][i] = "failed"

Init ==
    /\ enabled \in SUBSET Tests
    /\ targets = <<>>
    /\ outcome = [test \in Tests |-> [i \in 1..MaxTargets |-> "untried"]]
    /\ verdict = "none"

Locate ==
    /\ verdict = "none"
    /\ targets = <<>>
    /\ \/ targets' \in TargetLists /\ UNCHANGED verdict
       \/ verdict' = "false" /\ UNCHANGED targets
    /\ UNCHANGED <<enabled, outcome>>

\* Server i is the next one to try for the subtest.
MayAttempt(test, i) ==
    /\ verdict = "none"
    /\ test \in enabled
    /\ i \in Offers(test)
    /\ outcome[test][i] = "untried"
    /\ \A j \in Offers(test) : j < i => outcome[test][j] = "failed"
    /\ test = "upload" => Settled("download")

Attempt(test, i, result) ==
    /\ MayAttempt(test, i)
    /\ outcome' = [outcome EXCEPT ![test][i] = result]
    /\ UNCHANGED <<enabled, targets, verdict>>

Return ==
    /\ verdict = "none"
    /\ targets # <<>>
    /\ \/ verdict' = "true" /\ \A test \in Tests : Settled(test)
       \/ verdict' = "false" /\ Exhausted("download")
       \/ verdict' = "false" /\ Settled("download") /\ Exhausted("upload")
    /\ UNCHANGED <<enabled, targets, outcome>>

Next ==
    \/ Locate
    \/ \E test \in Tests, i \in 1..MaxTargets, result \in {"ok", "failed"} :
         Attempt(test, i, result)
    \/ Return

\* Neither the Locate API nor an attempt is promised to end; but once the
\* attempts have decided the verdict, run() returns it.
Spec == Init /\ [][Next]_vars /\ WF_vars(Return)

=============================================================================
