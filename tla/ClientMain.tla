----------------------------- MODULE ClientMain -----------------------------
(***************************************************************************)
(* The program: main() reads the command line into the settings, checks    *)
(* them, creates the client and runs it; run() asks Locate and then keeps  *)
(* the promise of RunPromise (which Ndt7Run is shown to implement); the    *)
(* verdict becomes the exit status.                                        *)
(*                                                                         *)
(* The options come in the order in which the option parser hands them     *)
(* over, by name.  Those that only carry a text further (-user-agent,      *)
(* -batch and the like) are read and have no effect here.                  *)
(***************************************************************************)
EXTENDS Locate

VARIABLES
    next,            \* position in the list of options
    enabled,         \* settings.nettest_flags
    tls,             \* settings.protocol_flags has protocol_flag_tls
    outcome,         \* history: how each attempt of run() ended
    verdict,         \* what run() returned
    exit             \* exit status

optionVars == <<next, enabled, tls>>
runVars == <<outcome, verdict>>
vars == <<settingsVars, locateVars, pc, optionVars, runVars, exit>>

Flags == <<"batch", "download", "help", "insecure", "summary", "upload",
           "verbose", "version">>
Params == <<"ca-bundle-path", "hostname", "locate-api-key", "locate-api-url",
            "locate-params", "lookup-policy", "port", "scheme", "socks5h",
            "user-agent">>

\* Members of metadata: one that main() sets and the key.
Init ==
    /\ hostname = FALSE /\ proxy = FALSE /\ verbose = FALSE
    /\ selfReplacing = FALSE
    /\ scheme = "wss"
    /\ metadata = [name \in {"client_name", "key"} |-> "absent"]
    /\ pc = "flags" /\ next = 1
    /\ enabled = {} /\ tls = FALSE
    /\ outcome = [test \in Tests |-> [k \in 1..MaxTargets |-> "untried"]]
    /\ verdict = "none" /\ exit = "none"
    /\ LocateInit

-----------------------------------------------------------------------------
(* The command line.                                                       *)

Exit(status) ==
    /\ exit' = status
    /\ pc' = "exited"

\* The option is done: the next one, and the parameters behind the flags.
Advance ==
    /\ next' = IF pc = "flags" /\ next = Len(Flags) THEN 1 ELSE next + 1
    /\ pc' = IF pc = "flags" /\ next = Len(Flags) THEN "params"
             ELSE IF pc = "params" /\ next = Len(Params) THEN "check"
             ELSE pc

Given(list, option) ==
    /\ pc = list
    /\ option = (IF list = "flags" THEN Flags[next] ELSE Params[next])

NotGiven ==
    /\ pc \in {"flags", "params"}
    /\ Advance
    /\ UNCHANGED <<settingsVars, locateVars, enabled, tls, runVars, exit>>

TestFlag ==
    /\ \E test \in Tests : Given("flags", test) /\ enabled' = enabled \cup {test}
    /\ Advance
    /\ UNCHANGED <<settingsVars, locateVars, tls, runVars, exit>>

VerboseFlag ==
    /\ Given("flags", "verbose")
    /\ verbose' = TRUE
    /\ Advance
    /\ UNCHANGED <<hostname, proxy, selfReplacing, scheme, metadata, locateVars,
                   enabled, tls, runVars, exit>>

InfoFlag ==
    /\ Given("flags", "help") \/ Given("flags", "version")
    /\ Exit("success")
    /\ UNCHANGED <<settingsVars, locateVars, optionVars, runVars>>

\* An unknown flag anywhere; lookup-policy is announced to the option parser
\* but main() does not know it.
UnknownOption ==
    /\ pc = "flags" \/ Given("params", "lookup-policy")
    /\ Exit("failure")
    /\ UNCHANGED <<settingsVars, locateVars, optionVars, runVars>>

\* A parameter given with a value that is not empty.
HostnameParam ==
    /\ Given("params", "hostname")
    /\ hostname' = TRUE
    /\ selfReplacing' \in {selfReplacing, TRUE}
    /\ Advance
    /\ UNCHANGED <<proxy, verbose, scheme, metadata, locateVars,
                   enabled, tls, runVars, exit>>

PortParam ==
    /\ Given("params", "port")
    /\ selfReplacing' \in {selfReplacing, TRUE}
    /\ Advance
    /\ UNCHANGED <<hostname, proxy, verbose, scheme, metadata, locateVars,
                   enabled, tls, runVars, exit>>

SchemeParam ==
    /\ Given("params", "scheme")
    /\ scheme' \in Schemes \cup {"other"}
    /\ Advance
    /\ UNCHANGED <<hostname, proxy, verbose, selfReplacing, metadata, locateVars,
                   enabled, tls, runVars, exit>>

ProxyParam ==
    /\ Given("params", "socks5h")
    /\ proxy' = TRUE
    /\ Advance
    /\ UNCHANGED <<hostname, verbose, selfReplacing, scheme, metadata, locateVars,
                   enabled, tls, runVars, exit>>

\* locate-params is taken apart at commas and equal signs with getNextToken(),
\* and may set any member of the metadata.
MetadataParam ==
    /\ \E names \in SUBSET DOMAIN metadata :
         /\ \/ Given("params", "locate-api-key") /\ names = {"key"}
            \/ Given("params", "locate-params")
         /\ metadata' = [name \in DOMAIN metadata |->
                           IF name \in names THEN "user" ELSE metadata[name]]
    /\ Advance
    /\ UNCHANGED <<hostname, proxy, verbose, selfReplacing, scheme, locateVars,
                   enabled, tls, runVars, exit>>

CheckOptions_NoTls ==
    /\ pc = "check"
    /\ UNCHANGED tls
    /\ metadata' = [metadata EXCEPT !["client_name"] = "main"]
    /\ \/ Exit("failure")
       \/ scheme # "other" /\ enabled # {} /\ pc' = "locate" /\ UNCHANGED exit
    /\ UNCHANGED <<hostname, proxy, verbose, selfReplacing, scheme, locateVars,
                   next, enabled, runVars>>

\* The scheme, the number of positional arguments (any), the client's name in
\* the metadata whatever the user put there, and at least one subtest.
CheckOptions ==
    /\ pc = "check"
    /\ tls' = (scheme = "wss")
    /\ metadata' = [metadata EXCEPT !["client_name"] = "main"]
    /\ \/ Exit("failure")
       \/ scheme # "other" /\ enabled # {} /\ pc' = "locate" /\ UNCHANGED exit
    /\ UNCHANGED <<hostname, proxy, verbose, selfReplacing, scheme, locateVars,
                   next, enabled, runVars>>

-----------------------------------------------------------------------------
(* run(), behind query_locate_api(), and the end of main().                *)

\* The scheme of the URLs that run() looks for follows the TLS flag.
RunScheme == IF tls THEN "wss" ELSE "ws"

Offered ==
    [k \in 1..Len(urls) |-> [test \in Tests |-> <<RunScheme, test>> \in urls[k].urls]]

P == INSTANCE RunPromise WITH targets <- Offered

LocateFails_Retries ==
    /\ pc = "locate_failed"
    /\ pc' = "locate"
    /\ opts' = <<>>
    /\ UNCHANGED <<settingsVars, query, handle, received, code, body, urls,
                   optionVars, runVars, exit>>

LocateFails ==
    /\ pc = "locate_failed"
    /\ verdict' = "false"
    /\ Exit("failure")
    /\ UNCHANGED <<settingsVars, locateVars, optionVars, outcome>>

Attempt ==
    /\ pc = "run"
    /\ UNCHANGED <<settingsVars, locateVars, pc, optionVars, exit>>
    /\ \E test \in Tests, k \in 1..Len(urls), result \in {"ok", "failed"} :
         urls[k].strings /\ P!Attempt(test, k, result)

\* A URL that is not a JSON string does not convert to one, in a function that
\* may not throw.
AttemptOfNoString ==
    /\ pc = "run"
    /\ \E test \in Tests, k \in 1..Len(urls) :
         ~urls[k].strings /\ P!MayAttempt(test, k)
    /\ pc' = "crashed"
    /\ UNCHANGED <<settingsVars, locateVars, optionVars, runVars, exit>>

Return ==
    /\ pc = "run"
    /\ UNCHANGED <<settingsVars, locateVars, optionVars>>
    /\ P!Return
    /\ Exit(IF verdict' = "true" THEN "success" ELSE "failure")

Step ==
    \/ NotGiven
    \/ TestFlag
    \/ VerboseFlag
    \/ InfoFlag
    \/ UnknownOption
    \/ HostnameParam
    \/ PortParam
    \/ SchemeParam
    \/ ProxyParam
    \/ MetadataParam
    \/ CheckOptions
    \/ LocateStep /\ UNCHANGED <<optionVars, runVars, exit>>
    \/ LocateFails
    \/ AttemptOfNoString
    \/ Return

Next ==
    \/ Step
    \/ Perform /\ UNCHANGED <<optionVars, runVars, exit>>
    \/ ReplaceForever /\ UNCHANGED <<optionVars, runVars, exit>>
    \/ Attempt

\* The program runs, and the request to the Locate service ends if it has a
\* timeout.  Nothing is assumed of what need not end: that the service ever
\* answers, that replace_all_with() does, or that an attempt does (Returns in
\* Ndt7Run says what that takes).
Spec == Init /\ [][Next]_vars /\ WF_vars(Step)

-----------------------------------------------------------------------------
(* Properties.                                                             *)

\* Types; and the curl handle is freed however the query ends.
TypeOK ==
    /\ {hostname, proxy, verbose, selfReplacing, tls} \subseteq BOOLEAN
    /\ scheme \in Schemes \cup {"other"}
    /\ metadata \in [{"client_name", "key"} -> {"absent", "user", "main"}]
    /\ pc \in {"flags", "params", "check", "locate", "new_handle", "setopt",
              "perform", "response", "parse", "results", "locate_failed", "run",
              "crashed", "exited"}
    /\ handle \in {"none", "open", "freed"}
    /\ handle = "open" => pc \in {"setopt", "perform", "response"}
    /\ received \in {"none", "part", "whole"} /\ body \in {"none", "part", "whole"}
    /\ code \in {0, 200, 204, 302}
    /\ urls \in Seq(Results) /\ Len(urls) <= MaxTargets
    /\ enabled \subseteq Tests
    /\ outcome \in [Tests -> [1..MaxTargets -> {"untried", "failed", "ok"}]]
    /\ verdict \in {"none", "true", "false"}
    /\ exit \in {"none", "success", "failure"}

\* With a server named on the command line, success means that each subtest
\* that was asked for was run on it: the options, the TLS flag that follows
\* from the scheme, the keys of the static answer and those that run() looks
\* for all agree.  (Without a server named, run() may find no URL and succeed.)
StaticServerTested ==
    verdict = "true" /\ hostname =>
      \A test \in enabled : outcome[test][1] = "ok"

\* run() works on servers of the static answer or of a whole answer with code
\* 200, never on what a broken transfer or an error page left behind.
AnswerWhole ==
    /\ body # "none" => body = "whole" /\ code = 200
    /\ urls # <<>> => hostname \/ body = "whole"

\* The Locate service is asked as the user wants it: "If non empty, all DNS and
\* TCP traffic should be tunnelled over such port", so never before the proxy is
\* set; under the name of this client even if the user's own parameters say
\* another one; and as for a registered client only with a key.
QueryAsConfigured ==
    /\ pc \in {"perform", "response", "parse", "results"} /\ proxy => IsSet("proxy")
    /\ query.params # <<>> =>
         /\ query.params["client_name"] = "main"
         /\ query.priority <=> query.params["key"] = "user"

\* The program ends, by exit() or in a crash, whatever the Locate service does,
\* in all but two cases: replace_all_with() is given a host name or a port that
\* contains its own placeholder; or one of the attempts that are due never
\* ends.
Ends ==
    \/ <>(pc \in {"exited", "crashed"})
    \/ <>[](pc = "locate" /\ hostname /\ selfReplacing)
    \/ <>[](pc = "run" /\ \E test \in Tests, k \in 1..MaxTargets :
                            P!MayAttempt(test, k))

=============================================================================
