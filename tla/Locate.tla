------------------------------- MODULE Locate -------------------------------
(***************************************************************************)
(* query_locate_api(): either the static answer built from the settings,   *)
(* or a request to the Locate API through the curl wrapper, where each of  *)
(* the calls that set it up may fail, followed by the reading of the JSON  *)
(* answer.  ClientMain drives this module; the settings are its.           *)
(*                                                                         *)
(* Of the answer only what run() looks at is modelled: the results with an *)
(* object of URLs, for which schemes and subtests that has a member, and   *)
(* whether the members are strings.  A host name and a port given by the   *)
(* user have no character that means something in a JSON string, so that   *)
(* the static answer is JSON; but they may contain the placeholder that    *)
(* they are to replace.                                                    *)
(***************************************************************************)
EXTENDS Integers, Sequences, FiniteSets

CONSTANT MaxTargets      \* bound: how many results with URLs Locate returns

ASSUME MaxTargetsAssumption == MaxTargets \in Nat \ {0}

Tests == {"download", "upload"}
Schemes == {"ws", "wss"}
Urls == SUBSET (Schemes \X Tests)

\* A member of "results" that has "urls"; the others are skipped.  A value of
\* "urls" with members, but none that run() looks for, has no URLs here; one
\* without members, or no object, is empty.
Results ==
    [urls : Urls, strings : {TRUE}, empty : {FALSE}]
      \cup [urls : Urls \ {{}}, strings : {FALSE}, empty : {FALSE}]
      \cup [urls : {{}}, strings : {TRUE}, empty : {TRUE}]

NoQuery == [priority |-> FALSE, params |-> <<>>]

VARIABLES
    hostname, proxy, verbose,    \* settings: given or not
    selfReplacing,               \* settings_.hostname or settings_.port
                                 \* contains its own placeholder
    scheme,                      \* settings_.scheme
    metadata,                    \* settings_.metadata: who set the value
    pc,
    query,                       \* history: the request that was built
    handle,                      \* the curl handle
    opts,                        \* the options set on it, in order
    received,                    \* what the write callback has put together
    code,                        \* response code
    body,                        \* `body` of query_locate_api()
    urls                         \* *urls

settingsVars == <<hostname, proxy, verbose, selfReplacing, scheme, metadata>>
locateVars == <<query, handle, opts, received, code, body, urls>>

LocateInit ==
    /\ query = NoQuery
    /\ handle = "none" /\ opts = <<>>
    /\ received = "none" /\ code = 0 /\ body = "none"
    /\ urls = <<>>

-----------------------------------------------------------------------------
(* Where the answer comes from.                                            *)

\* get_static_locate_result(): one machine, both subtests, the given scheme.
StaticAnswer ==
    [urls |-> {scheme} \X Tests, strings |-> TRUE, empty |-> FALSE]

QueryStatic ==
    /\ pc = "locate"
    /\ hostname
    /\ ~selfReplacing
    /\ urls' = <<StaticAnswer>>
    /\ pc' = "run"
    /\ UNCHANGED <<settingsVars, query, handle, opts, received, code, body>>

\* replace_all_with() searches on where it has just replaced, so it finds the
\* placeholder again in what it has put there: for ever, or until the growing
\* string cannot be allocated, in a function that may not throw.
ReplaceForever ==
    /\ pc = "locate"
    /\ hostname
    /\ selfReplacing
    /\ pc' = "crashed"
    /\ UNCHANGED <<settingsVars, locateVars>>

\* The path for registered clients if there is a key, and all the metadata.
QueryLocate ==
    /\ pc = "locate"
    /\ ~hostname
    /\ query' = [priority |-> metadata["key"] # "absent", params |-> metadata]
    /\ pc' = "new_handle"
    /\ UNCHANGED <<settingsVars, handle, opts, received, code, body, urls>>

-----------------------------------------------------------------------------
(* Curlx::GetMaybeSOCKS5() and Curlx::Get().                               *)

Options ==
    (IF proxy THEN <<"proxy">> ELSE <<>>)
    \o <<"url", "write_function", "write_data", "user_agent", "timeout",
         "fail_on_error">>

IsSet(option) == \E k \in 1..Len(opts) : opts[k] = option

\* On every return the destructor of UniqueCurl cleans the handle up.
GetFails ==
    /\ pc' = "locate_failed"
    /\ handle' = IF handle = "open" THEN "freed" ELSE handle
    /\ UNCHANGED <<code, body>>

NewHandle ==
    /\ pc = "new_handle"
    /\ \/ handle' = "open" /\ pc' = "setopt" /\ UNCHANGED <<code, body>>
       \/ GetFails
    /\ UNCHANGED <<settingsVars, query, opts, received, urls>>

Setopt_Unchecked ==
    /\ pc = "setopt"
    /\ opts' \in {Append(opts, Options[Len(opts) + 1]), Append(opts, "unset")}
    /\ pc' = IF Len(opts') = Len(Options) THEN "perform" ELSE "setopt"
    /\ UNCHANGED <<settingsVars, query, handle, received, code, body, urls>>

Setopt_Leaks ==
    /\ pc = "setopt"
    /\ \/ /\ opts' = Append(opts, Options[Len(opts) + 1])
          /\ pc' = IF Len(opts') = Len(Options) THEN "perform" ELSE "setopt"
          /\ UNCHANGED handle
       \/ pc' = "locate_failed" /\ UNCHANGED <<opts, handle>>
    /\ UNCHANGED <<settingsVars, query, received, code, body, urls>>

Setopt ==
    /\ pc = "setopt"
    /\ \/ /\ opts' = Append(opts, Options[Len(opts) + 1])
          /\ pc' = IF Len(opts') = Len(Options) THEN "perform" ELSE "setopt"
          /\ UNCHANGED <<handle, code, body>>
       \/ GetFails /\ UNCHANGED opts
    /\ UNCHANGED <<settingsVars, query, received, urls>>

\* curl_easy_perform() gets a whole answer, or the transfer breaks off; with
\* FAILONERROR a code of 400 or more is a failure too.
Perform ==
    /\ pc = "perform"
    /\ \/ /\ received' = "whole"
          /\ code' \in {200, 204, 302}
                \cup (IF IsSet("fail_on_error") THEN {} ELSE {404})
          /\ pc' = "response"
          /\ UNCHANGED <<handle, body>>
       \/ received' \in {"none", "part"} /\ GetFails
    /\ UNCHANGED <<settingsVars, query, opts, urls>>

\* ... or the time of CURLOPT_TIMEOUT is over.
PerformTimesOut ==
    /\ pc = "perform"
    /\ IsSet("timeout")
    /\ received' \in {"none", "part"}
    /\ GetFails
    /\ UNCHANGED <<settingsVars, query, opts, urls>>

ResponseCode_NoCheck ==
    /\ pc = "response"
    /\ body' = received /\ handle' = "freed" /\ pc' = "parse"
    /\ UNCHANGED <<settingsVars, query, opts, received, code, urls>>

\* Only 200 is good; 204 says that the service is out of capacity.
ResponseCode ==
    /\ pc = "response"
    /\ \/ /\ code = 200
          /\ body' = received /\ handle' = "freed" /\ pc' = "parse"
          /\ UNCHANGED code
       \/ GetFails                   \* another code, or curl_easy_getinfo()
    /\ UNCHANGED <<settingsVars, query, opts, received, urls>>

-----------------------------------------------------------------------------
(* The answer.                                                             *)

\* Not JSON, or without "results".
ParseFails ==
    /\ pc = "parse"
    /\ pc' = "locate_failed"
    /\ UNCHANGED <<settingsVars, locateVars>>

ParseBody ==
    /\ pc = "parse"
    /\ pc' = "results"
    /\ UNCHANGED <<settingsVars, locateVars>>

\* With debug messages on, the first member is looked up.  If there is none, its
\* iterator is the end, and what comes of reading that is undefined; if there
\* is no object, a key is asked of what has none: in a function that may not
\* throw.
TakeResult ==
    /\ pc = "results"
    /\ Len(urls) < MaxTargets
    /\ \E result \in Results :
         \/ urls' = Append(urls, result) /\ UNCHANGED pc
         \/ verbose /\ result.empty /\ pc' = "crashed" /\ UNCHANGED urls
    /\ UNCHANGED <<settingsVars, query, handle, opts, received, code, body>>

\* urls->size() > 0
ResultsEnd ==
    /\ pc = "results"
    /\ pc' = IF urls # <<>> THEN "run" ELSE "locate_failed"
    /\ UNCHANGED <<settingsVars, locateVars>>

\* All but what waits for the Locate service or loops for ever.
LocateStep ==
    \/ QueryStatic
    \/ QueryLocate
    \/ NewHandle
    \/ Setopt
    \/ PerformTimesOut
    \/ ResponseCode
    \/ ParseFails
    \/ ParseBody
    \/ TakeResult
    \/ ResultsEnd

=============================================================================
