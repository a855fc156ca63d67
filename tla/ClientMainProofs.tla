-------------------------- MODULE ClientMainProofs ---------------------------
(* Proofs about the program, for every number of results that the Locate     *)
(* service may return: what the options and the answer make of run().        *)
EXTENDS ClientMain, TLAPS

-----------------------------------------------------------------------------
(* The inductive invariant.                                                 *)

Reading == {"flags", "params", "check"}
Asking == {"new_handle", "setopt", "perform", "response", "parse", "results"}
Done == {"exited", "crashed"}

\* The option names that Curlx::Get() sets.
OptionNames == {"proxy", "url", "write_function", "write_data", "user_agent",
                "timeout", "fail_on_error"}

Types ==
    /\ TypeOK
    /\ opts \in Seq(OptionNames)
    /\ metadata["key"] \in {"absent", "user"}

\* What main() has settled when it creates the client.
SettingsInv ==
    pc \in {"locate", "locate_failed", "run"} \cup Asking =>
      /\ scheme \in Schemes /\ tls = (scheme = "wss")
      /\ metadata["client_name"] = "main"

\* Where the query has got.
QueryInv ==
    /\ pc \in Reading \cup {"locate", "new_handle"} => opts = <<>>
    /\ pc \in Asking => ~hostname
    /\ pc \in Reading \cup {"locate", "new_handle", "setopt", "perform", "response"}
         => body = "none" /\ urls = <<>>
    /\ pc = "response" => received = "whole"
    /\ pc \in {"parse", "results"} => body = "whole"

\* The options set so far are the first ones of the list.
OptsInv ==
    /\ pc \in {"setopt", "perform", "response", "parse", "results"} =>
         \A k \in 1..Len(opts) : opts[k] = Options[k]
    /\ pc = "setopt" => Len(opts) < Len(Options)
    /\ pc \in {"perform", "response", "parse", "results"} =>
         Len(opts) = Len(Options)

\* The request says what the settings do.
ParamsInv ==
    query.params # <<>> =>
      /\ query.params["client_name"] = "main"
      /\ query.priority <=> query.params["key"] = "user"

\* Only run() makes attempts, and on servers that it was given.
RunInv ==
    /\ pc = "run" => urls # <<>>
    /\ pc = "run" /\ hostname => urls = <<StaticAnswer>>
    /\ verdict # "none" => pc = "exited"
    /\ \A test \in Tests, k \in 1..MaxTargets :
         outcome[test][k] # "untried" => k <= Len(urls) /\ pc \in {"run"} \cup Done

IInv ==
    /\ Types /\ SettingsInv /\ QueryInv /\ OptsInv /\ ParamsInv /\ RunInv
    /\ StaticServerTested /\ AnswerWhole

-----------------------------------------------------------------------------
(* The options of the request.                                              *)

LEMMA ConcatElements ==
  ASSUME NEW S, NEW s \in Seq(S), NEW t \in Seq(S)
  PROVE  /\ s \o t \in Seq(S) /\ Len(s \o t) = Len(s) + Len(t)
         /\ \A k \in 1..Len(s) : (s \o t)[k] = s[k]
         /\ \A k \in 1..Len(t) : (s \o t)[Len(s) + k] = t[k]
  OBVIOUS

\* The proxy, if there is one, is the first option, and FAILONERROR the last.
LEMMA OptionsFacts ==
  ASSUME proxy \in BOOLEAN
  PROVE  /\ Options \in Seq(OptionNames) /\ Len(Options) \in {6, 7}
         /\ proxy => Options[1] = "proxy"
         /\ Options[Len(Options) - 1] = "timeout"
         /\ Options[Len(Options)] = "fail_on_error"
<1> DEFINE first == IF proxy THEN <<"proxy">> ELSE <<>>
           rest  == <<"url", "write_function", "write_data", "user_agent",
                      "timeout", "fail_on_error">>
<1>1. /\ first \in Seq(OptionNames) /\ Len(first) \in {0, 1}
      /\ proxy => Len(first) = 1 /\ first[1] = "proxy"
  <2>1. CASE proxy
    BY <2>1 DEF OptionNames
  <2>2. CASE ~proxy
    BY <2>2 DEF OptionNames
  <2> QED
    BY <2>1, <2>2
<1>2. /\ rest \in Seq(OptionNames) /\ Len(rest) = 6
      /\ rest[5] = "timeout" /\ rest[6] = "fail_on_error"
  BY DEF OptionNames
<1>3. Options = first \o rest
  BY DEF Options
<1> HIDE DEF first, rest
<1>4. /\ first \o rest \in Seq(OptionNames)
      /\ Len(first \o rest) = Len(first) + 6
      /\ \A k \in 1..Len(first) : (first \o rest)[k] = first[k]
      /\ \A k \in 1..6 : (first \o rest)[Len(first) + k] = rest[k]
  <2>1. \A s, t \in Seq(OptionNames) :
          /\ s \o t \in Seq(OptionNames) /\ Len(s \o t) = Len(s) + Len(t)
          /\ \A k \in 1..Len(s) : (s \o t)[k] = s[k]
          /\ \A k \in 1..Len(t) : (s \o t)[Len(s) + k] = t[k]
    BY ConcatElements
  <2>2. first \in Seq(OptionNames) /\ rest \in Seq(OptionNames)
    BY <1>1, <1>2
  <2>3. /\ first \o rest \in Seq(OptionNames)
        /\ Len(first \o rest) = Len(first) + Len(rest)
        /\ \A k \in 1..Len(first) : (first \o rest)[k] = first[k]
        /\ \A k \in 1..Len(rest) : (first \o rest)[Len(first) + k] = rest[k]
    BY <2>1, <2>2, Zenon
  <2> QED
    BY <1>2, <2>3
<1>5. /\ Options \in Seq(OptionNames) /\ Len(Options) = Len(first) + 6
      /\ Options[Len(first) + 5] = rest[5] /\ Options[Len(first) + 6] = rest[6]
      /\ Len(first) = 1 => Options[1] = first[1]
  BY <1>1, <1>3, <1>4
<1>6. Len(first) + 6 = Len(Options) /\ Len(first) + 5 = Len(Options) - 1
  BY <1>1, <1>5
<1>7. /\ Options[Len(Options) - 1] = "timeout"
      /\ Options[Len(Options)] = "fail_on_error"
  BY <1>2, <1>5, <1>6
<1>8. Len(Options) \in {6, 7}
  <2>1. CASE Len(first) = 0
    BY <2>1, <1>5
  <2>2. CASE Len(first) = 1
    BY <2>2, <1>5
  <2> QED
    BY <2>1, <2>2, <1>1
<1>9. proxy => Options[1] = "proxy"
  BY <1>1, <1>5
<1> QED
  BY <1>5, <1>7, <1>8, <1>9

\* The list is what the settings say it is, and they do not change any more.
LEMMA OptionsStay ==
  ASSUME UNCHANGED settingsVars
  PROVE  Options' = Options
BY DEF Options, settingsVars

\* Behind the last option the proxy, if there is one, and FAILONERROR are set.
LEMMA AllOptionsSet ==
  ASSUME IInv, pc \in {"perform", "response", "parse", "results"}
  PROVE  IsSet("fail_on_error") /\ (proxy => IsSet("proxy"))
<1>1. /\ opts \in Seq(OptionNames) /\ Len(opts) = Len(Options)
      /\ \A k \in 1..Len(opts) : opts[k] = Options[k]
  BY DEF IInv, Types, OptsInv
<1>2. /\ proxy => Options[1] = "proxy"
      /\ Options[Len(Options)] = "fail_on_error" /\ Len(Options) \in {6, 7}
  BY OptionsFacts DEF IInv, Types, TypeOK
<1> QED
  BY <1>1, <1>2 DEF IsSet

-----------------------------------------------------------------------------
(* The command line.                                                        *)

LEMMA InvInit == Init => IInv
<1> SUFFICES ASSUME Init PROVE IInv
  OBVIOUS
<1> USE MaxTargetsAssumption DEF Init, LocateInit
<1>1. TypeOK
  <2>1. outcome \in [Tests -> [1..MaxTargets -> {"untried", "failed", "ok"}]]
    OBVIOUS
  <2>2. metadata \in [{"client_name", "key"} -> {"absent", "user", "main"}]
    OBVIOUS
  <2>3. urls \in Seq(Results) /\ Len(urls) <= MaxTargets
    OBVIOUS
  <2>4. scheme \in Schemes \cup {"other"}
    BY DEF Schemes
  <2> QED
    BY <2>1, <2>2, <2>3, <2>4 DEF TypeOK
<1>2. Types
  BY <1>1 DEF Types
<1>3. SettingsInv /\ QueryInv /\ OptsInv
  BY DEF SettingsInv, QueryInv, OptsInv, Reading, Asking
<1>4. ParamsInv /\ RunInv
  BY DEF ParamsInv, RunInv, NoQuery, Tests
<1>5. StaticServerTested /\ AnswerWhole
  BY DEF StaticServerTested, AnswerWhole
<1> QED
  BY <1>2, <1>3, <1>4, <1>5 DEF IInv

\* As long as options are read only the settings change.
LEMMA WhileReading ==
  ASSUME IInv, pc \in {"flags", "params"}, pc' \in Reading \cup {"exited"},
         UNCHANGED <<locateVars, runVars>>,
         {hostname', proxy', verbose', selfReplacing', tls'} \subseteq BOOLEAN,
         scheme' \in Schemes \cup {"other"},
         metadata' \in [{"client_name", "key"} -> {"absent", "user", "main"}],
         metadata'["key"] \in {"absent", "user"},
         enabled' \subseteq Tests, exit' \in {"none", "success", "failure"}
  PROVE  IInv'
<1> USE DEF locateVars, runVars, Reading
<1>1. TypeOK /\ opts \in Seq(OptionNames)
  BY DEF IInv, Types
<1>2. handle # "open"
  BY <1>1 DEF TypeOK
<1>3. Types'
  BY <1>1, <1>2 DEF Types, TypeOK
<1>4. opts = <<>> /\ body = "none" /\ urls = <<>> /\ verdict = "none"
  BY DEF IInv, QueryInv, RunInv
<1>5. SettingsInv' /\ QueryInv' /\ OptsInv'
  BY <1>4 DEF SettingsInv, QueryInv, OptsInv, Asking
<1>6. ParamsInv' /\ RunInv'
  <2>1. ParamsInv'
    BY DEF IInv, ParamsInv
  <2>2. \A test \in Tests, k \in 1..MaxTargets : outcome[test][k] = "untried"
    BY DEF IInv, RunInv, Done
  <2> QED
    BY <1>4, <2>1, <2>2 DEF RunInv
<1>7. StaticServerTested' /\ AnswerWhole'
  BY <1>4 DEF StaticServerTested, AnswerWhole
<1> QED
  BY <1>3, <1>5, <1>6, <1>7 DEF IInv

LEMMA AdvanceFacts ==
  ASSUME pc \in {"flags", "params"}, Advance
  PROVE  pc' \in Reading
BY DEF Advance, Reading

\* What is known of the settings.
LEMMA SettingsTyped ==
  ASSUME IInv
  PROVE  /\ {hostname, proxy, verbose, selfReplacing, tls} \subseteq BOOLEAN
         /\ scheme \in Schemes \cup {"other"}
         /\ metadata \in [{"client_name", "key"} -> {"absent", "user", "main"}]
         /\ metadata["key"] \in {"absent", "user"}
         /\ enabled \subseteq Tests /\ exit \in {"none", "success", "failure"}
BY DEF IInv, Types, TypeOK

LEMMA OptionStep ==
  ASSUME IInv,
         NotGiven \/ TestFlag \/ VerboseFlag \/ InfoFlag \/ UnknownOption
           \/ HostnameParam \/ PortParam \/ SchemeParam \/ ProxyParam
           \/ MetadataParam
  PROVE  IInv'
<1> USE SettingsTyped, AdvanceFacts, WhileReading DEF settingsVars
<1>1. CASE NotGiven
  BY <1>1 DEF NotGiven
<1>2. CASE TestFlag
  BY <1>2 DEF TestFlag, Given
<1>3. CASE VerboseFlag
  BY <1>3 DEF VerboseFlag, Given
<1>4. CASE InfoFlag
  BY <1>4 DEF InfoFlag, Given, Exit, optionVars
<1>5. CASE UnknownOption
  BY <1>5 DEF UnknownOption, Given, Exit, optionVars
<1>6. CASE HostnameParam
  BY <1>6 DEF HostnameParam, Given
<1>7. CASE SchemeParam
  BY <1>7 DEF SchemeParam, Given
<1>8. CASE ProxyParam
  BY <1>8 DEF ProxyParam, Given
<1>9. CASE MetadataParam
  <2>1. /\ metadata' \in [{"client_name", "key"} -> {"absent", "user", "main"}]
        /\ metadata'["key"] \in {"absent", "user"}
    BY <1>9 DEF MetadataParam
  <2>2. pc \in {"flags", "params"}
    BY <1>9 DEF MetadataParam, Given
  <2> QED
    BY <1>9, <2>1, <2>2 DEF MetadataParam
<1>10. CASE PortParam
  BY <1>10 DEF PortParam, Given
<1> QED
  BY <1>1, <1>2, <1>3, <1>4, <1>5, <1>6, <1>7, <1>8, <1>9, <1>10

\* The checks settle the scheme and the name of the client.
LEMMA CheckStep ==
  ASSUME IInv, CheckOptions
  PROVE  IInv'
<1> USE DEF CheckOptions, locateVars, runVars, Exit
<1>1. /\ pc = "check" /\ pc' \in {"locate", "exited"}
      /\ pc' = "locate" => scheme \in Schemes
  BY SettingsTyped
<1>2. TypeOK /\ opts \in Seq(OptionNames)
  BY DEF IInv, Types
<1>3. /\ metadata' \in [{"client_name", "key"} -> {"absent", "user", "main"}]
      /\ metadata'["key"] \in {"absent", "user"}
      /\ metadata'["client_name"] = "main"
  BY SettingsTyped
<1>4. handle # "open" /\ tls' \in BOOLEAN /\ exit' \in {"none", "success", "failure"}
  BY <1>1, <1>2 DEF TypeOK
<1>5. Types'
  BY <1>1, <1>2, <1>3, <1>4 DEF Types, TypeOK
<1>6. opts = <<>> /\ body = "none" /\ urls = <<>> /\ verdict = "none"
  BY <1>1 DEF IInv, QueryInv, RunInv, Reading
<1>7. SettingsInv' /\ QueryInv' /\ OptsInv'
  BY <1>1, <1>3, <1>6 DEF SettingsInv, QueryInv, OptsInv, Reading, Asking
<1>8. ParamsInv' /\ RunInv'
  <2>1. ParamsInv'
    BY DEF IInv, ParamsInv
  <2>2. \A test \in Tests, k \in 1..MaxTargets : outcome[test][k] = "untried"
    BY <1>1 DEF IInv, RunInv, Done
  <2> QED
    BY <1>1, <1>6, <2>1, <2>2 DEF RunInv
<1>9. StaticServerTested' /\ AnswerWhole'
  BY <1>6 DEF StaticServerTested, AnswerWhole
<1> QED
  BY <1>5, <1>7, <1>8, <1>9 DEF IInv

-----------------------------------------------------------------------------
(* The request to the Locate service.                                       *)

\* While Locate is asked nothing else changes: no attempt has been made, and
\* run() has not returned.
LEMMA NoAttemptYet ==
  ASSUME IInv, pc \in {"locate", "locate_failed"} \cup Asking
  PROVE  /\ verdict = "none"
         /\ \A test \in Tests, k \in 1..MaxTargets : outcome[test][k] = "untried"
BY DEF IInv, RunInv, Done, Asking

LEMMA WhileAsking ==
  ASSUME IInv, pc \in {"locate"} \cup Asking,
         LocateStep \/ Perform \/ ReplaceForever,
         UNCHANGED <<settingsVars, optionVars, runVars, exit>>,
         pc' \in {"locate_failed", "run", "crashed"} \cup Asking,
         handle' \in {"none", "open", "freed"},
         handle' = "open" => pc' \in {"setopt", "perform", "response"},
         received' \in {"none", "part", "whole"}, body' \in {"none", "part", "whole"},
         code' \in {0, 200, 204, 302},
         urls' \in Seq(Results), Len(urls') <= MaxTargets, opts' \in Seq(OptionNames),
         QueryInv', OptsInv', ParamsInv', AnswerWhole',
         pc' = "run" => urls' # <<>>,
         pc' = "run" /\ hostname => urls' = <<StaticAnswer>>
  PROVE  IInv'
<1> USE DEF settingsVars, optionVars, runVars
<1>1. TypeOK
  BY DEF IInv, Types
<1>2. TypeOK'
  BY <1>1 DEF TypeOK, Asking
<1>3. Types'
  BY <1>2, SettingsTyped DEF Types
<1>4. SettingsInv'
  BY DEF IInv, SettingsInv
<1>5. StaticAnswer' = StaticAnswer
  BY DEF StaticAnswer
<1>6. RunInv'
  BY <1>5, NoAttemptYet DEF RunInv
<1>7. StaticServerTested'
  BY NoAttemptYet DEF StaticServerTested
<1> QED
  BY <1>3, <1>4, <1>6, <1>7 DEF IInv

\* What the proofs about the request use of the invariant.
LEMMA RequestTyped ==
  ASSUME IInv
  PROVE  /\ handle \in {"none", "open", "freed"}
         /\ handle = "open" => pc \in {"setopt", "perform", "response"}
         /\ received \in {"none", "part", "whole"}
         /\ body \in {"none", "part", "whole"}
         /\ code \in {0, 200, 204, 302}
         /\ urls \in Seq(Results) /\ Len(urls) <= MaxTargets
         /\ opts \in Seq(OptionNames)
BY DEF IInv, Types, TypeOK

LEMMA StaticStep ==
  ASSUME IInv, QueryStatic, UNCHANGED <<optionVars, runVars, exit>>
  PROVE  IInv'
<1> USE DEF QueryStatic
<1>1. StaticAnswer \in Results
  <2>1. scheme \in Schemes
    BY DEF IInv, SettingsInv
  <2> QED
    BY <2>1 DEF StaticAnswer, Results, Urls
<1>2. urls' = <<StaticAnswer>> /\ urls' \in Seq(Results) /\ Len(urls') = 1
  BY <1>1
<1>3. Len(urls') <= MaxTargets
  BY <1>2, MaxTargetsAssumption
<1>4. QueryInv' /\ OptsInv'
  BY DEF QueryInv, OptsInv, Reading, Asking
<1>5. ParamsInv' /\ AnswerWhole'
  <2>1. hostname'
    BY DEF settingsVars
  <2> QED
    BY <2>1 DEF IInv, ParamsInv, AnswerWhole, QueryInv
<1>6. handle # "open"
  BY RequestTyped
<1>7. urls' # <<>>
  BY <1>2
<1>8. LocateStep
  BY DEF LocateStep
<1> QED
  BY <1>2, <1>3, <1>4, <1>5, <1>6, <1>7, <1>8, WhileAsking, RequestTyped

LEMMA ReplaceStep ==
  ASSUME IInv, ReplaceForever, UNCHANGED <<optionVars, runVars, exit>>
  PROVE  IInv'
<1> USE DEF ReplaceForever, locateVars
<1>1. body = "none" /\ urls = <<>>
  BY DEF IInv, QueryInv
<1>2. QueryInv' /\ OptsInv' /\ AnswerWhole'
  BY <1>1 DEF QueryInv, OptsInv, AnswerWhole, Reading, Asking
<1>3. ParamsInv'
  BY DEF IInv, ParamsInv
<1>4. handle # "open"
  BY RequestTyped
<1> QED
  BY <1>2, <1>3, <1>4, WhileAsking, RequestTyped

LEMMA QueryStep ==
  ASSUME IInv, QueryLocate, UNCHANGED <<optionVars, runVars, exit>>
  PROVE  IInv'
<1> USE DEF QueryLocate
<1>1. body = "none" /\ urls = <<>> /\ opts = <<>> /\ ~hostname'
  BY DEF IInv, QueryInv, settingsVars
<1>2. QueryInv' /\ OptsInv' /\ AnswerWhole'
  BY <1>1 DEF QueryInv, OptsInv, AnswerWhole, Reading, Asking
<1>3. ParamsInv'
  <2>1. metadata["client_name"] = "main" /\ metadata["key"] \in {"absent", "user"}
    BY DEF IInv, SettingsInv, Types
  <2>2. /\ query'.params = metadata
        /\ query'.priority = (metadata["key"] # "absent")
    OBVIOUS
  <2> QED
    BY <2>1, <2>2 DEF ParamsInv
<1>4. handle # "open"
  BY RequestTyped
<1>5. LocateStep
  BY DEF LocateStep
<1> QED
  BY <1>2, <1>3, <1>4, <1>5, WhileAsking, RequestTyped DEF Asking

\* A failure gives the handle back, and leaves run() nothing to work on.
LEMMA GetFailsStep ==
  ASSUME IInv, GetFails, LocateStep \/ Perform,
         pc \in {"new_handle", "setopt", "perform", "response"},
         UNCHANGED <<settingsVars, query, opts, urls, optionVars, runVars, exit>>,
         received' \in {"none", "part", "whole"}
  PROVE  IInv'
<1> USE DEF GetFails
<1>1. body = "none" /\ urls = <<>>
  BY DEF IInv, QueryInv
<1>2. QueryInv' /\ OptsInv' /\ AnswerWhole'
  BY <1>1 DEF QueryInv, OptsInv, AnswerWhole, Reading, Asking
<1>3. ParamsInv'
  BY DEF IInv, ParamsInv
<1>4. handle' \in {"none", "open", "freed"} /\ handle' # "open"
  BY RequestTyped
<1> QED
  BY <1>2, <1>3, <1>4, WhileAsking, RequestTyped DEF Asking

LEMMA NewHandleStep ==
  ASSUME IInv, NewHandle, UNCHANGED <<optionVars, runVars, exit>>
  PROVE  IInv'
<1>1. LocateStep
  BY DEF LocateStep
<1>2. CASE GetFails
  BY <1>1, <1>2, GetFailsStep, RequestTyped DEF NewHandle
<1>3. CASE handle' = "open" /\ pc' = "setopt" /\ UNCHANGED <<code, body>>
  <2> USE <1>3 DEF NewHandle
  <2>1. body = "none" /\ urls = <<>> /\ opts = <<>> /\ ~hostname
    BY DEF IInv, QueryInv, Asking
  <2>2. QueryInv' /\ AnswerWhole'
    BY <2>1 DEF QueryInv, AnswerWhole, Reading, Asking, settingsVars
  <2>3. OptsInv'
    <3>1. Options' = Options
      BY OptionsStay
    <3>2. Len(Options) \in {6, 7}
      BY OptionsFacts, SettingsTyped
    <3> QED
      BY <2>1, <3>1, <3>2 DEF OptsInv
  <2>4. ParamsInv'
    BY DEF IInv, ParamsInv
  <2> QED
    BY <1>1, <2>2, <2>3, <2>4, WhileAsking, RequestTyped DEF Asking
<1> QED
  BY <1>2, <1>3 DEF NewHandle

LEMMA SetoptStep ==
  ASSUME IInv, Setopt, UNCHANGED <<optionVars, runVars, exit>>
  PROVE  IInv'
<1>1. LocateStep
  BY DEF LocateStep
<1>2. CASE GetFails /\ UNCHANGED opts
  BY <1>1, <1>2, GetFailsStep, RequestTyped DEF Setopt
<1>3. CASE /\ opts' = Append(opts, Options[Len(opts) + 1])
           /\ pc' = IF Len(opts') = Len(Options) THEN "perform" ELSE "setopt"
           /\ UNCHANGED <<handle, code, body>>
  <2> USE <1>3 DEF Setopt
  <2>1. /\ body = "none" /\ urls = <<>> /\ ~hostname
        /\ Len(opts) < Len(Options) /\ \A k \in 1..Len(opts) : opts[k] = Options[k]
    BY DEF IInv, QueryInv, OptsInv, Asking
  <2>2. Options' = Options /\ Options \in Seq(OptionNames)
    BY OptionsStay, OptionsFacts, SettingsTyped
  <2>3. opts \in Seq(OptionNames)
    BY RequestTyped
  <2>4. Options[Len(opts) + 1] \in OptionNames
    BY <2>1, <2>2, <2>3
  <2>5. /\ opts' \in Seq(OptionNames) /\ Len(opts') = Len(opts) + 1
        /\ \A k \in 1..Len(opts') : opts'[k] = Options[k]
    BY <2>1, <2>3, <2>4
  <2>6. Len(opts') <= Len(Options)
    BY <2>1, <2>2, <2>3, <2>5
  <2>7. QueryInv' /\ AnswerWhole'
    BY <2>1 DEF QueryInv, AnswerWhole, Reading, Asking, settingsVars
  <2>8. OptsInv'
    BY <2>2, <2>5, <2>6 DEF OptsInv
  <2>9. ParamsInv'
    BY DEF IInv, ParamsInv
  <2> QED
    BY <1>1, <2>5, <2>7, <2>8, <2>9, WhileAsking, RequestTyped DEF Asking
<1> QED
  BY <1>2, <1>3 DEF Setopt

\* Because FAILONERROR is among the options that have been set, an answer never
\* has the code of an error.
LEMMA PerformStep ==
  ASSUME IInv, Perform, UNCHANGED <<optionVars, runVars, exit>>
  PROVE  IInv'
<1>1. CASE received' \in {"none", "part"} /\ GetFails
  BY <1>1, GetFailsStep DEF Perform
<1>2. CASE /\ received' = "whole"
           /\ code' \in {200, 204, 302}
                 \cup (IF IsSet("fail_on_error") THEN {} ELSE {404})
           /\ pc' = "response"
           /\ UNCHANGED <<handle, body>>
  <2> USE <1>2 DEF Perform
  <2>1. body = "none" /\ urls = <<>> /\ ~hostname
    BY DEF IInv, QueryInv, Asking
  <2>2. code' \in {0, 200, 204, 302}
    BY AllOptionsSet
  <2>3. QueryInv' /\ AnswerWhole'
    BY <2>1 DEF QueryInv, AnswerWhole, Reading, Asking, settingsVars
  <2>4. OptsInv'
    BY OptionsStay DEF IInv, OptsInv
  <2>5. ParamsInv'
    BY DEF IInv, ParamsInv
  <2> QED
    BY <2>2, <2>3, <2>4, <2>5, WhileAsking, RequestTyped DEF Asking
<1> QED
  BY <1>1, <1>2 DEF Perform

LEMMA TimeOutStep ==
  ASSUME IInv, PerformTimesOut, UNCHANGED <<optionVars, runVars, exit>>
  PROVE  IInv'
<1>1. LocateStep
  BY DEF LocateStep
<1> QED
  BY <1>1, GetFailsStep DEF PerformTimesOut

LEMMA ResponseStep ==
  ASSUME IInv, ResponseCode, UNCHANGED <<optionVars, runVars, exit>>
  PROVE  IInv'
<1>1. LocateStep
  BY DEF LocateStep
<1>2. CASE GetFails
  BY <1>1, <1>2, GetFailsStep, RequestTyped DEF ResponseCode
<1>3. CASE /\ code = 200
           /\ body' = received /\ handle' = "freed" /\ pc' = "parse"
           /\ UNCHANGED code
  <2> USE <1>3 DEF ResponseCode
  <2>1. received = "whole" /\ urls = <<>> /\ ~hostname
    BY DEF IInv, QueryInv, Asking
  <2>2. QueryInv' /\ AnswerWhole'
    BY <2>1 DEF QueryInv, AnswerWhole, Reading, Asking, settingsVars
  <2>3. OptsInv'
    BY OptionsStay DEF IInv, OptsInv
  <2>4. ParamsInv'
    BY DEF IInv, ParamsInv
  <2> QED
    BY <1>1, <2>1, <2>2, <2>3, <2>4, WhileAsking, RequestTyped DEF Asking
<1> QED
  BY <1>2, <1>3 DEF ResponseCode

-----------------------------------------------------------------------------
(* The answer.                                                              *)

LEMMA AnswerStep ==
  ASSUME IInv, ParseFails \/ ParseBody \/ TakeResult \/ ResultsEnd,
         UNCHANGED <<optionVars, runVars, exit>>
  PROVE  IInv'
<1> USE DEF ParseFails, ParseBody, TakeResult, ResultsEnd
<1>1. LocateStep
  BY DEF LocateStep
<1>2. /\ pc \in {"parse", "results"} /\ UNCHANGED settingsVars
      /\ UNCHANGED <<query, handle, opts, received, code, body>>
      /\ pc' \in {"locate_failed", "results", "run", "crashed"}
      /\ pc' = "run" => urls' # <<>>
  BY RequestTyped DEF locateVars
<1>3. urls' \in Seq(Results) /\ Len(urls') <= MaxTargets
  <2>1. CASE UNCHANGED urls
    BY <2>1, RequestTyped
  <2>2. CASE TakeResult /\ urls' # urls
    BY <2>2, RequestTyped, MaxTargetsAssumption
  <2> QED
    BY <2>1, <2>2 DEF locateVars
<1>4. body = "whole" /\ code = 200 /\ ~hostname
  BY <1>2 DEF IInv, QueryInv, AnswerWhole, Asking
<1>5. handle # "open"
  BY <1>2, RequestTyped
<1>6. QueryInv' /\ AnswerWhole'
  BY <1>2, <1>4 DEF QueryInv, AnswerWhole, Reading, Asking, settingsVars
<1>7. OptsInv'
  BY <1>2, OptionsStay DEF IInv, OptsInv
<1>8. ParamsInv'
  BY <1>2 DEF IInv, ParamsInv
<1> QED
  BY <1>1, <1>2, <1>3, <1>4, <1>5, <1>6, <1>7, <1>8, WhileAsking, RequestTyped
  DEF Asking

\* The program gives up.
LEMMA GiveUpStep ==
  ASSUME IInv, LocateFails
  PROVE  IInv'
<1> USE DEF LocateFails, Exit, settingsVars, locateVars, optionVars
<1>1. TypeOK /\ opts \in Seq(OptionNames)
  BY DEF IInv, Types
<1>2. handle # "open"
  BY <1>1 DEF TypeOK
<1>3. Types'
  BY <1>1, <1>2, SettingsTyped DEF Types, TypeOK
<1>4. SettingsInv' /\ QueryInv' /\ OptsInv'
  BY DEF SettingsInv, QueryInv, OptsInv, Reading, Asking
<1>5. ParamsInv' /\ RunInv'
  <2>1. ParamsInv'
    BY DEF IInv, ParamsInv
  <2> QED
    BY <2>1, NoAttemptYet DEF RunInv
<1>6. StaticServerTested' /\ AnswerWhole'
  BY DEF IInv, StaticServerTested, AnswerWhole
<1> QED
  BY <1>3, <1>4, <1>5, <1>6 DEF IInv

-----------------------------------------------------------------------------
(* The attempts and the verdict.                                            *)

LEMMA WhileRunning ==
  ASSUME IInv, pc = "run", UNCHANGED <<settingsVars, locateVars, optionVars>>,
         pc' \in {"run"} \cup Done,
         outcome' \in [Tests -> [1..MaxTargets -> {"untried", "failed", "ok"}]],
         verdict' \in {"none", "true", "false"},
         exit' \in {"none", "success", "failure"},
         verdict' # "none" => pc' = "exited",
         \A test \in Tests, k \in 1..MaxTargets :
           outcome'[test][k] # "untried" => k <= Len(urls),
         StaticServerTested'
  PROVE  IInv'
<1> USE DEF settingsVars, locateVars, optionVars
<1>1. TypeOK /\ opts \in Seq(OptionNames)
  BY DEF IInv, Types
<1>2. handle # "open"
  BY <1>1 DEF TypeOK
<1>3. Types'
  BY <1>1, <1>2, SettingsTyped DEF Types, TypeOK, Done
<1>4. SettingsInv' /\ QueryInv' /\ OptsInv'
  <2>1. SettingsInv'
    BY DEF IInv, SettingsInv
  <2> QED
    BY <2>1 DEF QueryInv, OptsInv, Reading, Asking, Done
<1>5. ParamsInv' /\ RunInv'
  <2>1. ParamsInv'
    BY DEF IInv, ParamsInv
  <2>2. StaticAnswer' = StaticAnswer
    BY DEF StaticAnswer
  <2> QED
    BY <2>1, <2>2 DEF IInv, RunInv
<1>6. AnswerWhole'
  BY DEF IInv, AnswerWhole
<1> QED
  BY <1>3, <1>4, <1>5, <1>6 DEF IInv

LEMMA AttemptStep ==
  ASSUME IInv, Attempt
  PROVE  IInv'
<1>1. /\ pc = "run" /\ pc' = "run" /\ UNCHANGED exit
      /\ UNCHANGED <<settingsVars, locateVars, optionVars>>
  BY DEF Attempt
<1>2. PICK test \in Tests, k \in 1..Len(urls), result \in {"ok", "failed"} :
         P!Attempt(test, k, result)
  BY DEF Attempt
<1>3. /\ outcome' = [outcome EXCEPT ![test][k] = result]
      /\ verdict' = verdict
  BY <1>2 DEF P!Attempt
<1>4. verdict = "none"
  BY <1>1 DEF IInv, RunInv
<1>5. outcome \in [Tests -> [1..MaxTargets -> {"untried", "failed", "ok"}]]
  BY DEF IInv, Types, TypeOK
<1>6. Len(urls) \in Nat /\ Len(urls) <= MaxTargets /\ k \in 1..MaxTargets
  BY RequestTyped, MaxTargetsAssumption
<1>7. outcome' \in [Tests -> [1..MaxTargets -> {"untried", "failed", "ok"}]]
  BY <1>3, <1>5, <1>6
<1>8. \A t \in Tests, j \in 1..MaxTargets :
         outcome'[t][j] # "untried" => j <= Len(urls)
  <2> SUFFICES ASSUME NEW t \in Tests, NEW j \in 1..MaxTargets,
                      outcome'[t][j] # "untried"
               PROVE  j <= Len(urls)
    OBVIOUS
  <2>1. CASE t = test /\ j = k
    BY <2>1, <1>6
  <2>2. CASE ~(t = test /\ j = k)
    <3>1. outcome'[t][j] = outcome[t][j]
      BY <2>2, <1>3, <1>5, <1>6
    <3> QED
      BY <3>1 DEF IInv, RunInv
  <2> QED
    BY <2>1, <2>2
<1>9. StaticServerTested'
  BY <1>3, <1>4 DEF StaticServerTested
<1> QED
  BY <1>1, <1>3, <1>4, <1>7, <1>8, <1>9, WhileRunning, SettingsTyped

LEMMA CrashStep ==
  ASSUME IInv, AttemptOfNoString
  PROVE  IInv'
<1> USE DEF AttemptOfNoString, runVars
<1>1. verdict = "none"
  BY DEF IInv, RunInv
<1>2. outcome \in [Tests -> [1..MaxTargets -> {"untried", "failed", "ok"}]]
  BY DEF IInv, Types, TypeOK
<1>3. \A t \in Tests, j \in 1..MaxTargets :
         outcome[t][j] # "untried" => j <= Len(urls)
  BY DEF IInv, RunInv
<1>4. StaticServerTested'
  BY <1>1 DEF StaticServerTested
<1> QED
  BY <1>1, <1>2, <1>3, <1>4, WhileRunning, SettingsTyped DEF Done

\* The one machine of the static answer has a URL for each subtest.
LEMMA StaticOffer ==
  ASSUME IInv, pc = "run", hostname, NEW test \in Tests
  PROVE  Len(urls) = 1 /\ 1 \in P!Offers(test)
<1>1. urls = <<StaticAnswer>>
  BY DEF IInv, RunInv
<1>2. Len(urls) = 1 /\ urls[1] = StaticAnswer
  BY <1>1
<1>3. RunScheme = scheme
  BY DEF IInv, SettingsInv, RunScheme, Schemes
<1>4. <<RunScheme, test>> \in urls[1].urls
  BY <1>2, <1>3 DEF StaticAnswer
<1>5. Len(Offered) = 1
  BY <1>2 DEF Offered
<1>6. Offered[1][test]
  <2>1. Offered[1] = [t \in Tests |-> <<RunScheme, t>> \in urls[1].urls]
    BY <1>2 DEF Offered
  <2> QED
    BY <1>4, <2>1, Zenon
<1> QED
  BY <1>2, <1>5, <1>6 DEF P!Offers

\* run() returns true when each subtest is settled: as the static answer has a
\* URL for it, it was completed, and there is no other server than the first.
LEMMA ReturnStep ==
  ASSUME IInv, Return
  PROVE  IInv'
<1>1. /\ pc = "run" /\ pc' = "exited" /\ exit' \in {"none", "success", "failure"}
      /\ UNCHANGED <<settingsVars, locateVars, optionVars>>
  BY DEF Return, Exit
<1>2. /\ UNCHANGED outcome /\ verdict' \in {"true", "false"}
      /\ verdict' = "true" => \A test \in Tests : P!Settled(test)
  BY DEF Return, P!Return, P!Tests, Tests
<1>3. outcome \in [Tests -> [1..MaxTargets -> {"untried", "failed", "ok"}]]
  BY DEF IInv, Types, TypeOK
<1>4. \A t \in Tests, j \in 1..MaxTargets :
         outcome[t][j] # "untried" => j <= Len(urls)
  BY DEF IInv, RunInv
<1>5. StaticServerTested'
  <2> SUFFICES ASSUME verdict' = "true", hostname, NEW test \in enabled
               PROVE  outcome[test][1] = "ok"
    BY <1>1, <1>2 DEF StaticServerTested, settingsVars, optionVars
  <2>1. test \in Tests
    BY SettingsTyped
  <2>2. Len(urls) = 1 /\ P!Offers(test) # {}
    BY <1>1, <2>1, StaticOffer
  <2>3. P!Completed(test)
    BY <1>2, <2>1, <2>2 DEF P!Settled
  <2>4. PICK j \in 1..MaxTargets : outcome[test][j] = "ok"
    BY <2>3 DEF P!Completed
  <2>5. j = 1
    BY <1>4, <2>1, <2>2, <2>4, MaxTargetsAssumption
  <2> QED
    BY <2>4, <2>5
<1> QED
  BY <1>1, <1>2, <1>3, <1>4, <1>5, WhileRunning DEF Done

-----------------------------------------------------------------------------
(* The theorems.                                                            *)

LEMMA InvStep == IInv /\ [Next]_vars => IInv'
<1> SUFFICES ASSUME IInv, [Next]_vars PROVE IInv'
  OBVIOUS
<1>1. CASE NotGiven \/ TestFlag \/ VerboseFlag \/ InfoFlag \/ UnknownOption
             \/ HostnameParam \/ PortParam \/ SchemeParam \/ ProxyParam
           \/ MetadataParam
  BY <1>1, OptionStep
<1>2. CASE CheckOptions
  BY <1>2, CheckStep
<1>3. CASE LocateStep /\ UNCHANGED <<optionVars, runVars, exit>>
  BY <1>3, StaticStep, QueryStep, NewHandleStep, SetoptStep, TimeOutStep,
     ResponseStep, AnswerStep
  DEF LocateStep
<1>4. CASE Perform /\ UNCHANGED <<optionVars, runVars, exit>>
  BY <1>4, PerformStep
<1>5. CASE LocateFails
  BY <1>5, GiveUpStep
<1>6. CASE Attempt
  BY <1>6, AttemptStep
<1>7. CASE AttemptOfNoString
  BY <1>7, CrashStep
<1>8. CASE Return
  BY <1>8, ReturnStep
<1>9. CASE ReplaceForever /\ UNCHANGED <<optionVars, runVars, exit>>
  BY <1>9, ReplaceStep
<1>10. CASE UNCHANGED vars
  <2> USE <1>10 DEF vars, settingsVars, locateVars, optionVars, runVars
  <2>1. Types' /\ SettingsInv'
    BY DEF IInv, Types, TypeOK, SettingsInv
  <2>2. QueryInv' /\ ParamsInv'
    BY DEF IInv, QueryInv, ParamsInv
  <2>3. OptsInv'
    BY OptionsStay DEF IInv, OptsInv
  <2>4. RunInv'
    BY DEF IInv, RunInv, StaticAnswer
  <2>5. StaticServerTested' /\ AnswerWhole'
    BY DEF IInv, StaticServerTested, AnswerWhole
  <2> QED
    BY <2>1, <2>2, <2>3, <2>4, <2>5 DEF IInv
<1> QED
  BY <1>1, <1>2, <1>3, <1>4, <1>5, <1>6, <1>7, <1>8, <1>9, <1>10
  DEF Next, Step

\* The inductive invariant holds in every state of the program.
THEOREM ProgramInvariant == Spec => []IInv
<1> QED
  BY InvInit, InvStep, PTL DEF Spec

\* Type correctness, and the handle of the request is never left open, for any
\* number of results that the Locate service returns.
THEOREM TypeCorrect == Spec => []TypeOK
<1>1. IInv => TypeOK
  BY DEF IInv, Types
<1> QED
  BY <1>1, ProgramInvariant, PTL

\* With a server named on the command line, the exit status "success" of main()
\* means that each subtest asked for was completed on that server.
THEOREM StaticServerIsTested == Spec => []StaticServerTested
<1>1. IInv => StaticServerTested
  BY DEF IInv
<1> QED
  BY <1>1, ProgramInvariant, PTL

\* run() never works on what a broken transfer or an error page left behind.
THEOREM AnswersAreWhole == Spec => []AnswerWhole
<1>1. IInv => AnswerWhole
  BY DEF IInv
<1> QED
  BY <1>1, ProgramInvariant, PTL

\* No request without the proxy that the user wants, under another name than the
\* client's, or as a registered client without a key.
THEOREM QueriesAsConfigured == Spec => []QueryAsConfigured
<1>1. IInv => QueryAsConfigured
  BY AllOptionsSet DEF IInv, ParamsInv, QueryAsConfigured
<1> QED
  BY <1>1, ProgramInvariant, PTL

=============================================================================
