--------------------------- MODULE OpenSslProofs ----------------------------
(* Proofs about the two places where the client and OpenSSL meet: TlsIo,    *)
(* for any number of records the engine may write, and BioMethod, for every *)
(* set of threads.  The two modules share no variable.                      *)
EXTENDS TlsIo, BioMethod, TLAPS

-----------------------------------------------------------------------------
(* TlsIo.  The inductive invariant: what the four places that               *)
(* map_ssl_error() looks at say of this call, at each point of it.          *)

\* While the engine runs nothing of an earlier call is left where it would be
\* looked at, but for errno in the handshake and the shutdown.
EngineInv ==
    pc = "engine" =>
      /\ cause = "none" /\ rw = "nothing" /\ ~queue
      /\ op \in {"recv", "send"} => errno = "zero"
      /\ op = "shutdown" => need = "write"

\* When it has stopped, queue, flags and errno all agree with the reason.
MapInv ==
    pc = "map" =>
      /\ cause # "none"
      /\ queue => cause \in {"protocol", "eof"}
      /\ cause = "blocked_read" =>
           retry = "read" /\ rw = "reading" /\ errno = "eagain"
      /\ cause = "blocked_write" =>
           retry = "write" /\ rw = "writing" /\ errno = "eagain"
      /\ cause = "half" => op = "shutdown" /\ rw = "nothing" /\ ~notified
      /\ cause = "close_notify" => notified /\ rw = "nothing"
      /\ cause = "eof" =>
           retry = "none" /\ (op \in {"recv", "send"} => errno = "zero")
      /\ cause = "reset" => retry = "none" /\ errno = "econnreset"
      /\ cause = "protocol" => queue

\* shutdown(2) is behind a complete SSL_shutdown() only.
ShutdownInv == pc = "shutdown" => cause = "done" /\ op = "shutdown"

IInv == EngineInv /\ MapInv /\ ShutdownInv /\ WaitsAsBlocked /\ ErrorIsOwn

\* No step of the client, of the engine, of the peer or of the rest of the
\* thread spoils a type, and errno is never 0 where netx_map_errno() asserts
\* that it is not.
LEMMA TypeStep ==
  ASSUME TypeOK, [Next]_vars
  PROVE  TypeOK'
<1> USE DEF TypeOK, Operations, Errnos, Blocks, Errors
<1>1. CASE Enter
  BY <1>1 DEF Enter, peerVars
<1>2. CASE EngineAnswers
  BY <1>2 DEF EngineAnswers, Stops, peerVars, threadVars
<1>3. CASE BioReadSucceeds
  <2>1. {record, room, queue, notified, shut}' \subseteq BOOLEAN
    BY <1>3 DEF BioReadSucceeds, Stops
  <2>2. flight' \in 0..MaxFlight
    BY <1>3, ConstantsAssumption DEF BioReadSucceeds
  <2> QED
    BY <1>3, <2>1, <2>2 DEF BioReadSucceeds, Stops
<1>4. CASE BioWriteSucceeds
  BY <1>4, ConstantsAssumption DEF BioWriteSucceeds, Stops, threadVars
<1>5. CASE BioBlocks
  BY <1>5 DEF BioBlocks, Stops, peerVars
<1>6. CASE BioEof
  BY <1>6 DEF BioEof, Stops, peerVars
<1>7. CASE BioFails
  BY <1>7 DEF BioFails, Stops, peerVars
<1>8. CASE Maps
  BY <1>8 DEF Maps, Return, MapSslError, SslGetError, SyscallError, MapErrno,
              Readable, Writeable, peerVars, threadVars, engineVars
<1>9. CASE PollReady
  BY <1>9 DEF PollReady, peerVars, threadVars, engineVars
<1>10. CASE PollTimesOut
  BY <1>10 DEF PollTimesOut, Return, peerVars, threadVars, engineVars
<1>11. CASE SysShutdown
  <2>1. /\ UNCHANGED <<record, room, peer, flight, queue, retry, rw, need, cause,
                       notified, op>>
        /\ pc' = "returned" /\ err' \in {"none", "connection_reset"}
    BY <1>11 DEF SysShutdown, Return, peerVars, engineVars
  <2>2. shut' \in BOOLEAN /\ errno' \in Errnos
    BY <1>11 DEF SysShutdown
  <2> QED
    BY <2>1, <2>2
<1>12. ASSUME NEW o \in Operations, Begin(o)
       PROVE  TypeOK'
  BY <1>12 DEF Begin, peerVars, threadVars, engineVars
<1>13. CASE ThreadGoesOn
  BY <1>13 DEF ThreadGoesOn, peerVars, engineVars
<1>14. CASE PeerSends \/ PeerReads \/ PeerLeaves
  BY <1>14 DEF PeerSends, PeerReads, PeerLeaves, threadVars, engineVars
<1>15. CASE UNCHANGED vars
  BY <1>15 DEF vars, peerVars, threadVars, engineVars
<1> QED
  BY <1>1, <1>2, <1>3, <1>4, <1>5, <1>6, <1>7, <1>8, <1>9, <1>10, <1>11, <1>12, <1>13, <1>14, <1>15
     DEF Next, Step, Engine

\* The same steps keep the inductive invariant.
LEMMA InvStep ==
  ASSUME TypeOK, IInv, [Next]_vars
  PROVE  IInv'
<1> USE DEF TypeOK, IInv, EngineInv, MapInv, ShutdownInv, WaitsAsBlocked,
            ErrorIsOwn, Operations, Errnos, Blocks, Errors
<1>1. CASE Enter
  BY <1>1 DEF Enter, peerVars
<1>2. CASE EngineAnswers
  BY <1>2 DEF EngineAnswers, Stops, peerVars, threadVars
<1>3. CASE BioReadSucceeds
  BY <1>3 DEF BioReadSucceeds, Stops
<1>4. CASE BioWriteSucceeds
  BY <1>4 DEF BioWriteSucceeds, Stops, threadVars
<1>5. CASE BioBlocks
  BY <1>5 DEF BioBlocks, Stops, peerVars
<1>6. CASE BioEof
  BY <1>6 DEF BioEof, Stops, peerVars
<1>7. CASE BioFails
  BY <1>7 DEF BioFails, Stops, peerVars
<1>8. CASE Maps
  BY <1>8 DEF Maps, Return, MapSslError, SslGetError, SyscallError, MapErrno,
              Readable, Writeable, peerVars, threadVars, engineVars
<1>9. CASE PollReady
  BY <1>9 DEF PollReady, peerVars, threadVars, engineVars
<1>10. CASE PollTimesOut
  BY <1>10 DEF PollTimesOut, Return, peerVars, threadVars, engineVars
<1>11. CASE SysShutdown
  BY <1>11 DEF SysShutdown, Return, peerVars, engineVars
<1>12. ASSUME NEW o \in Operations, Begin(o)
       PROVE  IInv'
  BY <1>12 DEF Begin, peerVars, threadVars, engineVars
<1>13. CASE ThreadGoesOn
  BY <1>13 DEF ThreadGoesOn, peerVars, engineVars
<1>14. CASE PeerSends \/ PeerReads \/ PeerLeaves
  BY <1>14 DEF PeerSends, PeerReads, PeerLeaves, threadVars, engineVars
<1>15. CASE UNCHANGED vars
  BY <1>15 DEF vars, peerVars, threadVars, engineVars
<1> QED
  BY <1>1, <1>2, <1>3, <1>4, <1>5, <1>6, <1>7, <1>8, <1>9, <1>10, <1>11, <1>12, <1>13, <1>14, <1>15
     DEF Next, Step, Engine

-----------------------------------------------------------------------------
(* TlsIo.  The theorems.                                                    *)

\* Type correctness, with the assertion of netx_map_errno().
THEOREM TypeCorrect == Spec => []TypeOK
<1>1. ASSUME Init
      PROVE  TypeOK
  <2>1. {record, room, queue, notified, shut} \subseteq BOOLEAN
    BY <1>1, Zenon DEF Init
  <2>2. flight \in 0..MaxFlight
    BY <1>1, ConstantsAssumption DEF Init
  <2> QED
    BY <1>1, <2>1, <2>2 DEF Init, TypeOK, Operations, Errnos, Blocks, Errors
<1>2. TypeOK /\ [Next]_vars => TypeOK'
  BY TypeStep
<1> QED
  BY <1>1, <1>2, PTL DEF Spec

\* What map_ssl_error() looks at is about this call, whatever earlier calls and
\* the rest of the thread left there.
THEOREM TlsInvariant == Spec => []IInv
<1>1. Init => IInv
  BY DEF Init, IInv, EngineInv, MapInv, ShutdownInv, WaitsAsBlocked, ErrorIsOwn
<1>2. TypeOK /\ IInv /\ [Next]_vars => IInv'
  BY InvStep
<1> QED
  BY <1>1, <1>2, TypeCorrect, PTL DEF Spec

\* The client sleeps only for the direction in which OpenSSL is blocked.
THEOREM WaitsForTheRightThing == Spec => []WaitsAsBlocked
<1>1. IInv => WaitsAsBlocked
  BY DEF IInv
<1> QED
  BY <1>1, TlsInvariant, PTL

\* What each operation returns is about this operation.
THEOREM ErrorsAreOwn == Spec => []ErrorIsOwn
<1>1. IInv => ErrorIsOwn
  BY DEF IInv
<1> QED
  BY <1>1, TlsInvariant, PTL

-----------------------------------------------------------------------------
(* BioMethod.  The inductive invariant.                                     *)

\* The thread that holds the mutex is the one between lock and unlock.
MutexInv == \A t \in Threads : at[t] \in Building <=> mutex = t

\* The method exists before the flag says so, and a thread that builds finds
\* neither; in between, the builder still holds the mutex.
BuildInv ==
    /\ initialized => method # None
    /\ method # None /\ ~initialized =>
         \E t \in Threads : at[t] = "set" /\ method = t
    /\ \A t \in Threads :
         /\ at[t] \in {"new", "configure", "publish", "fail", "set"} =>
              ~initialized
         /\ at[t] \in {"new", "configure", "publish", "fail"} => method = None
         /\ at[t] = "set" => method = t
         /\ at[t] \in {"get", "unlock"} => initialized

\* What is published is configured, and nothing is ever freed.
MethodInv ==
    /\ freed = {}
    /\ method # None => method \in configured
    /\ \A t \in Threads :
         /\ at[t] = "publish" => t \in configured
         /\ result[t] # None => result[t] = method

MethodIInv == MutexInv /\ BuildInv /\ MethodInv

\* Every step of every thread keeps the types.
LEMMA MethodTypeStep ==
  ASSUME MethodTypeOK, [MethodNext]_methodVars
  PROVE  MethodTypeOK'
<1> USE DEF MethodTypeOK, Points, Goto
<1>1. ASSUME NEW t \in Threads, Call(t) \/ MethodStep(t)
      PROVE  MethodTypeOK'
  <2>1. CASE Call(t)
    BY <2>1 DEF Call
  <2>2. CASE Check(t)
    BY <2>2 DEF Check
  <2>3. CASE Lock(t)
    BY <2>3 DEF Lock
  <2>4. CASE Recheck(t)
    BY <2>4 DEF Recheck
  <2>5. CASE New(t)
    BY <2>5 DEF New
  <2>6. CASE NewFails(t)
    BY <2>6 DEF NewFails
  <2>7. CASE Configure(t)
    BY <2>7 DEF Configure
  <2>8. CASE Publish(t)
    BY <2>8 DEF Publish
  <2>9. CASE SetInitialized(t)
    BY <2>9 DEF SetInitialized
  <2>10. CASE Unlock(t)
    BY <2>10 DEF Unlock
  <2>11. CASE ReturnNull(t)
    BY <2>11 DEF ReturnNull
  <2>12. CASE Get(t)
    BY <2>12 DEF Get
  <2> QED
    BY <1>1, <2>1, <2>2, <2>3, <2>4, <2>5, <2>6, <2>7, <2>8, <2>9, <2>10, <2>11, <2>12 DEF MethodStep
<1>2. CASE UNCHANGED methodVars
  BY <1>2 DEF methodVars
<1> QED
  BY <1>1, <1>2 DEF MethodNext

\* Every step of every thread keeps the inductive invariant.
LEMMA MethodInvStep ==
  ASSUME MethodTypeOK, MethodIInv, [MethodNext]_methodVars
  PROVE  MethodIInv'
<1> USE NoneAssumption DEF MethodTypeOK, MethodIInv, MutexInv, BuildInv, MethodInv, Building, Points, Goto
<1>1. ASSUME NEW t \in Threads, Call(t) \/ MethodStep(t)
      PROVE  MethodIInv'
  <2>1. CASE Call(t)
    BY <2>1 DEF Call
  <2>2. CASE Check(t)
    BY <2>2 DEF Check
  <2>3. CASE Lock(t)
    BY <2>3 DEF Lock
  <2>4. CASE Recheck(t)
    BY <2>4 DEF Recheck
  <2>5. CASE New(t)
    BY <2>5 DEF New
  <2>6. CASE NewFails(t)
    BY <2>6 DEF NewFails
  <2>7. CASE Configure(t)
    BY <2>7 DEF Configure
  <2>8. CASE Publish(t)
    BY <2>8 DEF Publish
  <2>9. CASE SetInitialized(t)
    BY <2>9 DEF SetInitialized
  <2>10. CASE Unlock(t)
    BY <2>10 DEF Unlock
  <2>11. CASE ReturnNull(t)
    BY <2>11 DEF ReturnNull
  <2>12. CASE Get(t)
    BY <2>12 DEF Get
  <2> QED
    BY <1>1, <2>1, <2>2, <2>3, <2>4, <2>5, <2>6, <2>7, <2>8, <2>9, <2>10, <2>11, <2>12 DEF MethodStep
<1>2. CASE UNCHANGED methodVars
  BY <1>2 DEF methodVars
<1> QED
  BY <1>1, <1>2 DEF MethodNext

-----------------------------------------------------------------------------
(* BioMethod.  The theorems.                                                *)

\* Type correctness, for any number of threads.
THEOREM MethodTypeCorrect == MethodSpec => []MethodTypeOK
<1>1. MethodInit => MethodTypeOK
  BY DEF MethodInit, MethodTypeOK, Points
<1>2. MethodTypeOK /\ [MethodNext]_methodVars => MethodTypeOK'
  BY MethodTypeStep
<1> QED
  BY <1>1, <1>2, PTL DEF MethodSpec

\* The inductive invariant: the order in which method, flag and mutex change.
THEOREM BioMethodInvariant == MethodSpec => [](MethodTypeOK /\ MethodIInv)
<1>1. MethodInit => MethodIInv
  BY NoneAssumption DEF MethodInit, MethodIInv, MutexInv, BuildInv, MethodInv, Building
<1>2. MethodTypeOK /\ MethodIInv /\ [MethodNext]_methodVars => MethodIInv'
  BY MethodInvStep
<1> QED
  BY <1>1, <1>2, MethodTypeCorrect, PTL DEF MethodSpec

\* No client is ever given a method that is incomplete or freed.
THEOREM MethodsUsable == MethodSpec => []UsableMethods
<1>1. MethodTypeOK /\ MethodIInv => UsableMethods
  BY DEF MethodTypeOK, MethodIInv, MethodInv, UsableMethods
<1> QED
  BY <1>1, BioMethodInvariant, PTL

\* All clients of the process share one method.
THEOREM MethodShared == MethodSpec => []OneMethod
<1>1. MethodTypeOK /\ MethodIInv => OneMethod
  BY DEF MethodTypeOK, MethodIInv, MethodInv, OneMethod
<1> QED
  BY <1>1, BioMethodInvariant, PTL

\* Mutual exclusion of the threads that build.
THEOREM BuildersExclude == MethodSpec => []OneBuilder
<1>1. MethodIInv => OneBuilder
  BY DEF MethodIInv, MutexInv, OneBuilder
<1> QED
  BY <1>1, BioMethodInvariant, PTL

\* A thread gets nullptr only when its own BIO_meth_new() failed.
THEOREM NullMeansFailure == MethodSpec => NullOnlyOnFailure
<1>1. MethodTypeOK /\ MethodIInv /\ [MethodNext]_methodVars =>
        [\A t \in Threads : Get(t) => result'[t] # None]_methodVars
  <2> SUFFICES ASSUME MethodTypeOK, MethodIInv, NEW t \in Threads, Get(t)
               PROVE  result'[t] # None
    OBVIOUS
  <2> QED
    BY DEF MethodTypeOK, MethodIInv, BuildInv, Get, Goto
<1> QED
  BY <1>1, BioMethodInvariant, PTL DEF MethodSpec, NullOnlyOnFailure

=============================================================================
