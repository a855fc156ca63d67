----------------------------- MODULE BioMethod ------------------------------
(***************************************************************************)
(* libndt7_bio_method(): the one BIO_METHOD of the process, built on first *)
(* use by whichever client's thread gets there first, with the double-     *)
(* checked flag `initialized`, the mutex and the static unique_ptr         *)
(* `method`.  The flag is a std::atomic_bool with the default (sequentially *)
(* consistent) order, so steps interleave.                                 *)
(*                                                                         *)
(* A BIO_METHOD is named after the thread that built it: a thread builds   *)
(* at most one, because it does so only before the flag is set.            *)
(***************************************************************************)

CONSTANTS
    Threads,     \* the threads that run a Client each
    None         \* nullptr, and the owner of a free mutex

ASSUME NoneAssumption == None \notin Threads

VARIABLES
    at,            \* where each thread stands in the function
    initialized,   \* the atomic flag
    method,        \* the static unique_ptr
    mutex,         \* who holds the mutex
    configured,    \* the methods whose callbacks have been set
    freed,         \* the methods BIO_meth_free() was called on
    result         \* what the function last returned to each thread

methodVars == <<at, initialized, method, mutex, configured, freed, result>>

Points == {"idle", "check", "lock", "recheck", "new", "configure", "publish",
           "set", "unlock", "fail", "get"}

MethodTypeOK ==
    /\ at \in [Threads -> Points]
    /\ initialized \in BOOLEAN
    /\ method \in Threads \cup {None}
    /\ mutex \in Threads \cup {None}
    /\ configured \in SUBSET Threads
    /\ freed \in SUBSET Threads
    /\ result \in [Threads -> Threads \cup {None}]

MethodInit ==
    /\ at = [t \in Threads |-> "idle"]
    /\ initialized = FALSE
    /\ method = None
    /\ mutex = None
    /\ configured = {}
    /\ freed = {}
    /\ result = [t \in Threads |-> None]

Goto(t, from, to) ==
    /\ at[t] = from
    /\ at' = [at EXCEPT ![t] = to]

\* netx_maybessl_dial() of the thread's client calls BIO_new().
Call(t) ==
    /\ Goto(t, "idle", "check")
    /\ UNCHANGED <<initialized, method, mutex, configured, freed, result>>

Check_Skipped(t) ==
    /\ Goto(t, "check", "get")
    /\ UNCHANGED <<initialized, method, mutex, configured, freed, result>>

Check(t) ==
    /\ Goto(t, "check", IF initialized THEN "get" ELSE "lock")
    /\ UNCHANGED <<initialized, method, mutex, configured, freed, result>>

Lock(t) ==
    /\ mutex = None
    /\ Goto(t, "lock", "recheck")
    /\ mutex' = t
    /\ UNCHANGED <<initialized, method, configured, freed, result>>

Recheck_Skipped(t) ==
    /\ Goto(t, "recheck", "new")
    /\ UNCHANGED <<initialized, method, mutex, configured, freed, result>>

Recheck(t) ==
    /\ Goto(t, "recheck", IF initialized THEN "unlock" ELSE "new")
    /\ UNCHANGED <<initialized, method, mutex, configured, freed, result>>

New(t) ==
    /\ Goto(t, "new", "configure")
    /\ UNCHANGED <<initialized, method, mutex, configured, freed, result>>

\* BIO_meth_new() returns nullptr.
NewFails(t) ==
    /\ Goto(t, "new", "fail")
    /\ UNCHANGED <<initialized, method, mutex, configured, freed, result>>

\* The calls of BIO_meth_set_*().
Configure(t) ==
    /\ Goto(t, "configure", "publish")
    /\ configured' = configured \cup {t}
    /\ UNCHANGED <<initialized, method, mutex, freed, result>>

\* method.reset(mm): frees what was there before.
Publish(t) ==
    /\ Goto(t, "publish", "set")
    /\ method' = t
    /\ freed' = IF method = None THEN freed ELSE freed \cup {method}
    /\ UNCHANGED <<initialized, mutex, configured, result>>

SetInitialized(t) ==
    /\ Goto(t, "set", "unlock")
    /\ initialized' = TRUE
    /\ UNCHANGED <<method, mutex, configured, freed, result>>

\* The lock goes out of scope before the method is read for the return.
Unlock_Forgotten(t) ==
    /\ Goto(t, "unlock", "get")
    /\ UNCHANGED <<initialized, method, mutex, configured, freed, result>>

Unlock(t) ==
    /\ Goto(t, "unlock", "get")
    /\ mutex' = None
    /\ UNCHANGED <<initialized, method, configured, freed, result>>

ReturnNull(t) ==
    /\ Goto(t, "fail", "idle")
    /\ mutex' = None
    /\ result' = [result EXCEPT ![t] = None]
    /\ UNCHANGED <<initialized, method, configured, freed>>

Get(t) ==
    /\ Goto(t, "get", "idle")
    /\ result' = [result EXCEPT ![t] = method]
    /\ UNCHANGED <<initialized, method, mutex, configured, freed>>

MethodStep(t) ==
    \/ Check(t)
    \/ Lock(t)
    \/ Recheck(t)
    \/ New(t)
    \/ NewFails(t)
    \/ Configure(t)
    \/ Publish(t)
    \/ SetInitialized(t)
    \/ Unlock(t)
    \/ ReturnNull(t)
    \/ Get(t)

MethodNext == \E t \in Threads : Call(t) \/ MethodStep(t)

\* Threads are scheduled; no thread has to open another connection, and
\* std::mutex promises no order among those that wait for it.
Fairness == \A t \in Threads : WF_methodVars(MethodStep(t))

MethodSpec == MethodInit /\ [][MethodNext]_methodVars /\ Fairness

-----------------------------------------------------------------------------
(* Properties.                                                             *)

\* Where a thread holds the mutex.
Building == {"recheck", "new", "configure", "publish", "set", "unlock", "fail"}

\* What a client was given is complete, has not been freed, and is never
\* freed later while the client's connections still use it.
UsableMethods ==
    \A t \in Threads :
      result[t] # None => result[t] \in configured \ freed

\* All clients share one method, whoever built it: nobody ever got another.
OneMethod ==
    \A t, u \in Threads :
      result[t] # None /\ result[u] # None => result[t] = result[u]

\* Only one thread at a time builds the method.
OneBuilder ==
    \A t, u \in Threads : at[t] \in Building /\ at[u] \in Building => t = u

\* A thread is told nullptr only when BIO_meth_new() failed for it, never
\* because another thread was half way through.
NullOnlyOnFailure ==
    [][\A t \in Threads : Get(t) => result'[t] # None]_methodVars

\* Every call returns, those included that wait for the mutex, also where the
\* thread before them fails: only failures without end of the other threads,
\* which take the mutex again and again, can keep a thread waiting.
CallsReturn ==
    \A t \in Threads :
      \/ []<>(at[t] = "idle")
      \/ \E u \in Threads \ {t} : []<>(at[u] = "fail")

=============================================================================
