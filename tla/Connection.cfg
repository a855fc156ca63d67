SPECIFICATION Spec
CONSTANT Fds <- MCFds
INVARIANTS
    TypeOK
    NoStrayClose
    SslOnlyForSock
    TlsWhenConfigured
    IoOnOwnSocket
    NoLeakWithoutTls
\* A destroyed client takes no more steps.
CHECK_DEADLOCK FALSE
