SPECIFICATION Spec
CONSTANT Fds <- MCFds
INVARIANT NoLeak
CHECK_DEADLOCK FALSE
