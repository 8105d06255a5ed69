SPECIFICATION Spec
CONSTANT Fds <- MCFds
INVARIANTS
    TypeOK
    CallsReachLibrary
    LibraryReleased
