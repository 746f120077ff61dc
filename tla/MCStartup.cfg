CONSTANTS
    Bound <- MCBound
    Arguments <- MCArguments
    MaxArgs = 3
    IntMax = 7
    UlongMax = 15
    PortMax = 7
    Unset = Unset
    MaxAddresses = 2
    AtomicFlags = FALSE
    ReusePort = TRUE
    Errno = {"EIO", "EINVAL"}
    Fd = {f1, f2}
    Data = {d1, d2}
    None = None
SPECIFICATION Spec
INVARIANTS
    FlagsAsGiven
    ListenerDelivers
    WokenAsAgreed
    NothingAfterDel
    OnlyTheArrayIsLost
CHECK_DEADLOCK FALSE
