CONSTANTS
    Absent = Absent
    Unset = Unset
    Pending = Pending
    ConfigError = ConfigError
    KernelError = KernelError
    Defaults = Defaults
    MemcacheValues <- MCMemcacheValues
    DtbValues <- MCDtbValues
    ArchValues <- MCArchValues
    SymstoreValues <- MCSymstoreValues

SPECIFICATION Spec

\* build_kernel returns: the process has nothing more to do.
CHECK_DEADLOCK FALSE

INVARIANTS
    TypeOK
    SpecArgsConfigured
