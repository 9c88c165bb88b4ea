\* Misspelt or unknown cache modes, a dtb that is not hex, unknown arch
\* and symstore words, beside well-formed values.
CONSTANTS
    Absent = Absent
    Unset = Unset
    Pending = Pending
    ConfigError = ConfigError
    KernelError = KernelError
    Defaults = Defaults
    MemcacheValues <- MCMistypedMemcacheValues
    DtbValues <- MCDtbValues
    ArchValues <- MCBadArchValues
    SymstoreValues <- MCSymstoreValues

SPECIFICATION Spec

\* build_kernel returns: the process has nothing more to do.
CHECK_DEADLOCK FALSE

INVARIANTS
    BadArgsRejected
