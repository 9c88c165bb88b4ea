CONSTANTS
    Threads = {main, vcpu0, vcpu1}
    Bridge = Bridge
    Free = Free
    MaxCalls = 3
    UnlockSymbolChoices = {FALSE}
SPECIFICATION Spec
\* The bridge thread may die holding the mutex; the property, not the
\* deadlock, is what this run asks about.
CHECK_DEADLOCK FALSE
PROPERTY QemuThreadsProgress
