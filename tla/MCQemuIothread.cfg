CONSTANTS
    Threads = {main, vcpu0, vcpu1}
    Bridge = Bridge
    Free = Free
    MaxCalls = 3
    UnlockSymbolChoices = {TRUE}
SPECIFICATION Spec
PROPERTY QemuThreadsProgress
