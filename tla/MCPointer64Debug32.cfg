\* Debug build on a 32-bit host: usize half as wide as u64, overflow panics.
\* size_of::<T>() = 2, so that at(i) for i >= 4 overflows the 3-bit usize
\* while the 6-bit address still has room.
CONSTANTS
    AddrBits = 6
    UsizeBits = 3
    SizeOfT = 2
    Build = "debug"
    Panic = Panic
SPECIFICATION Spec
INVARIANTS TypeOK
 
\* A panic ends the program: the state with addr = Panic has no successor.
CHECK_DEADLOCK FALSE
