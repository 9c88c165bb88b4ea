\* Release build on a 32-bit host: usize half as wide as u64, overflow wraps.
CONSTANTS
    AddrBits = 6
    UsizeBits = 3
    SizeOfT = 2
    Build = "release"
    Panic = Panic
SPECIFICATION Spec
PROPERTIES AtMatchesSpec
