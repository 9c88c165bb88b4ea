------------------------------ MODULE Pointer64 ------------------------------
(***************************************************************************)
(* Pointer64<T> of src/memflow/src/types/pointer64.rs: a u64 address with  *)
(* a phantom element type.  `at`, `+` and `-` move the address by          *)
(* `i * size_of::<T>()` bytes, the product computed in usize and then cast *)
(* to u64.  Integer widths are scaled down: the address has AddrBits bits  *)
(* (u64), usize has UsizeBits bits (AddrBits on a 64-bit host, half of it  *)
(* on a 32-bit host) and u32 has AddrBits \div 2 bits.  An overflow panics *)
(* in a debug build and wraps in a release build.                          *)
(*                                                                         *)
(* The state is one pointer value, moved by a sequence of operations; the  *)
(* last operation is kept so that a step can be compared with exact        *)
(* arithmetic.                                                             *)
(***************************************************************************)
EXTENDS Naturals

CONSTANTS
    AddrBits,       \* width of u64, scaled
    UsizeBits,      \* width of usize on the host, scaled
    SizeOfT,        \* size_of::<T>() of the element type
    Build,          \* "debug" (overflow checks on) or "release" (wrapping)
    Panic           \* model value: the result of an operation that panicked

ASSUME /\ AddrBits \in Nat \ {0} /\ AddrBits % 2 = 0
       /\ UsizeBits \in 1..AddrBits
       /\ SizeOfT \in Nat \ {0}
       /\ Build \in {"debug", "release"}

U64 == 2^AddrBits
Usize == 2^UsizeBits
U32Max == 2^(AddrBits \div 2) - 1

\* Checked arithmetic: wraps modulo 2^w in release, panics in debug.
Checked(v, w) ==
    IF v >= 0 /\ v < w THEN v
    ELSE IF Build = "debug" THEN Panic ELSE v % w

ByteOffset(i) == Checked(i * SizeOfT, Usize)

\* Mutant: `at` with no overflow check at all.
AtUnchecked(addr, i) == addr + i * SizeOfT

-----------------------------------------------------------------------------
(* Operations on the address.                                              *)

\* Pointer64<[T]>::at(i): self.address + (i * size_of::<T>()) as u64.
At(addr, i) ==
    LET off == ByteOffset(i) IN
    IF off = Panic THEN Panic ELSE Checked(addr + off, U64)

\* impl Add<usize>: the same computation as `at`, keeping the type.
AddElems(addr, i) ==
    LET off == ByteOffset(i) IN
    IF off = Panic THEN Panic ELSE Checked(addr + off, U64)

\* impl Sub<usize>: self.address - (other * size_of::<T>()) as u64.
SubElems(addr, i) ==
    LET off == ByteOffset(i) IN
    IF off = Panic THEN Panic ELSE Checked(addr - off, U64)

\* impl From<u32>: `address as u64`, zero-extending.
FromU32(v) == v

-----------------------------------------------------------------------------
VARIABLES
    addr,       \* the pointer's address, or Panic once an operation panicked
    last        \* the last operation: [op, from, i], or a record with op "none"

vars == <<addr, last>>

Ops == {"at", "add", "sub"}
Indices == 0..Usize - 1

\* Pointer64::from(u64): any address read from the target.
Init ==
    /\ addr \in 0..U64 - 1
    /\ last = [op |-> "none", from |-> addr, i |-> 0]

\* Moving the pointer by an element index with one of the operations.
Step(op, i) ==
    /\ addr # Panic
    /\ addr' = CASE op = "at"  -> At(addr, i)
                 [] op = "add" -> AddElems(addr, i)
                 [] op = "sub" -> SubElems(addr, i)
    /\ last' = [op |-> op, from |-> addr, i |-> i]

\* Pointer64::NULL, null() and Default::default(): address 0.
Null ==
    /\ addr # Panic
    /\ addr' = 0
    /\ last' = [op |-> "null", from |-> addr, i |-> 0]

\* Pointer64::from(v) for a u32 value v.
FromU32Op(v) ==
    /\ addr # Panic
    /\ addr' = FromU32(v)
    /\ last' = [op |-> "from_u32", from |-> addr, i |-> v]

Next ==
    \/ \E op \in Ops, i \in Indices : Step(op, i)
    \/ Null
    \/ \E v \in 0..U32Max : FromU32Op(v)

Spec == Init /\ [][Next]_vars

-----------------------------------------------------------------------------
(* Properties.                                                             *)

TypeOK ==
    /\ addr \in (0..U64 - 1) \cup {Panic}
    /\ last.op \in Ops \cup {"none", "null", "from_u32"}
    /\ last.from \in 0..U64 - 1
    /\ last.i \in Indices \cup 0..U32Max

\* spec.md section 8: Pointer64::from(a).at(b).address == a + b * sizeof(T)
\* whenever that sum does not overflow the address (and `at` did not panic).
AtMatchesSpec ==
    [][ /\ last'.op = "at"
        /\ addr' # Panic
        /\ last'.from + last'.i * SizeOfT < U64
        => addr' = last'.from + last'.i * SizeOfT ]_vars

=============================================================================
