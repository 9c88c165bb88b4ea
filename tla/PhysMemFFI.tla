------------------------------ MODULE PhysMemFFI ------------------------------
(***************************************************************************)
(* The C interface to a physical-memory provider,                          *)
(* src/memflow-ffi/src/mem/phys_mem.rs, over the provider's MemoryMap.     *)
(*                                                                         *)
(* Every extern "C" function is one action: it forwards to the provider    *)
(* and turns the result into what C sees (into_int_result: 0 or a negative *)
(* code; unwrap_or_default: the value, or 0).  The provider and MemoryMap  *)
(* are not in this repository: push_remap, resolve, and the provider's     *)
(* reads and writes follow spec.md sections 3, 4.1 and 4.2.               *)
(*                                                                         *)
(* Addresses are cells: a u32 is one cell and a u64 two, little-endian.    *)
(***************************************************************************)
EXTENDS Naturals, FiniteSets, Sequences, SequencesExt

CONSTANTS
    Addrs,          \* addresses the C caller uses
    RealAddrs,      \* addresses of the device behind the map
    Values,         \* contents of one cell, 0..Radix-1
    MapChoices,     \* the arrays of PhysicalMemoryMapping the caller passes
    NoMap,          \* model value: no map installed (addresses go straight through)
    NoStatus,       \* model value: the code of a C function that returns no status
    OutOfBounds     \* model value: Error::OutOfBounds from resolve

Radix == Cardinality(Values)
Entry == [base : Addrs, size : 1..Cardinality(Addrs), real_base : RealAddrs]

ASSUME /\ Values = 0..Radix - 1
       /\ MapChoices \subseteq Seq(Entry)

VARIABLES
    map,    \* the MemoryMap set on the provider, or NoMap
    mem,    \* [RealAddrs -> Values]: the device
    last    \* the last call, its arguments and what it returned to C

vars == <<map, mem, last>>

-----------------------------------------------------------------------------
(* MemoryMap (spec.md 4.2).                                                *)

Overlap(e, m) == e.base < m.base + m.size /\ m.base < e.base + e.size

\* Where push_remap inserts e: the number of entries with a smaller base.
InsertPos(mm, e) == Cardinality({i \in 1..Len(mm) : mm[i].base < e.base})

\* push_remap: insert keeping the entries ordered by base; an entry that
\* overlaps its neighbour before or after is rejected.
PushRemap(mm, e) ==
    LET k == InsertPos(mm, e) IN
    IF \/ k > 0 /\ Overlap(e, mm[k])
       \/ k < Len(mm) /\ Overlap(e, mm[k + 1])
    THEN mm
    ELSE SubSeq(mm, 1, k) \o <<e>> \o SubSeq(mm, k + 1, Len(mm))

\* resolve(addr, len): the real address of every cell, or OutOfBounds if
\* one cell is unmapped (no partial resolve).
Resolve(mm, a, len) ==
    LET cells == [i \in 1..len |-> a + i - 1]
        RealOf(c) ==
            IF mm = NoMap THEN c
            ELSE LET E == {e \in ToSet(mm) : c >= e.base /\ c < e.base + e.size}
                 IN IF E = {} THEN OutOfBounds
                    ELSE LET e == CHOOSE x \in E : TRUE IN e.real_base + (c - e.base)
        R == [i \in 1..len |-> RealOf(cells[i])]
    IN IF \E i \in 1..len : R[i] = OutOfBounds \/ R[i] \notin RealAddrs
       THEN OutOfBounds ELSE R

-----------------------------------------------------------------------------
(* The provider (spec.md 4.1) and the C conversions.                        *)

\* Result::into_int_result: 0 for Ok, a negative code for Err.
IntResult(ok) == IF ok THEN 0 ELSE -1

\* Reading len cells at a: the bytes, or OutOfBounds.
ReadBytes(a, len) ==
    LET R == Resolve(map, a, len) IN
    IF R = OutOfBounds THEN OutOfBounds ELSE [i \in 1..len |-> mem[R[i]]]

\* Writing the cells d at a into device m: all of them, or none if one
\* cell does not resolve.  Where two cells alias one real address the
\* later one is written last.
WriteBytes(m, a, d) ==
    LET R == Resolve(map, a, Len(d)) IN
    IF R = OutOfBounds THEN m
    ELSE [r \in RealAddrs |->
            LET I == {i \in 1..Len(d) : R[i] = r} IN
            IF I = {} THEN m[r] ELSE d[Max(I)]]

\* Mutant: the value is split into cells without truncating each to a cell.
EncodeNoMod(v, len) == [i \in 1..len |-> v \div (Radix ^ (i - 1))]

\* A little-endian integer of cells, and back.
Decode(d) == FoldRight(LAMBDA c, acc : c + Radix * acc, d, 0)
Encode(v, len) == [i \in 1..len |-> (v \div (Radix ^ (i - 1))) % Radix]

\* The result C sees, recorded for the properties.
Ret(op, a, args, code, out) ==
    last' = [op |-> op, addr |-> a, args |-> args, code |-> code, out |-> out]

-----------------------------------------------------------------------------
(* The extern "C" functions.                                               *)

Cells == UNION {[1..n -> Values] : n \in 1..2}

\* phys_read_raw_list: every entry is read on its own; a failed entry does
\* not stop the batch, and the batch result says whether all succeeded.
PhysReadRawList(b) ==
    LET out == [i \in 1..Len(b) |-> ReadBytes(b[i], 1)]
    IN /\ Ret("read_raw_list", 0, b, IntResult(\A i \in 1..Len(b) : out[i] # OutOfBounds), out)
       /\ UNCHANGED <<map, mem>>

\* Mutant: `from_raw_parts(data, len - 1)`, the slice misses the last entry.
PhysWriteRawListShort(b) ==
    LET s == SubSeq(b, 1, Len(b) - 1) IN
    /\ \E order \in SetToSeqs(DOMAIN s) :
          mem' = FoldLeft(LAMBDA m, i : WriteBytes(m, s[i].addr, s[i].data), mem, order)
    /\ Ret("write_raw_list", 0, b,
           IntResult(\A i \in DOMAIN s : Resolve(map, s[i].addr, Len(s[i].data)) # OutOfBounds),
           <<>>)
    /\ UNCHANGED map

\* phys_write_raw_list: the C array as a slice of len entries, handed to the
\* provider's batch write, and the int result.  The provider writes every
\* entry on its own, in an order of its choosing (spec.md 4.1: entries are
\* independent and may be reordered internally).
PhysWriteRawList(b) ==
    /\ \E order \in SetToSeqs(DOMAIN b) :
          mem' = FoldLeft(LAMBDA m, i : WriteBytes(m, b[i].addr, b[i].data), mem, order)
    /\ Ret("write_raw_list", 0, b,
           IntResult(\A i \in DOMAIN b : Resolve(map, b[i].addr, Len(b[i].data)) # OutOfBounds),
           <<>>)
    /\ UNCHANGED map

\* phys_metadata: the provider's size; nothing changes.
PhysMetadata ==
    /\ Ret("metadata", 0, <<>>, 0, Cardinality(RealAddrs))
    /\ UNCHANGED <<map, mem>>

\* phys_set_mem_map: a fresh MemoryMap gets push_remap of every entry, the
\* result of each push ignored, and replaces the provider's map.  The
\* function returns nothing to C.
PhysSetMemMap(ms) ==
    /\ map' = FoldLeft(PushRemap, <<>>, ms)
    /\ Ret("set_mem_map", 0, ms, NoStatus, <<>>)
    /\ UNCHANGED mem

\* phys_read_raw: len cells into `out`, and the int result.
PhysReadRaw(a, len) ==
    LET r == ReadBytes(a, len) IN
    /\ Ret("read_raw", a, len, IntResult(r # OutOfBounds), IF r = OutOfBounds THEN <<>> ELSE r)
    /\ UNCHANGED <<map, mem>>

\* phys_read_u32 / phys_read_u64: phys_read::<T>(addr).unwrap_or_default().
PhysReadTyped(op, a, len) ==
    LET r == ReadBytes(a, len) IN
    /\ Ret(op, a, len, NoStatus, IF r = OutOfBounds THEN 0 ELSE Decode(r))
    /\ UNCHANGED <<map, mem>>

PhysReadU32(a) == PhysReadTyped("read_u32", a, 1)
PhysReadU64(a) == PhysReadTyped("read_u64", a, 2)

\* phys_write_raw: len cells from `input`, and the int result.
PhysWriteRaw(a, d) ==
    /\ mem' = WriteBytes(mem, a, d)
    /\ Ret("write_raw", a, d, IntResult(Resolve(map, a, Len(d)) # OutOfBounds), <<>>)
    /\ UNCHANGED map

\* phys_write_u32 / phys_write_u64: phys_write(addr, &val), the value's
\* little-endian bytes.
PhysWriteTyped(op, a, v, len) ==
    /\ mem' = WriteBytes(mem, a, Encode(v, len))
    /\ Ret(op, a, Encode(v, len), IntResult(Resolve(map, a, len) # OutOfBounds), <<>>)
    /\ UNCHANGED map

PhysWriteU32(a, v) == PhysWriteTyped("write_u32", a, v, 1)
PhysWriteU64(a, v) == PhysWriteTyped("write_u64", a, v, 2)

Init ==
    /\ map = NoMap
    /\ mem \in [RealAddrs -> Values]
    /\ last = [op |-> "none", addr |-> 0, args |-> <<>>, code |-> 0, out |-> <<>>]

Next ==
    \/ \E b \in [1..2 -> Addrs] : PhysReadRawList(b)
    \/ \E b \in [1..2 -> [addr : Addrs, data : [1..1 -> Values]]] : PhysWriteRawList(b)
    \/ PhysMetadata
    \/ \E ms \in MapChoices : PhysSetMemMap(ms)
    \/ \E a \in Addrs, len \in 1..2 : PhysReadRaw(a, len)
    \/ \E a \in Addrs : PhysReadU32(a) \/ PhysReadU64(a)
    \/ \E a \in Addrs, d \in Cells : PhysWriteRaw(a, d)
    \/ \E a \in Addrs, v \in 0..Radix - 1 : PhysWriteU32(a, v)
    \/ \E a \in Addrs, v \in 0..Radix ^ 2 - 1 : PhysWriteU64(a, v)

Spec == Init /\ [][Next]_vars

-----------------------------------------------------------------------------
(* Properties.                                                             *)

TypeOK ==
    /\ map = NoMap \/ map \in Seq(Entry)
    /\ mem \in [RealAddrs -> Values]
    /\ last.op \in {"none", "read_raw_list", "write_raw_list", "metadata", "set_mem_map",
                    "read_raw", "read_u32", "read_u64", "write_raw", "write_u32", "write_u64"}

\* spec.md sections 4.1 and 7: a write batch never aborts and its entries
\* are independent.  After phys_write_raw_list every real address that
\* exactly one resolving entry covers holds that entry's data, whatever the
\* other entries did; an address no resolving entry covers keeps its value;
\* and C sees success exactly when every entry resolved.
BatchWritesIndependent ==
    [][ last'.op = "write_raw_list" =>
          LET b == last'.args
              R == [i \in DOMAIN b |-> Resolve(map, b[i].addr, Len(b[i].data))]
              Hit(i) == IF R[i] = OutOfBounds THEN {} ELSE ToSet(R[i])
          IN /\ (last'.code = 0) <=> \A i \in DOMAIN b : R[i] # OutOfBounds
             /\ \A i \in DOMAIN b : \A k \in DOMAIN b[i].data :
                  (/\ R[i] # OutOfBounds
                   /\ \A j \in DOMAIN b \ {i} : R[i][k] \notin Hit(j)
                   /\ \A c \in DOMAIN b[i].data \ {k} : R[i][c] # R[i][k])
                     => mem'[R[i][k]] = b[i].data[k]
             /\ \A r \in RealAddrs :
                  mem'[r] # mem[r] => \E i \in DOMAIN b : r \in Hit(i) ]_vars

\* Whether C was told of a failure: a function that returns an int status
\* returned a nonzero one (NoStatus: the function returns no status).
Reported(l) == l.code # NoStatus /\ l.code # 0

\* spec.md sections 6 and 7: single-shot typed reads return their error, and
\* at the C boundary a failure is a negative int32.  So a phys_read_u32 or
\* phys_read_u64 of an address whose cells do not all resolve must let C
\* tell: a nonzero status, or a value that no read of the device returns.
TypedReadErrorsReported ==
    LET len == IF last.op = "read_u32" THEN 1 ELSE 2 IN
    /\ last.op \in {"read_u32", "read_u64"}
    /\ Resolve(map, last.addr, len) = OutOfBounds
    => \/ Reported(last)
       \/ \A d \in [1..len -> Values] : last.out # Decode(d)

\* spec.md sections 4.2 and 6: push_remap rejects an overlapping entry and
\* every C function returns an int32 status, so a phys_set_mem_map that
\* installed fewer entries than the C array holds reports it to C.
MemMapInstalledOrRejected ==
    last.op = "set_mem_map" /\ Len(map) < Len(last.args) => Reported(last)
====
