---------------------------- MODULE MCPointer64 -----------------------------
(* Pointer64 with u64 scaled to 6 bits (u32 to 3 bits).                    *)
EXTENDS Pointer64
=============================================================================
