------------------------------ MODULE NtosScan ------------------------------
(***************************************************************************)
(* find and find_x64_with_va of src/flow-win32/src/ntos.rs: look for       *)
(* ntoskrnl.exe below a virtual-address hint.  The hint is aligned down to *)
(* a 2 MiB window; while `va_base + 32 MiB > va` the window is read, its   *)
(* 4 KiB pages are searched in order for an MZ page holding POOLCODE whose *)
(* 8 MiB image parses as a PE, and `va_base` moves 2 MiB down.             *)
(*                                                                         *)
(* Addresses are counted in pages: a window has PagesPerWindow pages (512  *)
(* in the code), the scan spans ScanWindows windows (16) and the address   *)
(* space has 2^AddrBits pages.  The u64 `+` and `-=` of the loop panic in  *)
(* a debug build and wrap in a release build.                              *)
(*                                                                         *)
(* Memory is a layout chosen in Init: the page of the kernel image, a page *)
(* whose image makes the PE checks panic (the `unwrap` of the 8 MiB read,  *)
(* `expect("No optional header")`, the export-table `unwrap`), and a window *)
(* whose read fails.  A page with no MZ, no POOLCODE or an image that does *)
(* not parse, and a window read that returns an empty buffer, are all      *)
(* passed over by the code alike and are the "plain" pages of the model.   *)
(***************************************************************************)
EXTENDS Naturals, FiniteSetsExt

CONSTANTS
    AddrBits,         \* the address space has 2^AddrBits pages
    PagesPerWindow,   \* 2 MiB / 4 KiB
    ScanWindows,      \* 32 MiB / 2 MiB
    Build,            \* "debug" or "release"
    Err,              \* model value: find returned an error
    Panic,            \* model value: the thread panicked
    NoPage            \* model value: no such page or window

ASSUME /\ AddrBits \in Nat \ {0}
       /\ PagesPerWindow \in Nat \ {0}
       /\ (2^AddrBits) % PagesPerWindow = 0
       /\ ScanWindows \in Nat \ {0}
       /\ Build \in {"debug", "release"}

U64 == 2^AddrBits
Pages == 0..U64 - 1
Windows == {p \in Pages : p % PagesPerWindow = 0}
Span == ScanWindows * PagesPerWindow

VARIABLES
    arch,       \* dtb.arch.instruction_set
    va,         \* dtb.va, the hint
    kernel,     \* page of the ntoskrnl.exe image, or NoPage
    bad,        \* page whose PE checks panic, or NoPage
    fault,      \* window whose virt_read fails, or NoPage
    phase,      \* "start", "scan" (inside the loop) or "done"
    vaBase,     \* va_base
    result      \* NoPage until find returns: a page, Err or Panic

vars == <<arch, va, kernel, bad, fault, phase, vaBase, result>>
layout == <<arch, va, kernel, bad, fault>>

-----------------------------------------------------------------------------
(* The code.                                                               *)

\* Mutant: the loop guard written with >=.
InScanRangeInclusive(hi) == hi >= va

\* Mutant: the hint rounded up to a window instead of down.
AlignUp(v) == v + (PagesPerWindow - (v % PagesPerWindow))

\* Mutant: the loop never moves va_base down.
NextBaseStuck(b) == b

\* u64 arithmetic: exact if in range, else a panic (debug) or wrapped.
Checked(v) ==
    IF v \in Pages THEN v ELSE IF Build = "debug" THEN Panic ELSE v % U64

\* `dtb.va.as_u64() & !0x1fffff`
Align(v) == v - (v % PagesPerWindow)

\* `va_base + Length::from_mb(32).as_u64() > dtb.va.as_u64()`
InScanRange(hi) == hi > va

\* `va_base -= Length::from_mb(2).as_u64()`
NextBase(b) == Checked(b - PagesPerWindow)

\* What the search finds on a page.
Content(p) ==
    CASE p = kernel -> "ntoskrnl"
      [] p = bad    -> "bad_pe"
      [] OTHER      -> "plain"

\* The iterator chain over the window's pages with `.nth(0)`: the first
\* page, in ascending order, that passes the filters or panics in them.
FirstCandidate(b) ==
    LET C == {p \in b..b + PagesPerWindow - 1 : Content(p) # "plain"}
    IN  IF C = {} THEN NoPage ELSE Min(C)

\* find: the x64 path with a non-null hint scans; every other path ends in
\* a stub (find_x64, find_x86) that fails.
Find ==
    /\ phase = "start"
    /\ IF arch = "X64" /\ va # 0
          THEN /\ phase' = "scan"
               /\ vaBase' = Align(va)
               /\ UNCHANGED result
          ELSE /\ phase' = "done"
               /\ result' = Err
               /\ UNCHANGED vaBase
    /\ UNCHANGED layout

\* The loop guard overflows.
GuardPanics ==
    /\ phase = "scan"
    /\ Checked(vaBase + Span) = Panic
    /\ phase' = "done" /\ result' = Panic
    /\ UNCHANGED <<vaBase>> /\ UNCHANGED layout

\* The loop exits: find_x64_with_va fails and find falls back to find_x64.
LoopExits ==
    /\ phase = "scan"
    /\ Checked(vaBase + Span) # Panic
    /\ ~InScanRange(Checked(vaBase + Span))
    /\ phase' = "done" /\ result' = Err
    /\ UNCHANGED <<vaBase>> /\ UNCHANGED layout

\* One iteration: read the window (`?` returns the read error), search it,
\* return the first candidate or move down a window.
ScanWindow ==
    /\ phase = "scan"
    /\ Checked(vaBase + Span) # Panic
    /\ InScanRange(Checked(vaBase + Span))
    /\ LET c == FirstCandidate(vaBase) IN
       CASE vaBase = fault ->
               phase' = "done" /\ result' = Err /\ UNCHANGED vaBase
         [] c # NoPage /\ Content(c) = "bad_pe" ->
               phase' = "done" /\ result' = Panic /\ UNCHANGED vaBase
         [] c # NoPage ->
               phase' = "done" /\ result' = c /\ UNCHANGED vaBase
         [] NextBase(vaBase) = Panic ->
               phase' = "done" /\ result' = Panic /\ UNCHANGED vaBase
         [] OTHER ->
               UNCHANGED <<phase, result>> /\ vaBase' = NextBase(vaBase)
    /\ UNCHANGED layout

Init ==
    /\ arch \in {"X64", "X86"}
    /\ va \in Pages
    /\ kernel \in Pages \cup {NoPage}
    /\ bad \in (Pages \ {kernel}) \cup {NoPage}
    /\ fault \in Windows \cup {NoPage}
    /\ phase = "start"
    /\ vaBase = 0
    /\ result = NoPage

Next == Find \/ GuardPanics \/ LoopExits \/ ScanWindow

\* find runs on one thread and every step of the loop is a plain call that
\* returns, so the thread keeps taking steps.
Spec == Init /\ [][Next]_vars /\ WF_vars(Next)

-----------------------------------------------------------------------------
(* Properties.                                                             *)

TypeOK ==
    /\ arch \in {"X64", "X86"}
    /\ va \in Pages
    /\ {kernel, bad} \subseteq Pages \cup {NoPage}
    /\ fault \in Windows \cup {NoPage}
    /\ phase \in {"start", "scan", "done"}
    /\ vaBase \in Windows
    /\ result \in Pages \cup {Err, Panic, NoPage}

\* Reference: the windows at and below the aligned hint that start within
\* 32 MiB of it, in exact arithmetic, searched in order; the first window
\* that cannot be read ends the search with an error.
RECURSIVE RefScan(_)
RefScan(b) ==
    IF b < 0 \/ b + Span <= va THEN Err
    ELSE IF b = fault THEN Err
    ELSE LET c == FirstCandidate(b) IN
         IF c = NoPage THEN RefScan(b - PagesPerWindow)
         ELSE IF Content(c) = "bad_pe" THEN Panic ELSE c

RefFind == IF arch = "X64" /\ va # 0 THEN RefScan(Align(va)) ELSE Err

\* Unless the thread panics, find returns what the reference search over the
\* 32 MiB below the hint returns: the loop's u64 arithmetic neither skips
\* windows in range nor reads windows outside it.
FindMatchesReference ==
    phase = "done" /\ result # Panic => result = RefFind

\* The loop of find_x64_with_va ends: find always returns or panics.
ScanTerminates == <>(phase = "done")
=============================================================================
