------------------------------ MODULE Win32Args ------------------------------
(***************************************************************************)
(* The argument handling of the win32 OS-layer plugin                      *)
(* (src/memflow-win32/src/plugins.rs): build_kernel passes the builder     *)
(* through build_dtb, build_caches (build_vat, build_page_cache),          *)
(* build_kernel_hint, build_symstore and build_arch before build_final.    *)
(*                                                                         *)
(* A string argument is a sequence of tokens: single characters, the       *)
(* separators "&", ":", ";", and the words the code looks for ("page",     *)
(* "vat", "default", "none", ...).  A word no code path looks for stands   *)
(* for any other text.  An absent key is Absent.                           *)
(*                                                                         *)
(* The module is a harness for a pure function: Init picks the arguments,  *)
(* the one step is the call of build_kernel.                               *)
(***************************************************************************)
EXTENDS Naturals, Sequences, SequencesExt

CONSTANTS
    MemcacheValues,     \* values of the "memcache" key
    DtbValues,          \* values of the "dtb" and "kernel_hint" keys
    ArchValues,         \* values of the "arch" key (one word each)
    SymstoreValues,     \* values of the "symstore" key (one word each)
    Absent,             \* model value: the key is not in Args
    Unset,              \* model value: nothing configured / parse Err
    Pending,            \* model value: build_kernel not called yet
    ConfigError,        \* model value: Err(ErrorKind::Configuration)
    KernelError,        \* model value: kernel_builder.build() failed
    Defaults            \* model value: a cache built with its defaults

\* Characters: the digits and unit letters the inputs use.
HexValue == ("0" :> 0) @@ ("1" :> 1) @@ ("b" :> 11) @@ ("B" :> 11)
            @@ ("f" :> 15) @@ ("F" :> 15)
DecValue == ("0" :> 0) @@ ("1" :> 1)
\* char::to_lowercase on the characters and words of the inputs.
LowerTable == ("K" :> "k") @@ ("M" :> "m") @@ ("G" :> "g") @@ ("B" :> "b")
              @@ ("F" :> "f") @@ ("X64" :> "x64") @@ ("AArch64" :> "aarch64")
Lower(c) == IF c \in DOMAIN LowerTable THEN LowerTable[c] ELSE c
ToLowercase(s) == [i \in 1..Len(s) |-> Lower(s[i])]

-----------------------------------------------------------------------------
(* String operations of the standard library, as they behave.              *)

\* str::split(sep): always at least one piece, possibly empty ones.
RECURSIVE Split(_, _)
Split(s, sep) ==
    LET i == SelectInSeq(s, LAMBDA c : c = sep) IN
    IF i = 0 THEN <<s>>
    ELSE <<SubSeq(s, 1, i - 1)>> \o Split(SubSeq(s, i + 1, Len(s)), sep)

\* str::splitn(2, sep).
SplitN2(s, sep) ==
    LET i == SelectInSeq(s, LAMBDA c : c = sep) IN
    IF i = 0 THEN <<s>> ELSE <<SubSeq(s, 1, i - 1), SubSeq(s, i + 1, Len(s))>>

\* str::trim_end_matches(e): removes e from the end as often as it occurs.
RECURSIVE TrimEndMatches(_, _)
TrimEndMatches(s, e) ==
    IF Len(e) > 0 /\ IsSuffix(e, s)
    THEN TrimEndMatches(SubSeq(s, 1, Len(s) - Len(e)), e)
    ELSE s

\* usize::from_str_radix / u64::from_str / parse: an optional leading '+',
\* then at least one digit of the radix.  Result: a value or Unset (Err).
FromStrRadix(s, digit) ==
    LET d == IF Len(s) > 0 /\ s[1] = "+" THEN Tail(s) ELSE s
        radix == IF digit = HexValue THEN 16 ELSE 10
    IN IF Len(d) > 0 /\ \A i \in 1..Len(d) : d[i] \in DOMAIN digit
       THEN FoldLeft(LAMBDA acc, c : acc * radix + digit[c], 0, d)
       ELSE Unset

ParsedHex(s) == FromStrRadix(s, HexValue)
ParsedDec(s) == FromStrRadix(s, DecValue)

\* args.get(key).and_then(|d| u64::from_str_radix(d, 16).ok()).
HexArg(v) == IF v = Absent THEN Unset ELSE ParsedHex(v)

-----------------------------------------------------------------------------
(* The cache configuration.  A cache is Unset, Defaults (built with the    *)
(* builder's defaults) or a record of what the code passes to it.  A page  *)
(* cache size is kept as <<count, power>> for count * 1024^power, so that  *)
(* no product is formed.                                                   *)

\* Mutant: the gigabyte entry multiplies by size::mb(1).
UnitTableGbAsMb == << <<1, <<"k", "b">> >>, <<1, <<"k">> >>,
                      <<2, <<"m", "b">> >>, <<2, <<"m">> >>,
                      <<2, <<"g", "b">> >>, <<2, <<"g">> >> >>

\* mul_arr of build_page_cache, in iteration order.
UnitTable == << <<1, <<"k", "b">> >>, <<1, <<"k">> >>,
                <<2, <<"m", "b">> >>, <<2, <<"m">> >>,
                <<3, <<"g", "b">> >>, <<3, <<"g">> >> >>

\* The size of build_page_cache: the first unit the lowercased string ends
\* with is trimmed from the original string, and the rest parsed as hex.
PageSize(size) ==
    LET i == SelectInSeq(UnitTable, LAMBDA u : IsSuffix(u[2], ToLowercase(size)))
    IN IF i = 0 THEN Unset
       ELSE LET n == ParsedHex(TrimEndMatches(size, UnitTable[i][2])) IN
            IF n = Unset THEN Unset ELSE <<n, UnitTable[i][1]>>

\* mode.split('&').find(|s| s.contains(word)), or Unset.
FindPart(mode, word) ==
    LET parts == Split(mode, "&")
        i == SelectInSeq(parts, LAMBDA p : Contains(p, word))
    IN IF i = 0 THEN Unset ELSE parts[i]

\* The cache build_vat (word "vat") or build_page_cache (word "page")
\* configures for mode: [ok |-> FALSE] on a Configuration error.
CachePart(mode, word) ==
    LET part == FindPart(mode, word) IN
    IF part = Unset THEN [ok |-> TRUE, cache |-> Unset]
    ELSE LET colon == Split(part, ":") IN
    IF Len(colon) < 2 THEN [ok |-> TRUE, cache |-> Defaults]
    ELSE LET sp == SplitN2(colon[2], ";") IN
    IF Len(sp) < 2 THEN [ok |-> FALSE]
    ELSE LET size == IF word = "page" THEN PageSize(sp[1]) ELSE ParsedHex(sp[1])
             time == ParsedDec(sp[2])
         IN IF size = Unset \/ time = Unset THEN [ok |-> FALSE]
            ELSE [ok |-> TRUE, cache |-> [size |-> size, time |-> time]]

\* build_caches: memcache defaults to "default"; "default" builds both
\* caches with defaults, "none" neither; other modes go through build_vat,
\* then build_page_cache.
Caches(memcache) ==
    LET mode == IF memcache = Absent THEN <<"default">> ELSE memcache IN
    IF mode = <<"default">> THEN [ok |-> TRUE, vat |-> Defaults, page |-> Defaults]
    ELSE IF mode = <<"none">> THEN [ok |-> TRUE, vat |-> Unset, page |-> Unset]
    ELSE LET vat == CachePart(mode, "vat")
             page == CachePart(mode, "page")
         IN IF ~vat.ok THEN [ok |-> FALSE]
            ELSE IF ~page.ok THEN [ok |-> FALSE]
            ELSE [ok |-> TRUE, vat |-> vat.cache, page |-> page.cache]

\* build_symstore: exact match, anything else keeps the default store.
Symstore(v) == IF v \in {"uncached", "none"} THEN v ELSE "default"

\* Mutant: the match is on the lowercased value, the original is passed on.
ArchNotLowered(v) ==
    IF v # Absent /\ Lower(v) \in {"x64", "x32", "x32_pae", "aarch64"}
    THEN v ELSE "default"

\* build_arch: lowercased match, anything else keeps the builder's arch.
Arch(v) ==
    IF v # Absent /\ Lower(v) \in {"x64", "x32", "x32_pae", "aarch64"}
    THEN Lower(v) ELSE "default"

\* The configuration the builder chain hands to build_final, or a
\* Configuration error.
Configure(a) ==
    LET c == Caches(a.memcache) IN
    IF ~c.ok THEN ConfigError
    ELSE [dtb |-> HexArg(a.dtb), vat |-> c.vat, page |-> c.page,
          kernel_hint |-> HexArg(a.kernel_hint),
          symstore |-> Symstore(a.symstore), arch |-> Arch(a.arch)]

-----------------------------------------------------------------------------
ArgsSpace ==
    [memcache : MemcacheValues \cup {Absent}, dtb : DtbValues \cup {Absent},
     kernel_hint : DtbValues \cup {Absent}, arch : ArchValues \cup {Absent},
     symstore : SymstoreValues \cup {Absent}]

VARIABLES
    args,       \* the Args of the call
    mem,        \* whether a ConnectorInstance was passed
    result      \* Pending, ConfigError, KernelError or a configuration

vars == <<args, mem, result>>

Init ==
    /\ args \in ArgsSpace
    /\ mem \in BOOLEAN
    /\ result = Pending

\* build_kernel: no memory is a Configuration error; otherwise the chain
\* runs, and build_final's kernel_builder.build() may fail (kernel scan,
\* not modelled here).
BuildKernel ==
    /\ result = Pending
    /\ result' = IF ~mem THEN ConfigError ELSE Configure(args)
    /\ UNCHANGED <<args, mem>>

BuildKernelFails ==
    /\ result = Pending
    /\ mem
    /\ Configure(args) # ConfigError
    /\ result' = KernelError
    /\ UNCHANGED <<args, mem>>

Next == BuildKernel \/ BuildKernelFails

Spec == Init /\ [][Next]_vars

-----------------------------------------------------------------------------
(* Reference: the Args DSL of the specification (spec.md section 6),       *)
(*   dtb=<hex u64>, arch=x64|x32|x32_pae|aarch64, symstore=uncached|none,  *)
(*   memcache=default|none|page:<size><unit>;<ms>&vat:<entries>;<ms>       *)
(* with <unit> in {kb,k,mb,m,gb,g}, sizes hex and times decimal; a value   *)
(* outside the grammar is a Configuration error (section 7).  The spec     *)
(* names no default for an absent memcache: the code's "default" is kept. *)

SpecHex(s) ==
    IF Len(s) > 0 /\ \A i \in 1..Len(s) : s[i] \in DOMAIN HexValue
    THEN FoldLeft(LAMBDA acc, c : acc * 16 + HexValue[c], 0, s) ELSE Unset
SpecDec(s) ==
    IF Len(s) > 0 /\ \A i \in 1..Len(s) : s[i] \in DOMAIN DecValue
    THEN FoldLeft(LAMBDA acc, c : acc * 10 + DecValue[c], 0, s) ELSE Unset

\* <size><unit>: hex digits, then exactly one unit.
SpecUnits == (<<"k", "b">> :> 1) @@ (<<"k">> :> 1) @@ (<<"m", "b">> :> 2)
             @@ (<<"m">> :> 2) @@ (<<"g", "b">> :> 3) @@ (<<"g">> :> 3)
SpecSize(s) ==
    IF \E k \in 1..Len(s) - 1 :
         SpecHex(SubSeq(s, 1, k)) # Unset /\ SubSeq(s, k + 1, Len(s)) \in DOMAIN SpecUnits
    THEN LET k == CHOOSE k \in 1..Len(s) - 1 :
                    SpecHex(SubSeq(s, 1, k)) # Unset /\ SubSeq(s, k + 1, Len(s)) \in DOMAIN SpecUnits
         IN <<SpecHex(SubSeq(s, 1, k)), SpecUnits[SubSeq(s, k + 1, Len(s))]>>
    ELSE Unset

\* word:<size>;<ms> with the size grammar of word.
SpecPart(p, word) ==
    IF Len(p) >= 2 /\ p[1] = word /\ p[2] = ":"
    THEN LET f == Split(SubSeq(p, 3, Len(p)), ";")
             size == IF word = "page" THEN SpecSize(f[1]) ELSE SpecHex(f[1])
         IN IF Len(f) = 2 /\ size # Unset /\ SpecDec(f[2]) # Unset
            THEN [size |-> size, time |-> SpecDec(f[2])] ELSE Unset
    ELSE Unset

SpecMemcache(m) ==
    IF m \in {Absent, <<"default">>} THEN [ok |-> TRUE, vat |-> Defaults, page |-> Defaults]
    ELSE IF m = <<"none">> THEN [ok |-> TRUE, vat |-> Unset, page |-> Unset]
    ELSE LET parts == Split(m, "&") IN
         IF /\ Len(parts) = 2
            /\ SpecPart(parts[1], "page") # Unset
            /\ SpecPart(parts[2], "vat") # Unset
         THEN [ok |-> TRUE, page |-> SpecPart(parts[1], "page"),
               vat |-> SpecPart(parts[2], "vat")]
         ELSE [ok |-> FALSE]

SpecAccepts(a) ==
    /\ SpecMemcache(a.memcache).ok
    /\ a.dtb = Absent \/ SpecHex(a.dtb) # Unset
    /\ a.arch \in {Absent, "x64", "x32", "x32_pae", "aarch64"}
    /\ a.symstore \in {Absent, "uncached", "none"}

-----------------------------------------------------------------------------
(* Properties.                                                             *)

TypeOK ==
    /\ args \in ArgsSpace
    /\ mem \in BOOLEAN
    /\ result \in {Pending, ConfigError, KernelError}
       \/ /\ DOMAIN result = {"dtb", "vat", "page", "kernel_hint", "symstore", "arch"}
          /\ result.vat \in {Unset, Defaults} \cup [size : Nat, time : Nat]
          /\ result.page \in {Unset, Defaults} \cup [size : Nat \X (1..3), time : Nat]
          /\ result.arch \in {"default", "x64", "x32", "x32_pae", "aarch64"}

\* For every argument string the specification's DSL accepts, the builder
\* chain configures exactly what the DSL says: the dtb, the architecture,
\* the symbol store, and the VAT and page caches with the sizes (page size
\* with its unit) and validity times written, through split('&'),
\* split(':'), splitn(2, ';'), the unit table and the radix parses; and it
\* reports no Configuration error for them.
SpecArgsConfigured ==
    (result # Pending /\ mem /\ SpecAccepts(args)) =>
        /\ result # ConfigError
        /\ result # KernelError =>
              LET m == SpecMemcache(args.memcache) IN
              /\ result.dtb = (IF args.dtb = Absent THEN Unset ELSE SpecHex(args.dtb))
              /\ result.arch = (IF args.arch = Absent THEN "default" ELSE args.arch)
              /\ result.symstore = (IF args.symstore = Absent THEN "default" ELSE args.symstore)
              /\ result.vat = m.vat
              /\ result.page = m.page

\* An argument value outside the DSL (a misspelt memcache mode, a dtb that
\* is not hex, an unknown arch or symstore) is refused with a Configuration
\* error (spec.md section 7: "bad Args, unknown key value, bad DSL"), rather
\* than building the kernel with a default in its place.
BadArgsRejected ==
    (result # Pending /\ mem /\ ~SpecAccepts(args)) => result = ConfigError
=============================================================================
