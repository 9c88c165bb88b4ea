--------------------------- MODULE ConnectorPlugin ---------------------------
(***************************************************************************)
(* The connector plugin inventory of memflow-core                          *)
(* (src/memflow-core/src/connector/plugin.rs).                             *)
(*                                                                         *)
(* A ConnectorInventory scans directories, dlopen()s every entry           *)
(* (Connector::try_with), keeps the libraries that export a                *)
(* MEMFLOW_CONNECTOR descriptor of the right version, and creates          *)
(* ConnectorInstances through the plugin's factory.  Every Connector and   *)
(* every ConnectorInstance holds one share of an Arc<Library>; the shared  *)
(* object stays mapped while one handle to it is open.  Code and static    *)
(* data of a plugin (the provider's vtable, its drop glue, the &'static    *)
(* str inside an error it returns) are only usable while it is mapped.     *)
(*                                                                         *)
(* Directories and files are model values; the file system is a constant.  *)
(* A library handle is a number 1..MaxLibs; arc[h] is its Arc count.       *)
(***************************************************************************)
EXTENDS Naturals, FiniteSets, Sequences, SequencesExt

CONSTANTS
    Files,          \* directory entries (model values)
    Dirs,           \* paths handed to add_dir (model values)
    Names,          \* connector names exported by plugins
    DirEntries,     \* [d \in IsDir |-> sequence of the entries of d]
    FileKind,       \* [Files -> {"library", "not_library", "no_descriptor"}]
    FileVersion,    \* [Files -> Int]: connector_version of its descriptor
    FileName,       \* [Files -> Names]: name of its descriptor
    PathDirs,       \* PATH entries with "memflow" pushed, or PathUnset
    PathUnset,      \* model value: PATH is not set
    NoInventory,    \* model value: no ConnectorInventory exists
    MEMFLOW_CONNECTOR_VERSION,
    MaxLibs,        \* bound on library handles ever created
    Slots           \* bound on ConnectorInstances alive at once

ASSUME /\ DOMAIN DirEntries \subseteq Dirs
       /\ \A d \in DOMAIN DirEntries : DirEntries[d] \in Seq(Files)
       /\ FileKind \in [Files -> {"library", "not_library", "no_descriptor"}]
       /\ FileName \in [Files -> Names]
       /\ PathDirs = PathUnset \/ PathDirs \in Seq(Dirs)
       /\ MaxLibs \in Nat /\ Slots \in Nat

\* The origin of an error value: a literal of memflow-core, or a plugin file
\* whose static data the error points into.
Core == "core"

Handles == 1..MaxLibs
SlotIds == 1..Slots

\* The fields of struct ConnectorInstance.
Fields == {"connector", "_library"}

VARIABLES
    inv,        \* the ConnectorInventory: Seq of [lib, name], or NoInventory
    arc,        \* [Handles -> Nat]: strong count of each Arc<Library>
    libFile,    \* [Handles -> Files \cup {Core}]: file a handle was opened on
    nextLib,    \* handles 1..nextLib have been created
    inst,       \* [SlotIds -> SUBSET Fields]: fields of an instance not dropped
    instLib,    \* [SlotIds -> Handles \cup {0}]: the _library of an instance
    errs        \* origins of the Error values the caller still holds

vars == <<inv, arc, libFile, nextLib, inst, instLib, errs>>

-----------------------------------------------------------------------------
(* Libraries.                                                              *)

\* The shared object f is mapped while some open Library handle refers to
\* it (the dynamic loader reference-counts dlopen of the same path).
Mapped(f) == \E h \in 1..nextLib : libFile[h] = f /\ arc[h] > 0

\* Connector::try_with: dlopen fails for a non-library, the descriptor
\* symbol may be missing, and a descriptor of another version is refused.
\* On each failure the Library is dropped before returning.
TryWith(f) ==
    /\ FileKind[f] = "library"
    /\ FileVersion[f] = MEMFLOW_CONNECTOR_VERSION

\* The entries add_dir visits.  read_dir or a directory entry may fail
\* with an I/O error part way: the entries before it were already handled.
\* Result: the files handled and whether add_dir returned Err.
ScanOutcomes(d) ==
    IF d \notin DOMAIN DirEntries
    THEN {[files |-> <<>>, err |-> TRUE]}           \* !dir.is_dir()
    ELSE LET E == DirEntries[d] IN
         {[files |-> SubSeq(E, 1, k - 1), err |-> TRUE] : k \in 1..Len(E) + 1}
         \cup {[files |-> E, err |-> FALSE]}

\* The connectors pushed for the handled files fs, with fresh handles
\* starting after base.
Loaded(fs) == SelectSeq(fs, TryWith)

NewConnectors(fs, base) ==
    [i \in 1..Len(Loaded(fs)) |->
        [lib |-> base + i, name |-> FileName[Loaded(fs)[i]]]]

\* Open the fresh handles base+1..base+Len(Loaded(fs)) with Arc count 1.
OpenHandles(fs, base) ==
    LET L == Loaded(fs) IN
    /\ base + Len(L) <= MaxLibs
    /\ arc' = [h \in Handles |->
                 IF h > base /\ h <= base + Len(L) THEN 1 ELSE arc[h]]
    /\ libFile' = [h \in Handles |->
                 IF h > base /\ h <= base + Len(L) THEN L[h - base] ELSE libFile[h]]
    /\ nextLib' = base + Len(L)

\* The inventory connector create_connector uses for name n: the first.
Resolve(connectors, n) ==
    LET i == SelectInSeq(connectors, LAMBDA c : c.name = n)
    IN IF i = 0 THEN 0 ELSE connectors[i].lib

\* Mutant: the instance takes the library's Arc without cloning it.
CloneShareMissing(a, h) == a

\* Connector::create: `_library: self.library.clone()`.
CloneShare(a, h) == [a EXCEPT ![h] = @ + 1]

\* The error create() returns when the factory of library h fails.
FactoryError(h) == Core

\* Mutant: newly loaded connectors are inserted at the front.
PushConnectorsFront(connectors, new) == new \o connectors

\* Appending newly loaded connectors to the inventory (Vec::push).
PushConnectors(connectors, new) == connectors \o new

\* Mutant: `_library` declared before `connector` in ConnectorInstance.
DropOrderReversed == <<"_library", "connector">>

\* Dropping a ConnectorInstance: first its `connector` field (the plugin's
\* drop glue runs), then its `_library` field.  Rust drops fields in
\* declaration order.
DropOrder == <<"connector", "_library">>

-----------------------------------------------------------------------------
(* Operations.                                                             *)

Init ==
    /\ inv = NoInventory
    /\ arc = [h \in Handles |-> 0]
    /\ libFile = [h \in Handles |-> Core]
    /\ nextLib = 0
    /\ inst = [s \in SlotIds |-> {}]
    /\ instLib = [s \in SlotIds |-> 0]
    /\ errs = {}

\* ConnectorInventory::with_path(d): add_dir on an empty inventory; on Err
\* the partly filled inventory is dropped (its handles closed) and the
\* error, a literal of memflow-core, is returned.
WithPath(d) ==
    /\ inv = NoInventory
    /\ \E o \in ScanOutcomes(d) :
         IF o.err
         THEN /\ errs' = errs \cup {Core}
              /\ UNCHANGED <<inv, arc, libFile, nextLib>>
         ELSE /\ OpenHandles(o.files, nextLib)
              /\ inv' = NewConnectors(o.files, nextLib)
              /\ UNCHANGED errs
    /\ UNCHANGED <<inst, instLib>>

\* ConnectorInventory::try_new(): add_dir(p).ok() for every PATH entry, so
\* what each directory pushed before failing stays in the inventory.
TryNew ==
    /\ inv = NoInventory
    /\ IF PathDirs = PathUnset
       THEN /\ errs' = errs \cup {Core}
            /\ UNCHANGED <<inv, arc, libFile, nextLib>>
       ELSE \E o \in [1..Len(PathDirs) -> UNION {ScanOutcomes(d) : d \in Dirs}] :
              /\ \A i \in 1..Len(PathDirs) : o[i] \in ScanOutcomes(PathDirs[i])
              /\ LET fs == FlattenSeq([i \in 1..Len(PathDirs) |-> o[i].files])
                 IN /\ OpenHandles(fs, nextLib)
                    /\ inv' = NewConnectors(fs, nextLib)
              /\ UNCHANGED errs
    /\ UNCHANGED <<inst, instLib>>

\* ConnectorInventory::add_dir(d) on a live inventory: pushes a connector
\* per loadable entry handled, and returns Err on an I/O failure.
AddDir(d) ==
    /\ inv # NoInventory
    /\ \E o \in ScanOutcomes(d) :
         /\ OpenHandles(o.files, nextLib)
         /\ inv' = PushConnectors(inv, NewConnectors(o.files, nextLib))
         /\ errs' = IF o.err THEN errs \cup {Core} ELSE errs
    /\ UNCHANGED <<inst, instLib>>

\* ConnectorInventory::create_connector(n, args) (and _default): the first
\* connector named n calls its factory; on failure the plugin's error is
\* logged and replaced; on success the instance clones the library's Arc.
CreateConnector(n) ==
    /\ inv # NoInventory
    /\ LET h == Resolve(inv, n) IN
       IF h = 0
       THEN /\ errs' = errs \cup {Core}                    \* not found
            /\ UNCHANGED <<arc, inst, instLib>>
       ELSE \/ /\ errs' = errs \cup {FactoryError(h)}    \* factory failed
               /\ UNCHANGED <<arc, inst, instLib>>
            \/ \E s \in SlotIds :                          \* factory succeeded
                 /\ inst[s] = {}
                 /\ inst' = [inst EXCEPT ![s] = Fields]
                 /\ instLib' = [instLib EXCEPT ![s] = h]
                 /\ arc' = CloneShare(arc, h)
                 /\ UNCHANGED errs
    /\ UNCHANGED <<inv, libFile, nextLib>>

\* Drop of ConnectorInventory: every Connector drops its Arc<Library>.
DropInventory ==
    /\ inv # NoInventory
    /\ arc' = [h \in Handles |->
                 arc[h] - Cardinality({i \in 1..Len(inv) : inv[i].lib = h})]
    /\ inv' = NoInventory
    /\ UNCHANGED <<libFile, nextLib, inst, instLib, errs>>

\* Dropping the i-th field, in DropOrder, of the ConnectorInstance in slot
\* s.  The instance is Send: this may interleave with the inventory and
\* other instances being dropped on other threads.
DropField(s, i) ==
    LET f == DropOrder[i] IN
    /\ f \in inst[s]
    /\ \A j \in 1..i - 1 : DropOrder[j] \notin inst[s]
    /\ inst' = [inst EXCEPT ![s] = @ \ {f}]
    /\ arc' = IF f = "_library" THEN [arc EXCEPT ![instLib[s]] = @ - 1] ELSE arc
    /\ instLib' = IF inst'[s] = {} THEN [instLib EXCEPT ![s] = 0] ELSE instLib
    /\ UNCHANGED <<inv, libFile, nextLib, errs>>

\* The caller drops an error value it received.
DropError(e) ==
    /\ e \in errs
    /\ errs' = errs \ {e}
    /\ UNCHANGED <<inv, arc, libFile, nextLib, inst, instLib>>

Next ==
    \/ \E d \in Dirs : WithPath(d)
    \/ TryNew
    \/ \E d \in Dirs : AddDir(d)
    \/ \E n \in Names : CreateConnector(n)
    \/ DropInventory
    \/ \E s \in SlotIds, i \in 1..2 : DropField(s, i)
    \/ \E e \in errs : DropError(e)

Spec == Init /\ [][Next]_vars

-----------------------------------------------------------------------------
(* Properties.                                                             *)

TypeOK ==
    /\ inv = NoInventory \/ inv \in Seq([lib : Handles, name : Names])
    /\ arc \in [Handles -> Nat]
    /\ libFile \in [Handles -> Files \cup {Core}]
    /\ nextLib \in 0..MaxLibs
    /\ inst \in [SlotIds -> SUBSET Fields]
    /\ instLib \in [SlotIds -> Handles \cup {0}]
    /\ errs \subseteq Files \cup {Core}

\* The objects whose methods or drop glue are plugin code: the connectors
\* of the inventory (their factory) and every instance whose `connector`
\* field has not been dropped yet (its PhysicalMemory vtable).
PluginObjectsOf(f) ==
    \/ inv # NoInventory /\ \E i \in 1..Len(inv) : libFile[inv[i].lib] = f
    \/ \E s \in SlotIds : "connector" \in inst[s] /\ libFile[instLib[s]] = f

\* Plugin code is never run after its library is unmapped: whatever the
\* order in which the inventory, the instances (on any thread) and their
\* fields are dropped, a plugin object that can still be called or dropped
\* keeps its shared object mapped.  This is what ConnectorInstance's
\* `_library` field and its place after `connector` are for.
PluginCodeMapped ==
    \A f \in Files : PluginObjectsOf(f) => Mapped(f)

\* While an inventory lives, the connector create_connector picks for a
\* name never changes: add_dir only appends, and lookup takes the first
\* match, so a later directory cannot shadow an earlier plugin.
NameResolutionStable ==
    [][ inv # NoInventory /\ inv' # NoInventory =>
          \A n \in Names : Resolve(inv, n) # 0 => Resolve(inv', n) = Resolve(inv, n)
      ]_vars

-----------------------------------------------------------------------------
(* Refinement of LibraryLifetime.                                          *)

\* The shares of shared object f: the Arc counts of its open handles.
HoldersOf(f) == FoldFunctionOnSet(+, 0, arc, {h \in Handles : libFile[h] = f})

\* The live objects running f's code: connectors of the inventory and
\* instances whose `connector` field is not dropped yet.
UsersOf(f) ==
    (IF inv = NoInventory THEN 0
     ELSE Cardinality({i \in 1..Len(inv) : libFile[inv[i].lib] = f}))
    + Cardinality({s \in SlotIds : "connector" \in inst[s] /\ libFile[instLib[s]] = f})

LL == INSTANCE LibraryLifetime WITH
        holders <- [f \in Files |-> HoldersOf(f)],
        users <- [f \in Files |-> UsersOf(f)]

\* The inventory implements the reference-counted library lifetime: every
\* step opens libraries together with their connectors, clones a share of
\* a mapped library for a new instance, or drops objects and shares such
\* that no object outlives the shares of its library.
LibraryLifetimeRefined == LL!Spec
=============================================================================
