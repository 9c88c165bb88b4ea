CONSTANTS
    qemuA = qemuA
    old = old
    readme = readme
    qemuB = qemuB
    nodesc = nodesc
    dirA = dirA
    dirB = dirB
    dirX = dirX
    qemu = qemu
    coredump = coredump
    PathUnset = PathUnset
    NoInventory = NoInventory
    Files = {qemuA, old, readme, qemuB, nodesc}
    Dirs = {dirA, dirB, dirX}
    Names = {qemu, coredump}
    DirEntries <- MCDirEntries
    FileKind <- MCFileKind
    FileVersion <- MCFileVersion
    FileName <- MCFileName
    PathDirs <- MCPathDirs
    MEMFLOW_CONNECTOR_VERSION = 1
    MaxLibs = 4
    Slots = 2

SPECIFICATION Spec

INVARIANTS
    TypeOK
    PluginCodeMapped

PROPERTIES
    NameResolutionStable
    LibraryLifetimeRefined
