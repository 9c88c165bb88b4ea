------------------------- MODULE MCConnectorPlugin -------------------------
(***************************************************************************)
(* A plugin directory layout for ConnectorPlugin:                          *)
(*   dirA = <<qemuA, old, readme>>  a good plugin, a plugin built against  *)
(*                                  connector version 0, a non-library     *)
(*   dirB = <<qemuB, nodesc>>       a second plugin also named "qemu" and  *)
(*                                  a shared object without a descriptor   *)
(*   dirX                           a path that is not a directory         *)
(* PATH = dirX:dirA:dirB.  Names also holds "coredump", which no plugin    *)
(* exports, so create_connector can miss.                                  *)
(***************************************************************************)
EXTENDS ConnectorPlugin, TLC

CONSTANTS qemuA, old, readme, qemuB, nodesc, dirA, dirB, dirX, qemu, coredump

MCDirEntries == (dirA :> <<qemuA, old, readme>>) @@ (dirB :> <<qemuB, nodesc>>)

MCFileKind ==
    (qemuA :> "library") @@ (old :> "library") @@ (readme :> "not_library")
    @@ (qemuB :> "library") @@ (nodesc :> "no_descriptor")

MCFileVersion ==
    (qemuA :> 1) @@ (old :> 0) @@ (readme :> 0) @@ (qemuB :> 1) @@ (nodesc :> 0)

MCFileName ==
    (qemuA :> qemu) @@ (old :> coredump) @@ (readme :> qemu)
    @@ (qemuB :> qemu) @@ (nodesc :> qemu)

MCPathDirs == <<dirX, dirA, dirB>>
=============================================================================
