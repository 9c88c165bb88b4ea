--------------------------- MODULE LibraryLifetime ---------------------------
(***************************************************************************)
(* What the connector inventory promises about plugin libraries (spec.md   *)
(* sections 3 and 5): library handles are reference-counted, the last drop *)
(* unloads, and a library is not unloaded while an object whose code lives *)
(* in it (a connector, a provider instance) still exists.                  *)
(*                                                                         *)
(* holders[f] counts the shares of shared object f (one per open handle    *)
(* reference); users[f] counts the live objects that run f's code.  f is   *)
(* mapped while it has a holder.  Every user holds a share of its own.     *)
(***************************************************************************)
EXTENDS Naturals

CONSTANT Files

VARIABLES holders, users

vars == <<holders, users>>

Mapped(f) == holders[f] > 0

Init ==
    /\ holders = [f \in Files |-> 0]
    /\ users = [f \in Files |-> 0]

\* Opening libraries: every object created comes with the share of the
\* handle it was loaded from.
Load ==
    /\ \A f \in Files : users'[f] - users[f] = holders'[f] - holders[f]
    /\ \A f \in Files : holders'[f] >= holders[f]
    /\ holders' # holders

\* A new object of an already mapped library takes a further share of it.
Share(f) ==
    /\ Mapped(f)
    /\ holders' = [holders EXCEPT ![f] = @ + 1]
    /\ users' = [users EXCEPT ![f] = @ + 1]

\* Dropping objects and shares, any number at once; an object never
\* outlives the shares that keep its library mapped.
Release ==
    /\ \A f \in Files : holders'[f] <= holders[f] /\ users'[f] <= users[f]
    /\ \A f \in Files : users'[f] <= holders'[f]
    /\ vars' # vars

Next == Load \/ (\E f \in Files : Share(f)) \/ Release

Spec == Init /\ [][Next]_vars

\* No object runs the code of an unmapped library.
UsersMapped == \A f \in Files : users[f] > 0 => Mapped(f)
=============================================================================
