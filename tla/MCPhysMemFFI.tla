---------------------------- MODULE MCPhysMemFFI ----------------------------
(* Four addresses on each side of the map, cells of one bit.               *)
EXTENDS PhysMemFFI

E(b, s, r) == [base |-> b, size |-> s, real_base |-> r]

\* The arrays a C caller passes: empty, one partial window, two windows
\* given out of order (swapped halves), and two overlapping entries.
MCMapChoices ==
    { <<>>,
      << E(0, 2, 2) >>,
      << E(2, 2, 0), E(0, 2, 2) >>,
      << E(0, 2, 0), E(1, 2, 2) >> }
=============================================================================
