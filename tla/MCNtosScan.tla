----------------------------- MODULE MCNtosScan -----------------------------
(* NtosScan over 16 pages, windows of 2 pages, a scan span of 3 windows.   *)
EXTENDS NtosScan
=============================================================================
