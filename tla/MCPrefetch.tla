----------------------------- MODULE MCPrefetch -----------------------------
(***************************************************************************)
(* Prefetch with two solvers.  Three records over two solvers make a share *)
(* go through all records, so that one batch differs from the next.        *)
(***************************************************************************)
EXTENDS Prefetch

CONSTANTS r1, r2, b1

MCReaders == {r1, r2}
MCBodies == {b1}
=============================================================================
