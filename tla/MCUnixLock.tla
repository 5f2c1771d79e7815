----------------------------- MODULE MCUnixLock -----------------------------
(* Instances of UnixLock for TLC: two processes, two handles in the first. *)
EXTENDS UnixLock, TLC

CONSTANTS p1, p2, f1, f2, g1

\* Two connections of one process beside one of another process.
MCProcOf == (f1 :> p1) @@ (f2 :> p1) @@ (g1 :> p2)
=============================================================================
