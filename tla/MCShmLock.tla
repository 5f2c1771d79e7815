----------------------------- MODULE MCShmLock -----------------------------
(* Instance of ShmLock for TLC: two processes with two connections each.    *)
EXTENDS ShmLock, TLC

CONSTANTS p1, p2, c1, c2, d1, d2, noFile, noConn

MCProcOf == (c1 :> p1) @@ (c2 :> p1) @@ (d1 :> p2) @@ (d2 :> p2)
=============================================================================
