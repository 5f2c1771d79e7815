------------------------------ MODULE WalLocks ------------------------------
(***************************************************************************)
(* What xShmLock promises to wal.c: each of the locks on the wal-index is  *)
(* held by any number of connections in shared mode or by one connection   *)
(* in exclusive mode, whatever processes the connections live in.          *)
(***************************************************************************)
CONSTANTS Conn, Proc, ProcOf, Lock

VARIABLES sharedMask,  \* sharedMask[c]: the locks c holds in shared mode
          exclMask     \* exclMask[c]: the locks c holds in exclusive mode

vars == <<sharedMask, exclMask>>

Init ==
  /\ sharedMask = [c \in Conn |-> {}]
  /\ exclMask = [c \in Conn |-> {}]

AcquireShared(c, i) ==
  /\ \A d \in Conn : i \notin exclMask[d]
  /\ sharedMask' = [sharedMask EXCEPT ![c] = @ \cup {i}]
  /\ UNCHANGED exclMask

\* SQLITE_SHM_EXCLUSIVE may ask for several locks: it gets all or none.
AcquireExclusive(c, S) ==
  /\ \A d \in Conn : (exclMask[d] \cup sharedMask[d]) \cap S = {}
  /\ exclMask' = [exclMask EXCEPT ![c] = @ \cup S]
  /\ UNCHANGED sharedMask

Release(c, S) ==
  /\ S \subseteq exclMask[c] \/ S \subseteq sharedMask[c]
  /\ sharedMask' = [sharedMask EXCEPT ![c] = @ \ S]
  /\ exclMask' = [exclMask EXCEPT ![c] = @ \ S]

\* The connections of a process that dies hold nothing afterwards.
ReleaseAll(p) ==
  /\ sharedMask' = [c \in Conn |-> IF ProcOf[c] = p THEN {} ELSE sharedMask[c]]
  /\ exclMask' = [c \in Conn |-> IF ProcOf[c] = p THEN {} ELSE exclMask[c]]

Next ==
  \/ \E c \in Conn : \/ \E i \in Lock : AcquireShared(c, i)
                     \/ \E S \in SUBSET Lock : AcquireExclusive(c, S) \/ Release(c, S)
  \/ \E p \in Proc : ReleaseAll(p)

Spec == Init /\ [][Next]_vars
=============================================================================
