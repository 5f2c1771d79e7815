------------------------------ MODULE FileLock ------------------------------
(***************************************************************************)
(* What a VFS promises to the pager about the lock on one database file:   *)
(* the five lock levels of os.h and which transitions of the level of one  *)
(* file handle are possible given the levels of all the others.  Nothing   *)
(* here says how a lock is obtained.                                       *)
(*                                                                         *)
(* The pager sees this specification; UnixLock.tla is shown to implement   *)
(* it.  Handles are grouped by process because the promise about PENDING   *)
(* depends on it: a handle may obtain SHARED although another process is   *)
(* PENDING when a sibling handle of its own process already reads the file *)
(* (see AcquireShared).                                                    *)
(***************************************************************************)
EXTENDS LockLevels

CONSTANTS File,    \* handles on the database file (unixFile objects)
          Proc,    \* operating system processes
          ProcOf   \* the process each handle belongs to

VARIABLES held,     \* held[f]: the level the holder of f may rely on
          reserved  \* the handles that are RESERVED or were on their way up:
                    \* a handle that goes from SHARED to EXCLUSIVE is not

vars == <<held, reserved>>

Others(f)   == File \ {f}
Siblings(f) == {g \in Others(f) : ProcOf[g] = ProcOf[f]}

Init == held = [f \in File |-> NO_LOCK] /\ reserved = {}

AcquireShared(f) ==
  /\ held[f] = NO_LOCK
  /\ \/ \A g \in Others(f) : held[g] < PENDING_LOCK
     \/ /\ \E g \in Siblings(f) : held[g] \in {SHARED_LOCK, RESERVED_LOCK}
        /\ \A g \in Siblings(f) : held[g] < PENDING_LOCK
        /\ \A g \in Others(f) : held[g] < EXCLUSIVE_LOCK
  /\ held' = [held EXCEPT ![f] = SHARED_LOCK]
  /\ UNCHANGED reserved

AcquireReserved(f) ==
  /\ held[f] = SHARED_LOCK
  /\ reserved = {}
  /\ \A g \in Others(f) : held[g] < EXCLUSIVE_LOCK
  /\ held' = [held EXCEPT ![f] = RESERVED_LOCK]
  /\ reserved' = {f}

AcquirePending(f) ==
  /\ held[f] \in {SHARED_LOCK, RESERVED_LOCK}
  /\ \A g \in Others(f) : held[g] < PENDING_LOCK
  /\ held' = [held EXCEPT ![f] = PENDING_LOCK]
  /\ UNCHANGED reserved

AcquireExclusive(f) ==
  /\ held[f] \in {SHARED_LOCK, RESERVED_LOCK, PENDING_LOCK}
  /\ \A g \in Others(f) : held[g] = NO_LOCK
  /\ held' = [held EXCEPT ![f] = EXCLUSIVE_LOCK]
  /\ UNCHANGED reserved

\* A handle gives up part or all of its lock; a close gives up all of it.
Release(f) ==
  /\ held[f] # NO_LOCK
  /\ \E l \in {NO_LOCK, SHARED_LOCK} :
       /\ l < held[f]
       /\ held' = [held EXCEPT ![f] = l]
  /\ reserved' = reserved \ {f}

\* The death of a process releases what its handles held.
ReleaseAll(p) ==
  /\ held' = [f \in File |-> IF ProcOf[f] = p THEN NO_LOCK ELSE held[f]]
  /\ reserved' = {f \in reserved : ProcOf[f] # p}

Next == \/ \E f \in File : \/ AcquireShared(f)
                           \/ AcquireReserved(f)
                           \/ AcquirePending(f)
                           \/ AcquireExclusive(f)
                           \/ Release(f)
        \/ \E p \in Proc : ReleaseAll(p)

Spec == Init /\ [][Next]_vars
=============================================================================
