------------------------------ MODULE UnixLock ------------------------------
(***************************************************************************)
(* The posix advisory locking of os_unix.c: unixOpen, unixLock,            *)
(* posixUnlock, unixCheckReservedLock and unixClose on one database file,  *)
(* by any number of handles in any number of processes.                    *)
(*                                                                         *)
(* A SQLite lock level of a handle is built from three posix locks (the    *)
(* pending byte, the reserved byte, the shared range), which belong to the *)
(* PROCESS, not to the handle: unixInodeInfo keeps the counts that let the *)
(* handles of one process share them, and a close() of any descriptor      *)
(* drops all of them.  Every fcntl() call is a step of its own, so calls   *)
(* of different processes interleave between them; handles of one process  *)
(* exclude each other by unixEnterMutex().                                 *)
(***************************************************************************)
EXTENDS LockLevels, FiniteSets

CONSTANTS Proc,    \* operating system processes
          File,    \* unixFile objects on the one database file
          ProcOf,  \* the process each of them belongs to
          IoErr    \* TRUE: any fcntl() may fail with an I/O error

ASSUME UnixLockAssumption ==
  /\ ProcOf \in [File -> Proc]
  /\ IsFiniteSet(File)
  /\ IoErr \in BOOLEAN

VARIABLES
  open,          \* open[f]: f is an open unixFile
  closing,       \* closing[f]: f is inside unixClose()
  eFileLock,     \* unixFile.eFileLock
  pc,            \* where f is inside unixLock, posixUnlock or unixClose
  iFileLock,     \* unixInodeInfo.eFileLock of the process
  nShared,       \* unixInodeInfo.nShared
  nLock,         \* unixInodeInfo.nLock
  nUnused,       \* length of unixInodeInfo.pUnused
  pendingByte,   \* posix lock of the process on PENDING_BYTE
  reservedByte,  \* ... on RESERVED_BYTE
  sharedRange    \* ... on SHARED_FIRST .. SHARED_FIRST+SHARED_SIZE-1

handleVars == <<open, closing, eFileLock, pc>>
inodeVars  == <<iFileLock, nShared, nLock, nUnused>>
posixVars  == <<pendingByte, reservedByte, sharedRange>>
vars == <<open, closing, eFileLock, pc, iFileLock, nShared, nLock, nUnused,
          pendingByte, reservedByte, sharedRange>>

Mode == {"UN", "RD", "WR"}

(***************************************************************************)
(* Program counter of a handle.                                            *)
(*   rdShared  unixLock(SHARED) holds the pending byte, next the range     *)
(*   rdDrop    ... has the range, next release the pending byte            *)
(*   rdFail    ... was refused the range, next release the pending byte    *)
(*   wrShared  unixLock(EXCLUSIVE) holds the pending byte, next the range  *)
(*   dropWr    posixUnlock(SHARED) read-locked the range, next release the *)
(*             pending and the reserved byte                               *)
(*   dropAll   posixUnlock(NO_LOCK) released them, next the shared count   *)
(*   ret0/ret1 posixUnlock left the mutex, next pFile->eFileLock = 0 / 1   *)
(*   close     unixClose() is past its unixUnlock()                        *)
(***************************************************************************)
InMutex == {"rdShared", "rdDrop", "rdFail", "wrShared", "dropWr", "dropAll"}
Label   == InMutex \cup {"idle", "ret0", "ret1", "close"}

TypeOK ==
  /\ open \in [File -> BOOLEAN]
  /\ closing \in [File -> BOOLEAN]
  /\ eFileLock \in [File -> LockLevel]
  /\ pc \in [File -> Label]
  /\ iFileLock \in [Proc -> LockLevel]
  /\ nShared \in [Proc -> Nat]
  /\ nLock \in [Proc -> Nat]
  /\ nUnused \in [Proc -> Nat]
  /\ pendingByte \in [Proc -> Mode]
  /\ reservedByte \in [Proc -> Mode]
  /\ sharedRange \in [Proc -> Mode]

Init ==
  /\ open = [f \in File |-> FALSE]
  /\ closing = [f \in File |-> FALSE]
  /\ eFileLock = [f \in File |-> NO_LOCK]
  /\ pc = [f \in File |-> "idle"]
  /\ iFileLock = [p \in Proc |-> NO_LOCK]
  /\ nShared = [p \in Proc |-> 0]
  /\ nLock = [p \in Proc |-> 0]
  /\ nUnused = [p \in Proc |-> 0]
  /\ pendingByte = [p \in Proc |-> "UN"]
  /\ reservedByte = [p \in Proc |-> "UN"]
  /\ sharedRange = [p \in Proc |-> "UN"]

-----------------------------------------------------------------------------
(* The operating system: posix advisory record locks (external). *)

\* fcntl(F_SETLK) grants p a lock of mode m on a range with owners lk.
CanLock(lk, p, m) ==
  \A q \in Proc \ {p} : IF m = "WR" THEN lk[q] = "UN" ELSE lk[q] # "WR"

Grant(lk, p, m) == [lk EXCEPT ![p] = m]

\* close() of any descriptor of p on the file drops every posix lock of p.
DropPosixLocks(p) ==
  /\ pendingByte'  = Grant(pendingByte, p, "UN")
  /\ reservedByte' = Grant(reservedByte, p, "UN")
  /\ sharedRange'  = Grant(sharedRange, p, "UN")

-----------------------------------------------------------------------------
\* unixEnterMutex(): no handle of p is inside the mutex.
MutexFree(p) == \A g \in File : ProcOf[g] = p => pc[g] \notin InMutex

\* f is open, in no call, and may enter the mutex of its process.
CanCall(f) == open[f] /\ pc[f] = "idle" /\ MutexFree(ProcOf[f])

Goto(f, l) == pc' = [pc EXCEPT ![f] = l]

\* A call returns: to the caller, or into the rest of unixClose().
AfterCall(f) == IF closing[f] THEN "close" ELSE "idle"

\* Mutant: only a PENDING sibling counts, not a RESERVED one.
SiblingBusy_PendingOnly(f, l) ==
  /\ eFileLock[f] # iFileLock[ProcOf[f]]
  /\ iFileLock[ProcOf[f]] >= PENDING_LOCK

\* The sibling check of unixLock: a request for level l that some other
\* handle of the process precludes is answered SQLITE_BUSY.
SiblingBusy(f, l) ==
  /\ eFileLock[f] # iFileLock[ProcOf[f]]
  /\ iFileLock[ProcOf[f]] >= PENDING_LOCK \/ l > SHARED_LOCK

-----------------------------------------------------------------------------
(***************************************************************************)
(* unixOpen: a descriptor from pUnused when there is one (findReusableFd), *)
(* else a new one; findInodeInfo finds or creates the unixInodeInfo.       *)
(***************************************************************************)
Open(f) ==
  /\ ~open[f] /\ MutexFree(ProcOf[f])
  /\ open' = [open EXCEPT ![f] = TRUE]
  /\ nUnused' = [nUnused EXCEPT ![ProcOf[f]] = IF @ > 0 THEN @ - 1 ELSE 0]
  /\ UNCHANGED <<closing, eFileLock, pc, iFileLock, nShared, nLock, posixVars>>

(***************************************************************************)
(* unixLock(SHARED_LOCK).                                                  *)
(***************************************************************************)
\* Mutant: nShared++ forgotten.
LockSharedLocal_NoCount(f) ==
  /\ CanCall(f) /\ eFileLock[f] = NO_LOCK
  /\ iFileLock[ProcOf[f]] \in {SHARED_LOCK, RESERVED_LOCK}
  /\ eFileLock' = [eFileLock EXCEPT ![f] = SHARED_LOCK]
  /\ nLock' = [nLock EXCEPT ![ProcOf[f]] = @ + 1]
  /\ UNCHANGED <<open, closing, pc, iFileLock, nShared, nUnused, posixVars>>

\* Another handle of the process reads already: only the counts change.
LockSharedLocal(f) ==
  LET p == ProcOf[f] IN
  /\ CanCall(f) /\ eFileLock[f] = NO_LOCK
  /\ ~SiblingBusy(f, SHARED_LOCK)
  /\ iFileLock[p] \in {SHARED_LOCK, RESERVED_LOCK}
  /\ eFileLock' = [eFileLock EXCEPT ![f] = SHARED_LOCK]
  /\ nShared' = [nShared EXCEPT ![p] = @ + 1]
  /\ nLock' = [nLock EXCEPT ![p] = @ + 1]
  /\ UNCHANGED <<open, closing, pc, iFileLock, nUnused, posixVars>>

\* First fcntl(): a read lock on the pending byte; refused, nothing changes.
LockPendingRead(f) ==
  LET p == ProcOf[f] IN
  /\ CanCall(f) /\ eFileLock[f] = NO_LOCK
  /\ ~SiblingBusy(f, SHARED_LOCK)
  /\ iFileLock[p] \notin {SHARED_LOCK, RESERVED_LOCK}
  /\ CanLock(pendingByte, p, "RD")
  /\ pendingByte' = Grant(pendingByte, p, "RD")
  /\ Goto(f, "rdShared")
  /\ UNCHANGED <<open, closing, eFileLock, inodeVars, reservedByte, sharedRange>>

\* Second fcntl(): a read lock on the shared range.
LockSharedRange(f) ==
  LET p == ProcOf[f] IN
  /\ pc[f] = "rdShared"
  /\ \/ /\ CanLock(sharedRange, p, "RD")
        /\ sharedRange' = Grant(sharedRange, p, "RD")
        /\ Goto(f, "rdDrop")
     \/ /\ IoErr \/ ~CanLock(sharedRange, p, "RD")
        /\ Goto(f, "rdFail")
        /\ UNCHANGED sharedRange
  /\ UNCHANGED <<open, closing, eFileLock, inodeVars, pendingByte, reservedByte>>

\* Third fcntl(): drop the pending byte, then the outcome is recorded.
LockDropPending(f) ==
  LET p == ProcOf[f] IN
  /\ pc[f] \in {"rdDrop", "rdFail"}
  /\ pendingByte' = Grant(pendingByte, p, "UN")
  /\ Goto(f, "idle")
  /\ IF pc[f] = "rdDrop"
     THEN /\ eFileLock' = [eFileLock EXCEPT ![f] = SHARED_LOCK]
          /\ iFileLock' = [iFileLock EXCEPT ![p] = SHARED_LOCK]
          /\ nLock' = [nLock EXCEPT ![p] = @ + 1]
          /\ nShared' = [nShared EXCEPT ![p] = 1]
     ELSE UNCHANGED <<eFileLock, iFileLock, nLock, nShared>>
  /\ UNCHANGED <<open, closing, nUnused, reservedByte, sharedRange>>

\* ... or that fcntl() fails: SQLITE_IOERR_UNLOCK (or the earlier error), the
\* handle stays at NO_LOCK and the posix locks stay with the process.
LockDropPendingFails(f) ==
  /\ IoErr /\ pc[f] \in {"rdDrop", "rdFail"}
  /\ Goto(f, "idle")
  /\ UNCHANGED <<open, closing, eFileLock, inodeVars, posixVars>>

(***************************************************************************)
(* unixLock(RESERVED_LOCK): one write lock, on the reserved byte.          *)
(***************************************************************************)
LockReserved(f) ==
  LET p == ProcOf[f] IN
  /\ CanCall(f) /\ eFileLock[f] = SHARED_LOCK
  /\ ~SiblingBusy(f, RESERVED_LOCK)
  /\ CanLock(reservedByte, p, "WR")
  /\ reservedByte' = Grant(reservedByte, p, "WR")
  /\ eFileLock' = [eFileLock EXCEPT ![f] = RESERVED_LOCK]
  /\ iFileLock' = [iFileLock EXCEPT ![p] = RESERVED_LOCK]
  /\ UNCHANGED <<open, closing, pc, nShared, nLock, nUnused, pendingByte,
                 sharedRange>>

(***************************************************************************)
(* unixLock(EXCLUSIVE_LOCK).                                               *)
(***************************************************************************)
\* A write lock on the pending byte, unless the handle is PENDING already.
LockPendingWrite(f) ==
  LET p == ProcOf[f] IN
  /\ CanCall(f) /\ eFileLock[f] \in SHARED_LOCK .. PENDING_LOCK
  /\ ~SiblingBusy(f, EXCLUSIVE_LOCK)
  /\ IF eFileLock[f] < PENDING_LOCK
     THEN /\ CanLock(pendingByte, p, "WR")
          /\ pendingByte' = Grant(pendingByte, p, "WR")
     ELSE UNCHANGED pendingByte
  /\ Goto(f, "wrShared")
  /\ UNCHANGED <<open, closing, eFileLock, inodeVars, reservedByte, sharedRange>>

\* Mutant: readers in the same process are forgotten.
OtherReaderInProcess_No(p) == FALSE

\* Mutant: the caller's own shared lock counts as another reader.
OtherReaderInProcess_Self(p) == nShared[p] > 0

\* Another handle of the process still holds a shared lock.
OtherReaderInProcess(p) == nShared[p] > 1

\* EXCLUSIVE if the whole range can be write-locked, else PENDING.
LockExclusiveRange(f) ==
  LET p == ProcOf[f]
      Becomes(l) == /\ eFileLock' = [eFileLock EXCEPT ![f] = l]
                    /\ iFileLock' = [iFileLock EXCEPT ![p] = l]
  IN
  /\ pc[f] = "wrShared"
  /\ Goto(f, "idle")
  /\ \/ /\ ~OtherReaderInProcess(p) /\ CanLock(sharedRange, p, "WR")
        /\ sharedRange' = Grant(sharedRange, p, "WR")
        /\ Becomes(EXCLUSIVE_LOCK)
     \/ /\ OtherReaderInProcess(p) \/ IoErr \/ ~CanLock(sharedRange, p, "WR")
        /\ Becomes(PENDING_LOCK)
        /\ UNCHANGED sharedRange
  /\ UNCHANGED <<open, closing, nShared, nLock, nUnused, pendingByte,
                 reservedByte>>

-----------------------------------------------------------------------------
(***************************************************************************)
(* posixUnlock(SHARED_LOCK), from RESERVED, PENDING or EXCLUSIVE.          *)
(***************************************************************************)
\* First fcntl(): a read lock over the shared range.
UnlockReadRange(f) ==
  LET p == ProcOf[f] IN
  /\ CanCall(f) /\ eFileLock[f] > SHARED_LOCK
  /\ CanLock(sharedRange, p, "RD")
  /\ sharedRange' = Grant(sharedRange, p, "RD")
  /\ Goto(f, "dropWr")
  /\ UNCHANGED <<open, closing, eFileLock, inodeVars, pendingByte, reservedByte>>

\* Second fcntl(): release the pending and the reserved byte.
UnlockDropWrite(f) ==
  LET p == ProcOf[f] IN
  /\ pc[f] = "dropWr"
  /\ \/ /\ pendingByte'  = Grant(pendingByte, p, "UN")
        /\ reservedByte' = Grant(reservedByte, p, "UN")
        /\ iFileLock' = [iFileLock EXCEPT ![p] = SHARED_LOCK]
        /\ Goto(f, "ret1")
     \/ /\ IoErr
        /\ Goto(f, "idle")
        /\ UNCHANGED <<pendingByte, reservedByte, iFileLock>>
  /\ UNCHANGED <<open, closing, eFileLock, nShared, nLock, nUnused, sharedRange>>

(***************************************************************************)
(* posixUnlock(NO_LOCK), called by the pager or by unixClose() (c).        *)
(***************************************************************************)
\* Above SHARED the pending and the reserved byte go first.
UnlockDropHigh(f, c) ==
  LET p == ProcOf[f] IN
  /\ CanCall(f) /\ eFileLock[f] > SHARED_LOCK
  /\ closing' = [closing EXCEPT ![f] = c]
  /\ \/ /\ pendingByte'  = Grant(pendingByte, p, "UN")
        /\ reservedByte' = Grant(reservedByte, p, "UN")
        /\ iFileLock' = [iFileLock EXCEPT ![p] = SHARED_LOCK]
        /\ Goto(f, "dropAll")
     \/ /\ IoErr
        /\ Goto(f, IF c THEN "close" ELSE "idle")
        /\ UNCHANGED <<pendingByte, reservedByte, iFileLock>>
  /\ UNCHANGED <<open, eFileLock, nShared, nLock, nUnused, sharedRange>>

\* nShared--, nLock--.  The last reader of the process unlocks the whole file;
\* the last lock of the process closes the descriptors whose close() waited.
ReleaseShared(f, c) ==
  LET p    == ProcOf[f]
      last == nShared[p] = 1
  IN
  /\ nShared' = [nShared EXCEPT ![p] = @ - 1]
  /\ nLock' = [nLock EXCEPT ![p] = @ - 1]
  /\ nUnused' = [nUnused EXCEPT ![p] = IF nLock[p] = 1 THEN 0 ELSE @]
  /\ iFileLock' = [iFileLock EXCEPT ![p] = IF last THEN NO_LOCK ELSE @]
  /\ \/ \* the unlock succeeds, or none is needed
        /\ IF last \/ (nLock[p] = 1 /\ nUnused[p] > 0)
           THEN DropPosixLocks(p)
           ELSE UNCHANGED posixVars
        /\ Goto(f, "ret0")
        /\ UNCHANGED eFileLock
     \/ \* fcntl(F_UNLCK) fails: SQLITE_IOERR_UNLOCK
        /\ IoErr /\ last
        /\ IF nLock[p] = 1 /\ nUnused[p] > 0
           THEN DropPosixLocks(p)
           ELSE UNCHANGED posixVars
        /\ eFileLock' = [eFileLock EXCEPT ![f] = NO_LOCK]
        /\ Goto(f, IF c THEN "close" ELSE "idle")

UnlockShared(f, c) ==
  /\ CanCall(f) /\ eFileLock[f] = SHARED_LOCK
  /\ closing' = [closing EXCEPT ![f] = c]
  /\ ReleaseShared(f, c)
  /\ UNCHANGED open

UnlockDropAll(f) ==
  /\ pc[f] = "dropAll"
  /\ ReleaseShared(f, closing[f])
  /\ UNCHANGED <<open, closing>>

\* Outside the mutex: if( rc==SQLITE_OK ) pFile->eFileLock = eFileLock.
UnlockReturn(f) ==
  /\ pc[f] \in {"ret0", "ret1"}
  /\ eFileLock' = [eFileLock EXCEPT ![f] = IF pc[f] = "ret0" THEN NO_LOCK
                                           ELSE SHARED_LOCK]
  /\ Goto(f, AfterCall(f))
  /\ UNCHANGED <<open, closing, inodeVars, posixVars>>

(***************************************************************************)
(* unixClose: unixUnlock(NO_LOCK), whose result is ignored, then the rest. *)
(***************************************************************************)
CloseUnlocked(f) ==
  /\ CanCall(f) /\ eFileLock[f] = NO_LOCK
  /\ closing' = [closing EXCEPT ![f] = TRUE]
  /\ Goto(f, "close")
  /\ UNCHANGED <<open, eFileLock, inodeVars, posixVars>>

\* Mutants: the descriptor is always closed; the descriptor is always parked.
DeferClose_Never(p)  == FALSE
DeferClose_Always(p) == TRUE

\* While the process holds any lock on the file the descriptor is parked on
\* pUnused, for a close() would drop that lock.
DeferClose(p) == nLock[p] > 0

\* The last handle frees the unixInodeInfo and closes what is parked with it.
CloseFile(f) ==
  LET p       == ProcOf[f]
      lastRef == \A g \in File \ {f} : ProcOf[g] = p => ~open[g]
  IN
  /\ pc[f] = "close" /\ MutexFree(p)
  /\ open' = [open EXCEPT ![f] = FALSE]
  /\ closing' = [closing EXCEPT ![f] = FALSE]
  /\ eFileLock' = [eFileLock EXCEPT ![f] = NO_LOCK]
  /\ Goto(f, "idle")
  /\ IF lastRef
     THEN /\ iFileLock' = [iFileLock EXCEPT ![p] = NO_LOCK]
          /\ nShared' = [nShared EXCEPT ![p] = 0]
          /\ nLock' = [nLock EXCEPT ![p] = 0]
          /\ nUnused' = [nUnused EXCEPT ![p] = 0]
     ELSE /\ nUnused' = [nUnused EXCEPT ![p] = IF DeferClose(p) THEN @ + 1 ELSE @]
          /\ UNCHANGED <<iFileLock, nShared, nLock>>
  /\ IF lastRef \/ ~DeferClose(p) THEN DropPosixLocks(p) ELSE UNCHANGED posixVars

(***************************************************************************)
(* A process dies: its handles vanish, the system releases its locks.      *)
(***************************************************************************)
Crash(p) ==
  LET mine == {f \in File : ProcOf[f] = p} IN
  /\ \E f \in mine : open[f]
  /\ open' = [f \in File |-> open[f] /\ f \notin mine]
  /\ closing' = [f \in File |-> closing[f] /\ f \notin mine]
  /\ eFileLock' = [f \in File |-> IF f \in mine THEN NO_LOCK ELSE eFileLock[f]]
  /\ pc' = [f \in File |-> IF f \in mine THEN "idle" ELSE pc[f]]
  /\ iFileLock' = [iFileLock EXCEPT ![p] = NO_LOCK]
  /\ nShared' = [nShared EXCEPT ![p] = 0]
  /\ nLock' = [nLock EXCEPT ![p] = 0]
  /\ nUnused' = [nUnused EXCEPT ![p] = 0]
  /\ DropPosixLocks(p)

Next ==
  \/ \E f \in File :
       \/ Open(f)
       \/ LockSharedLocal(f)
       \/ LockPendingRead(f) \/ LockSharedRange(f)
       \/ LockDropPending(f) \/ LockDropPendingFails(f)
       \/ LockReserved(f)
       \/ LockPendingWrite(f) \/ LockExclusiveRange(f)
       \/ UnlockReadRange(f) \/ UnlockDropWrite(f)
       \/ \E c \in BOOLEAN : UnlockDropHigh(f, c) \/ UnlockShared(f, c)
       \/ UnlockDropAll(f) \/ UnlockReturn(f)
       \/ CloseUnlocked(f) \/ CloseFile(f)
  \/ \E p \in Proc : Crash(p)

Spec == Init /\ [][Next]_vars

-----------------------------------------------------------------------------
(***************************************************************************)
(* What the holder of f may rely on.  The field pFile->eFileLock is stale  *)
(* between the release of the locks and its assignment after the mutex.    *)
(***************************************************************************)
Held(f) ==
  IF pc[f] = "ret0" THEN NO_LOCK
  ELSE IF pc[f] \in {"ret1", "dropAll"} THEN SHARED_LOCK
  ELSE eFileLock[f]

\* Mutant: F_GETLK alone, which never reports a lock of the caller's process.
CheckReservedLock_GetlkOnly(f) == ~CanLock(reservedByte, ProcOf[f], "WR")

\* unixCheckReservedLock(): this process by its inode, others by F_GETLK.
CheckReservedLock(f) ==
  \/ iFileLock[ProcOf[f]] > SHARED_LOCK
  \/ ~CanLock(reservedByte, ProcOf[f], "WR")

-----------------------------------------------------------------------------
(* Safety. *)

\* os.h: "An EXCLUSIVE lock precludes all other locks."  While one handle may
\* write the database file no other handle, of this or of another process,
\* may rely on any lock.  (unixLock, posixUnlock, unixClose together.)
ExclusiveExcludesAll ==
  \A f \in File : Held(f) = EXCLUSIVE_LOCK =>
    \A g \in File \ {f} : Held(g) = NO_LOCK

\* At most one handle is RESERVED and at most one is PENDING or above; inside
\* one process at most one is above SHARED.  (A PENDING handle that came from
\* SHARED, to roll back a hot journal, may meet a RESERVED one elsewhere.)
OneWriter ==
  \A f, g \in File : f # g =>
    /\ ~(Held(f) = RESERVED_LOCK /\ Held(g) = RESERVED_LOCK)
    /\ ~(Held(f) >= PENDING_LOCK /\ Held(g) >= PENDING_LOCK)
    /\ ProcOf[f] = ProcOf[g] =>
         ~(Held(f) > SHARED_LOCK /\ Held(g) > SHARED_LOCK)

\* Every level a handle relies on is backed by posix locks of its process:
\* no unlock, no close() of a sibling's descriptor, no close of a parked
\* descriptor and no failed fcntl() ever takes them away from under it.
LocksBacked ==
  \A f \in File :
    /\ Held(f) >= SHARED_LOCK => sharedRange[ProcOf[f]] # "UN"
    /\ Held(f) = RESERVED_LOCK => reservedByte[ProcOf[f]] = "WR"
    /\ Held(f) >= PENDING_LOCK => pendingByte[ProcOf[f]] = "WR"

\* unixCheckReservedLock() never says "no" while another handle is RESERVED:
\* the answer on which hasHotJournal() decides to roll back a journal.
ReservedVisible ==
  \A f, g \in File :
    (f # g /\ open[f] /\ Held(g) = RESERVED_LOCK) => CheckReservedLock(f)

\* Descriptors are parked on pUnused only while the process has a lock on the
\* file, so they are closed with the last one and never pile up.
ParkedFdsNeedLock ==
  \A p \in Proc : nUnused[p] > 0 => nLock[p] > 0 /\ \E f \in File :
                                       ProcOf[f] = p /\ open[f]

-----------------------------------------------------------------------------
(***************************************************************************)
(* The inductive invariant behind the safety properties.                   *)
(***************************************************************************)
\* The handles counted by unixInodeInfo.nShared.
Reader(f)  == eFileLock[f] # NO_LOCK /\ pc[f] # "ret0"
Readers(p) == {f \in File : ProcOf[f] = p /\ Reader(f)}

MutexOK ==
  \A f, g \in File : (f # g /\ ProcOf[f] = ProcOf[g] /\ pc[f] \in InMutex)
                       => pc[g] \notin InMutex

HandleInv(f) ==
    /\ ~open[f] => eFileLock[f] = NO_LOCK /\ pc[f] = "idle"
    /\ pc[f] \in {"rdShared", "rdDrop", "rdFail"} =>
         /\ eFileLock[f] = NO_LOCK
         /\ iFileLock[ProcOf[f]] = NO_LOCK
         /\ pendingByte[ProcOf[f]] = "RD"
    /\ pc[f] = "rdDrop" => sharedRange[ProcOf[f]] = "RD"
    /\ pc[f] = "wrShared" =>
         /\ eFileLock[f] \in SHARED_LOCK .. PENDING_LOCK
         /\ iFileLock[ProcOf[f]] = eFileLock[f]
         /\ pendingByte[ProcOf[f]] = "WR"
    /\ pc[f] \in {"dropWr", "dropAll", "ret1"} => eFileLock[f] > SHARED_LOCK
    /\ pc[f] = "dropWr" => iFileLock[ProcOf[f]] = eFileLock[f]
    /\ pc[f] = "dropAll" => iFileLock[ProcOf[f]] = SHARED_LOCK
HandleOK == \A f \in File : HandleInv(f)

InodeInv(p) ==
    /\ nLock[p] = nShared[p]
    /\ nShared[p] = 0 <=> iFileLock[p] = NO_LOCK
    /\ nShared[p] > 0 => sharedRange[p] # "UN"
    /\ iFileLock[p] = RESERVED_LOCK => reservedByte[p] = "WR"
    /\ iFileLock[p] >= PENDING_LOCK => pendingByte[p] = "WR"
    /\ iFileLock[p] = EXCLUSIVE_LOCK =>
         nShared[p] = 1 /\ \A q \in Proc \ {p} : sharedRange[q] = "UN"
InodeOK == \A p \in Proc : InodeInv(p)

\* What the system guarantees about one range: a write lock is alone.
Compatible(lk) ==
  \A p, q \in Proc : (p # q /\ lk[p] = "WR") => lk[q] = "UN"

PosixOK == /\ Compatible(pendingByte)
           /\ Compatible(reservedByte)
           /\ Compatible(sharedRange)

\* >= and not =: a handle closed after a failed unlock stays counted.
CountOK == \A p \in Proc : Cardinality(Readers(p)) <= nShared[p]

WriterInv(f) ==
  Held(f) > SHARED_LOCK =>
    /\ iFileLock[ProcOf[f]] = Held(f)
    /\ \A g \in File \ {f} : ProcOf[g] = ProcOf[f] => Held(g) <= SHARED_LOCK
WriterOK == \A f \in File : WriterInv(f)

\* The lock counts, the inode, the posix locks and the program counters of
\* unixLock, posixUnlock and unixClose agree; every safety property follows.
IInv == /\ TypeOK /\ MutexOK /\ HandleOK /\ InodeOK
        /\ PosixOK /\ CountOK /\ WriterOK

-----------------------------------------------------------------------------
(***************************************************************************)
(* Without I/O errors the books are exact: nShared is the number of        *)
(* readers, a process holds the reserved byte only for a handle above      *)
(* SHARED, and unixClose() leaves nothing locked.  The refinement needs it.*)
(***************************************************************************)
ExactCount == \A p \in Proc : nShared[p] = Cardinality(Readers(p))

ReservedUsed ==
  \A p \in Proc : reservedByte[p] = "WR" =>
    \E f \in File : ProcOf[f] = p /\ Held(f) > SHARED_LOCK

ClosedUnlocked ==
  \A f \in File : /\ pc[f] = "close" => eFileLock[f] = NO_LOCK
                  /\ closing[f] => pc[f] \in {"dropAll", "ret0", "close"}

ExactInv == ~IoErr => ExactCount /\ ReservedUsed /\ ClosedUnlocked

-----------------------------------------------------------------------------
(* The abstract lock manager and liveness. *)

FL == INSTANCE FileLock WITH
        held <- [f \in File |-> Held(f)],
        reserved <- {f \in File : /\ Held(f) > SHARED_LOCK
                                  /\ reservedByte[ProcOf[f]] = "WR"}

\* Without I/O errors the posix implementation is a FileLock: every step is a
\* step of the abstract lock manager or changes no level anyone relies on.
ImplementsFileLock == FL!Spec

\* A call inside unixLock, posixUnlock or unixClose makes progress.
InCall(f) ==
  \/ LockSharedRange(f) \/ LockDropPending(f) \/ LockExclusiveRange(f)
  \/ UnlockDropWrite(f) \/ UnlockDropAll(f) \/ UnlockReturn(f) \/ CloseFile(f)

\* Reading and reserving transactions end.
EndTransaction(f) ==
  eFileLock[f] < PENDING_LOCK /\ (UnlockDropHigh(f, FALSE) \/ UnlockShared(f, FALSE))

\* The busy handler of a PENDING writer calls unixLock(EXCLUSIVE_LOCK) again.
RetryExclusive(f) == eFileLock[f] = PENDING_LOCK /\ LockPendingWrite(f)

Fairness ==
  \A f \in File : /\ WF_vars(InCall(f))
                  /\ SF_vars(EndTransaction(f))
                  /\ SF_vars(RetryExclusive(f))

LiveSpec == Spec /\ Fairness

\* A PENDING writer that keeps asking becomes EXCLUSIVE, or gives up itself,
\* if no other process reads through two handles: the second is admitted by
\* nShared, past the pending byte.  Siblings in the writer's own process cannot
\* starve it, since they see the PENDING lock in the inode.
WriterNotStarvedBySolo ==
  \A f \in File :
    (\A g, k \in File :
       (ProcOf[g] # ProcOf[f] /\ ProcOf[k] = ProcOf[g]) => k = g)
    => ((Held(f) = PENDING_LOCK) ~> (Held(f) # PENDING_LOCK))
=============================================================================
