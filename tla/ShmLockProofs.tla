--------------------------- MODULE ShmLockProofs ---------------------------
(***************************************************************************)
(* Proofs about ShmLock, for any processes, connections and lock bytes:    *)
(* IInv is inductive, its consequences, and the step simulation that shows *)
(* that os_unix.c implements the lock manager of module WalLocks.          *)
(***************************************************************************)
EXTENDS ShmLock, TLAPS

\* What fcntl() does to the posix locks, byte by byte.
LEMMA SetLockEffect ==
  ASSUME TypeOK, NEW p \in Proc, NEW S \in SUBSET Byte, NEW m \in Mode,
         SetLock(p, S, m)
  PROVE  /\ posix' \in [Proc -> [Byte -> Mode]]
         /\ \A q \in Proc : q # p => posix'[q] = posix[q]
         /\ \A b \in Byte : posix'[p][b] = IF b \in S THEN m ELSE posix[p][b]
  BY DEF TypeOK, SetLock

\* What the close of the descriptor does to them.
LEMMA NoLocksEffect ==
  ASSUME TypeOK, NEW p \in Proc, posix' = [posix EXCEPT ![p] = NoLocks]
  PROVE  /\ posix' \in [Proc -> [Byte -> Mode]]
         /\ \A q \in Proc : q # p => posix'[q] = posix[q]
         /\ posix'[p] = NoLocks
         /\ \A b \in Byte : posix'[p][b] = "UN"
  BY DEF TypeOK, NoLocks, Mode

\* The dead-man switch is a byte of its own, and ranges hold lock bytes only.
LEMMA BytesAreBytes ==
  /\ DMS \in Byte /\ DMS \notin Lock /\ Lock \subseteq Byte
  /\ \A S \in Ranges : S \subseteq Lock
  BY ShmLockAssumption DEF DMS, Byte, Lock, Ranges

\* A request that fcntl() grants changes only the bytes it asked for, each of
\* which it could have been granted alone.
LEMMA GrantEffect ==
  ASSUME TypeOK, NEW p \in Proc, NEW S \in SUBSET Byte, NEW m \in Mode,
         DMS \notin S, CanLock(p, S, m), SetLock(p, S, m)
  PROVE  /\ \A q \in Proc : q # p => posix'[q] = posix[q]
         /\ posix'[p][DMS] = posix[p][DMS]
         /\ \A b \in Byte : posix'[p][b] = posix[p][b] \/ posix'[p][b] = "UN"
              \/ (posix'[p][b] = m /\ CanLock(p, {b}, m))
<1>1. DMS \in Byte
  BY BytesAreBytes
<1>2. \A b \in S : CanLock(p, {b}, m)
  BY DEF CanLock
<1>3. \A b \in Byte : posix'[p][b] = IF b \in S THEN m ELSE posix[p][b]
  BY SetLockEffect
<1>4. \A q \in Proc : q # p => posix'[q] = posix[q]
  BY SetLockEffect
<1> QED BY <1>1, <1>2, <1>3, <1>4

\* Two connected processes have the same file open: a process whose file was
\* unlinked is in the hands of the only connection left.
LEMMA SameFile ==
  ASSUME IInv, NEW c \in Conn, NEW d \in Conn, pc[c] = "on", pc[d] = "on"
  PROVE  h[ProcOf[c]] = h[ProcOf[d]] /\ h[ProcOf[c]] # NoFile
<1>1. ASSUME NEW e \in Conn, pc[e] = "on"
      PROVE  h[ProcOf[e]] = dir /\ h[ProcOf[e]] # NoFile
  <2>1. ProcOf[e] \in Proc /\ e \in refs[ProcOf[e]]
    BY <1>1, ShmLockAssumption DEF IInv, PcInv, Counted
  <2>2. h[ProcOf[e]] # NoFile /\ mutex[ProcOf[e]] = NoConn
    BY <2>1 DEF IInv, NodeInv
  <2> QED BY <2>1, <2>2 DEF IInv, FileInv
<1> QED BY <1>1


\* The death of a process keeps the invariant: its locks and masks go together.
LEMMA CrashKeeps ==
  ASSUME IInv, NEW p \in Proc, Crash(p)
  PROVE  IInv'
<1>1. TypeOK'
  BY ShmLockAssumption DEF masks, Crash, NoLocks, IInv, TypeOK, Label,
     InMutex, Counted, Mode, Byte, Lock, DMS, Ranges
<1>2. DbInv'
  BY ShmLockAssumption DEF masks, Crash, NoLocks, IInv, TypeOK, DbInv, Label,
     InMutex, Counted
<1>3. PcInv'
  BY ShmLockAssumption DEF masks, Crash, NoLocks, IInv, TypeOK, PcInv,
     NodeInv, Label, InMutex, Counted
<1>4. NodeInv'
  BY ShmLockAssumption DEF masks, Crash, NoLocks, IInv, TypeOK, PcInv,
     NodeInv, Label, InMutex, Counted, Mode, Byte, Lock, DMS, Ranges
<1>5. FileInv'
  BY ShmLockAssumption DEF masks, Crash, NoLocks, IInv, TypeOK, DbInv, PcInv,
     NodeInv, FileInv, Label, InMutex, Counted
<1>6. PosixInv'
  BY ShmLockAssumption DEF masks, Crash, NoLocks, IInv, TypeOK, PcInv,
     NodeInv, PosixInv, Label, InMutex, Counted, Mode, Byte, Lock, DMS, Ranges
<1>7. MaskInv'
  BY ShmLockAssumption DEF masks, Crash, NoLocks, IInv, TypeOK, PcInv,
     MaskInv, Label, InMutex, Counted
<1>8. LocksBacked'
  <2> DEFINE r == p
  <2>1. /\ r \in Proc
        /\ \A q \in Proc : q # r => posix'[q] = posix[q]
        /\ \A b \in Byte : posix'[r][b] = "UN"
    BY NoLocksEffect, ShmLockAssumption DEF Crash, IInv
  <2>2. pFirst'[r] = {}
    BY <2>1, ShmLockAssumption DEF Crash, IInv, TypeOK, PcInv, NodeInv, InMutex, Counted
  <2>3. \A q \in Proc : q # r =>
          /\ pFirst'[q] = pFirst[q]
          /\ \A d \in pFirst[q] : sharedMask'[d] = sharedMask[d] /\ exclMask'[d] = exclMask[d]
    BY <2>1, ShmLockAssumption DEF Crash, IInv, TypeOK, PcInv
  <2> QED BY <2>1, <2>2, <2>3, BytesAreBytes DEF IInv, LocksBacked
<1>9. LocksExclude'
  BY ShmLockAssumption DEF masks, Crash, NoLocks, IInv, TypeOK, PcInv,
     MaskInv, LocksBacked, LocksExclude, Lock, Byte, Mode, Ranges
<1>10. MemoryKept'
  BY ShmLockAssumption DEF masks, Crash, NoLocks, IInv, TypeOK, PcInv,
     NodeInv, PosixInv, MemoryKept, Label, InMutex, Counted
<1> QED BY <1>1, <1>2, <1>3, <1>4, <1>5, <1>6, <1>7, <1>8, <1>9, <1>10 DEF IInv

\* Taking the SHARED lock on the database keeps the invariant.
LEMMA LockDbKeeps ==
  ASSUME IInv, NEW c \in Conn, LockDb(c)
  PROVE  IInv'
<1>1. TypeOK'
  BY ShmLockAssumption DEF masks, LockDb, IInv, TypeOK, Label, InMutex,
     Counted, NoLocks, Mode, Byte, Lock, DMS, Ranges
<1>2. DbInv'
  BY ShmLockAssumption DEF masks, LockDb, IInv, TypeOK, DbInv, Label, InMutex,
     Counted
<1>3. PcInv'
  BY ShmLockAssumption DEF masks, LockDb, IInv, TypeOK, PcInv, NodeInv, Label,
     InMutex, Counted
<1>4. NodeInv'
  BY ShmLockAssumption DEF masks, LockDb, IInv, TypeOK, PcInv, NodeInv, Label,
     InMutex, Counted, NoLocks, Mode, Byte, Lock, DMS, Ranges
<1>5. FileInv'
  BY ShmLockAssumption DEF masks, LockDb, IInv, TypeOK, DbInv, PcInv, NodeInv,
     FileInv, Label, InMutex, Counted
<1>6. PosixInv'
  BY ShmLockAssumption DEF masks, LockDb, IInv, TypeOK, PcInv, NodeInv,
     PosixInv, Label, InMutex, Counted, NoLocks, Mode, Byte, Lock, DMS, Ranges
<1>7. MaskInv'
  BY ShmLockAssumption DEF masks, LockDb, IInv, TypeOK, PcInv, MaskInv, Label,
     InMutex, Counted
<1>8. LocksBacked'
  BY ShmLockAssumption DEF masks, LockDb, IInv, TypeOK, PcInv, NodeInv,
     MaskInv, LocksExclude, LocksBacked, Lock, Byte, NoLocks, Mode, Ranges
<1>9. LocksExclude'
  BY ShmLockAssumption DEF masks, LockDb, IInv, TypeOK, PcInv, MaskInv,
     LocksBacked, LocksExclude, Lock, Byte, NoLocks, Mode, Ranges
<1>10. MemoryKept'
  BY ShmLockAssumption DEF masks, LockDb, IInv, TypeOK, PcInv, NodeInv,
     PosixInv, MemoryKept, Label, InMutex, Counted
<1> QED BY <1>1, <1>2, <1>3, <1>4, <1>5, <1>6, <1>7, <1>8, <1>9, <1>10 DEF IInv

\* So does the EXCLUSIVE lock that sqlite3WalClose asks for.
LEMMA LockDbExclusiveKeeps ==
  ASSUME IInv, NEW c \in Conn, LockDbExclusive(c)
  PROVE  IInv'
<1>1. TypeOK'
  BY ShmLockAssumption DEF masks, LockDbExclusive, IInv, TypeOK, Label,
     InMutex, Counted, NoLocks, Mode, Byte, Lock, DMS, Ranges
<1>2. DbInv'
  BY ShmLockAssumption DEF masks, LockDbExclusive, IInv, TypeOK, DbInv, Label,
     InMutex, Counted
<1>3. PcInv'
  BY ShmLockAssumption DEF masks, LockDbExclusive, IInv, TypeOK, PcInv,
     NodeInv, Label, InMutex, Counted
<1>4. NodeInv'
  BY ShmLockAssumption DEF masks, LockDbExclusive, IInv, TypeOK, PcInv,
     NodeInv, Label, InMutex, Counted, NoLocks, Mode, Byte, Lock, DMS, Ranges
<1>5. FileInv'
  BY ShmLockAssumption DEF masks, LockDbExclusive, IInv, TypeOK, DbInv, PcInv,
     NodeInv, FileInv, Label, InMutex, Counted
<1>6. PosixInv'
  BY ShmLockAssumption DEF masks, LockDbExclusive, IInv, TypeOK, PcInv,
     NodeInv, PosixInv, Label, InMutex, Counted, NoLocks, Mode, Byte, Lock,
     DMS, Ranges
<1>7. MaskInv'
  BY ShmLockAssumption DEF masks, LockDbExclusive, IInv, TypeOK, PcInv,
     MaskInv, Label, InMutex, Counted
<1>8. LocksBacked'
  BY ShmLockAssumption DEF masks, LockDbExclusive, IInv, TypeOK, PcInv,
     NodeInv, MaskInv, LocksExclude, LocksBacked, Lock, Byte, NoLocks, Mode,
     Ranges
<1>9. LocksExclude'
  BY ShmLockAssumption DEF masks, LockDbExclusive, IInv, TypeOK, PcInv,
     MaskInv, LocksBacked, LocksExclude, Lock, Byte, NoLocks, Mode, Ranges
<1>10. MemoryKept'
  BY ShmLockAssumption DEF masks, LockDbExclusive, IInv, TypeOK, PcInv,
     NodeInv, PosixInv, MemoryKept, Label, InMutex, Counted
<1> QED BY <1>1, <1>2, <1>3, <1>4, <1>5, <1>6, <1>7, <1>8, <1>9, <1>10 DEF IInv

\* So does its release, after the shared memory is closed.
LEMMA UnlockDbKeeps ==
  ASSUME IInv, NEW c \in Conn, UnlockDb(c)
  PROVE  IInv'
<1>1. TypeOK'
  BY ShmLockAssumption DEF masks, UnlockDb, IInv, TypeOK, Label, InMutex,
     Counted, NoLocks, Mode, Byte, Lock, DMS, Ranges
<1>2. DbInv'
  BY ShmLockAssumption DEF masks, UnlockDb, IInv, TypeOK, DbInv, Label,
     InMutex, Counted
<1>3. PcInv'
  BY ShmLockAssumption DEF masks, UnlockDb, IInv, TypeOK, PcInv, NodeInv,
     Label, InMutex, Counted
<1>4. NodeInv'
  BY ShmLockAssumption DEF masks, UnlockDb, IInv, TypeOK, PcInv, NodeInv,
     Label, InMutex, Counted, NoLocks, Mode, Byte, Lock, DMS, Ranges
<1>5. FileInv'
  BY ShmLockAssumption DEF masks, UnlockDb, IInv, TypeOK, DbInv, PcInv,
     NodeInv, FileInv, Label, InMutex, Counted
<1>6. PosixInv'
  BY ShmLockAssumption DEF masks, UnlockDb, IInv, TypeOK, PcInv, NodeInv,
     PosixInv, Label, InMutex, Counted, NoLocks, Mode, Byte, Lock, DMS, Ranges
<1>7. MaskInv'
  BY ShmLockAssumption DEF masks, UnlockDb, IInv, TypeOK, PcInv, MaskInv,
     Label, InMutex, Counted
<1>8. LocksBacked'
  BY ShmLockAssumption DEF masks, UnlockDb, IInv, TypeOK, PcInv, NodeInv,
     MaskInv, LocksExclude, LocksBacked, Lock, Byte, NoLocks, Mode, Ranges
<1>9. LocksExclude'
  BY ShmLockAssumption DEF masks, UnlockDb, IInv, TypeOK, PcInv, MaskInv,
     LocksBacked, LocksExclude, Lock, Byte, NoLocks, Mode, Ranges
<1>10. MemoryKept'
  BY ShmLockAssumption DEF masks, UnlockDb, IInv, TypeOK, PcInv, NodeInv,
     PosixInv, MemoryKept, Label, InMutex, Counted
<1> QED BY <1>1, <1>2, <1>3, <1>4, <1>5, <1>6, <1>7, <1>8, <1>9, <1>10 DEF IInv

\* unixOpenSharedMemory, first part: nobody else has the new file open.
LEMMA OpenFileKeeps ==
  ASSUME IInv, NEW c \in Conn, OpenFile(c)
  PROVE  IInv'
<1>1. TypeOK'
  <2>1. PICK f \in File : h' = [h EXCEPT ![ProcOf[c]] = f] /\ dir' = f
    BY DEF OpenFile
  <2> QED BY <2>1, ShmLockAssumption
          DEF OpenFile, Goto, masks, IInv, TypeOK, Label, InMutex
<1>2. DbInv'
  BY ShmLockAssumption DEF masks, OpenFile, Goto, IInv, TypeOK, DbInv, Label,
     InMutex, Counted
<1>3. PcInv'
  BY ShmLockAssumption DEF masks, OpenFile, Goto, IInv, TypeOK, PcInv,
     NodeInv, Label, InMutex, Counted
<1>4. NodeInv'
  BY ShmLockAssumption DEF masks, OpenFile, Goto, IInv, TypeOK, PcInv,
     NodeInv, Label, InMutex, Counted, NoLocks, Mode, Byte, Lock, DMS, Ranges
<1>5. FileInv'
  BY ShmLockAssumption DEF masks, OpenFile, Goto, IInv, TypeOK, DbInv, PcInv,
     NodeInv, FileInv, Label, InMutex, Counted
<1>6. PosixInv'
  BY ShmLockAssumption DEF masks, OpenFile, Goto, IInv, TypeOK, PcInv,
     NodeInv, PosixInv, Label, InMutex, Counted, NoLocks, Mode, Byte, Lock,
     DMS, Ranges
<1>7. MaskInv'
  BY ShmLockAssumption DEF masks, OpenFile, Goto, IInv, TypeOK, PcInv,
     MaskInv, Label, InMutex, Counted
<1>8. LocksBacked'
  BY ShmLockAssumption DEF masks, OpenFile, Goto, IInv, TypeOK, PcInv,
     NodeInv, MaskInv, LocksExclude, LocksBacked, Lock, Byte, NoLocks, Mode,
     Ranges
<1>9. LocksExclude'
  BY ShmLockAssumption DEF masks, OpenFile, Goto, IInv, TypeOK, PcInv,
     MaskInv, LocksBacked, LocksExclude, Lock, Byte, NoLocks, Mode, Ranges
<1>10. MemoryKept'
  BY ShmLockAssumption DEF masks, OpenFile, Goto, IInv, TypeOK, PcInv,
     NodeInv, PosixInv, MemoryKept, Label, InMutex, Counted
<1> QED BY <1>1, <1>2, <1>3, <1>4, <1>5, <1>6, <1>7, <1>8, <1>9, <1>10 DEF IInv

\* unixOpenSharedMemory with a node that a sibling made.
LEMMA OpenSharedKeeps ==
  ASSUME IInv, NEW c \in Conn, OpenShared(c)
  PROVE  IInv'
<1>1. TypeOK'
  BY ShmLockAssumption DEF masks, OpenShared, Goto, IInv, TypeOK, Label,
     InMutex, Counted, NoLocks, Mode, Byte, Lock, DMS, Ranges
<1>2. DbInv'
  BY ShmLockAssumption DEF masks, OpenShared, Goto, IInv, TypeOK, DbInv,
     Label, InMutex, Counted
<1>3. PcInv'
  BY ShmLockAssumption DEF masks, OpenShared, Goto, IInv, TypeOK, PcInv,
     NodeInv, Label, InMutex, Counted
<1>4. NodeInv'
  BY ShmLockAssumption DEF masks, OpenShared, Goto, IInv, TypeOK, PcInv,
     NodeInv, Label, InMutex, Counted, NoLocks, Mode, Byte, Lock, DMS, Ranges
<1>5. FileInv'
  BY ShmLockAssumption DEF masks, OpenShared, Goto, IInv, TypeOK, DbInv,
     PcInv, NodeInv, FileInv, Label, InMutex, Counted
<1>6. PosixInv'
  BY ShmLockAssumption DEF masks, OpenShared, Goto, IInv, TypeOK, PcInv,
     NodeInv, PosixInv, Label, InMutex, Counted, NoLocks, Mode, Byte, Lock,
     DMS, Ranges
<1>7. MaskInv'
  BY ShmLockAssumption DEF masks, OpenShared, Goto, IInv, TypeOK, PcInv,
     MaskInv, Label, InMutex, Counted
<1>8. LocksBacked'
  BY ShmLockAssumption DEF masks, OpenShared, Goto, IInv, TypeOK, PcInv,
     NodeInv, MaskInv, LocksExclude, LocksBacked, Lock, Byte, NoLocks, Mode,
     Ranges
<1>9. LocksExclude'
  BY ShmLockAssumption DEF masks, OpenShared, Goto, IInv, TypeOK, PcInv,
     MaskInv, LocksBacked, LocksExclude, Lock, Byte, NoLocks, Mode, Ranges
<1>10. MemoryKept'
  BY ShmLockAssumption DEF masks, OpenShared, Goto, IInv, TypeOK, PcInv,
     NodeInv, PosixInv, MemoryKept, Label, InMutex, Counted
<1> QED BY <1>1, <1>2, <1>3, <1>4, <1>5, <1>6, <1>7, <1>8, <1>9, <1>10 DEF IInv

\* The write lock on the dead-man switch is granted only where no process
\* is connected.
LEMMA LockDmsKeeps ==
  ASSUME IInv, NEW c \in Conn, LockDms(c)
  PROVE  IInv'
<1>1. TypeOK'
  <2>1. posix' \in [Proc -> [Byte -> Mode]]
    BY SetLockEffect, BytesAreBytes, ShmLockAssumption DEF LockDms, IInv, TypeOK, Mode
  <2> QED BY <2>1 DEF LockDms, Goto, masks, IInv, TypeOK, Label, InMutex
<1>2. DbInv'
  BY ShmLockAssumption DEF masks, LockDms, Goto, CanLock, SetLock, IInv,
     TypeOK, DbInv, Label, InMutex, Counted
<1>3. PcInv'
  BY ShmLockAssumption DEF masks, LockDms, Goto, CanLock, SetLock, IInv,
     TypeOK, PcInv, NodeInv, Label, InMutex, Counted
<1>4. NodeInv'
  BY ShmLockAssumption DEF masks, LockDms, Goto, CanLock, SetLock, IInv,
     TypeOK, PcInv, NodeInv, Label, InMutex, Counted, NoLocks, Mode, Byte,
     Lock, DMS, Ranges
<1>5. FileInv'
  BY ShmLockAssumption DEF masks, LockDms, Goto, CanLock, SetLock, IInv,
     TypeOK, DbInv, PcInv, NodeInv, FileInv, Label, InMutex, Counted
<1>6. PosixInv'
  <2> DEFINE r == ProcOf[c]
  <2>1. r \in Proc /\ refs' = refs /\ h' = h /\ refs[r] = {}
    BY ShmLockAssumption DEF LockDms, IInv, PcInv, NodeInv, InMutex
  <2>2. CASE CanLock(r, {DMS}, "WR")
    <3>1. /\ \A q \in Proc : q # r => posix'[q] = posix[q]
          /\ \A b \in Byte : posix'[r][b] = IF b = DMS THEN "WR" ELSE posix[r][b]
      BY <2>1, <2>2, SetLockEffect, BytesAreBytes DEF LockDms, IInv, Mode
    <3>2. \A q \in Proc : (q # r /\ h[q] = h[r]) => posix[q][DMS] = "UN"
      BY <2>2 DEF CanLock
    <3>3. ASSUME NEW p \in Proc, NEW q \in Proc, p # q, h[p] = h[q], NEW b \in Byte,
                 posix'[p][b] = "WR"
          PROVE  posix'[q][b] = "UN"
      BY <2>1, <3>1, <3>2, <3>3 DEF IInv, PosixInv
    <3>4. \A d \in Conn : pc'[d] = "trunc" => posix'[ProcOf[d]][DMS] = "WR"
      <4>1. pc' = [pc EXCEPT ![c] = "trunc"] /\ pc \in [Conn -> Label]
        BY <2>2 DEF LockDms, Goto, IInv, TypeOK
      <4>2. posix'[r][DMS] = "WR"
        BY <3>1, BytesAreBytes
      <4>3. ASSUME NEW d \in Conn, ProcOf[d] # r, pc'[d] = "trunc"
            PROVE  posix'[ProcOf[d]][DMS] = "WR"
        <5>1. pc[d] = "trunc" /\ ProcOf[d] \in Proc
          BY <4>1, <4>3, ShmLockAssumption
        <5> QED BY <3>1, <4>3, <5>1 DEF IInv, PosixInv
      <4> QED BY <4>2, <4>3
    <3> QED BY <2>1, <3>1, <3>3, <3>4 DEF IInv, PosixInv
  <2>3. CASE ~CanLock(r, {DMS}, "WR")
    BY <2>1, <2>3 DEF LockDms, Goto, IInv, TypeOK, PosixInv
  <2> QED BY <2>2, <2>3
<1>7. MaskInv'
  BY ShmLockAssumption DEF masks, LockDms, Goto, CanLock, SetLock, IInv,
     TypeOK, PcInv, MaskInv, Label, InMutex, Counted
<1>8. LocksBacked'
  <2>1. \A q \in Proc : \A i \in Lock : posix'[q][i] = posix[q][i]
    BY SetLockEffect, BytesAreBytes, ShmLockAssumption DEF LockDms, IInv, Mode
  <2> QED BY <2>1 DEF LockDms, masks, IInv, LocksBacked
<1>9. LocksExclude'
  BY ShmLockAssumption DEF masks, LockDms, Goto, CanLock, SetLock, IInv,
     TypeOK, PcInv, MaskInv, LocksBacked, LocksExclude, Lock, Byte, NoLocks,
     Mode, Ranges
<1>10. MemoryKept'
  BY ShmLockAssumption DEF masks, LockDms, Goto, CanLock, SetLock, IInv,
     TypeOK, PcInv, NodeInv, PosixInv, MemoryKept, Label, InMutex, Counted
<1> QED BY <1>1, <1>2, <1>3, <1>4, <1>5, <1>6, <1>7, <1>8, <1>9, <1>10 DEF IInv

\* Under that lock the truncated file has no user.
LEMMA TruncateKeeps ==
  ASSUME IInv, NEW c \in Conn, Truncate(c)
  PROVE  IInv'
<1>1. TypeOK'
  BY ShmLockAssumption DEF masks, Truncate, Goto, IInv, TypeOK, Label,
     InMutex, Counted, NoLocks, Mode, Byte, Lock, DMS, Ranges
<1>2. DbInv'
  BY ShmLockAssumption DEF masks, Truncate, Goto, IInv, TypeOK, DbInv, Label,
     InMutex, Counted
<1>3. PcInv'
  BY ShmLockAssumption DEF masks, Truncate, Goto, IInv, TypeOK, PcInv,
     NodeInv, Label, InMutex, Counted
<1>4. NodeInv'
  BY ShmLockAssumption DEF masks, Truncate, Goto, IInv, TypeOK, PcInv,
     NodeInv, Label, InMutex, Counted, NoLocks, Mode, Byte, Lock, DMS, Ranges
<1>5. FileInv'
  BY ShmLockAssumption DEF masks, Truncate, Goto, IInv, TypeOK, DbInv, PcInv,
     NodeInv, FileInv, Label, InMutex, Counted
<1>6. PosixInv'
  BY ShmLockAssumption DEF masks, Truncate, Goto, IInv, TypeOK, PcInv,
     NodeInv, PosixInv, Label, InMutex, Counted, NoLocks, Mode, Byte, Lock,
     DMS, Ranges
<1>7. MaskInv'
  BY ShmLockAssumption DEF masks, Truncate, Goto, IInv, TypeOK, PcInv,
     MaskInv, Label, InMutex, Counted
<1>8. LocksBacked'
  BY ShmLockAssumption DEF masks, Truncate, Goto, IInv, TypeOK, PcInv,
     NodeInv, MaskInv, LocksExclude, LocksBacked, Lock, Byte, NoLocks, Mode,
     Ranges
<1>9. LocksExclude'
  BY ShmLockAssumption DEF masks, Truncate, Goto, IInv, TypeOK, PcInv,
     MaskInv, LocksBacked, LocksExclude, Lock, Byte, NoLocks, Mode, Ranges
<1>10. MemoryKept'
  <2>1. ASSUME NEW d \in Conn, d \in refs[ProcOf[d]], h[ProcOf[d]] = h[ProcOf[c]]
        PROVE  FALSE
    <3>1. ProcOf[c] \in Proc /\ ProcOf[d] \in Proc /\ pc[c] = "trunc"
      BY ShmLockAssumption DEF Truncate
    <3>2. posix[ProcOf[d]][DMS] = "RD" /\ posix[ProcOf[c]][DMS] = "WR"
      BY <2>1, <3>1 DEF IInv, PosixInv
    <3>3. ProcOf[c] # ProcOf[d]
      BY <3>2
    <3> QED BY <2>1, <3>1, <3>2, <3>3, BytesAreBytes DEF IInv, PosixInv
  <2> QED BY <2>1 DEF Truncate, IInv, MemoryKept
<1> QED BY <1>1, <1>2, <1>3, <1>4, <1>5, <1>6, <1>7, <1>8, <1>9, <1>10 DEF IInv

\* The error path closes a file that no connection is counted on.
LEMMA TruncateFailsKeeps ==
  ASSUME IInv, NEW c \in Conn, TruncateFails(c)
  PROVE  IInv'
<1>1. TypeOK'
  BY ShmLockAssumption DEF masks, TruncateFails, Purge, Goto, IInv, TypeOK,
     Label, InMutex, Counted, NoLocks, Mode, Byte, Lock, DMS, Ranges
<1>2. DbInv'
  BY ShmLockAssumption DEF masks, TruncateFails, Purge, Goto, IInv, TypeOK,
     DbInv, Label, InMutex, Counted
<1>3. PcInv'
  BY ShmLockAssumption DEF masks, TruncateFails, Purge, Goto, IInv, TypeOK,
     PcInv, NodeInv, Label, InMutex, Counted
<1>4. NodeInv'
  BY ShmLockAssumption DEF masks, TruncateFails, Purge, Goto, IInv, TypeOK,
     PcInv, NodeInv, Label, InMutex, Counted, NoLocks, Mode, Byte, Lock, DMS,
     Ranges
<1>5. FileInv'
  BY ShmLockAssumption DEF masks, TruncateFails, Purge, Goto, IInv, TypeOK,
     DbInv, PcInv, NodeInv, FileInv, Label, InMutex, Counted
<1>6. PosixInv'
  BY ShmLockAssumption DEF masks, TruncateFails, Purge, Goto, IInv, TypeOK,
     PcInv, NodeInv, PosixInv, Label, InMutex, Counted, NoLocks, Mode, Byte,
     Lock, DMS, Ranges
<1>7. MaskInv'
  BY ShmLockAssumption DEF masks, TruncateFails, Purge, Goto, IInv, TypeOK,
     PcInv, MaskInv, Label, InMutex, Counted
<1>8. LocksBacked'
  <2> DEFINE r == ProcOf[c]
  <2>1. /\ r \in Proc
        /\ \A q \in Proc : q # r => posix'[q] = posix[q]
        /\ \A b \in Byte : posix'[r][b] = "UN"
    BY NoLocksEffect, ShmLockAssumption DEF TruncateFails, Purge, masks, IInv
  <2>2. pFirst'[r] = {}
    BY <2>1, ShmLockAssumption DEF TruncateFails, Purge, masks, IInv, TypeOK, PcInv, NodeInv, InMutex, Counted
  <2>3. \A q \in Proc : q # r =>
          /\ pFirst'[q] = pFirst[q]
          /\ \A d \in pFirst[q] : sharedMask'[d] = sharedMask[d] /\ exclMask'[d] = exclMask[d]
    BY <2>1, ShmLockAssumption DEF TruncateFails, Purge, masks, IInv, TypeOK, PcInv
  <2> QED BY <2>1, <2>2, <2>3, BytesAreBytes DEF IInv, LocksBacked
<1>9. LocksExclude'
  BY ShmLockAssumption DEF masks, TruncateFails, Purge, Goto, IInv, TypeOK,
     PcInv, MaskInv, LocksBacked, LocksExclude, Lock, Byte, NoLocks, Mode,
     Ranges
<1>10. MemoryKept'
  BY ShmLockAssumption DEF masks, TruncateFails, Purge, Goto, IInv, TypeOK,
     PcInv, NodeInv, PosixInv, MemoryKept, Label, InMutex, Counted
<1> QED BY <1>1, <1>2, <1>3, <1>4, <1>5, <1>6, <1>7, <1>8, <1>9, <1>10 DEF IInv

\* The read lock on the dead-man switch is in place before nRef counts.
LEMMA JoinDmsKeeps ==
  ASSUME IInv, NEW c \in Conn, JoinDms(c)
  PROVE  IInv'
<1>1. TypeOK'
  <2>1. posix' \in [Proc -> [Byte -> Mode]]
    BY SetLockEffect, NoLocksEffect, BytesAreBytes, ShmLockAssumption
       DEF JoinDms, Purge, IInv, TypeOK, Mode
  <2>2. refs' \in [Proc -> SUBSET Conn]
    <3>1. CASE refs' = refs BY <3>1 DEF IInv, TypeOK
    <3>2. CASE refs' = [refs EXCEPT ![ProcOf[c]] = @ \cup {c}]
      BY <3>2, ShmLockAssumption DEF IInv, TypeOK
    <3> QED BY <3>1, <3>2 DEF JoinDms
  <2>3. h' \in [Proc -> File \cup {NoFile}] /\ mutex' \in [Proc -> Conn \cup {NoConn}]
    BY ShmLockAssumption DEF JoinDms, Purge, IInv, TypeOK
  <2> QED BY <2>1, <2>2, <2>3
          DEF JoinDms, Purge, Goto, masks, IInv, TypeOK, Label, InMutex, Counted
<1>2. DbInv'
  BY ShmLockAssumption DEF masks, JoinDms, Purge, Goto, CanLock, SetLock,
     IInv, TypeOK, DbInv, Label, InMutex, Counted
<1>3. PcInv'
  BY ShmLockAssumption DEF masks, JoinDms, Purge, Goto, CanLock, SetLock,
     IInv, TypeOK, PcInv, NodeInv, Label, InMutex, Counted
<1>4. NodeInv'
  BY ShmLockAssumption DEF masks, JoinDms, Purge, Goto, CanLock, SetLock,
     IInv, TypeOK, PcInv, NodeInv, Label, InMutex, Counted, NoLocks, Mode,
     Byte, Lock, DMS, Ranges
<1>5. FileInv'
  BY ShmLockAssumption DEF masks, JoinDms, Purge, Goto, CanLock, SetLock,
     IInv, TypeOK, DbInv, PcInv, NodeInv, FileInv, Label, InMutex, Counted
<1>6. PosixInv'
  <2> DEFINE r == ProcOf[c]
  <2>1. /\ r \in Proc /\ refs[r] = {} /\ mutex[r] = c
        /\ \A d \in Conn : ProcOf[d] = r => pc'[d] # "trunc"
    <3>1. r \in Proc /\ pc[c] = "join" /\ pc \in [Conn -> Label]
      BY ShmLockAssumption DEF JoinDms, IInv, TypeOK
    <3>2. mutex[r] = c /\ c # NoConn
      BY <3>1, ShmLockAssumption DEF IInv, PcInv, InMutex
    <3>3. \A d \in Conn \ {c} : ProcOf[d] = r => pc[d] # "trunc"
      BY <3>1, <3>2 DEF IInv, PcInv, InMutex
    <3>4. \E l \in Label \ {"trunc"} : pc' = [pc EXCEPT ![c] = l]
      BY DEF JoinDms, Purge, Goto, Label, InMutex, Counted
    <3> QED BY <3>1, <3>2, <3>3, <3>4 DEF IInv, NodeInv
  <2>2. CASE CanLock(r, {DMS}, "RD")
    <3>1. /\ h' = h /\ \A q \in Proc : q # r => posix'[q] = posix[q] /\ refs'[q] = refs[q]
          /\ \A b \in Byte : posix'[r][b] = IF b = DMS THEN "RD" ELSE posix[r][b]
      BY <2>1, <2>2, SetLockEffect, BytesAreBytes DEF JoinDms, IInv, TypeOK, Mode
    <3>2. \A q \in Proc : (q # r /\ h[q] = h[r]) => posix[q][DMS] # "WR"
      BY <2>2 DEF CanLock
    <3>3. ASSUME NEW p \in Proc, NEW q \in Proc, p # q, h[p] = h[q], NEW b \in Byte,
                 posix'[p][b] = "WR"
          PROVE  posix'[q][b] = "UN"
      BY <2>1, <3>1, <3>2, <3>3 DEF IInv, PosixInv
    <3>4. \A d \in Conn : pc'[d] = "trunc" => posix'[ProcOf[d]][DMS] = "WR"
      <4>1. \A d \in Conn : d # c => pc'[d] = pc[d]
        BY DEF JoinDms, Purge, Goto, IInv, TypeOK
      <4> QED BY <2>1, <3>1, <4>1, ShmLockAssumption DEF IInv, PosixInv
    <3> QED BY <2>1, <3>1, <3>3, <3>4, BytesAreBytes DEF IInv, PosixInv
  <2>3. CASE ~CanLock(r, {DMS}, "RD")
    <3>1. /\ h' = [h EXCEPT ![r] = NoFile] /\ refs' = refs
          /\ \A q \in Proc : q # r => posix'[q] = posix[q]
          /\ \A b \in Byte : posix'[r][b] = "UN"
      BY <2>1, <2>3, NoLocksEffect DEF JoinDms, Purge, IInv
    <3>2. \A q \in Proc : h[q] = NoFile => \A b \in Byte : posix[q][b] = "UN"
      BY DEF IInv, NodeInv, NoLocks
    <3>3. ASSUME NEW p \in Proc, NEW q \in Proc, p # q, h'[p] = h'[q], NEW b \in Byte,
                 posix'[p][b] = "WR"
          PROVE  posix'[q][b] = "UN"
      BY <2>1, <3>1, <3>2, <3>3 DEF IInv, TypeOK, PosixInv
    <3>4. \A d \in Conn : pc'[d] = "trunc" => posix'[ProcOf[d]][DMS] = "WR"
      <4>1. \A d \in Conn : d # c => pc'[d] = pc[d]
        BY DEF JoinDms, Purge, Goto, IInv, TypeOK
      <4> QED BY <2>1, <3>1, <4>1, ShmLockAssumption DEF IInv, PosixInv
    <3> QED BY <2>1, <3>1, <3>3, <3>4 DEF IInv, PosixInv
  <2> QED BY <2>2, <2>3
<1>7. MaskInv'
  BY ShmLockAssumption DEF masks, JoinDms, Purge, Goto, CanLock, SetLock,
     IInv, TypeOK, PcInv, MaskInv, Label, InMutex, Counted
<1>8. LocksBacked'
  <2>1. CASE CanLock(ProcOf[c], {DMS}, "RD")
    <3>1. \A q \in Proc : \A i \in Lock : posix'[q][i] = posix[q][i]
      BY <2>1, SetLockEffect, BytesAreBytes, ShmLockAssumption DEF JoinDms, IInv, Mode
    <3> QED BY <3>1 DEF JoinDms, masks, IInv, LocksBacked
  <2>2. CASE ~CanLock(ProcOf[c], {DMS}, "RD")
    <3> DEFINE r == ProcOf[c]
    <3>1. /\ r \in Proc
          /\ \A q \in Proc : q # r => posix'[q] = posix[q]
          /\ \A b \in Byte : posix'[r][b] = "UN"
      BY <2>2, NoLocksEffect, ShmLockAssumption DEF JoinDms, Purge, IInv
    <3>2. pFirst[r] = {}
      BY <3>1, ShmLockAssumption DEF JoinDms, IInv, TypeOK, PcInv, NodeInv, InMutex, Counted
    <3> QED BY <3>1, <3>2, BytesAreBytes DEF JoinDms, masks, IInv, LocksBacked
  <2> QED BY <2>1, <2>2
<1>9. LocksExclude'
  BY ShmLockAssumption DEF masks, JoinDms, Purge, Goto, CanLock, SetLock,
     IInv, TypeOK, PcInv, MaskInv, LocksBacked, LocksExclude, Lock, Byte,
     NoLocks, Mode, Ranges
<1>10. MemoryKept'
  BY ShmLockAssumption DEF masks, JoinDms, Purge, Goto, CanLock, SetLock,
     IInv, TypeOK, PcInv, NodeInv, PosixInv, MemoryKept, Label, InMutex,
     Counted
<1> QED BY <1>1, <1>2, <1>3, <1>4, <1>5, <1>6, <1>7, <1>8, <1>9, <1>10 DEF IInv

\* Linking into pFirst brings no lock.
LEMMA LinkKeeps ==
  ASSUME IInv, NEW c \in Conn, Link(c)
  PROVE  IInv'
<1>1. TypeOK'
  <2>1. pFirst' \in [Proc -> SUBSET Conn]
    BY ShmLockAssumption DEF Link, IInv, TypeOK
  <2> QED BY <2>1 DEF Link, Goto, masks, IInv, TypeOK, Label, Counted
<1>2. DbInv'
  BY ShmLockAssumption DEF masks, Link, Goto, IInv, TypeOK, DbInv, Label,
     InMutex, Counted
<1>3. PcInv'
  BY ShmLockAssumption DEF masks, Link, Goto, IInv, TypeOK, PcInv, NodeInv,
     Label, InMutex, Counted
<1>4. NodeInv'
  BY ShmLockAssumption DEF masks, Link, Goto, IInv, TypeOK, PcInv, NodeInv,
     Label, InMutex, Counted, NoLocks, Mode, Byte, Lock, DMS, Ranges
<1>5. FileInv'
  BY ShmLockAssumption DEF masks, Link, Goto, IInv, TypeOK, DbInv, PcInv,
     NodeInv, FileInv, Label, InMutex, Counted
<1>6. PosixInv'
  BY ShmLockAssumption DEF masks, Link, Goto, IInv, TypeOK, PcInv, NodeInv,
     PosixInv, Label, InMutex, Counted, NoLocks, Mode, Byte, Lock, DMS, Ranges
<1>7. MaskInv'
  BY ShmLockAssumption DEF masks, Link, Goto, IInv, TypeOK, PcInv, MaskInv,
     Label, InMutex, Counted
<1>8. LocksBacked'
  BY ShmLockAssumption DEF masks, Link, Goto, IInv, TypeOK, PcInv, NodeInv,
     MaskInv, LocksExclude, LocksBacked, Lock, Byte, NoLocks, Mode, Ranges
<1>9. LocksExclude'
  BY ShmLockAssumption DEF masks, Link, Goto, IInv, TypeOK, PcInv, MaskInv,
     LocksBacked, LocksExclude, Lock, Byte, NoLocks, Mode, Ranges
<1>10. MemoryKept'
  BY ShmLockAssumption DEF masks, Link, Goto, IInv, TypeOK, PcInv, NodeInv,
     PosixInv, MemoryKept, Label, InMutex, Counted
<1> QED BY <1>1, <1>2, <1>3, <1>4, <1>5, <1>6, <1>7, <1>8, <1>9, <1>10 DEF IInv

\* A shared lock: the masks exclude siblings, fcntl() other processes.
LEMMA LockSharedKeeps ==
  ASSUME IInv, NEW c \in Conn, NEW i \in Lock, LockShared(c, i)
  PROVE  IInv'
<1>1. TypeOK'
  <2>1. posix' \in [Proc -> [Byte -> Mode]]
    <3>1. CASE UNCHANGED posix BY <3>1 DEF IInv, TypeOK
    <3>2. CASE SetLock(ProcOf[c], {i}, "RD")
      BY <3>2, SetLockEffect, BytesAreBytes, ShmLockAssumption DEF IInv, Mode
    <3> QED BY <3>1, <3>2 DEF LockShared
  <2>2. sharedMask' \in [Conn -> SUBSET Lock] /\ exclMask' \in [Conn -> SUBSET Lock]
    BY BytesAreBytes DEF LockShared, IInv, TypeOK
  <2> QED BY <2>1, <2>2 DEF LockShared, IInv, TypeOK
<1>2. DbInv'
  BY ShmLockAssumption DEF masks, LockShared, CanLock, SetLock, AllShared,
     IInv, TypeOK, DbInv, Label, InMutex, Counted
<1>3. PcInv'
  BY ShmLockAssumption DEF masks, LockShared, CanLock, SetLock, AllShared,
     IInv, TypeOK, PcInv, NodeInv, Label, InMutex, Counted
<1>4. NodeInv'
  BY ShmLockAssumption DEF masks, LockShared, CanLock, SetLock, AllShared,
     IInv, TypeOK, PcInv, NodeInv, Label, InMutex, Counted, NoLocks, Mode,
     Byte, Lock, DMS, Ranges
<1>5. FileInv'
  BY ShmLockAssumption DEF masks, LockShared, CanLock, SetLock, AllShared,
     IInv, TypeOK, DbInv, PcInv, NodeInv, FileInv, Label, InMutex, Counted
<1>6. PosixInv'
  <2> DEFINE r == ProcOf[c]
  <2>1. r \in Proc /\ refs' = refs /\ h' = h /\ pc' = pc
    BY ShmLockAssumption DEF LockShared
  <2>2. /\ \A q \in Proc : q # r => posix'[q] = posix[q]
        /\ posix'[r][DMS] = posix[r][DMS]
        /\ \A b \in Byte : posix'[r][b] = posix[r][b] \/ posix'[r][b] = "UN"
             \/ (posix'[r][b] = "RD" /\ CanLock(r, {b}, "RD"))
    <3>1. CASE posix' = posix BY <3>1
    <3>2. CASE CanLock(r, {i}, "RD") /\ SetLock(r, {i}, "RD")
      <4>1. {i} \in SUBSET Byte /\ DMS \notin {i} /\ "RD" \in Mode /\ TypeOK
        BY BytesAreBytes DEF Mode, IInv
      <4> QED BY <2>1, <3>2, <4>1, GrantEffect
    <3> QED BY <3>1, <3>2 DEF LockShared
  <2>3. ASSUME NEW p \in Proc, NEW q \in Proc, p # q, h[p] = h[q], NEW b \in Byte,
               posix'[p][b] = "WR"
        PROVE  posix'[q][b] = "UN"
    BY <2>1, <2>2, <2>3 DEF IInv, PosixInv, TypeOK, Mode, CanLock
  <2> QED BY <2>1, <2>2, <2>3, ShmLockAssumption DEF IInv, PosixInv
<1>7. MaskInv'
  <2>1. c \in pFirst[ProcOf[c]] /\ i \notin exclMask[c]
    BY ShmLockAssumption DEF LockShared, IInv, PcInv
  <2> QED BY <2>1 DEF LockShared, IInv, TypeOK, MaskInv
<1>8. LocksBacked'
  <2> DEFINE r == ProcOf[c]
  <2>1. r \in Proc /\ c \in pFirst[r] /\ pFirst[r] \subseteq Conn /\ pFirst' = pFirst
    <3>1. r \in Proc /\ pFirst' = pFirst /\ pc[c] = "on"
      BY ShmLockAssumption DEF LockShared
    <3>2. pFirst[r] \in SUBSET Conn
      BY <3>1 DEF IInv, TypeOK
    <3> QED BY <3>1, <3>2 DEF IInv, PcInv
  <2>2. /\ \A q \in Proc : q # r => posix'[q] = posix[q]
        /\ \A j \in Lock : posix'[r][j] = IF j = i THEN "RD" ELSE posix[r][j]
    <3>1. CASE i \in AllShared(c) \cup sharedMask[c] /\ UNCHANGED posix
      <4>1. \E e \in pFirst[r] : i \in sharedMask[e]
        BY <2>1, <3>1 DEF AllShared
      <4> QED BY <2>1, <3>1, <4>1 DEF IInv, LocksBacked
    <3>2. CASE SetLock(r, {i}, "RD")
      BY <2>1, <3>2, SetLockEffect, BytesAreBytes DEF IInv, Mode
    <3> QED BY <3>1, <3>2 DEF LockShared
  <2>3. /\ exclMask' = exclMask
        /\ \A d \in Conn : d # c => sharedMask'[d] = sharedMask[d]
        /\ sharedMask'[c] = sharedMask[c] \cup {i}
    BY DEF LockShared, IInv, TypeOK
  <2>4. \A d \in pFirst[r] : i \notin exclMask[d]
    BY DEF LockShared
  <2>5. ASSUME NEW q \in Proc, q # r PROVE c \notin pFirst[q] /\ pFirst[q] \subseteq Conn
    BY <2>5 DEF IInv, TypeOK, PcInv
  <2> QED BY <2>1, <2>2, <2>3, <2>4, <2>5 DEF IInv, LocksBacked
<1>9. LocksExclude'
  <2>1. ASSUME NEW d \in Conn, d # c PROVE i \notin exclMask[d]
    <3>1. CASE pc[d] # "on" BY <3>1 DEF IInv, MaskInv
    <3>2. CASE pc[d] = "on" /\ ProcOf[d] = ProcOf[c]
      BY <3>2, ShmLockAssumption DEF LockShared, IInv, PcInv
    <3>3. CASE pc[d] = "on" /\ ProcOf[d] # ProcOf[c]
      <4> SUFFICES ASSUME i \in exclMask[d] PROVE FALSE OBVIOUS
      <4>1. ProcOf[d] \in Proc /\ ProcOf[c] \in Proc /\ d \in pFirst[ProcOf[d]]
        BY <3>3, ShmLockAssumption DEF IInv, PcInv
      <4>2. posix[ProcOf[d]][i] = "WR" /\ h[ProcOf[d]] = h[ProcOf[c]]
        BY <3>3, <4>1, SameFile DEF LockShared, IInv, LocksBacked
      <4>3. CASE CanLock(ProcOf[c], {i}, "RD")
        BY <3>3, <4>1, <4>2, <4>3 DEF CanLock
      <4>4. CASE i \in AllShared(c) \cup sharedMask[c]
        <5>1. PICK e \in pFirst[ProcOf[c]] : i \in sharedMask[e]
          BY <4>4, <4>1, ShmLockAssumption DEF AllShared, LockShared, IInv, PcInv
        <5>2. e \in Conn /\ e # d
          BY <3>3, <4>1, <5>1 DEF IInv, TypeOK, PcInv
        <5> QED BY <5>1, <5>2 DEF IInv, LocksExclude
      <4> QED BY <4>3, <4>4 DEF LockShared
    <3> QED BY <3>1, <3>2, <3>3
  <2> QED BY <2>1 DEF LockShared, IInv, TypeOK, LocksExclude
<1>10. MemoryKept'
  BY ShmLockAssumption DEF masks, LockShared, CanLock, SetLock, AllShared,
     IInv, TypeOK, PcInv, NodeInv, PosixInv, MemoryKept, Label, InMutex,
     Counted
<1> QED BY <1>1, <1>2, <1>3, <1>4, <1>5, <1>6, <1>7, <1>8, <1>9, <1>10 DEF IInv

\* An exclusive lock, the same.
LEMMA LockExclusiveKeeps ==
  ASSUME IInv, NEW c \in Conn, NEW S \in Ranges, LockExclusive(c, S)
  PROVE  IInv'
<1>1. TypeOK'
  <2>1. posix' \in [Proc -> [Byte -> Mode]]
    BY SetLockEffect, BytesAreBytes, ShmLockAssumption DEF LockExclusive, IInv, TypeOK, Mode
  <2>2. sharedMask' \in [Conn -> SUBSET Lock] /\ exclMask' \in [Conn -> SUBSET Lock]
    BY BytesAreBytes DEF LockExclusive, IInv, TypeOK
  <2> QED BY <2>1, <2>2 DEF LockExclusive, IInv, TypeOK
<1>2. DbInv'
  BY ShmLockAssumption DEF masks, LockExclusive, CanLock, SetLock, IInv,
     TypeOK, DbInv, Label, InMutex, Counted
<1>3. PcInv'
  BY ShmLockAssumption DEF masks, LockExclusive, CanLock, SetLock, IInv,
     TypeOK, PcInv, NodeInv, Label, InMutex, Counted
<1>4. NodeInv'
  BY ShmLockAssumption DEF masks, LockExclusive, CanLock, SetLock, IInv,
     TypeOK, PcInv, NodeInv, Label, InMutex, Counted, NoLocks, Mode, Byte,
     Lock, DMS, Ranges
<1>5. FileInv'
  BY ShmLockAssumption DEF masks, LockExclusive, CanLock, SetLock, IInv,
     TypeOK, DbInv, PcInv, NodeInv, FileInv, Label, InMutex, Counted
<1>6. PosixInv'
  <2> DEFINE r == ProcOf[c]
  <2>1. r \in Proc /\ refs' = refs /\ h' = h /\ pc' = pc
    BY ShmLockAssumption DEF LockExclusive
  <2>2. /\ \A q \in Proc : q # r => posix'[q] = posix[q]
        /\ posix'[r][DMS] = posix[r][DMS]
        /\ \A b \in Byte : posix'[r][b] = posix[r][b] \/ posix'[r][b] = "UN"
             \/ (posix'[r][b] = "WR" /\ CanLock(r, {b}, "WR"))
    <3>1. S \in SUBSET Byte /\ DMS \notin S /\ "WR" \in Mode /\ TypeOK
      BY BytesAreBytes DEF Mode, IInv
    <3>2. CanLock(r, S, "WR") /\ SetLock(r, S, "WR")
      BY DEF LockExclusive
    <3> QED BY <2>1, <3>1, <3>2, GrantEffect
  <2>3. ASSUME NEW p \in Proc, NEW q \in Proc, p # q, h[p] = h[q], NEW b \in Byte,
               posix'[p][b] = "WR"
        PROVE  posix'[q][b] = "UN"
    BY <2>1, <2>2, <2>3 DEF IInv, PosixInv, TypeOK, Mode, CanLock
  <2> QED BY <2>1, <2>2, <2>3, ShmLockAssumption DEF IInv, PosixInv
<1>7. MaskInv'
  <2>1. c \in pFirst[ProcOf[c]] /\ sharedMask[c] \cap S = {}
    BY ShmLockAssumption DEF LockExclusive, IInv, PcInv
  <2> QED BY <2>1 DEF LockExclusive, IInv, TypeOK, MaskInv
<1>8. LocksBacked'
  <2> DEFINE r == ProcOf[c]
  <2>1. r \in Proc /\ c \in pFirst[r] /\ pFirst[r] \subseteq Conn /\ pFirst' = pFirst
    <3>1. r \in Proc /\ pFirst' = pFirst /\ pc[c] = "on"
      BY ShmLockAssumption DEF LockExclusive
    <3>2. pFirst[r] \in SUBSET Conn
      BY <3>1 DEF IInv, TypeOK
    <3> QED BY <3>1, <3>2 DEF IInv, PcInv
  <2>2. /\ \A q \in Proc : q # r => posix'[q] = posix[q]
        /\ \A j \in Lock : posix'[r][j] = IF j \in S THEN "WR" ELSE posix[r][j]
    BY <2>1, SetLockEffect, BytesAreBytes DEF LockExclusive, IInv, Mode
  <2>3. /\ sharedMask' = sharedMask
        /\ \A d \in Conn : d # c => exclMask'[d] = exclMask[d]
        /\ exclMask'[c] = exclMask[c] \cup S
    BY DEF LockExclusive, IInv, TypeOK
  <2>4. \A d \in pFirst[r] : \A j \in S : j \notin sharedMask[d]
    BY DEF LockExclusive
  <2>5. ASSUME NEW q \in Proc, q # r PROVE c \notin pFirst[q] /\ pFirst[q] \subseteq Conn
    BY <2>5 DEF IInv, TypeOK, PcInv
  <2> QED BY <2>1, <2>2, <2>3, <2>4, <2>5 DEF IInv, LocksBacked
<1>9. LocksExclude'
  <2>1. ASSUME NEW d \in Conn, d # c PROVE (exclMask[d] \cup sharedMask[d]) \cap S = {}
    <3>1. CASE pc[d] # "on" BY <3>1 DEF IInv, MaskInv
    <3>2. CASE pc[d] = "on" /\ ProcOf[d] = ProcOf[c]
      BY <3>2, ShmLockAssumption DEF LockExclusive, IInv, PcInv
    <3>3. CASE pc[d] = "on" /\ ProcOf[d] # ProcOf[c]
      <4> SUFFICES ASSUME NEW i \in S, i \in exclMask[d] \cup sharedMask[d] PROVE FALSE
        OBVIOUS
      <4>1. ProcOf[d] \in Proc /\ ProcOf[c] \in Proc /\ d \in pFirst[ProcOf[d]] /\ i \in Lock
        BY <3>3, ShmLockAssumption, BytesAreBytes DEF IInv, PcInv
      <4>2. posix[ProcOf[d]][i] # "UN" /\ h[ProcOf[d]] = h[ProcOf[c]]
        BY <3>3, <4>1, SameFile DEF LockExclusive, IInv, LocksBacked
      <4> QED BY <3>3, <4>1, <4>2 DEF LockExclusive, CanLock
    <3> QED BY <3>1, <3>2, <3>3
  <2> QED BY <2>1 DEF LockExclusive, IInv, TypeOK, LocksExclude
<1>10. MemoryKept'
  BY ShmLockAssumption DEF masks, LockExclusive, CanLock, SetLock, IInv,
     TypeOK, PcInv, NodeInv, PosixInv, MemoryKept, Label, InMutex, Counted
<1> QED BY <1>1, <1>2, <1>3, <1>4, <1>5, <1>6, <1>7, <1>8, <1>9, <1>10 DEF IInv

\* A release leaves the posix lock to the siblings that share it.
LEMMA UnlockKeeps ==
  ASSUME IInv, NEW c \in Conn, NEW S \in Ranges, Unlock(c, S)
  PROVE  IInv'
<1>1. TypeOK'
  <2>1. posix' \in [Proc -> [Byte -> Mode]]
    BY SetLockEffect, BytesAreBytes, ShmLockAssumption DEF Unlock, IInv, TypeOK, Mode
  <2>2. sharedMask' \in [Conn -> SUBSET Lock] /\ exclMask' \in [Conn -> SUBSET Lock]
    BY BytesAreBytes DEF Unlock, IInv, TypeOK
  <2> QED BY <2>1, <2>2 DEF Unlock, IInv, TypeOK
<1>2. DbInv'
  BY ShmLockAssumption DEF masks, Unlock, SetLock, AllShared, IInv, TypeOK,
     DbInv, Label, InMutex, Counted
<1>3. PcInv'
  BY ShmLockAssumption DEF masks, Unlock, SetLock, AllShared, IInv, TypeOK,
     PcInv, NodeInv, Label, InMutex, Counted
<1>4. NodeInv'
  <2>1. refs[ProcOf[c]] # {} /\ h[ProcOf[c]] # NoFile
    BY ShmLockAssumption DEF Unlock, IInv, PcInv, NodeInv, Counted
  <2>2. \A q \in Proc : q # ProcOf[c] => posix'[q] = posix[q]
    BY SetLockEffect, BytesAreBytes, ShmLockAssumption DEF Unlock, IInv, Mode
  <2> QED BY <2>1, <2>2 DEF Unlock, IInv, NodeInv
<1>5. FileInv'
  BY ShmLockAssumption DEF masks, Unlock, SetLock, AllShared, IInv, TypeOK,
     DbInv, PcInv, NodeInv, FileInv, Label, InMutex, Counted
<1>6. PosixInv'
  <2> DEFINE r == ProcOf[c]
  <2>1. r \in Proc /\ refs' = refs /\ h' = h /\ pc' = pc
    BY ShmLockAssumption DEF Unlock
  <2>2. /\ \A q \in Proc : q # r => posix'[q] = posix[q]
        /\ posix'[r][DMS] = posix[r][DMS]
        /\ \A b \in Byte : posix'[r][b] = posix[r][b] \/ posix'[r][b] = "UN"
    BY SetLockEffect, BytesAreBytes, ShmLockAssumption DEF Unlock, IInv, Mode
  <2>3. ASSUME NEW p \in Proc, NEW q \in Proc, p # q, h[p] = h[q], NEW b \in Byte,
               posix'[p][b] = "WR"
        PROVE  posix'[q][b] = "UN"
    BY <2>1, <2>2, <2>3 DEF IInv, PosixInv, TypeOK, Mode, CanLock
  <2> QED BY <2>1, <2>2, <2>3, ShmLockAssumption DEF IInv, PosixInv
<1>7. MaskInv'
  BY ShmLockAssumption DEF masks, Unlock, SetLock, AllShared, IInv, TypeOK,
     PcInv, MaskInv, Label, InMutex, Counted
<1>8. LocksBacked'
  <2> DEFINE r == ProcOf[c]
  <2>1. r \in Proc /\ c \in pFirst[r] /\ pFirst[r] \subseteq Conn /\ pFirst' = pFirst
    <3>1. r \in Proc /\ pFirst' = pFirst /\ pc[c] = "on"
      BY ShmLockAssumption DEF Unlock
    <3>2. pFirst[r] \in SUBSET Conn
      BY <3>1 DEF IInv, TypeOK
    <3> QED BY <3>1, <3>2 DEF IInv, PcInv
  <2>2. /\ \A d \in Conn : d # c => sharedMask'[d] = sharedMask[d] /\ exclMask'[d] = exclMask[d]
        /\ sharedMask'[c] = sharedMask[c] \ S /\ exclMask'[c] = exclMask[c] \ S
    BY DEF Unlock, IInv, TypeOK
  <2>3. ASSUME NEW q \in Proc, q # r PROVE c \notin pFirst[q] /\ pFirst[q] \subseteq Conn
    BY <2>3 DEF IInv, TypeOK, PcInv
  <2>4. \A d \in pFirst[r] \ {c} : \A j \in S :
          j \notin exclMask[d] /\ (j \in sharedMask[d] => j \in sharedMask[c])
    BY <2>1 DEF Unlock, IInv, LocksExclude
  <2>5. \A j \in Lock : j \in AllShared(c) <=> \E d \in pFirst[r] \ {c} : j \in sharedMask[d]
    BY DEF AllShared
  <2>6. CASE S \cap AllShared(c) = {}
    <3>1. /\ \A q \in Proc : q # r => posix'[q] = posix[q]
          /\ \A j \in Lock : posix'[r][j] = IF j \in S THEN "UN" ELSE posix[r][j]
      BY <2>1, <2>6, SetLockEffect, BytesAreBytes DEF Unlock, IInv, Mode
    <3> QED BY <2>1, <2>2, <2>3, <2>4, <2>5, <2>6, <3>1 DEF IInv, LocksBacked
  <2>7. CASE S \cap AllShared(c) # {}
    <3>1. PICK j \in S : j \in AllShared(c)
      BY <2>7
    <3>2. S = {j} /\ posix' = posix /\ j \in Lock
      BY <2>1, <2>4, <2>5, <2>7, <3>1, BytesAreBytes DEF Unlock, IInv, MaskInv
    <3> QED BY <2>1, <2>2, <2>3, <2>4, <2>5, <3>1, <3>2 DEF IInv, LocksBacked
  <2> QED BY <2>6, <2>7
<1>9. LocksExclude'
  BY ShmLockAssumption DEF masks, Unlock, SetLock, AllShared, IInv, TypeOK,
     PcInv, MaskInv, LocksBacked, LocksExclude, Lock, Byte, NoLocks, Mode,
     Ranges
<1>10. MemoryKept'
  BY ShmLockAssumption DEF masks, Unlock, SetLock, AllShared, IInv, TypeOK,
     PcInv, NodeInv, PosixInv, MemoryKept, Label, InMutex, Counted
<1> QED BY <1>1, <1>2, <1>3, <1>4, <1>5, <1>6, <1>7, <1>8, <1>9, <1>10 DEF IInv

\* Unlinking from pFirst takes no lock away, for none is held.
LEMMA UnmapKeeps ==
  ASSUME IInv, NEW c \in Conn, NEW del \in BOOLEAN, Unmap(c, del)
  PROVE  IInv'
<1>1. TypeOK'
  BY ShmLockAssumption DEF masks, Unmap, Goto, IInv, TypeOK, Label, InMutex,
     Counted, NoLocks, Mode, Byte, Lock, DMS, Ranges
<1>2. DbInv'
  BY ShmLockAssumption DEF masks, Unmap, Goto, IInv, TypeOK, DbInv, Label,
     InMutex, Counted
<1>3. PcInv'
  BY ShmLockAssumption DEF masks, Unmap, Goto, IInv, TypeOK, PcInv, NodeInv,
     Label, InMutex, Counted
<1>4. NodeInv'
  BY ShmLockAssumption DEF masks, Unmap, Goto, IInv, TypeOK, PcInv, NodeInv,
     Label, InMutex, Counted, NoLocks, Mode, Byte, Lock, DMS, Ranges
<1>5. FileInv'
  BY ShmLockAssumption DEF masks, Unmap, Goto, IInv, TypeOK, DbInv, PcInv,
     NodeInv, FileInv, Label, InMutex, Counted
<1>6. PosixInv'
  BY ShmLockAssumption DEF masks, Unmap, Goto, IInv, TypeOK, PcInv, NodeInv,
     PosixInv, Label, InMutex, Counted, NoLocks, Mode, Byte, Lock, DMS, Ranges
<1>7. MaskInv'
  BY ShmLockAssumption DEF masks, Unmap, Goto, IInv, TypeOK, PcInv, MaskInv,
     Label, InMutex, Counted
<1>8. LocksBacked'
  BY ShmLockAssumption DEF masks, Unmap, Goto, IInv, TypeOK, PcInv, NodeInv,
     MaskInv, LocksExclude, LocksBacked, Lock, Byte, NoLocks, Mode, Ranges
<1>9. LocksExclude'
  BY ShmLockAssumption DEF masks, Unmap, Goto, IInv, TypeOK, PcInv, MaskInv,
     LocksBacked, LocksExclude, Lock, Byte, NoLocks, Mode, Ranges
<1>10. MemoryKept'
  BY ShmLockAssumption DEF masks, Unmap, Goto, IInv, TypeOK, PcInv, NodeInv,
     PosixInv, MemoryKept, Label, InMutex, Counted
<1> QED BY <1>1, <1>2, <1>3, <1>4, <1>5, <1>6, <1>7, <1>8, <1>9, <1>10 DEF IInv

\* nRef--: whoever takes it to zero stays inside the mutex.
LEMMA DropRefKeeps ==
  ASSUME IInv, NEW c \in Conn, DropRef(c)
  PROVE  IInv'
<1>1. TypeOK'
  BY ShmLockAssumption DEF masks, DropRef, Goto, IInv, TypeOK, Label, InMutex,
     Counted, NoLocks, Mode, Byte, Lock, DMS, Ranges
<1>2. DbInv'
  BY ShmLockAssumption DEF masks, DropRef, Goto, IInv, TypeOK, DbInv, Label,
     InMutex, Counted
<1>3. PcInv'
  BY ShmLockAssumption DEF masks, DropRef, Goto, IInv, TypeOK, PcInv, NodeInv,
     Label, InMutex, Counted
<1>4. NodeInv'
  BY ShmLockAssumption DEF masks, DropRef, Goto, IInv, TypeOK, PcInv, NodeInv,
     Label, InMutex, Counted, NoLocks, Mode, Byte, Lock, DMS, Ranges
<1>5. FileInv'
  BY ShmLockAssumption DEF masks, DropRef, Goto, IInv, TypeOK, DbInv, PcInv,
     NodeInv, FileInv, Label, InMutex, Counted
<1>6. PosixInv'
  BY ShmLockAssumption DEF masks, DropRef, Goto, IInv, TypeOK, PcInv, NodeInv,
     PosixInv, Label, InMutex, Counted, NoLocks, Mode, Byte, Lock, DMS, Ranges
<1>7. MaskInv'
  BY ShmLockAssumption DEF masks, DropRef, Goto, IInv, TypeOK, PcInv, MaskInv,
     Label, InMutex, Counted
<1>8. LocksBacked'
  BY ShmLockAssumption DEF masks, DropRef, Goto, IInv, TypeOK, PcInv, NodeInv,
     MaskInv, LocksExclude, LocksBacked, Lock, Byte, NoLocks, Mode, Ranges
<1>9. LocksExclude'
  BY ShmLockAssumption DEF masks, DropRef, Goto, IInv, TypeOK, PcInv, MaskInv,
     LocksBacked, LocksExclude, Lock, Byte, NoLocks, Mode, Ranges
<1>10. MemoryKept'
  BY ShmLockAssumption DEF masks, DropRef, Goto, IInv, TypeOK, PcInv, NodeInv,
     PosixInv, MemoryKept, Label, InMutex, Counted
<1> QED BY <1>1, <1>2, <1>3, <1>4, <1>5, <1>6, <1>7, <1>8, <1>9, <1>10 DEF IInv

\* The name goes while its EXCLUSIVE lock keeps everybody else away.
LEMMA UnlinkFileKeeps ==
  ASSUME IInv, NEW c \in Conn, UnlinkFile(c)
  PROVE  IInv'
<1>1. TypeOK'
  BY ShmLockAssumption DEF masks, UnlinkFile, Goto, IInv, TypeOK, Label,
     InMutex, Counted, NoLocks, Mode, Byte, Lock, DMS, Ranges
<1>2. DbInv'
  BY ShmLockAssumption DEF masks, UnlinkFile, Goto, IInv, TypeOK, DbInv,
     Label, InMutex, Counted
<1>3. PcInv'
  BY ShmLockAssumption DEF masks, UnlinkFile, Goto, IInv, TypeOK, PcInv,
     NodeInv, Label, InMutex, Counted
<1>4. NodeInv'
  BY ShmLockAssumption DEF masks, UnlinkFile, Goto, IInv, TypeOK, PcInv,
     NodeInv, Label, InMutex, Counted, NoLocks, Mode, Byte, Lock, DMS, Ranges
<1>5. FileInv'
  <2>1. dbLock[c] = "exclusive" /\ ProcOf[c] \in Proc /\ mutex[ProcOf[c]] = c
    BY ShmLockAssumption DEF UnlinkFile, IInv, DbInv, PcInv, InMutex
  <2>2. \A d \in Conn : d # c => pc[d] = "off"
    BY <2>1 DEF IInv, DbInv
  <2>3. ASSUME NEW p \in Proc, p # ProcOf[c] PROVE h[p] = NoFile
    <3>1. \A d \in Conn : d \notin refs[p] /\ mutex[p] # d
      BY <2>2, <2>3 DEF IInv, PcInv, InMutex, Counted
    <3> QED BY <3>1 DEF IInv, TypeOK, NodeInv
  <2> QED BY <2>1, <2>3, ShmLockAssumption DEF UnlinkFile, Goto, IInv, TypeOK, FileInv
<1>6. PosixInv'
  BY ShmLockAssumption DEF masks, UnlinkFile, Goto, IInv, TypeOK, PcInv,
     NodeInv, PosixInv, Label, InMutex, Counted, NoLocks, Mode, Byte, Lock,
     DMS, Ranges
<1>7. MaskInv'
  BY ShmLockAssumption DEF masks, UnlinkFile, Goto, IInv, TypeOK, PcInv,
     MaskInv, Label, InMutex, Counted
<1>8. LocksBacked'
  BY ShmLockAssumption DEF masks, UnlinkFile, Goto, IInv, TypeOK, PcInv,
     NodeInv, MaskInv, LocksExclude, LocksBacked, Lock, Byte, NoLocks, Mode,
     Ranges
<1>9. LocksExclude'
  BY ShmLockAssumption DEF masks, UnlinkFile, Goto, IInv, TypeOK, PcInv,
     MaskInv, LocksBacked, LocksExclude, Lock, Byte, NoLocks, Mode, Ranges
<1>10. MemoryKept'
  BY ShmLockAssumption DEF masks, UnlinkFile, Goto, IInv, TypeOK, PcInv,
     NodeInv, PosixInv, MemoryKept, Label, InMutex, Counted
<1> QED BY <1>1, <1>2, <1>3, <1>4, <1>5, <1>6, <1>7, <1>8, <1>9, <1>10 DEF IInv

\* unixShmPurge closes a file that no connection is counted on.
LEMMA PurgeNodeKeeps ==
  ASSUME IInv, NEW c \in Conn, PurgeNode(c)
  PROVE  IInv'
<1>1. TypeOK'
  BY ShmLockAssumption DEF masks, PurgeNode, Purge, Goto, IInv, TypeOK, Label,
     InMutex, Counted, NoLocks, Mode, Byte, Lock, DMS, Ranges
<1>2. DbInv'
  BY ShmLockAssumption DEF masks, PurgeNode, Purge, Goto, IInv, TypeOK, DbInv,
     Label, InMutex, Counted
<1>3. PcInv'
  BY ShmLockAssumption DEF masks, PurgeNode, Purge, Goto, IInv, TypeOK, PcInv,
     NodeInv, Label, InMutex, Counted
<1>4. NodeInv'
  BY ShmLockAssumption DEF masks, PurgeNode, Purge, Goto, IInv, TypeOK, PcInv,
     NodeInv, Label, InMutex, Counted, NoLocks, Mode, Byte, Lock, DMS, Ranges
<1>5. FileInv'
  BY ShmLockAssumption DEF masks, PurgeNode, Purge, Goto, IInv, TypeOK, DbInv,
     PcInv, NodeInv, FileInv, Label, InMutex, Counted
<1>6. PosixInv'
  <2> DEFINE r == ProcOf[c]
  <2>1. /\ r \in Proc /\ refs[r] = {} /\ mutex[r] = c
        /\ \A d \in Conn : ProcOf[d] = r => pc'[d] # "trunc"
    <3>1. r \in Proc /\ pc[c] = "purge" /\ pc \in [Conn -> Label]
      BY ShmLockAssumption DEF PurgeNode, IInv, TypeOK
    <3>2. mutex[r] = c /\ c # NoConn
      BY <3>1, ShmLockAssumption DEF IInv, PcInv, InMutex
    <3>3. \A d \in Conn \ {c} : ProcOf[d] = r => pc[d] # "trunc"
      BY <3>1, <3>2 DEF IInv, PcInv, InMutex
    <3>4. \E l \in Label \ {"trunc"} : pc' = [pc EXCEPT ![c] = l]
      BY DEF PurgeNode, Purge, Goto, Label, InMutex, Counted
    <3> QED BY <3>1, <3>2, <3>3, <3>4 DEF IInv, NodeInv
  <2>2. /\ h' = [h EXCEPT ![r] = NoFile] /\ refs' = refs
        /\ \A q \in Proc : q # r => posix'[q] = posix[q]
        /\ \A b \in Byte : posix'[r][b] = "UN"
    BY <2>1, NoLocksEffect DEF PurgeNode, Purge, IInv
  <2>3. \A q \in Proc : h[q] = NoFile => \A b \in Byte : posix[q][b] = "UN"
    BY DEF IInv, NodeInv, NoLocks
  <2>4. ASSUME NEW p \in Proc, NEW q \in Proc, p # q, h'[p] = h'[q], NEW b \in Byte,
               posix'[p][b] = "WR"
        PROVE  posix'[q][b] = "UN"
    BY <2>1, <2>2, <2>3, <2>4 DEF IInv, TypeOK, PosixInv
  <2>5. \A d \in Conn : pc'[d] = "trunc" => posix'[ProcOf[d]][DMS] = "WR"
    BY <2>1, <2>2, ShmLockAssumption DEF PurgeNode, Purge, Goto, IInv, TypeOK, PosixInv
  <2> QED BY <2>1, <2>2, <2>4, <2>5 DEF IInv, PosixInv
<1>7. MaskInv'
  BY ShmLockAssumption DEF masks, PurgeNode, Purge, Goto, IInv, TypeOK, PcInv,
     MaskInv, Label, InMutex, Counted
<1>8. LocksBacked'
  <2> DEFINE r == ProcOf[c]
  <2>1. /\ r \in Proc
        /\ \A q \in Proc : q # r => posix'[q] = posix[q]
        /\ \A b \in Byte : posix'[r][b] = "UN"
    BY NoLocksEffect, ShmLockAssumption DEF PurgeNode, Purge, masks, IInv
  <2>2. pFirst'[r] = {}
    BY <2>1, ShmLockAssumption DEF PurgeNode, Purge, masks, IInv, TypeOK, PcInv, NodeInv, InMutex, Counted
  <2>3. \A q \in Proc : q # r =>
          /\ pFirst'[q] = pFirst[q]
          /\ \A d \in pFirst[q] : sharedMask'[d] = sharedMask[d] /\ exclMask'[d] = exclMask[d]
    BY <2>1, ShmLockAssumption DEF PurgeNode, Purge, masks, IInv, TypeOK, PcInv
  <2> QED BY <2>1, <2>2, <2>3, BytesAreBytes DEF IInv, LocksBacked
<1>9. LocksExclude'
  BY ShmLockAssumption DEF masks, PurgeNode, Purge, Goto, IInv, TypeOK, PcInv,
     MaskInv, LocksBacked, LocksExclude, Lock, Byte, NoLocks, Mode, Ranges
<1>10. MemoryKept'
  BY ShmLockAssumption DEF masks, PurgeNode, Purge, Goto, IInv, TypeOK, PcInv,
     NodeInv, PosixInv, MemoryKept, Label, InMutex, Counted
<1> QED BY <1>1, <1>2, <1>3, <1>4, <1>5, <1>6, <1>7, <1>8, <1>9, <1>10 DEF IInv

\* Nobody is connected at first.
LEMMA InitInv == Init => IInv
  BY ShmLockAssumption DEF Init, IInv, TypeOK, DbInv, PcInv, NodeInv, FileInv,
     PosixInv, MaskInv, LocksBacked, LocksExclude, MemoryKept, Label, InMutex,
     Counted, Lock, Byte, Mode, NoLocks

\* Every step of any connection or process keeps the invariant.
LEMMA NextInv == IInv /\ [Next]_vars => IInv'
<1> SUFFICES ASSUME IInv, [Next]_vars PROVE IInv'
  OBVIOUS
<1>1. ASSUME NEW p \in Proc, Crash(p) PROVE IInv'
  BY <1>1, CrashKeeps
<1>2. ASSUME NEW c \in Conn, LockDb(c) \/ LockDbExclusive(c) \/ UnlockDb(c)
      PROVE  IInv'
  BY <1>2, LockDbKeeps, LockDbExclusiveKeeps, UnlockDbKeeps
<1>3. ASSUME NEW c \in Conn,
             OpenFile(c) \/ OpenShared(c) \/ LockDms(c) \/ Truncate(c)
               \/ TruncateFails(c) \/ JoinDms(c) \/ Link(c)
      PROVE  IInv'
  BY <1>3, OpenFileKeeps, OpenSharedKeeps, LockDmsKeeps, TruncateKeeps,
     TruncateFailsKeeps, JoinDmsKeeps, LinkKeeps
<1>4. ASSUME NEW c \in Conn, NEW i \in Lock, LockShared(c, i) PROVE IInv'
  BY <1>4, LockSharedKeeps
<1>5. ASSUME NEW c \in Conn, NEW S \in Ranges, LockExclusive(c, S) \/ Unlock(c, S)
      PROVE  IInv'
  BY <1>5, LockExclusiveKeeps, UnlockKeeps
<1>6. ASSUME NEW c \in Conn, NEW del \in BOOLEAN, Unmap(c, del) PROVE IInv'
  BY <1>6, UnmapKeeps
<1>7. ASSUME NEW c \in Conn, DropRef(c) \/ UnlinkFile(c) \/ PurgeNode(c)
      PROVE  IInv'
  BY <1>7, DropRefKeeps, UnlinkFileKeeps, PurgeNodeKeeps
<1>8. CASE UNCHANGED vars
  BY <1>8 DEF vars, IInv, TypeOK, DbInv, PcInv, NodeInv, FileInv, PosixInv,
     MaskInv, LocksBacked, LocksExclude, MemoryKept
<1> QED BY <1>1, <1>2, <1>3, <1>4, <1>5, <1>6, <1>7, <1>8 DEF Next

\* The inductive invariant holds in every reachable state of unixShmLock,
\* unixOpenSharedMemory and unixShmUnmap, for any number of processes,
\* connections and locks.
THEOREM ShmLockInvariant == Spec => []IInv
<1>1. Init => IInv
  BY InitInv
<1>2. IInv /\ [Next]_vars => IInv'
  BY NextInv
<1> QED BY <1>1, <1>2, PTL DEF Spec

\* Every field keeps its type: masks are sets of locks, pFirst holds
\* connections of the process, inodes stay within the bound.
THEOREM ShmLockTypeOK == Spec => []TypeOK
<1>1. IInv => TypeOK
  BY DEF IInv
<1> QED BY <1>1, ShmLockInvariant, PTL

\* unixShmLock never lets one connection hold exclusively what another holds.
THEOREM ShmLockExclusion == Spec => []LocksExclude
<1>1. IInv => LocksExclude
  BY DEF IInv
<1> QED BY <1>1, ShmLockInvariant, PTL

\* The posix locks of a process are exactly what its connections hold.
THEOREM ShmLockBacked == Spec => []LocksBacked
<1>1. IInv => LocksBacked
  BY DEF IInv
<1> QED BY <1>1, ShmLockInvariant, PTL

\* The dead-man switch of unixOpenSharedMemory protects every connection's
\* memory from being truncated.
THEOREM ShmLockMemoryKept == Spec => []MemoryKept
<1>1. IInv => MemoryKept
  BY DEF IInv
<1> QED BY <1>1, ShmLockInvariant, PTL

\* unixShmUnmap never deletes the file of a connection that still uses it.
THEOREM ShmLockOneMemory == Spec => []OneMemory
<1>1. IInv => OneMemory
  <2> SUFFICES ASSUME IInv, NEW p \in Proc, refs[p] # {} PROVE h[p] = dir
    BY DEF OneMemory
  <2>1. h[p] # NoFile /\ mutex[p] = NoConn
    BY DEF IInv, NodeInv
  <2> QED BY <2>1 DEF IInv, FileInv
<1> QED BY <1>1, ShmLockInvariant, PTL

\* A request that unixShmLock grants leaves room for no conflicting lock of
\* any connection, in this process or in another.
LEMMA GrantIsFree ==
  ASSUME IInv, NEW c \in Conn, pc[c] = "on", NEW i \in Lock, NEW d \in Conn
  PROVE  /\ (i \in exclMask[d] \/ i \in sharedMask[d]) => pc[d] = "on"
         /\ (pc[d] = "on" /\ ProcOf[d] = ProcOf[c]) => d \in pFirst[ProcOf[c]]
         /\ (pc[d] = "on" /\ ProcOf[d] # ProcOf[c] /\ CanLock(ProcOf[c], {i}, "WR"))
              => i \notin exclMask[d] /\ i \notin sharedMask[d]
         /\ (pc[d] = "on" /\ ProcOf[d] # ProcOf[c] /\ CanLock(ProcOf[c], {i}, "RD"))
              => i \notin exclMask[d]
<1>1. ProcOf[c] \in Proc /\ ProcOf[d] \in Proc
  BY ShmLockAssumption
<1>2. (i \in exclMask[d] \/ i \in sharedMask[d]) => pc[d] = "on"
  BY DEF IInv, MaskInv
<1>3. (pc[d] = "on") => d \in pFirst[ProcOf[d]]
  BY <1>1 DEF IInv, PcInv
<1>4. pc[d] = "on" => h[ProcOf[d]] = h[ProcOf[c]]
  BY SameFile
<1>5. /\ (pc[d] = "on" /\ i \in exclMask[d]) => posix[ProcOf[d]][i] = "WR"
      /\ (pc[d] = "on" /\ i \in sharedMask[d]) => posix[ProcOf[d]][i] = "RD"
  BY <1>1, <1>3 DEF IInv, LocksBacked
<1> QED BY <1>1, <1>2, <1>3, <1>4, <1>5 DEF CanLock

\* Every step of os_unix.c is a step of the lock manager wal.c relies on, or
\* leaves the locks alone.
LEMMA StepSimulation == IInv /\ [Next]_vars => [WL!Next]_(WL!vars)
<1> SUFFICES ASSUME IInv, [Next]_vars PROVE WL!Next \/ UNCHANGED masks
  BY DEF WL!vars, masks
<1>1. ASSUME NEW p \in Proc, Crash(p) PROVE WL!Next
  BY <1>1 DEF Crash, WL!Next, WL!ReleaseAll
<1>2. ASSUME NEW c \in Conn, NEW i \in Lock, LockShared(c, i) PROVE WL!Next
  <2>1. \A d \in Conn : i \notin exclMask[d]
    <3> SUFFICES ASSUME NEW d \in Conn, i \in exclMask[d] PROVE FALSE
      OBVIOUS
    <3>1. pc[c] = "on" /\ \A e \in pFirst[ProcOf[c]] : i \notin exclMask[e]
      BY <1>2 DEF LockShared
    <3>2. pc[d] = "on" /\ ProcOf[d] # ProcOf[c]
      BY <3>1, GrantIsFree
    <3>3. CASE CanLock(ProcOf[c], {i}, "RD")
      BY <3>1, <3>2, <3>3, GrantIsFree
    <3>4. CASE i \in AllShared(c) \cup sharedMask[c]
      <4>1. ProcOf[c] \in Proc /\ c \in pFirst[ProcOf[c]]
            /\ pFirst[ProcOf[c]] \subseteq Conn
        BY <3>1, ShmLockAssumption DEF IInv, PcInv, TypeOK
      <4>2. PICK e \in pFirst[ProcOf[c]] : i \in sharedMask[e]
        BY <3>4, <4>1 DEF AllShared
      <4>3. e \in Conn /\ e # d
        BY <3>1, <4>1, <4>2
      <4> QED BY <4>2, <4>3 DEF IInv, LocksExclude
    <3> QED BY <1>2, <3>3, <3>4 DEF LockShared
  <2>2. WL!AcquireShared(c, i)
    BY <1>2, <2>1 DEF LockShared, WL!AcquireShared
  <2> QED BY <2>2 DEF WL!Next
<1>3. ASSUME NEW c \in Conn, NEW S \in Ranges, LockExclusive(c, S) PROVE WL!Next
  <2>1. S \in SUBSET Lock
    BY BytesAreBytes
  <2>2. ASSUME NEW d \in Conn, NEW i \in S PROVE i \notin exclMask[d] \cup sharedMask[d]
    <3>1. pc[c] = "on" /\ CanLock(ProcOf[c], {i}, "WR")
      BY <1>3 DEF LockExclusive, CanLock
    <3>2. \A e \in pFirst[ProcOf[c]] : i \notin exclMask[e] /\ i \notin sharedMask[e]
      BY <1>3 DEF LockExclusive
    <3> QED BY <2>1, <3>1, <3>2, GrantIsFree
  <2>3. WL!AcquireExclusive(c, S)
    BY <1>3, <2>2 DEF LockExclusive, WL!AcquireExclusive
  <2> QED BY <2>1, <2>3 DEF WL!Next
<1>4. ASSUME NEW c \in Conn, NEW S \in Ranges, Unlock(c, S) PROVE WL!Next
  <2>1. S \in SUBSET Lock
    BY BytesAreBytes
  <2>2. WL!Release(c, S)
    BY <1>4 DEF Unlock, WL!Release
  <2> QED BY <2>1, <2>2 DEF WL!Next
<1>5. ASSUME NEW c \in Conn,
             \/ LockDb(c) \/ LockDbExclusive(c) \/ UnlockDb(c)
             \/ OpenFile(c) \/ OpenShared(c) \/ LockDms(c) \/ Truncate(c)
             \/ TruncateFails(c) \/ JoinDms(c) \/ Link(c)
             \/ \E del \in BOOLEAN : Unmap(c, del)
             \/ DropRef(c) \/ UnlinkFile(c) \/ PurgeNode(c)
      PROVE  UNCHANGED masks
  BY <1>5 DEF LockDb, LockDbExclusive, UnlockDb, OpenFile, OpenShared, LockDms,
     Truncate, TruncateFails, JoinDms, Link, Unmap, DropRef, UnlinkFile,
     PurgeNode, masks
<1>6. CASE UNCHANGED vars
  BY <1>6 DEF vars, masks
<1> QED BY <1>1, <1>2, <1>3, <1>4, <1>5, <1>6 DEF Next

\* unixShmLock and the code around it implement the lock manager of WalLocks,
\* for any number of processes, connections and locks.
THEOREM ShmLockImplements == Spec => ImplementsWalLocks
<1>1. Init => WL!Init
  BY DEF Init, WL!Init
<1>2. IInv /\ [Next]_vars => [WL!Next]_(WL!vars)
  BY StepSimulation
<1> QED BY <1>1, <1>2, ShmLockInvariant, PTL DEF Spec, ImplementsWalLocks, WL!Spec
=============================================================================
