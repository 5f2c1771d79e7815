------------------------------- MODULE ShmLock -------------------------------
(***************************************************************************)
(* The shared memory of os_unix.c: the -shm file a process opens once for   *)
(* all its connections (unixOpenSharedMemory), the locks on it              *)
(* (unixShmLock) and its end (unixShmUnmap), by any number of connections   *)
(* in any number of processes.                                              *)
(*                                                                         *)
(* Posix locks belong to the process and die with the descriptor, so the    *)
(* unixShmNode of a process keeps the masks of all its connections.  A      *)
(* dead-man switch, one more lock byte, tells the first process that opens  *)
(* the file that it may wipe it.  The file is deleted by the last           *)
(* connection of all, which knows that it is the last from an EXCLUSIVE     *)
(* lock on the database file (module FileLock; here dbLock).                *)
(***************************************************************************)
EXTENDS Naturals

CONSTANTS Proc,    \* operating system processes
          Conn,    \* connections to the one database
          ProcOf,  \* the process each of them belongs to
          NLock,   \* SQLITE_SHM_NLOCK
          File,    \* inodes that the name of the -shm file may stand for
          NoFile,  \* no such inode
          NoConn   \* no connection

ASSUME ShmLockAssumption ==
  /\ ProcOf \in [Conn -> Proc]
  /\ NLock \in Nat
  /\ NoFile \notin File
  /\ NoConn \notin Conn

VARIABLES
  dbLock,      \* the lock of c on the database file
  pc,          \* where c is in unixOpenSharedMemory or unixShmUnmap
  mutex,       \* mutex[p]: who is inside unixEnterMutex()
  h,           \* h[p]: pShmNode->h, or NoFile when pInode->pShmNode is 0
  refs,        \* refs[p]: the connections that pShmNode->nRef counts
  pFirst,      \* pFirst[p]: the connections linked to pShmNode
  sharedMask,  \* unixShm.sharedMask
  exclMask,    \* unixShm.exclMask
  posix,       \* posix[p]: posix lock of p on each byte of the file h[p]
  dir,         \* the inode the name of the -shm file stands for
  wiped        \* connections whose memory was truncated under them

vars == <<dbLock, pc, mutex, h, refs, pFirst, sharedMask, exclMask, posix, dir,
          wiped>>
masks == <<sharedMask, exclMask>>

Lock == 0 .. NLock - 1
DMS  == NLock                       \* UNIX_SHM_DMS
Byte == 0 .. NLock
Mode == {"UN", "RD", "WR"}
NoLocks == [b \in Byte |-> "UN"]
Ranges == {i .. j : i, j \in Lock} \ {{}}   \* ofst .. ofst+n-1

(***************************************************************************)
(*   dms      has opened the file, next write-lock the dead-man switch     *)
(*   trunc    has it, next truncate the file                               *)
(*   join     next read-lock the dead-man switch                           *)
(*   link     counted in nRef, next link into pFirst                       *)
(*   on       connected                                                    *)
(*   unmap    unlinked from pFirst, next nRef--                            *)
(*   unmapDel the same, deleteFlag set                                     *)
(*   unlink   last of its process, next unlink the file                    *)
(*   purge    next unixShmPurge                                            *)
(***************************************************************************)
InMutex == {"dms", "trunc", "join", "unlink", "purge"}
Counted == {"link", "on", "unmap", "unmapDel"}
Label   == {"off"} \cup InMutex \cup Counted

TypeOK ==
  /\ dbLock \in [Conn -> {"none", "shared", "exclusive"}]
  /\ pc \in [Conn -> Label]
  /\ mutex \in [Proc -> Conn \cup {NoConn}]
  /\ h \in [Proc -> File \cup {NoFile}]
  /\ refs \in [Proc -> SUBSET Conn]
  /\ pFirst \in [Proc -> SUBSET Conn]
  /\ sharedMask \in [Conn -> SUBSET Lock]
  /\ exclMask \in [Conn -> SUBSET Lock]
  /\ posix \in [Proc -> [Byte -> Mode]]
  /\ dir \in File \cup {NoFile}
  /\ wiped \subseteq Conn

Init ==
  /\ dbLock = [c \in Conn |-> "none"]
  /\ pc = [c \in Conn |-> "off"]
  /\ mutex = [p \in Proc |-> NoConn]
  /\ h = [p \in Proc |-> NoFile]
  /\ refs = [p \in Proc |-> {}]
  /\ pFirst = [p \in Proc |-> {}]
  /\ sharedMask = [c \in Conn |-> {}]
  /\ exclMask = [c \in Conn |-> {}]
  /\ posix = [p \in Proc |-> NoLocks]
  /\ dir = NoFile
  /\ wiped = {}

Goto(c, l) == pc' = [pc EXCEPT ![c] = l]

-----------------------------------------------------------------------------
(* External: the database lock, posix locks, the death of a process.        *)

\* sqlite3PagerSharedLock takes SHARED before it opens the log, and keeps it.
LockDb(c) ==
  /\ dbLock[c] = "none"
  /\ \A d \in Conn : dbLock[d] # "exclusive"
  /\ dbLock' = [dbLock EXCEPT ![c] = "shared"]
  /\ UNCHANGED <<pc, mutex, h, refs, pFirst, masks, posix, dir, wiped>>

\* sqlite3WalClose asks for EXCLUSIVE before it closes the shared memory.
LockDbExclusive(c) ==
  /\ pc[c] = "on" /\ sharedMask[c] = {} /\ exclMask[c] = {}
  /\ dbLock[c] = "shared"
  /\ \A d \in Conn \ {c} : dbLock[d] = "none"
  /\ dbLock' = [dbLock EXCEPT ![c] = "exclusive"]
  /\ UNCHANGED <<pc, mutex, h, refs, pFirst, masks, posix, dir, wiped>>

\* The pager drops the lock after the log is closed (sqlite3PagerClose), or
\* goes back to SHARED (sqlite3PagerCloseWal, a change of journal mode).
UnlockDb(c) ==
  /\ pc[c] = "off" /\ dbLock[c] # "none"
  /\ \E lock \in {"none", "shared"} : dbLock' = [dbLock EXCEPT ![c] = lock]
  /\ UNCHANGED <<pc, mutex, h, refs, pFirst, masks, posix, dir, wiped>>

\* fcntl(F_SETLK): may p have mode m on the bytes S of the file it has open?
CanLock(p, S, m) ==
  \A q \in Proc \ {p} : h[q] = h[p] =>
    \A b \in S : IF m = "WR" THEN posix[q][b] = "UN" ELSE posix[q][b] # "WR"

SetLock(p, S, m) ==
  posix' = [posix EXCEPT ![p] = [b \in Byte |-> IF b \in S THEN m ELSE @[b]]]

\* The system closes the descriptors of a process that dies.
Crash(p) ==
  /\ dbLock' = [c \in Conn |-> IF ProcOf[c] = p THEN "none" ELSE dbLock[c]]
  /\ pc' = [c \in Conn |-> IF ProcOf[c] = p THEN "off" ELSE pc[c]]
  /\ sharedMask' = [c \in Conn |-> IF ProcOf[c] = p THEN {} ELSE sharedMask[c]]
  /\ exclMask' = [c \in Conn |-> IF ProcOf[c] = p THEN {} ELSE exclMask[c]]
  /\ mutex' = [mutex EXCEPT ![p] = NoConn]
  /\ h' = [h EXCEPT ![p] = NoFile]
  /\ refs' = [refs EXCEPT ![p] = {}]
  /\ pFirst' = [pFirst EXCEPT ![p] = {}]
  /\ posix' = [posix EXCEPT ![p] = NoLocks]
  /\ UNCHANGED <<dir, wiped>>

-----------------------------------------------------------------------------
(* unixOpenSharedMemory *)

\* The process has no unixShmNode yet: create one and open (O_CREAT) the file.
OpenFile(c) ==
  LET p == ProcOf[c] IN
  /\ pc[c] = "off" /\ dbLock[c] = "shared"
  /\ mutex[p] = NoConn /\ h[p] = NoFile
  /\ \E f \in File :
       /\ IF dir = NoFile THEN \A q \in Proc : h[q] # f ELSE f = dir
       /\ h' = [h EXCEPT ![p] = f]
       /\ dir' = f
  /\ mutex' = [mutex EXCEPT ![p] = c]
  /\ Goto(c, "dms")
  /\ UNCHANGED <<dbLock, refs, pFirst, masks, posix, wiped>>

\* A sibling has opened it.
OpenShared(c) ==
  LET p == ProcOf[c] IN
  /\ pc[c] = "off" /\ dbLock[c] = "shared"
  /\ mutex[p] = NoConn /\ h[p] # NoFile
  /\ refs' = [refs EXCEPT ![p] = @ \cup {c}]
  /\ Goto(c, "link")
  /\ UNCHANGED <<dbLock, mutex, h, pFirst, masks, posix, dir, wiped>>

\* Mutant: the file is wiped without asking.
LockDms_Unasked(c) ==
  /\ pc[c] = "dms"
  /\ Goto(c, "trunc")
  /\ UNCHANGED <<dbLock, mutex, h, refs, pFirst, masks, posix, dir, wiped>>

\* Is another process holding the dead-man switch?
LockDms(c) ==
  LET p == ProcOf[c] IN
  /\ pc[c] = "dms"
  /\ IF CanLock(p, {DMS}, "WR")
     THEN SetLock(p, {DMS}, "WR") /\ Goto(c, "trunc")
     ELSE UNCHANGED posix /\ Goto(c, "join")
  /\ UNCHANGED <<dbLock, mutex, h, refs, pFirst, masks, dir, wiped>>

\* unixShmPurge: the node goes, and with its descriptor the posix locks.
Purge(c) ==
  LET p == ProcOf[c] IN
  /\ h' = [h EXCEPT ![p] = NoFile]
  /\ posix' = [posix EXCEPT ![p] = NoLocks]
  /\ mutex' = [mutex EXCEPT ![p] = NoConn]
  /\ Goto(c, "off")

\* robust_ftruncate(h, 0): every mapping of the file loses its content.
Truncate(c) ==
  /\ pc[c] = "trunc"
  /\ wiped' = wiped \cup {d \in Conn : /\ d \in refs[ProcOf[d]]
                                       /\ h[ProcOf[d]] = h[ProcOf[c]]}
  /\ Goto(c, "join")
  /\ UNCHANGED <<dbLock, mutex, h, refs, pFirst, masks, posix, dir>>

\* It fails: shm_open_err.
TruncateFails(c) ==
  /\ pc[c] = "trunc"
  /\ Purge(c)
  /\ UNCHANGED <<dbLock, refs, pFirst, masks, dir, wiped>>

JoinDms(c) ==
  LET p == ProcOf[c] IN
  /\ pc[c] = "join"
  /\ IF CanLock(p, {DMS}, "RD")
     THEN /\ SetLock(p, {DMS}, "RD")
          /\ refs' = [refs EXCEPT ![p] = @ \cup {c}]
          /\ mutex' = [mutex EXCEPT ![p] = NoConn]
          /\ Goto(c, "link")
          /\ UNCHANGED h
     ELSE Purge(c) /\ UNCHANGED refs
  /\ UNCHANGED <<dbLock, pFirst, masks, dir, wiped>>

Link(c) ==
  /\ pc[c] = "link"
  /\ pFirst' = [pFirst EXCEPT ![ProcOf[c]] = @ \cup {c}]
  /\ Goto(c, "on")
  /\ UNCHANGED <<dbLock, mutex, h, refs, masks, posix, dir, wiped>>

-----------------------------------------------------------------------------
(* unixShmLock.  A request that is refused changes nothing. *)

\* Mutant: siblings are forgotten.
AllShared_None(c) == {}

\* The locks that the siblings of c hold in shared mode.
AllShared(c) ==
  UNION {sharedMask[d] : d \in pFirst[ProcOf[c]] \ {c}}

LockShared(c, i) ==
  LET p == ProcOf[c] IN
  /\ pc[c] = "on"
  /\ \A d \in pFirst[p] : i \notin exclMask[d]
  /\ \/ i \in AllShared(c) \cup sharedMask[c] /\ UNCHANGED posix
     \/ /\ i \notin AllShared(c) \cup sharedMask[c]
        /\ CanLock(p, {i}, "RD") /\ SetLock(p, {i}, "RD")
  /\ sharedMask' = [sharedMask EXCEPT ![c] = @ \cup {i}]
  /\ UNCHANGED <<dbLock, pc, mutex, h, refs, pFirst, exclMask, dir, wiped>>

\* Mutant: fcntl() alone is asked, which grants what a sibling holds.
LockExclusive_NoSiblings(c, S) ==
  LET p == ProcOf[c] IN
  /\ pc[c] = "on"
  /\ CanLock(p, S, "WR") /\ SetLock(p, S, "WR")
  /\ exclMask' = [exclMask EXCEPT ![c] = @ \cup S]
  /\ UNCHANGED <<dbLock, pc, mutex, h, refs, pFirst, sharedMask, dir, wiped>>

\* Mutant: the mask reaches one bit too far.
LockExclusive_OneMore(c, S) ==
  LET p == ProcOf[c]
      T == S \cup {i + 1 : i \in S}
  IN
  /\ pc[c] = "on"
  /\ \A d \in pFirst[p] : (exclMask[d] \cup sharedMask[d]) \cap T = {}
  /\ CanLock(p, T, "WR") /\ SetLock(p, T, "WR")
  /\ exclMask' = [exclMask EXCEPT ![c] = @ \cup T]
  /\ UNCHANGED <<dbLock, pc, mutex, h, refs, pFirst, sharedMask, dir, wiped>>

LockExclusive(c, S) ==
  LET p == ProcOf[c] IN
  /\ pc[c] = "on"
  /\ \A d \in pFirst[p] : (exclMask[d] \cup sharedMask[d]) \cap S = {}
  /\ CanLock(p, S, "WR") /\ SetLock(p, S, "WR")
  /\ exclMask' = [exclMask EXCEPT ![c] = @ \cup S]
  /\ UNCHANGED <<dbLock, pc, mutex, h, refs, pFirst, sharedMask, dir, wiped>>

\* Mutant: one release gives up everything the connection holds.
Unlock_Everything(c, S) ==
  LET p == ProcOf[c]
      T == sharedMask[c] \cup exclMask[c]
  IN
  /\ pc[c] = "on" /\ T # {}
  /\ SetLock(p, T \ AllShared(c), "UN")
  /\ sharedMask' = [sharedMask EXCEPT ![c] = {}]
  /\ exclMask' = [exclMask EXCEPT ![c] = {}]
  /\ UNCHANGED <<dbLock, pc, mutex, h, refs, pFirst, dir, wiped>>

\* The posix locks go only if no sibling shares any of them.
Unlock(c, S) ==
  LET p == ProcOf[c] IN
  /\ pc[c] = "on"
  /\ \/ S \subseteq exclMask[c]
     \/ \E i \in sharedMask[c] : S = {i}
  /\ IF S \cap AllShared(c) = {} THEN SetLock(p, S, "UN") ELSE UNCHANGED posix
  /\ sharedMask' = [sharedMask EXCEPT ![c] = @ \ S]
  /\ exclMask' = [exclMask EXCEPT ![c] = @ \ S]
  /\ UNCHANGED <<dbLock, pc, mutex, h, refs, pFirst, dir, wiped>>

-----------------------------------------------------------------------------
(* unixShmUnmap *)

\* Mutant: the file is deleted without the EXCLUSIVE lock.
Unmap_AnyDelete(c, deleteFlag) ==
  /\ pc[c] = "on" /\ sharedMask[c] = {} /\ exclMask[c] = {}
  /\ pFirst' = [pFirst EXCEPT ![ProcOf[c]] = @ \ {c}]
  /\ Goto(c, IF deleteFlag THEN "unmapDel" ELSE "unmap")
  /\ UNCHANGED <<dbLock, mutex, h, refs, masks, posix, dir, wiped>>

\* deleteFlag: sqlite3WalClose found that it is the last connection of all.
Unmap(c, deleteFlag) ==
  /\ pc[c] = "on" /\ sharedMask[c] = {} /\ exclMask[c] = {}
  /\ deleteFlag => dbLock[c] = "exclusive"
  /\ pFirst' = [pFirst EXCEPT ![ProcOf[c]] = @ \ {c}]
  /\ Goto(c, IF deleteFlag THEN "unmapDel" ELSE "unmap")
  /\ UNCHANGED <<dbLock, mutex, h, refs, masks, posix, dir, wiped>>

\* nRef--; the last connection of the process goes on to close the file.
DropRef(c) ==
  LET p == ProcOf[c] IN
  /\ pc[c] \in {"unmap", "unmapDel"} /\ mutex[p] = NoConn
  /\ refs' = [refs EXCEPT ![p] = @ \ {c}]
  /\ IF refs[p] = {c}
     THEN /\ mutex' = [mutex EXCEPT ![p] = c]
          /\ Goto(c, IF pc[c] = "unmapDel" THEN "unlink" ELSE "purge")
     ELSE Goto(c, "off") /\ UNCHANGED mutex
  /\ UNCHANGED <<dbLock, h, pFirst, masks, posix, dir, wiped>>

UnlinkFile(c) ==
  /\ pc[c] = "unlink"
  /\ dir' = NoFile
  /\ Goto(c, "purge")
  /\ UNCHANGED <<dbLock, mutex, h, refs, pFirst, masks, posix, wiped>>

PurgeNode(c) ==
  /\ pc[c] = "purge"
  /\ Purge(c)
  /\ UNCHANGED <<dbLock, refs, pFirst, masks, dir, wiped>>

-----------------------------------------------------------------------------
Next ==
  \/ \E p \in Proc : Crash(p)
  \/ \E c \in Conn :
       \/ LockDb(c) \/ LockDbExclusive(c) \/ UnlockDb(c)
       \/ OpenFile(c) \/ OpenShared(c) \/ LockDms(c) \/ Truncate(c)
       \/ TruncateFails(c) \/ JoinDms(c) \/ Link(c)
       \/ \E i \in Lock : LockShared(c, i)
       \/ \E S \in Ranges : LockExclusive(c, S) \/ Unlock(c, S)
       \/ \E del \in BOOLEAN : Unmap(c, del)
       \/ DropRef(c) \/ UnlinkFile(c) \/ PurgeNode(c)

Spec == Init /\ [][Next]_vars

-----------------------------------------------------------------------------
(* Properties *)

\* A lock one connection holds in exclusive mode no other connection holds in
\* any mode, whether fcntl() (other processes) or the masks (siblings) keep
\* them apart.
LocksExclude ==
  \A c, d \in Conn :
    c # d => exclMask[c] \cap (exclMask[d] \cup sharedMask[d]) = {}

\* The posix locks of a process on the lock bytes are exactly what its
\* connections hold together: none is dropped while a sibling needs it, none
\* stays behind when the last one is released.
LocksBacked ==
  \A p \in Proc : \A i \in Lock :
    /\ posix[p][i] = "WR" <=> \E c \in pFirst[p] : i \in exclMask[c]
    /\ posix[p][i] = "RD" <=> \E c \in pFirst[p] : i \in sharedMask[c]

\* The dead-man switch: nobody's shared memory is truncated by a process that
\* takes itself for the first one.
MemoryKept == wiped = {}

\* All connections share one memory: the file is not deleted and created
\* again while anyone uses it.
OneMemory ==
  \A p \in Proc : refs[p] # {} => h[p] = dir

\* The locks of os_unix.c implement the lock manager wal.c relies on.
WL == INSTANCE WalLocks
ImplementsWalLocks == WL!Spec

(***************************************************************************)
(* The inductive invariant.                                                *)
(***************************************************************************)
DbInv ==
  /\ \A c, d \in Conn : (c # d /\ dbLock[c] = "exclusive") => dbLock[d] = "none"
  /\ \A c \in Conn : pc[c] # "off" => dbLock[c] # "none"
  /\ \A c \in Conn : pc[c] \in {"unmapDel", "unlink"} => dbLock[c] = "exclusive"

PcInv ==
  \A p \in Proc : \A c \in Conn :
    /\ mutex[p] = c <=> (ProcOf[c] = p /\ pc[c] \in InMutex)
    /\ c \in refs[p] <=> (ProcOf[c] = p /\ pc[c] \in Counted)
    /\ c \in pFirst[p] <=> (ProcOf[c] = p /\ pc[c] = "on")

NodeInv ==
  \A p \in Proc :
    /\ h[p] = NoFile <=> (refs[p] = {} /\ mutex[p] = NoConn)
    /\ mutex[p] # NoConn => refs[p] = {}
    /\ h[p] = NoFile => posix[p] = NoLocks

FileInv ==
  \A p \in Proc :
    h[p] \notin {NoFile, dir} =>
      /\ mutex[p] # NoConn
      /\ pc[mutex[p]] = "purge" /\ dbLock[mutex[p]] = "exclusive"

PosixInv ==
  /\ \A p, q \in Proc : (p # q /\ h[p] = h[q]) =>
       \A b \in Byte : posix[p][b] = "WR" => posix[q][b] = "UN"
  /\ \A p \in Proc : refs[p] # {} => posix[p][DMS] = "RD"
  /\ \A c \in Conn : pc[c] = "trunc" => posix[ProcOf[c]][DMS] = "WR"

MaskInv ==
  /\ \A c \in Conn : pc[c] # "on" => sharedMask[c] = {} /\ exclMask[c] = {}
  /\ \A c \in Conn : exclMask[c] \cap sharedMask[c] = {}

IInv ==
  /\ TypeOK /\ DbInv /\ PcInv /\ NodeInv /\ FileInv /\ PosixInv
  /\ MaskInv /\ LocksBacked /\ LocksExclude /\ MemoryKept
=============================================================================
