------------------------------ MODULE WalIndex ------------------------------
(***************************************************************************)
(* The wal-index protocol of wal.c: how readers, one writer at a time and   *)
(* checkpointers of several connections share one log through the two       *)
(* header copies, the read marks and the locks of the wal-index, and what   *)
(* happens when one of them dies in the middle.                             *)
(*                                                                         *)
(* Every connection is a process of its own.  A step is what a connection   *)
(* does between two accesses to shared state that another connection can    *)
(* observe in between.  The content of a page is the number of the          *)
(* transaction that wrote it.  A transaction logs its pages in one step     *)
(* (spills, overwrites, syncs and power loss: module WalLog); a frame's     *)
(* checksum is modelled by the transaction of the frame it was chained to.  *)
(***************************************************************************)
EXTENDS Integers, Sequences, FiniteSets, FiniteSetsExt

CONSTANTS
  Conn,
  MaxPage,     \* pages 1..MaxPage
  Scenarios    \* what is run, see ScenarioType

ScenarioType ==
  [writers : SUBSET Conn,        \* connections that write
   checkpointers : SUBSET Conn,  \* connections that run checkpoints
   modes : SUBSET {"PASSIVE", "FULL", "RESTART", "TRUNCATE"},
   pagesPerTxn : 1..MaxPage,     \* bound: pages one transaction writes
   nReader : Nat \ {0, 1},       \* WAL_NREADER: read locks 0..nReader-1
   maxFrame : Nat,               \* bound: frames of the log
   maxTxn : Nat,                 \* bound: transactions that reach the log
   maxSalt : Nat,                \* bound: salts drawn
   maxCrash : Nat]               \* bound: processes that die

ASSUME ConstantsOK == MaxPage \in Nat \ {0} /\ Scenarios \subseteq ScenarioType

VARIABLES
  sc,     \* the scenario, chosen at the start
  shm,    \* hdr0, hdr1, nBackfill, aReadMark, aPgno: the wal-index
  wal,    \* the log file: its salt and its frames
  db,     \* the database file
  con,    \* the Wal object and control state of every connection
  hist,   \* hist[v]: the image after transaction v
  head,   \* the last transaction whose header is published
  snap,   \* the transaction a connection's open snapshot stands for
  cache,  \* the transaction a connection's page cache belongs to
  nSalt, nCrash

vars == <<sc, shm, wal, db, con, hist, head, snap, cache, nSalt, nCrash>>
ghosts == <<hist, head, snap, cache>>

NReader == sc.nReader
MaxFrame == sc.maxFrame

Page == 1..MaxPage
Mark == 1..NReader-1
NOT_USED == MaxFrame + 1       \* READMARK_NOT_USED: larger than any frame
None == -1

\* WalIndexHdr: ck stands for aFrameCksum, the last frame's transaction.
BadHdr == [isInit |-> FALSE, mx |-> 0, salt |-> 0, iChange |-> 0, ck |-> 0]
NoFrame == [pg |-> 0, ver |-> 0, commit |-> FALSE, salt |-> 0, prev |-> 0]
NoLog == [salt |-> 0, nCkpt |-> 0, f |-> [i \in 1..MaxFrame |-> NoFrame]]

FreshShm == [hdr0 |-> BadHdr, hdr1 |-> BadHdr, nBackfill |-> 0,
             aReadMark |-> [i \in Mark |-> 0], aPgno |-> [i \in 1..MaxFrame |-> 0]]

\* A connection between calls; hdr and nCkpt live on from call to call.
Resting(pc, hdr, nCkpt) ==
  [pc |-> pc, op |-> "none", then |-> "none", hdr |-> hdr, nCkpt |-> nCkpt, h1 |-> BadHdr,
   again |-> FALSE, changed |-> FALSE, readLock |-> None, excl |-> {}, writeLock |-> FALSE,
   ckptLock |-> FALSE, mxI |-> 0, mark |-> 0, minFrame |-> 1, mode |-> "PASSIVE",
   mxSafe |-> 0, i |-> 1, y |-> 0, todo |-> {}, prior |-> 0, lo |-> 0]

Closed == Resting("closed", BadHdr, 0)
Idle(c) == Resting("idle", con[c].hdr, con[c].nCkpt)

Init ==
  /\ sc \in Scenarios
  /\ shm = FreshShm /\ wal = NoLog /\ db = [p \in Page |-> 0]
  /\ con = [c \in Conn |-> Closed]
  /\ hist = [v \in 0..sc.maxTxn |-> [p \in Page |-> 0]] /\ head = 0
  /\ snap = [c \in Conn |-> 0] /\ cache = [c \in Conn |-> None]
  /\ nSalt = 0 /\ nCrash = 0

-----------------------------------------------------------------------------
(* Locks of the wal-index (xShmLock) *)

WriteFree == \A d \in Conn : ~con[d].writeLock
CkptFree == \A d \in Conn : ~con[d].ckptLock /\ con[d].then # "recover"
SharedOk(c, i) == \A d \in Conn \ {c} : i \notin con[d].excl
ExclOk(c, S) == \A d \in Conn \ {c} : con[d].readLock \notin S /\ con[d].excl \cap S = {}
Recovering == \E d \in Conn : con[d].then = "recover"

\* Nobody reads the log: every read mark but READ_LOCK(0) is free.
LogUnused_Assumed(c) == TRUE
LogUnused(c) == ExclOk(c, Mark)

Become(c, r) == con' = [con EXCEPT ![c] = r]
Goto(c, l) == Become(c, [con[c] EXCEPT !.pc = l])

-----------------------------------------------------------------------------
(* Opening and dying *)

\* sqlite3PagerOpenWal, as part of the first read transaction of a
\* connection.  The first process to open clears the wal-index.
Open(c) ==
  /\ con[c].pc = "closed"
  /\ Become(c, [Closed EXCEPT !.pc = "readhdr", !.op = "read"])
  /\ shm' = IF \A d \in Conn : con[d].pc = "closed" THEN FreshShm ELSE shm
  /\ cache' = [cache EXCEPT ![c] = None]
  /\ UNCHANGED <<wal, db, hist, head, snap, nSalt, nCrash>>

\* A process dies anywhere; the system drops its locks.
Die(c) ==
  /\ con[c].pc # "closed" /\ nCrash < sc.maxCrash
  /\ Become(c, Closed)
  /\ cache' = [cache EXCEPT ![c] = None]
  /\ snap' = [snap EXCEPT ![c] = 0]
  /\ nCrash' = nCrash + 1
  /\ UNCHANGED <<shm, wal, db, hist, head, nSalt>>

-----------------------------------------------------------------------------
(* walIndexReadHdr: read copy 0, then copy 1 *)

BeginRead(c) ==
  /\ con[c].pc = "idle"
  /\ Become(c, [con[c] EXCEPT !.pc = "readhdr", !.op = "read"])
  /\ UNCHANGED <<shm, wal, db, ghosts, nSalt, nCrash>>

ReadHdr0(c) ==
  /\ con[c].pc = "readhdr"
  /\ Become(c, [con[c] EXCEPT !.pc = "readhdr1", !.h1 = shm.hdr0])
  /\ UNCHANGED <<shm, wal, db, ghosts, nSalt, nCrash>>

AfterHdr(op) == IF op = "read" THEN "tryread" ELSE "ckinit"

\* walIndexTryHdr succeeds on h: it becomes pWal->hdr.
Accept(r, h) ==
  [r EXCEPT !.pc = AfterHdr(r.op), !.hdr = h, !.changed = @ \/ h # r.hdr, !.h1 = BadHdr]

ReadHdr1(c) ==
  /\ con[c].pc = "readhdr1"
  /\ LET r == con[c]
     IN  Become(c, IF r.h1 = shm.hdr1 /\ r.h1.isInit THEN Accept(r, r.h1)
                   ELSE [r EXCEPT !.pc = "badhdr", !.h1 = BadHdr])
  /\ UNCHANGED <<shm, wal, db, ghosts, nSalt, nCrash>>

\* What a call does when it cannot go on: a reader tries again, or gives up
\* when a recovery runs; a checkpoint returns SQLITE_BUSY.
Fail(c) ==
  /\ Become(c, IF con[c].op = "read" /\ ~Recovering
               THEN [con[c] EXCEPT !.pc = "readhdr", !.h1 = BadHdr, !.again = TRUE]
               ELSE Idle(c))
  /\ cache' = [cache EXCEPT ![c] = IF con[c].op = "read" /\ Recovering THEN None ELSE @]

ValidFrames_SaltOnly ==
  {i \in 1..MaxFrame : \A j \in 1..i : wal.f[j].pg # 0 /\ wal.f[j].salt = wal.salt}

\* After 100 attempts, here after any retry, a reader gives up (SQLITE_PROTOCOL).
Protocol(c) ==
  /\ con[c].pc = "readhdr" /\ con[c].again
  /\ Become(c, Idle(c))
  /\ cache' = [cache EXCEPT ![c] = None]
  /\ UNCHANGED <<shm, wal, db, hist, head, snap, nSalt, nCrash>>

\* The frames walIndexRecover accepts, and the last commit among them.
ValidFrames ==
  {i \in 1..MaxFrame :
     \A j \in 1..i : /\ wal.f[j].pg # 0 /\ wal.f[j].salt = wal.salt
                     /\ wal.f[j].prev = IF j = 1 THEN 0 ELSE wal.f[j-1].ver}
RecoveredMx == Max({0} \cup {i \in ValidFrames : wal.f[i].commit})

\* The first attempt failed.  Under the WRITE lock the header is read again; if
\* it is still bad, walIndexRecover takes every other lock and rebuilds it.
\* A connection that holds the WRITE lock already (a FULL, RESTART or TRUNCATE
\* checkpoint) cannot lock it again and gets SQLITE_BUSY.
HdrGood == shm.hdr0 = shm.hdr1 /\ shm.hdr0.isInit
OthersOut(c) ==
  /\ ExclOk(c, 0..NReader-1)
  /\ \A d \in Conn \ {c} : ~con[d].ckptLock

HdrRetryOk(c) ==
  /\ con[c].pc = "badhdr" /\ WriteFree /\ HdrGood
  /\ Become(c, Accept(con[c], shm.hdr0))
  /\ UNCHANGED <<shm, wal, db, ghosts, nSalt, nCrash>>

HdrBusy(c) ==
  /\ con[c].pc = "badhdr"
  /\ ~WriteFree \/ (~HdrGood /\ ~OthersOut(c))
  /\ Fail(c)
  /\ UNCHANGED <<shm, wal, db, hist, head, snap, nSalt, nCrash>>

\* walIndexRecover up to walIndexWriteHdr; the hash table is rebuilt.
StartRecover(c) ==
  /\ con[c].pc = "badhdr" /\ WriteFree /\ ~HdrGood /\ OthersOut(c)
  /\ LET mx == RecoveredMx
         h == [isInit |-> TRUE, mx |-> mx, salt |-> wal.salt, iChange |-> 0,
               ck |-> IF mx = 0 THEN 0 ELSE wal.f[mx].ver]
     IN Become(c, [con[c] EXCEPT !.pc = "write1", !.then = "recover", !.hdr = h,
                  !.nCkpt = IF wal = NoLog THEN @ ELSE wal.nCkpt, !.changed = TRUE,
                  !.writeLock = TRUE, !.excl = 0..NReader-1])
  /\ shm' = [shm EXCEPT !.aPgno = [i \in 1..MaxFrame |->
               IF i \in ValidFrames THEN wal.f[i].pg ELSE 0]]
  /\ UNCHANGED <<wal, db, ghosts, nSalt, nCrash>>

-----------------------------------------------------------------------------
(* walIndexWriteHdr: copy 1 first, then copy 0.  The header is written by a  *)
(* commit, by a log restart, by a truncating checkpoint and by recovery.     *)

WriteHdr1(c) ==
  /\ con[c].pc = "write1"
  /\ shm' = [shm EXCEPT !.hdr1 = con[c].hdr]
  /\ Goto(c, "write0")
  /\ UNCHANGED <<wal, db, ghosts, nSalt, nCrash>>

\* The second copy makes a commit visible; recovery may find one more commit.
WriteHdr0(c) ==
  /\ con[c].pc = "write0"
  /\ shm' = [shm EXCEPT !.hdr0 = con[c].hdr]
  /\ Goto(c, con[c].then)
  /\ head' = IF con[c].then \in {"commit", "recover"} /\ con[c].hdr.mx > 0
             THEN con[c].hdr.ck ELSE head
  /\ UNCHANGED <<wal, db, hist, snap, cache, nSalt, nCrash>>

\* The end of walIndexRecover: the checkpoint information, then the locks.
EndRecover(c) ==
  /\ con[c].pc = "recover"
  /\ shm' = [shm EXCEPT !.nBackfill = 0,
               !.aReadMark = [i \in Mark |-> IF i = 1 /\ con[c].hdr.mx > 0
                                            THEN con[c].hdr.mx ELSE NOT_USED]]
  /\ Become(c, [con[c] EXCEPT !.pc = AfterHdr(con[c].op), !.then = "none",
               !.writeLock = FALSE, !.excl = {}])
  /\ UNCHANGED <<wal, db, ghosts, nSalt, nCrash>>

-----------------------------------------------------------------------------
(* walTryBeginRead *)

Retry(r) ==
  [r EXCEPT !.pc = IF r.op = "read" THEN "readhdr" ELSE "mark",
            !.again = r.op = "read", !.readLock = None, !.mxI = 0, !.mark = 0, !.minFrame = 1]

\* Everything is backfilled: read the database file only, under READ_LOCK(0).
TryRead0(c) ==
  /\ con[c].pc = "tryread"
  /\ Become(c, IF shm.nBackfill = con[c].hdr.mx /\ SharedOk(c, 0)
               THEN [con[c] EXCEPT !.pc = "check0", !.readLock = 0]
               ELSE [con[c] EXCEPT !.pc = "mark"])
  /\ UNCHANGED <<shm, wal, db, ghosts, nSalt, nCrash>>

\* The transaction is open on the header read; a changed header tells the
\* pager to drop its cache.
OpenSnapshot(c, pc) ==
  /\ Become(c, [con[c] EXCEPT !.pc = pc, !.op = "none", !.changed = FALSE,
               !.again = FALSE, !.mxI = 0, !.mark = 0])
  /\ snap' = [snap EXCEPT ![c] = head]
  /\ cache' = [cache EXCEPT ![c] = IF con[c].changed \/ @ = None THEN head ELSE @]

Check0(c) ==
  /\ con[c].pc = "check0"
  /\ IF shm.hdr0 = con[c].hdr
     THEN OpenSnapshot(c, "reading")
     ELSE /\ Become(c, Retry(con[c]))
          /\ UNCHANGED <<snap, cache>>
  /\ UNCHANGED <<shm, wal, db, hist, head, nSalt, nCrash>>

MarkFits_Any(c, i) == TRUE
MarkFits(c, i) == shm.aReadMark[i] <= con[c].hdr.mx

\* The largest mark not beyond mxFrame, the last such slot; if it is smaller
\* than mxFrame, the first slot nobody uses is moved up to mxFrame.
SelectMark(c) ==
  /\ con[c].pc = "mark"
  /\ LET mx == con[c].hdr.mx
         fit == {i \in Mark : MarkFits(c, i)}
         best == Max({0} \cup {shm.aReadMark[i] : i \in fit})
         last == Max({0} \cup {i \in fit : shm.aReadMark[i] = best})
         free == {i \in Mark : ExclOk(c, {i})}
         raise == (best < mx \/ last = 0) /\ free # {}
         slot == IF raise THEN Min(free) ELSE last
     IN /\ shm' = IF raise THEN [shm EXCEPT !.aReadMark[slot] = mx] ELSE shm
        /\ Become(c, IF slot = 0 THEN Retry(con[c])
                     ELSE [con[c] EXCEPT !.pc = "lockmark", !.mxI = slot,
                             !.mark = IF raise THEN mx ELSE best])
  /\ UNCHANGED <<wal, db, ghosts, nSalt, nCrash>>

LockMark(c) ==
  /\ con[c].pc = "lockmark"
  /\ Become(c, IF SharedOk(c, con[c].mxI)
               THEN [con[c] EXCEPT !.pc = "checkmark", !.readLock = con[c].mxI,
                       !.minFrame = shm.nBackfill + 1]
               ELSE Retry(con[c]))
  /\ UNCHANGED <<shm, wal, db, ghosts, nSalt, nCrash>>

MarkStale_HdrUnchecked(c) == shm.aReadMark[con[c].mxI] # con[c].mark
MarkStale(c) == shm.aReadMark[con[c].mxI] # con[c].mark \/ shm.hdr0 # con[c].hdr

\* Neither the mark nor the header may have changed before the lock was held.
\* A writer that gave up READ_LOCK(0) goes on to append its frames.
CheckMark(c) ==
  /\ con[c].pc = "checkmark"
  /\ IF MarkStale(c)
     THEN /\ Become(c, Retry(con[c])) /\ UNCHANGED <<snap, cache>>
     ELSE IF con[c].op = "read"
     THEN OpenSnapshot(c, "reading")
     ELSE /\ Become(c, [con[c] EXCEPT !.pc = "append", !.op = "none", !.mxI = 0,
                       !.mark = 0])
          /\ UNCHANGED <<snap, cache>>
  /\ UNCHANGED <<shm, wal, db, hist, head, nSalt, nCrash>>

\* sqlite3WalEndReadTransaction.
EndRead(c) ==
  /\ con[c].pc = "reading"
  /\ Become(c, Idle(c))
  /\ snap' = [snap EXCEPT ![c] = 0]
  /\ UNCHANGED <<shm, wal, db, hist, head, cache, nSalt, nCrash>>

-----------------------------------------------------------------------------
(* Writers *)

\* The transaction that the next frames belong to.
NextVer == 1 + Max({head} \cup {wal.f[i].ver : i \in 1..MaxFrame})

SnapshotCurrent(c) == con[c].hdr = shm.hdr0

\* sqlite3WalBeginWriteTransaction: a snapshot that is not the latest is
\* refused (SQLITE_BUSY_SNAPSHOT) and stays a read transaction.  The bounds on
\* transactions, frames and salts are applied here: a writer that may start
\* can always finish.
BeginWrite(c) ==
  /\ c \in sc.writers /\ con[c].pc = "reading" /\ WriteFree
  /\ SnapshotCurrent(c)
  /\ NextVer <= sc.maxTxn /\ con[c].hdr.mx + sc.pagesPerTxn <= MaxFrame
  /\ (con[c].hdr.mx = 0 /\ con[c].nCkpt = 0) => nSalt < sc.maxSalt
  /\ Become(c, [con[c] EXCEPT !.pc = "writing", !.writeLock = TRUE])
  /\ UNCHANGED <<shm, wal, db, ghosts, nSalt, nCrash>>

\* sqlite3WalUndo and sqlite3WalEndWriteTransaction.
Rollback(c) ==
  /\ con[c].pc = "writing"
  /\ Become(c, [con[c] EXCEPT !.pc = "reading", !.writeLock = FALSE,
               !.hdr = shm.hdr0])
  /\ UNCHANGED <<shm, wal, db, ghosts, nSalt, nCrash>>

\* walRestartHdr on the private header.
RestartedHdr(r) ==
  [r EXCEPT !.hdr = [@ EXCEPT !.mx = 0, !.salt = nSalt + 1], !.nCkpt = @ + 1]

\* sqlite3WalFrames, walRestartLog first: a writer that reads nothing from the
\* log starts it over if no other connection does either, and moves on to a
\* read mark.
RestartLog(c) ==
  /\ con[c].pc = "writing"
  /\ LET restart == con[c].readLock = 0 /\ shm.nBackfill > 0 /\ LogUnused(c)
     IN /\ restart => nSalt < sc.maxSalt
        /\ nSalt' = IF restart THEN nSalt + 1 ELSE nSalt
        /\ Become(c, IF restart
                     THEN [RestartedHdr(con[c]) EXCEPT !.pc = "write1",
                             !.then = "restart", !.excl = Mark]
                     ELSE IF con[c].readLock = 0
                     THEN [con[c] EXCEPT !.pc = "mark", !.op = "rewal", !.readLock = None]
                     ELSE [con[c] EXCEPT !.pc = "append"])
  /\ UNCHANGED <<shm, wal, db, ghosts, nCrash>>

\* The checkpoint information of walRestartHdr.
RestartInfo ==
  shm' = [shm EXCEPT !.nBackfill = 0,
            !.aReadMark = [i \in Mark |-> IF i = 1 THEN 0 ELSE NOT_USED]]

EndRestart(c) ==
  /\ con[c].pc = "restart"
  /\ RestartInfo
  /\ Become(c, [con[c] EXCEPT !.pc = "mark", !.op = "rewal", !.then = "none",
               !.readLock = None, !.excl = {}])
  /\ UNCHANGED <<wal, db, ghosts, nSalt, nCrash>>

\* walIndexAppend for frames mx+1..mx+n: frame 1 clears the table, and a slot
\* still set by a writer that died clears all those after mxFrame.
IndexAppend(aPgno, mx, pages) ==
  LET base == IF mx = 0 \/ aPgno[mx + 1] # 0
              THEN [i \in 1..MaxFrame |-> IF i <= mx THEN aPgno[i] ELSE 0] ELSE aPgno
  IN  [i \in 1..MaxFrame |-> IF i - mx \in DOMAIN pages THEN pages[i - mx] ELSE base[i]]

\* The frames of one transaction, chained to the last committed frame.
FramesOf(f, h, pages, v) ==
  [i \in 1..MaxFrame |->
     IF i - h.mx \in DOMAIN pages
     THEN [pg |-> pages[i - h.mx], ver |-> v, commit |-> i - h.mx = Len(pages),
           salt |-> h.salt,
           prev |-> IF i = 1 THEN 0 ELSE IF i = h.mx + 1 THEN h.ck ELSE v]
     ELSE f[i]]

PageLists == {s \in UNION {[1..n -> Page] : n \in 1..sc.pagesPerTxn} :
                \A i, j \in DOMAIN s : i < j => s[i] < s[j]}

\* The rest of sqlite3WalFrames up to walIndexWriteHdr: the WAL header for the
\* first frame of a log (a salt of its own if this connection never restarted
\* the log), the frames and the hash table.
AppendFrames(c, pages) ==
  LET first == con[c].hdr.mx = 0
      draw == first /\ con[c].nCkpt = 0
      v == NextVer
      h == [con[c].hdr EXCEPT !.salt = IF draw THEN nSalt + 1 ELSE @]
  IN
  /\ con[c].pc = "append"
  /\ nSalt' = IF draw THEN nSalt + 1 ELSE nSalt
  /\ wal' = [wal EXCEPT !.salt = IF first THEN h.salt ELSE @,
                        !.nCkpt = IF first THEN con[c].nCkpt ELSE @,
                        !.f = FramesOf(@, h, pages, v)]
  /\ shm' = [shm EXCEPT !.aPgno = IndexAppend(@, h.mx, pages)]
  /\ Become(c, [con[c] EXCEPT !.pc = "write1", !.then = "commit",
               !.hdr = [h EXCEPT !.mx = @ + Len(pages), !.iChange = @ + 1, !.ck = v]])
  /\ hist' = [hist EXCEPT ![v] = [p \in Page |-> IF \E i \in DOMAIN pages : pages[i] = p
                                                THEN v ELSE hist[head][p]]]
  /\ UNCHANGED <<db, head, snap, cache, nCrash>>

\* sqlite3WalEndWriteTransaction after a commit: a reader of its own commit.
EndCommit(c) ==
  /\ con[c].pc = "commit"
  /\ Become(c, [con[c] EXCEPT !.pc = "reading", !.then = "none", !.writeLock = FALSE])
  /\ snap' = [snap EXCEPT ![c] = con[c].hdr.ck]
  /\ cache' = [cache EXCEPT ![c] = con[c].hdr.ck]
  /\ UNCHANGED <<shm, wal, db, hist, head, nSalt, nCrash>>

-----------------------------------------------------------------------------
(* sqlite3WalCheckpoint *)

\* The CKPT lock; every mode but PASSIVE also wants the WRITE lock and turns
\* into PASSIVE without it.
StartCkpt(c, m) ==
  /\ c \in sc.checkpointers /\ con[c].pc = "idle" /\ CkptFree
  /\ m = "TRUNCATE" => nSalt < sc.maxSalt
  /\ LET w == m # "PASSIVE" /\ WriteFree
     IN Become(c, [con[c] EXCEPT !.pc = "readhdr", !.op = "ckpt", !.ckptLock = TRUE,
                  !.writeLock = w, !.mode = IF w THEN m ELSE "PASSIVE"])
  /\ UNCHANGED <<shm, wal, db, ghosts, nSalt, nCrash>>

\* walIteratorInit: for every page its last frame up to hdr.mxFrame.  The
\* frames are visited in page order; the page numbers are not copied.
Iterator(aPgno, mx) ==
  {<<p, Max({i \in 1..mx : aPgno[i] = p})>> : p \in {aPgno[i] : i \in 1..mx} \ {0}}

CkptInit(c) ==
  /\ con[c].pc = "ckinit"
  /\ LET r == con[c]
     IN Become(c, IF shm.nBackfill < r.hdr.mx
                  THEN [r EXCEPT !.pc = "readmark", !.mxSafe = r.hdr.mx, !.i = 1,
                          !.todo = Iterator(shm.aPgno, r.hdr.mx)]
                  ELSE [r EXCEPT !.pc = "ckend"])
  /\ UNCHANGED <<shm, wal, db, ghosts, nSalt, nCrash>>

\* One turn of the loop over the read marks: the mark is read without a lock,
\* and used after the attempt to lock its slot.
CkptReadMark(c) ==
  /\ con[c].pc = "readmark"
  /\ LET r == con[c]
     IN Become(c, IF r.i = NReader THEN [r EXCEPT !.pc = "lock0", !.i = 1]
                  ELSE IF r.mxSafe > shm.aReadMark[r.i]
                  THEN [r EXCEPT !.pc = "trymark", !.y = shm.aReadMark[r.i]]
                  ELSE [r EXCEPT !.i = @ + 1])
  /\ UNCHANGED <<shm, wal, db, ghosts, nSalt, nCrash>>

\* mxSafe when slot i is in use by a reader.
LimitedTo(mxSafe, y) == y

CkptTryMark(c) ==
  /\ con[c].pc = "trymark"
  /\ LET r == [con[c] EXCEPT !.pc = "readmark", !.i = @ + 1, !.y = 0]
         i == con[c].i
     IN IF ExclOk(c, {i})
        THEN /\ shm' = [shm EXCEPT !.aReadMark[i] = IF i = 1 THEN r.mxSafe ELSE NOT_USED]
             /\ Become(c, r)
        ELSE /\ Become(c, [r EXCEPT !.mxSafe = LimitedTo(@, con[c].y)])
             /\ UNCHANGED shm
  /\ UNCHANGED <<wal, db, ghosts, nSalt, nCrash>>

\* READ_LOCK(0) keeps readers of the bare database file out while it changes.
CkptLock0(c) ==
  /\ con[c].pc = "lock0"
  /\ LET r == con[c]
     IN Become(c, IF shm.nBackfill < r.mxSafe /\ ExclOk(c, {0})
                  THEN [r EXCEPT !.pc = "copy", !.excl = {0},
                          !.lo = shm.nBackfill]
                  ELSE [r EXCEPT !.pc = "ckend", !.todo = {}])
  /\ UNCHANGED <<shm, wal, db, ghosts, nSalt, nCrash>>

\* walIteratorNext: the frame's page number is read from the wal-index again,
\* and the frame is passed over unless it is beyond the page visited last.
IteratorTakes(c, t) == shm.aPgno[t[2]] > con[c].prior

CkptCopy(c) ==
  /\ con[c].pc = "copy"
  /\ \E t \in con[c].todo :
       LET pg == shm.aPgno[t[2]]
           take == IteratorTakes(c, t)
           copy == take /\ con[c].lo < t[2] /\ t[2] <= con[c].mxSafe
       IN /\ \A u \in con[c].todo : t[1] <= u[1]
          /\ db' = IF copy THEN [db EXCEPT ![pg] = wal.f[t[2]].ver] ELSE db
          /\ Become(c, [con[c] EXCEPT !.todo = @ \ {t}, !.prior = IF take THEN pg ELSE @])
  /\ UNCHANGED <<shm, wal, ghosts, nSalt, nCrash>>

\* sqlite3_interrupt in the copy loop.
CkptInterrupt(c) ==
  /\ con[c].pc = "copy" /\ con[c].todo # {}
  /\ Become(c, [con[c] EXCEPT !.pc = "ckdone", !.excl = {}, !.todo = {}])
  /\ UNCHANGED <<shm, wal, db, ghosts, nSalt, nCrash>>

CkptCopied(c) ==
  /\ con[c].pc = "copy" /\ con[c].todo = {}
  /\ shm' = [shm EXCEPT !.nBackfill = con[c].mxSafe]
  /\ Become(c, [con[c] EXCEPT !.pc = "ckend", !.excl = {}])
  /\ UNCHANGED <<wal, db, ghosts, nSalt, nCrash>>

AllBackfilled(c) == shm.nBackfill >= con[c].hdr.mx

\* RESTART and TRUNCATE wait until nobody reads the log; TRUNCATE resets it.
CkptEnd(c) ==
  /\ con[c].pc = "ckend"
  /\ LET reset == /\ con[c].mode = "TRUNCATE"
                  /\ AllBackfilled(c)
                  /\ LogUnused(c)
     IN /\ nSalt' = IF reset THEN nSalt + 1 ELSE nSalt
        /\ Become(c, IF reset
                     THEN [RestartedHdr(con[c]) EXCEPT !.pc = "write1",
                             !.then = "truncate", !.excl = Mark]
                     ELSE [con[c] EXCEPT !.pc = "ckdone"])
  /\ UNCHANGED <<shm, wal, db, ghosts, nCrash>>

CkptTruncate(c) ==
  /\ con[c].pc = "truncate"
  /\ RestartInfo
  /\ wal' = NoLog
  /\ Become(c, [con[c] EXCEPT !.pc = "ckdone", !.then = "none", !.excl = {}])
  /\ UNCHANGED <<db, ghosts, nSalt, nCrash>>

CkptDone_KeepHdr(c) ==
  /\ con[c].pc = "ckdone"
  /\ Become(c, Idle(c))
  /\ UNCHANGED <<shm, wal, db, ghosts, nSalt, nCrash>>

\* A header that was not the cached one no longer matches the page cache: it
\* is forgotten.  Then the locks go.
CkptDone(c) ==
  /\ con[c].pc = "ckdone"
  /\ Become(c, IF con[c].changed THEN Resting("idle", BadHdr, con[c].nCkpt) ELSE Idle(c))
  /\ UNCHANGED <<shm, wal, db, ghosts, nSalt, nCrash>>

-----------------------------------------------------------------------------
Step(c) ==
  \/ BeginRead(c) \/ ReadHdr0(c) \/ ReadHdr1(c) \/ HdrRetryOk(c) \/ HdrBusy(c)
  \/ Protocol(c)
  \/ StartRecover(c) \/ WriteHdr1(c) \/ WriteHdr0(c) \/ EndRecover(c)
  \/ TryRead0(c) \/ Check0(c) \/ SelectMark(c) \/ LockMark(c) \/ CheckMark(c)
  \/ EndRead(c)
  \/ BeginWrite(c) \/ Rollback(c) \/ RestartLog(c) \/ EndRestart(c)
  \/ (\E pages \in PageLists : AppendFrames(c, pages)) \/ EndCommit(c)
  \/ (\E m \in sc.modes : StartCkpt(c, m)) \/ CkptInit(c) \/ CkptReadMark(c)
  \/ CkptTryMark(c) \/ CkptLock0(c) \/ CkptCopy(c) \/ CkptInterrupt(c)
  \/ CkptCopied(c) \/ CkptEnd(c) \/ CkptTruncate(c) \/ CkptDone(c)

Next == UNCHANGED sc /\ \E c \in Conn : Open(c) \/ Die(c) \/ Step(c)

Spec == Init /\ [][Next]_vars

-----------------------------------------------------------------------------
(* Properties *)

\* The values the shared checkpoint information and the Wal objects may take:
\* READMARK_NOT_USED is never taken for a snapshot (walTryBeginRead).
TypeOK ==
  /\ sc \in Scenarios
  /\ shm.nBackfill \in 0..MaxFrame
  /\ shm.aReadMark \in [Mark -> 0..NOT_USED]
  /\ shm.aPgno \in [1..MaxFrame -> 0..MaxPage]
  /\ db \in [Page -> 0..sc.maxTxn]
  /\ head \in 0..sc.maxTxn
  /\ \A c \in Conn : /\ con[c].readLock \in None..NReader-1
                     /\ con[c].excl \subseteq 0..NReader-1
                     /\ con[c].hdr.mx \in 0..MaxFrame
                     /\ con[c].mark \in 0..MaxFrame
                     /\ con[c].minFrame \in 1..MaxFrame+1

\* sqlite3WalFindFrame and readDbPage: what connection c reads for page p.
FramesSeen(c, p) == {i \in con[c].minFrame..con[c].hdr.mx : shm.aPgno[i] = p}
InLog(c, p) == con[c].readLock # 0 /\ con[c].hdr.mx # 0 /\ FramesSeen(c, p) # {}
PageSeen(c, p) == IF InLog(c, p) THEN wal.f[Max(FramesSeen(c, p))].ver ELSE db[p]

InSnapshot(c) == con[c].pc \in {"reading", "writing"}

\* A read transaction sees one committed image from its first page to its last,
\* whatever is appended, backfilled or restarted meanwhile (walTryBeginRead,
\* walCheckpoint, walRestartLog), and a write transaction starts from the last.
SnapshotIsolation ==
  \A c \in Conn : InSnapshot(c) =>
    \A p \in Page : PageSeen(c, p) = hist[snap[c]][p]

\* A page cache kept because the header had not changed is the snapshot's
\* (*pChanged of sqlite3WalBeginReadTransaction, isChanged of
\* sqlite3WalCheckpoint).
CacheCoherent ==
  \A c \in Conn : InSnapshot(c) =>
    hist[cache[c]] = hist[snap[c]]

\* Should every process die now, walIndexRecover would find the last published
\* commit, or one that was about to be published, in the log and the database
\* file: neither checkpoints nor log restarts ever drop a transaction.
CommitsSurvive ==
  LET mx == RecoveredMx
      v == IF mx = 0 THEN head ELSE wal.f[mx].ver
      img == [p \in Page |-> LET hits == {i \in 1..mx : wal.f[i].pg = p}
                             IN  IF hits = {} THEN db[p] ELSE wal.f[Max(hits)].ver]
  IN  v >= head /\ img = hist[v]

\* What an open transaction has found in the log stays what it is, and so does
\* the whole database for one that reads the bare file: the read locks keep
\* log restarts, truncations and recoveries (walRestartLog, walCheckpoint,
\* walIndexRecover) off its frames and checkpoints off its file, and a writer
\* only ever appends behind the frames it sees.
SnapshotStable ==
  [][\A c \in Conn, p \in Page :
       InSnapshot(c) /\ InSnapshot(c)' /\ (con[c].readLock = 0 \/ InLog(c, p)) =>
         PageSeen(c, p)' = PageSeen(c, p)]_vars
=============================================================================
