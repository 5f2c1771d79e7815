------------------------------- MODULE WalLog -------------------------------
(***************************************************************************)
(* The write-ahead log file of wal.c as one connection drives it: frames,   *)
(* salts and cumulative checksums, spills and in-place overwrites of the    *)
(* frames of an open transaction, savepoints, commit, log restart,          *)
(* checkpoint, close, process crash, power loss and recovery.               *)
(*                                                                         *)
(* The connection is alone, so every lock request succeeds; what happens    *)
(* between connections is module WalIndex.                                  *)
(*                                                                         *)
(* A checksum is modelled by what it covers: the WAL header and every       *)
(* frame up to it, as a sequence.  Two different histories never have the   *)
(* same checksum; random salts never repeat.                                *)
(***************************************************************************)
EXTENDS Integers, Sequences, FiniteSets, FiniteSetsExt

CONSTANTS
  MaxPage,      \* pages of the database, 1..MaxPage
  MaxFrame,     \* bound: slots of the log file
  MaxWrite,     \* bound: page modifications, of any scenario
  MaxCommit,    \* bound: commits
  MaxSalt,      \* bound: salts drawn
  Scenarios     \* how the connection is used: a set of Scenario records

\* fullSync: PRAGMA synchronous=FULL (else NORMAL); sizeLimit: PRAGMA
\* journal_size_limit=0 (else none); savepoints: the application opens them;
\* maxCrash: bound on process crashes and power losses; maxWrite: on writes.
Scenario == [fullSync : BOOLEAN, sizeLimit : BOOLEAN, savepoints : BOOLEAN,
             maxCrash : Nat, maxWrite : 0..MaxWrite]

ASSUME ConstantsOK ==
  /\ MaxPage \in Nat \ {0} /\ MaxFrame \in Nat \ {0}
  /\ MaxWrite \in Nat /\ MaxCommit \in Nat /\ MaxSalt \in Nat
  /\ Scenarios \subseteq Scenario

VARIABLES
  wal,      \* the log file as the OS shows it: slot 0 the header, slot i frame i
  bases,    \* whole-file states the disk may hold since the last sync
  pend,     \* per slot, what was written since the last sync
  db,       \* the database file as the OS shows it
  dbDisk,   \* the database file at its last sync
  dbPend,   \* per page, what was written since that sync
  live,     \* the WalIndexHdr in shared memory
  nBackfill,
  h,        \* pWal->hdr
  wc,       \* the rest of the Wal object: see WalObject below
  pager,    \* the page cache of the open transaction: see NoPager below
  call,     \* the sqlite3WalFrames or sqlite3WalCheckpoint call in progress
  pc,
  hist,     \* every image a commit started to write, oldest first
  acked,    \* hist[acked] is the last commit the application was told of
  synced,   \* hist[synced] is the last commit whose frames were synced
  floor,    \* oldest image a crash is allowed to leave behind
  nWrite, nSalt, nCrash,
  sc        \* the scenario, fixed from the start

vars == <<wal, bases, pend, db, dbDisk, dbPend, live, nBackfill, h, wc, pager,
          call, pc, hist, acked, synced, floor, nWrite, nSalt, nCrash, sc>>

files == <<wal, bases, pend, db, dbDisk, dbPend>>
ghosts == <<hist, acked, synced, floor>>
counters == <<nWrite, nSalt, nCrash, sc>>

Page == 1..MaxPage
Slot == 0..MaxFrame
Val == 0..MaxWrite
Torn == MaxWrite + 1          \* a page or frame only part of which reached the disk
Image == [Page -> Val]

-----------------------------------------------------------------------------
(* File contents *)

NoHdr == [ok |-> FALSE, salt |-> 0, nCkpt |-> 0]
NoFrame == [pg |-> 0, val |-> 0, commit |-> FALSE, salt |-> 0, ck |-> <<>>]
EmptyWal == [i \in Slot |-> IF i = 0 THEN NoHdr ELSE NoFrame]

\* The checksum of a WAL header and of a frame that follows checksum ck.
HdrCk(salt, nCkpt) == <<<<salt, nCkpt>>>>
FrameCk(ck, f) == Append(ck, <<f.pg, f.val, f.commit>>)

\* walEncodeFrame: salt and checksum, or zeros while an earlier frame of the
\* transaction awaits a new checksum.
EncodeFrame(pg, val, commit, hdr, iReCksum) ==
  LET f == [pg |-> pg, val |-> val, commit |-> commit, salt |-> 0, ck |-> <<>>]
  IN  IF iReCksum = 0
      THEN [f EXCEPT !.salt = hdr.salt, !.ck = FrameCk(hdr.ck, f)]
      ELSE f

\* walDecodeFrame: is f a valid successor of the frames with checksum ck?
FrameValid(f, salt, ck) ==
  /\ f.salt = salt
  /\ f.pg # 0
  /\ f.ck = FrameCk(ck, f)

ChecksumAfter(w, i) == IF i = 0 THEN HdrCk(w[0].salt, w[0].nCkpt) ELSE w[i].ck

\* walIndexRecover: the length of the valid prefix, and its last commit frame.
ValidFrames(w) ==
  {i \in 1..MaxFrame :
     /\ w[0].ok
     /\ \A j \in 1..i : FrameValid(w[j], w[0].salt, ChecksumAfter(w, j - 1))}
RecoveredMx(w) == Max({0} \cup {i \in ValidFrames(w) : w[i].commit})

\* sqlite3WalFindFrame: the last frame of lo..hi that holds page p, or 0.
FindFrame(w, p, lo, hi) == Max({0} \cup {i \in lo..hi : w[i].pg = p})

\* The image that frames lo..hi of w laid over database file d show.
Overlay(w, d, lo, hi) ==
  [p \in Page |-> LET i == FindFrame(w, p, lo, hi)
                  IN  IF i = 0 THEN d[p] ELSE w[i].val]

\* What a process that opens the database after a crash reads.
RecoveredImage(w, d) == Overlay(w, d, 1, RecoveredMx(w))

-----------------------------------------------------------------------------
(* State *)

NoSavepoint == [mx |-> 0, ck |-> <<>>, nCkpt |-> 0, img |-> <<>>, mods |-> {}]

\* The Wal object.  readLock0: the read transaction holds READ_LOCK(0) and
\* ignores the log.
WalObject == [readLock0 : BOOLEAN, minFrame : 1..MaxFrame+1, nCkpt : Nat,
              iReCksum : Slot, truncateOnCommit : BOOLEAN]

ClosedWal == [readLock0 |-> FALSE, minFrame |-> 1, nCkpt |-> 0, iReCksum |-> 0,
              truncateOnCommit |-> FALSE]

\* The pager's view: the content of every page, the dirty ones, whether any
\* page was changed (PAGER_WRITER_CACHEMOD), and the open savepoint, if any.
NoPager(img) == [img |-> img, dirty |-> {}, modified |-> FALSE,
                 savepoint |-> FALSE, sp |-> NoSavepoint]
NoCall == [list |-> <<>>, commit |-> FALSE, iFirst |-> 0, iFrame |-> 0,
           todo |-> {}, after |-> "none"]

ZeroHdr == [mx |-> 0, salt |-> 0, ck |-> <<>>]

\* idle, in a write transaction, the steps of sqlite3WalFrames, those of a
\* checkpoint, and no process running.
PCs == {"idle", "write", "synchdr", "frames", "recksum", "sync", "publish",
        "backfill", "truncate", "delete", "down"}

\* Every variable has its type, the log is never backfilled past its end
\* (walRestartHdr resets nBackfill with mxFrame), and the commits known to be
\* synced, acknowledged and started are nested.
TypeOK ==
  /\ DOMAIN wal = Slot /\ DOMAIN pend = Slot /\ wal \in [Slot -> {wal[i] : i \in Slot}]
  /\ db \in [Page -> Val \cup {Torn}] /\ dbDisk \in [Page -> Val \cup {Torn}]
  /\ dbPend \in [Page -> SUBSET Val]
  /\ live.mx \in Slot /\ h.mx \in Slot /\ nBackfill \in Slot
  /\ nBackfill <= live.mx
  /\ wc \in WalObject
  /\ pager.img \in [Page -> Val \cup {Torn}]
  /\ pager.dirty \subseteq Page /\ pager.sp.mods \subseteq Page
  /\ pc \in PCs
  /\ 1 <= synced /\ synced <= acked /\ acked <= Len(hist)
  /\ floor \in 1..Len(hist)
  /\ \A k \in 1..Len(hist) : hist[k] \in Image

Blank == [p \in Page |-> 0]

Init ==
  /\ wal = EmptyWal /\ bases = {EmptyWal} /\ pend = [i \in Slot |-> {}]
  /\ db = Blank /\ dbDisk = Blank /\ dbPend = [p \in Page |-> {}]
  /\ live = ZeroHdr /\ nBackfill = 0 /\ h = ZeroHdr
  /\ wc = ClosedWal /\ pager = NoPager(Blank) /\ call = NoCall /\ pc = "idle"
  /\ hist = <<Blank>> /\ acked = 1 /\ synced = 1 /\ floor = 1
  /\ nWrite = 0 /\ nSalt = 0 /\ nCrash = 0 /\ sc \in Scenarios

\* The image of the last commit, as the running connection reads it.
Visible == Overlay(wal, db, nBackfill + 1, live.mx)

-----------------------------------------------------------------------------
(* The operating system: writes reach the disk in any order until a sync.   *)

WriteSlot(i, v) ==
  /\ wal' = [wal EXCEPT ![i] = v]
  /\ pend' = [pend EXCEPT ![i] = @ \cup {v}]

\* sqlite3OsSync of the log: also what makes the published commits durable.
SyncWal ==
  /\ bases' = {wal}
  /\ pend' = [i \in Slot |-> {}]
  /\ synced' = acked

\* sqlite3OsTruncate or sqlite3OsDelete: frames past slot n disappear.
CutWal(w, n) == [i \in Slot |-> IF i <= n THEN w[i] ELSE EmptyWal[i]]
TruncateWal(n) ==
  /\ wal' = CutWal(wal, n)
  /\ bases' = bases \cup {CutWal(b, n) : b \in bases}
  /\ pend' = [i \in Slot |-> IF i <= n THEN pend[i] ELSE {}]

WriteDb(p, v) ==
  /\ db' = [db EXCEPT ![p] = v]
  /\ dbPend' = [dbPend EXCEPT ![p] = @ \cup {v}]

SyncDb ==
  /\ dbDisk' = db
  /\ dbPend' = [p \in Page |-> {}]

-----------------------------------------------------------------------------
(* Transactions, above sqlite3WalFrames *)

\* sqlite3WalBeginReadTransaction and sqlite3WalBeginWriteTransaction.
BeginWrite ==
  /\ pc = "idle"
  /\ Len(hist) <= MaxCommit
  /\ h' = live
  /\ wc' = [wc EXCEPT !.readLock0 = (nBackfill = live.mx), !.minFrame = nBackfill + 1]
  /\ pager' = NoPager(Visible)
  /\ pc' = "write"
  /\ UNCHANGED <<files, live, nBackfill, call, ghosts, counters>>

\* sqlite3PagerWrite, and the application's change to the page.
WritePage(p) ==
  /\ pc = "write" /\ nWrite < sc.maxWrite
  /\ nWrite' = nWrite + 1
  /\ pager' = [pager EXCEPT !.img[p] = nWrite + 1, !.dirty = @ \cup {p},
                 !.modified = TRUE,
                 !.sp.mods = IF pager.savepoint THEN @ \cup {p} ELSE @]
  /\ UNCHANGED <<files, live, nBackfill, h, wc, call, pc, ghosts, nSalt, nCrash, sc>>

\* walRestartHdr: nothing of the restarted log has been backfilled.
BackfillAfter_Kept(restart) == nBackfill
BackfillAfter(restart) == IF restart THEN 0 ELSE nBackfill

\* walRestartLog, then the WAL header if this is the first frame of the log.
\* iFirst, the first frame this transaction may overwrite, is taken before.
StartFrames(list, commit) ==
  LET restart == wc.readLock0 /\ nBackfill > 0
      nCkpt == IF restart THEN wc.nCkpt + 1 ELSE wc.nCkpt
      mx == IF restart THEN 0 ELSE h.mx
      draw == restart \/ (mx = 0 /\ nCkpt = 0)
      salt == IF draw THEN nSalt + 1 ELSE h.salt
      restarted == [h EXCEPT !.mx = mx, !.salt = IF restart THEN salt ELSE @]
  IN
  /\ draw => nSalt < MaxSalt
  /\ mx + Len(list) <= MaxFrame
  /\ nSalt' = IF draw THEN nSalt + 1 ELSE nSalt
  /\ live' = IF restart THEN restarted ELSE live
  /\ nBackfill' = BackfillAfter(restart)
  /\ call' = [NoCall EXCEPT !.list = list, !.commit = commit, !.iFrame = mx,
                !.iFirst = IF h # live THEN live.mx + 1 ELSE 0]
  /\ wc' = [wc EXCEPT !.readLock0 = FALSE, !.nCkpt = nCkpt,
              !.minFrame = IF wc.readLock0 THEN nBackfill' + 1 ELSE @,
              !.truncateOnCommit = @ \/ mx = 0]
  /\ IF mx = 0
     THEN /\ h' = [restarted EXCEPT !.salt = salt, !.ck = HdrCk(salt, nCkpt)]
          /\ WriteSlot(0, [ok |-> TRUE, salt |-> salt, nCkpt |-> nCkpt])
          /\ pc' = "synchdr"
     ELSE /\ h' = restarted
          /\ pc' = "frames"
          /\ UNCHANGED <<wal, pend>>
  /\ UNCHANGED <<bases, db, dbDisk, dbPend, nWrite, nCrash, sc>>

\* pagerStress: one dirty page goes to the log in mid-transaction.  Page 1 is
\* referenced for as long as the transaction lasts, so it is never spilled.
\* The page joins the sub-journal first (subjournalPageIfRequired).
Spill(p) ==
  /\ pc = "write" /\ p \in pager.dirty /\ p # 1
  /\ pager' = [pager EXCEPT !.sp.mods = IF pager.savepoint THEN @ \cup {p} ELSE @]
  /\ StartFrames(<<p>>, FALSE)
  /\ UNCHANGED ghosts

\* sqlite3PcacheDirtyList: the pages of S by page number.
PageList(S) ==
  [i \in 1..Cardinality(S) |-> CHOOSE p \in S : Cardinality({q \in S : q <= p}) = i]

\* sqlite3PagerCommitPhaseOne: every dirty page by page number, or page 1.
Commit ==
  /\ pc = "write" /\ pager.modified /\ Len(hist) <= MaxCommit
  /\ LET pages == IF pager.dirty = {} THEN {1} ELSE pager.dirty
     IN  StartFrames(PageList(pages), TRUE)
  /\ hist' = Append(hist, pager.img)
  /\ UNCHANGED <<pager, acked, synced, floor>>

\* A COMMIT of a transaction that changed nothing, or ROLLBACK: sqlite3WalUndo,
\* then sqlite3WalEndWriteTransaction.
Rollback ==
  /\ pc = "write"
  /\ h' = live
  /\ pager' = NoPager(Visible)
  /\ wc' = [wc EXCEPT !.iReCksum = 0, !.truncateOnCommit = FALSE, !.readLock0 = FALSE]
  /\ pc' = "idle"
  /\ UNCHANGED <<files, live, nBackfill, call, ghosts, counters>>

\* ROLLBACK TO a transaction savepoint: the transaction goes on after
\* sqlite3WalUndo, without sqlite3WalEndWriteTransaction.
RollbackToStart ==
  /\ sc.savepoints /\ pc = "write" /\ pager.modified
  /\ h' = live
  /\ pager' = [NoPager(Visible) EXCEPT !.modified = TRUE]
  /\ UNCHANGED <<files, live, nBackfill, wc, call, pc, ghosts, counters>>

\* pagerOpenSavepoint and sqlite3WalSavepoint; one savepoint at a time.
OpenSavepoint ==
  /\ sc.savepoints /\ pc = "write" /\ ~pager.savepoint
  /\ pager' = [pager EXCEPT !.savepoint = TRUE,
                 !.sp = [mx |-> h.mx, ck |-> h.ck, nCkpt |-> wc.nCkpt,
                         img |-> pager.img, mods |-> {}]]
  /\ UNCHANGED <<files, live, nBackfill, h, wc, call, pc, ghosts, counters>>

\* Mutant: the pages put back are not dirty again.
RollbackTo_Clean ==
  /\ pc = "write" /\ pager.savepoint
  /\ LET sp == IF pager.sp.nCkpt = wc.nCkpt THEN pager.sp
               ELSE [pager.sp EXCEPT !.mx = 0, !.nCkpt = wc.nCkpt]
     IN /\ h' = IF sp.mx < h.mx THEN [h EXCEPT !.mx = sp.mx, !.ck = sp.ck] ELSE h
        /\ pager' = [pager EXCEPT !.img = sp.img, !.dirty = @ \ sp.mods, !.sp = sp]
  /\ UNCHANGED <<files, live, nBackfill, wc, call, pc, ghosts, counters>>

\* sqlite3WalSavepointUndo, then the sub-journal puts back the pages written
\* since; they are dirty again.  The savepoint stays open.
RollbackTo ==
  /\ pc = "write" /\ pager.savepoint
  /\ LET sp == IF pager.sp.nCkpt = wc.nCkpt THEN pager.sp
               ELSE [pager.sp EXCEPT !.mx = 0, !.nCkpt = wc.nCkpt]
     IN /\ h' = IF sp.mx < h.mx THEN [h EXCEPT !.mx = sp.mx, !.ck = sp.ck] ELSE h
        /\ pager' = [pager EXCEPT !.img = sp.img, !.dirty = @ \cup sp.mods, !.sp = sp]
  /\ UNCHANGED <<files, live, nBackfill, wc, call, pc, ghosts, counters>>

Release ==
  /\ pc = "write" /\ pager.savepoint
  /\ pager' = [pager EXCEPT !.savepoint = FALSE, !.sp = NoSavepoint]
  /\ UNCHANGED <<files, live, nBackfill, h, wc, call, pc, ghosts, counters>>

-----------------------------------------------------------------------------
(* The rest of sqlite3WalFrames *)

\* The header is synced before any frame may follow it (pWal->syncHeader).
SyncHeader ==
  /\ pc = "synchdr"
  /\ SyncWal
  /\ pc' = "frames"
  /\ UNCHANGED <<wal, db, dbDisk, dbPend, live, nBackfill, h, wc, pager, call,
                 hist, acked, floor, counters>>

\* The frame that page p overwrites, 0 when it is appended: a page this
\* transaction has logged already, but never the commit frame.
OverwriteOf(p) ==
  LET i == FindFrame(wal, p, wc.minFrame, h.mx)
  IN  IF call.iFirst # 0 /\ (Len(call.list) > 1 \/ ~call.commit) /\ i >= call.iFirst
      THEN i ELSE 0

\* One page of the list: overwrite the data of its frame, or append a frame.
WriteFrame ==
  /\ pc = "frames" /\ call.list # <<>>
  /\ LET p == Head(call.list)
         i == OverwriteOf(p)
         n == call.iFrame + 1
         f == EncodeFrame(p, pager.img[p], call.commit /\ Len(call.list) = 1,
                          h, wc.iReCksum)
     IN IF i # 0
        THEN /\ WriteSlot(i, [wal[i] EXCEPT !.val = pager.img[p]])
             /\ wc' = [wc EXCEPT !.iReCksum = IF @ = 0 \/ i < @ THEN i ELSE @]
             /\ call' = [call EXCEPT !.list = Tail(@)]
             /\ UNCHANGED h
        ELSE /\ WriteSlot(n, f)
             /\ h' = IF wc.iReCksum = 0 THEN [h EXCEPT !.ck = f.ck] ELSE h
             /\ call' = [call EXCEPT !.list = Tail(@), !.iFrame = n]
             /\ UNCHANGED wc
  /\ pager' = [pager EXCEPT !.dirty = @ \ {Head(call.list)}]
  /\ UNCHANGED <<bases, db, dbDisk, dbPend, live, nBackfill, pc, ghosts, counters>>

\* Mutant: overwritten frames keep their old checksums.
FramesWritten_NoReCksum ==
  /\ pc = "frames" /\ call.list = <<>>
  /\ pc' = IF call.commit /\ sc.fullSync THEN "sync"
           ELSE "publish"
  /\ UNCHANGED <<files, live, nBackfill, h, wc, pager, call, ghosts, counters>>

\* The list is written: which of the closing steps does the call need?
FramesWritten ==
  /\ pc = "frames" /\ call.list = <<>>
  /\ pc' = IF call.commit /\ wc.iReCksum # 0 THEN "recksum"
           ELSE IF call.commit /\ sc.fullSync THEN "sync"
           ELSE "publish"
  /\ UNCHANGED <<files, live, nBackfill, h, wc, pager, call, ghosts, counters>>

\* walRewriteChecksums: new checksums for frames iReCksum..iFrame, chained from
\* what the file holds before them.
Rechecksummed(w, from, to, salt) ==
  LET Data(i) == <<w[i].pg, w[i].val, w[i].commit>>
      Ck(i) == ChecksumAfter(w, from - 1) \o [j \in 1..(i - from + 1) |-> Data(from + j - 1)]
  IN  [i \in Slot |-> IF i \in from..to
                      THEN [w[i] EXCEPT !.salt = salt, !.ck = Ck(i)] ELSE w[i]]

\* Mutant: the header keeps the checksum from before.
RewriteChecksums_KeepHdr ==
  /\ pc = "recksum"
  /\ LET w == Rechecksummed(wal, wc.iReCksum, call.iFrame, h.salt)
     IN /\ wal' = w
        /\ pend' = [i \in Slot |-> IF w[i] = wal[i] THEN pend[i] ELSE pend[i] \cup {w[i]}]
        /\ h' = [h EXCEPT !.ck = ChecksumAfter(wal, call.iFrame)]
  /\ wc' = [wc EXCEPT !.iReCksum = 0]
  /\ pc' = IF sc.fullSync THEN "sync" ELSE "publish"
  /\ UNCHANGED <<bases, db, dbDisk, dbPend, live, nBackfill, pager, call, ghosts, counters>>

RewriteChecksums ==
  /\ pc = "recksum"
  /\ LET w == Rechecksummed(wal, wc.iReCksum, call.iFrame, h.salt)
     IN /\ wal' = w
        /\ pend' = [i \in Slot |-> IF w[i] = wal[i] THEN pend[i] ELSE pend[i] \cup {w[i]}]
        /\ h' = [h EXCEPT !.ck = ChecksumAfter(w, IF call.iFrame < wc.iReCksum
                                                  THEN wc.iReCksum - 1 ELSE call.iFrame)]
  /\ wc' = [wc EXCEPT !.iReCksum = 0]
  /\ pc' = IF sc.fullSync THEN "sync" ELSE "publish"
  /\ UNCHANGED <<bases, db, dbDisk, dbPend, live, nBackfill, pager, call, ghosts, counters>>

SyncCommit ==
  /\ pc = "sync"
  /\ SyncWal
  /\ pc' = "publish"
  /\ UNCHANGED <<wal, db, dbDisk, dbPend, live, nBackfill, h, wc, pager, call,
                 hist, acked, floor, counters>>

\* The end of a spill: only the private header moves on.
PublishSpill ==
  /\ pc = "publish" /\ ~call.commit
  /\ h' = [h EXCEPT !.mx = call.iFrame]
  /\ call' = NoCall /\ pc' = "write"
  /\ UNCHANGED <<files, live, nBackfill, wc, pager, ghosts, counters>>

\* The end of a commit: walLimitSize, walIndexWriteHdr, the pager's cache made
\* clean, sqlite3WalEndWriteTransaction; COMMIT returns.
PublishCommit ==
  /\ pc = "publish" /\ call.commit
  /\ IF wc.truncateOnCommit /\ sc.sizeLimit
     THEN TruncateWal(call.iFrame)
     ELSE UNCHANGED <<wal, bases, pend>>
  /\ h' = [h EXCEPT !.mx = call.iFrame]
  /\ live' = h'
  /\ wc' = [wc EXCEPT !.truncateOnCommit = FALSE, !.iReCksum = 0, !.readLock0 = FALSE]
  /\ pager' = NoPager(pager.img)
  /\ acked' = Len(hist)
  /\ synced' = IF sc.fullSync THEN Len(hist) ELSE synced
  /\ call' = NoCall /\ pc' = "idle"
  /\ UNCHANGED <<db, dbDisk, dbPend, nBackfill, hist, floor, counters>>

-----------------------------------------------------------------------------
(* sqlite3WalCheckpoint and sqlite3WalClose *)

\* What the caller wants once the log is backfilled: nothing more, the log
\* truncated (SQLITE_CHECKPOINT_TRUNCATE), or the log deleted (close).
Afters == {"none", "truncate", "delete"}

\* Mutant: pages are copied out of a log that is not synced.
CkptBegin_NoSync(after) ==
  /\ pc = "idle" /\ nBackfill < live.mx
  /\ after = "truncate" => nSalt < MaxSalt
  /\ h' = live
  /\ call' = [NoCall EXCEPT !.after = after,
                !.todo = {p \in Page : FindFrame(wal, p, nBackfill + 1, live.mx) # 0}]
  /\ pc' = "backfill"
  /\ UNCHANGED <<wal, bases, pend, synced, db, dbDisk, dbPend, live, nBackfill, wc, pager, hist, acked,
                 floor, counters>>

\* walCheckpoint up to the copy loop: walIteratorInit and the sync of the log.
\* One page is copied from its last frame.
CkptBegin(after) ==
  /\ pc = "idle" /\ nBackfill < live.mx
  /\ after = "truncate" => nSalt < MaxSalt
  /\ h' = live
  /\ call' = [NoCall EXCEPT !.after = after,
                !.todo = {p \in Page : FindFrame(wal, p, nBackfill + 1, live.mx) # 0}]
  /\ SyncWal
  /\ pc' = "backfill"
  /\ UNCHANGED <<wal, db, dbDisk, dbPend, live, nBackfill, wc, pager, hist, acked,
                 floor, counters>>

Backfill(p) ==
  /\ pc = "backfill" /\ p \in call.todo
  /\ WriteDb(p, wal[FindFrame(wal, p, nBackfill + 1, h.mx)].val)
  /\ call' = [call EXCEPT !.todo = @ \ {p}]
  /\ UNCHANGED <<wal, bases, pend, dbDisk, live, nBackfill, h, wc, pager, pc,
                 ghosts, counters>>

\* sqlite3_interrupt: the copy loop stops, nothing is recorded.
CkptInterrupt ==
  /\ pc = "backfill" /\ call.todo # {} /\ call.after # "delete"
  /\ call' = NoCall /\ pc' = "idle"
  /\ UNCHANGED <<files, live, nBackfill, h, wc, pager, ghosts, counters>>

\* The whole log is in the database: sync it, only then move nBackfill.
CkptDone ==
  /\ pc = "backfill" /\ call.todo = {}
  /\ SyncDb
  /\ nBackfill' = h.mx
  /\ pc' = IF call.after = "none" THEN "idle" ELSE call.after
  /\ UNCHANGED <<wal, bases, pend, db, live, h, wc, pager, call, ghosts, counters>>

\* A truncating checkpoint or a close of a log with nothing left to backfill.
CkptNothing(after) ==
  /\ pc = "idle" /\ nBackfill = live.mx /\ after # "none"
  /\ after = "truncate" => nSalt < MaxSalt
  /\ h' = live
  /\ call' = [NoCall EXCEPT !.after = after]
  /\ pc' = after
  /\ UNCHANGED <<files, live, nBackfill, wc, pager, ghosts, counters>>

\* walRestartHdr, then the log file is cut to zero bytes.
CkptTruncate ==
  /\ pc = "truncate"
  /\ nSalt' = nSalt + 1
  /\ h' = [h EXCEPT !.mx = 0, !.salt = nSalt + 1]
  /\ live' = h'
  /\ nBackfill' = BackfillAfter(TRUE)
  /\ wc' = [wc EXCEPT !.nCkpt = @ + 1]
  /\ TruncateWal(-1)
  /\ call' = NoCall /\ pc' = "idle"
  /\ UNCHANGED <<db, dbDisk, dbPend, pager, ghosts, nWrite, nCrash, sc>>

\* Close by the last connection deletes the log and the wal-index.
CloseDelete ==
  /\ pc = "delete"
  /\ TruncateWal(-1)
  /\ live' = ZeroHdr /\ h' = ZeroHdr /\ nBackfill' = 0
  /\ wc' = ClosedWal /\ pager' = NoPager(Blank) /\ call' = NoCall
  /\ pc' = "down"
  /\ floor' = acked
  /\ UNCHANGED <<db, dbDisk, dbPend, hist, acked, synced, counters>>

-----------------------------------------------------------------------------
(* Failures and recovery *)

LoseMemory ==
  /\ live' = ZeroHdr /\ h' = ZeroHdr /\ nBackfill' = 0
  /\ wc' = ClosedWal /\ pager' = NoPager(Blank) /\ call' = NoCall
  /\ pc' = "down"
  /\ nCrash' = nCrash + 1

\* The process dies: what it wrote stays in the OS, its memory and the
\* wal-index (which the next process clears) are gone.
Crash ==
  /\ pc # "down" /\ nCrash < sc.maxCrash
  /\ LoseMemory
  /\ floor' = acked
  /\ UNCHANGED <<files, hist, acked, synced, nWrite, nSalt, sc>>

\* What an unsynced slot may hold after a power loss that found base file b:
\* the old content, any later write, or a torn mix that no checksum accepts.
Survivors(b, i) ==
  LET all == {b[i]} \cup pend[i]
  IN  all \cup IF i = 0 THEN [ok : {FALSE}, salt : {x.salt : x \in all},
                               nCkpt : {x.nCkpt : x \in all}]
               ELSE {[NoFrame EXCEPT !.val = Torn]}

\* Every choice of one survivor for each unsynced slot, page by page likewise.
WalSurvivors ==
  LET S == {i \in Slot : pend[i] # {}}
      Picks(b) == {c \in [S -> UNION {Survivors(b, i) : i \in S}] :
                       \A i \in S : c[i] \in Survivors(b, i)}
  IN  UNION {{[i \in Slot |-> IF i \in S THEN c[i] ELSE b[i]] : c \in Picks(b)} :
             b \in bases}

DbSurvivors ==
  LET S == {p \in Page : dbPend[p] # {}}
      Picks == {c \in [S -> Val \cup {Torn}] :
                    \A p \in S : c[p] \in {dbDisk[p], Torn} \cup dbPend[p]}
  IN  {[p \in Page |-> IF p \in S THEN c[p] ELSE dbDisk[p]] : c \in Picks}

PowerLoss ==
  /\ nCrash < sc.maxCrash
  /\ wal' \in WalSurvivors /\ bases' = {wal'} /\ pend' = [i \in Slot |-> {}]
  /\ db' \in DbSurvivors /\ dbDisk' = db' /\ dbPend' = [p \in Page |-> {}]
  /\ LoseMemory
  /\ floor' = IF pc = "down" THEN Min({floor, synced}) ELSE synced
  /\ UNCHANGED <<hist, acked, synced, nWrite, nSalt, sc>>

\* walIndexRecover by the next process to open the database.  A log of no more
\* than its header is not looked at.
Recover ==
  /\ pc = "down"
  /\ LET mx == RecoveredMx(wal)
         img == RecoveredImage(wal, db)
         k == Max({1} \cup {j \in 1..Len(hist) : hist[j] = img})
         hdr == IF \E i \in 1..MaxFrame : wal[i] # NoFrame THEN wal[0] ELSE NoHdr
     IN /\ h' = [mx |-> mx, salt |-> hdr.salt,
                 ck |-> IF mx = 0 THEN <<>> ELSE wal[mx].ck]
        /\ wc' = [ClosedWal EXCEPT !.nCkpt = hdr.nCkpt]
        /\ pager' = NoPager(img)
        /\ hist' = SubSeq(hist, 1, k)
        /\ acked' = k
        /\ synced' = Min({k, synced})
        /\ floor' = Min({k, floor})
  /\ live' = h' /\ nBackfill' = 0
  /\ pc' = "idle"
  /\ UNCHANGED <<files, call, counters>>

-----------------------------------------------------------------------------
Next ==
  \/ BeginWrite \/ Commit \/ Rollback \/ RollbackToStart
  \/ OpenSavepoint \/ RollbackTo \/ Release
  \/ \E p \in Page : WritePage(p) \/ Spill(p) \/ Backfill(p)
  \/ SyncHeader \/ WriteFrame \/ FramesWritten \/ RewriteChecksums
  \/ SyncCommit \/ PublishSpill \/ PublishCommit
  \/ \E after \in Afters : CkptBegin(after) \/ CkptNothing(after)
  \/ CkptInterrupt \/ CkptDone \/ CkptTruncate \/ CloseDelete
  \/ Crash \/ PowerLoss \/ Recover

Spec == Init /\ [][Next]_vars

-----------------------------------------------------------------------------
(* Properties *)

\* Whatever the process was doing, if it dies now the next process to open
\* the database reads a committed image no older than the last commit the
\* application was told of (walIndexRecover after any prefix of the writes).
CommitsDurable ==
  pc # "down" => \E k \in acked..Len(hist) : RecoveredImage(wal, db) = hist[k]

\* After a power loss (which may keep any subset of the unsynced writes and
\* tear others) recovery finds a committed image no older than the last
\* synced commit: the last commit of all with synchronous=FULL.
PowerLossDurable ==
  pc = "down" => \E k \in floor..Len(hist) : RecoveredImage(wal, db) = hist[k]

\* Between transactions the connection reads the image of the last commit, and
\* inside one, every clean page reads back what the transaction last wrote to
\* it: through the frames it spilled, overwrote and undid.
ReadsOwnWrites ==
  /\ pc = "idle" => Visible = hist[acked]
  /\ pc = "write" =>
       \A p \in Page \ pager.dirty :
         LET i == IF wc.readLock0 THEN 0 ELSE FindFrame(wal, p, wc.minFrame, h.mx)
         IN  (IF i = 0 THEN db[p] ELSE wal[i].val) = pager.img[p]

\* The wal-index header and the log agree while no call is in progress: a
\* recovery run now would rebuild exactly the header that is live.
HeaderMatchesLog ==
  pc \in {"idle", "write"} /\ live.mx > 0 =>
    /\ RecoveredMx(wal) = live.mx
    /\ wal[0].salt = live.salt
    /\ wal[live.mx].ck = live.ck
=============================================================================
