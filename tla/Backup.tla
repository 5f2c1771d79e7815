------------------------------- MODULE Backup -------------------------------
(***************************************************************************)
(* The online backup of backup.c: a database is copied page by page, in    *)
(* several calls of sqlite3_backup_step(), while its connection, or        *)
(* another process, goes on changing it.                                   *)
(*                                                                         *)
(* The source is one Pager (rollback journal, WAL or in memory) with the   *)
(* backups that are attached to it; of the pager only the calls matter in  *)
(* which it tells them that pages changed (sqlite3BackupUpdate) or that    *)
(* nothing is known of the pages they have (sqlite3BackupRestart).         *)
(*                                                                         *)
(* Files are arrays of units, the smaller of the two page sizes.  What a   *)
(* unit holds is the number of the transaction that wrote it and, in the   *)
(* first unit, the number of pages the header claims (bytes 28 .. 31).     *)
(* The page at PENDING_BYTE is never used, whatever the page size.         *)
(***************************************************************************)
EXTENDS Naturals, Sequences, FiniteSets, SequencesExt, FiniteSetsExt

CONSTANTS
  Bk,          \* the sqlite3_backup objects, each with a destination file
  Scenarios,   \* what is run, see ScenarioType
  PendingByte, \* offset of the pending byte, in units
  MaxTxn       \* bound: write transactions on the source

ScenarioType ==
  [mode : {"DELETE", "WAL", "MEMORY"}, \* how the source is kept
   srcSz : {1, 2}, destSz : {1, 2},    \* the page sizes, in units
   nSrc : Nat, nDest : Nat,            \* pages in the two files at first
   maxPage : Nat,                      \* bound: pages the source may grow to
   txns : 0 .. MaxTxn,                 \* bound: transactions on the source
   steps : SUBSET Nat,                 \* the nPage passed to backup_step()
   header : Nat,                       \* pages the source's header claims
   backups : SUBSET Bk,                \* the backups that are used
   ext : BOOLEAN, own : BOOLEAN,       \* who changes the source
   faults : BOOLEAN]                   \* the power and I/O calls may fail once

PENDING_BYTE_PAGE(sz) == (PendingByte \div sz) + 1

\* Pages of either size start at the pending byte (it is a multiple of all page
\* sizes), and the source is no empty file and does not end on that page.
ASSUME BackupAssumption ==
  /\ IsFiniteSet(Bk) /\ PendingByte \in Nat \ {0} /\ PendingByte % 2 = 0
  /\ MaxTxn \in Nat /\ Scenarios \subseteq ScenarioType
  /\ \A s \in Scenarios :
       s.nSrc \in (1 .. s.maxPage) \ {PENDING_BYTE_PAGE(s.srcSz)}

VARIABLES
  sc,     \* the scenario, chosen at the start
  src,    \* the source: its committed images and the Pager that is backed up
  bk,     \* bk[b]: the sqlite3_backup object
  dst,    \* dst[b]: the destination file and its Pager
  faulty  \* a failure may still happen

vars == <<sc, src, bk, dst, faulty>>

(***************************************************************************)
(* Pages and units.  A page is <<transaction, pages the header claims>>;   *)
(* the second part is 0 on every page but the first.                       *)
(***************************************************************************)
PageOf(u, sz)      == ((u - 1) \div sz) + 1
Units(p, sz)       == (p - 1) * sz + 1 .. p * sz
Unit(img, u)       == LET pg == img[PageOf(u, sc.srcSz)] IN
                      <<pg[1], IF u = 1 THEN pg[2] ELSE 0>>
Zero == <<0, 0>>
Old  == MaxTxn + 1         \* what the destination held before
SrcPending  == PENDING_BYTE_PAGE(sc.srcSz)
DestPending == PENDING_BYTE_PAGE(sc.destSz)

\* Source pages that hold data.
Used(img) == (1 .. Len(img)) \ {SrcPending}
\* The image with n more or fewer pages; a page on the pending byte is
\* skipped, as allocateBtreePage() and the vacuum code do.
Grown(img, t)  == LET more == Append(img, <<t, 0>>) IN
                  IF Len(more) = SrcPending THEN Append(more, <<t, 0>>) ELSE more
Shrunk(img)    == LET less == Front(img) IN
                  IF Len(less) = SrcPending THEN Front(less) ELSE less
Claim(img, t)  == [img EXCEPT ![1] = <<t, Len(img)>>]

Last1(s) == s[Len(s)]
Disk == Last1(src.hist)

NewBackup == [state |-> "none", iNext |-> 1, rc |-> "OK", bDestLocked |-> FALSE,
              isAttached |-> FALSE]

NewDest(n) ==
  LET f == [u \in 1 .. n * sc.destSz |->
              <<Old, IF u = 1 THEN n ELSE 0>>] IN
  [orig |-> f,       \* the file when the backup began
   file |-> f,       \* the file as read() sees it
   disk |-> f,       \* the file as it was last synced
   img |-> f,        \* the pager's view of it, dirty pages included
   dirty |-> {}, journal |-> {},
   reader |-> "new", \* another connection: "on" while it reads the file
   at |-> "idle",    \* where backup_step() is in the commit
   close |-> FALSE,  \* bCloseTrans
   copied |-> 0]     \* observed: which committed image was copied

Init ==
  /\ sc \in Scenarios
  /\ LET img == [p \in 1 .. sc.nSrc |-> <<0, IF p = 1 THEN sc.header ELSE 0>>] IN
     src = [hist |-> <<img>>,  \* observed: every committed image
            view |-> img,      \* the pager's content, dirty pages included
            seen |-> 1,        \* dbFileVers or the WAL snapshot: which image
            trans |-> "none",
            txn |-> 0,         \* write transactions so far
            dirty |-> {}, journal |-> {},
            synced |-> {},     \* pages whose journal record is on the disk
            spilled |-> FALSE] \* pages were written before the commit
  /\ bk = [b \in Bk |-> NewBackup]
  /\ dst = [b \in Bk |-> NewDest(sc.nDest)]
  /\ faulty = sc.faults

isFatalError(rc) == rc \notin {"OK", "BUSY"}

(***************************************************************************)
(* Into the destination: backupOnePage() and the pager underneath.         *)
(***************************************************************************)
\* sqlite3PagerWrite(): the page is journalled before it is changed, if the
\* file had it, and the image is as long as it takes to hold it.
PagerWrite(d, pages) ==
  LET orig == {p \in pages : p * sc.destSz <= Len(d.orig)}
      len  == Max({Len(d.img)} \cup {p * sc.destSz : p \in pages}) IN
  [d EXCEPT !.journal = @ \cup orig, !.dirty = @ \cup pages,
            !.img = [u \in 1 .. len |-> IF u <= Len(@) THEN @[u] ELSE Zero]]

\* Source pages copied one after the other: every unit of theirs goes to the
\* same place, except those on the destination page with the pending byte.
\* Different pages never meet in a unit, so the order does not matter.
CopyUnits(d, img, pages, header) ==
  LET in == {u \in UNION {Units(p, sc.srcSz) : p \in pages} :
               PageOf(u, sc.destSz) # DestPending}
      w  == PagerWrite(d, {PageOf(u, sc.destSz) : u \in in}) IN
  [w EXCEPT !.img = [u \in DOMAIN w.img |-> IF u \notin in THEN w.img[u]
                                            ELSE IF u = 1 THEN header
                                            ELSE Unit(img, u)]]

\* Mutant: the page count in the header is copied as it is.
backupOnePage_NoCount(d, img, pages, bUpdate) == CopyUnits(d, img, pages, Unit(img, 1))

\* backupOnePage() for a set of pages: the first page gets the number of
\* pages of the source, unless this is an update.
backupOnePage(d, img, pages, bUpdate) ==
  CopyUnits(d, img, pages, IF bUpdate THEN Unit(img, 1) ELSE <<img[1][1], Len(img)>>)

\* Pages first .. last, but not the page with the pending byte.
CopyPages(d, img, first, last) ==
  backupOnePage(d, img, (first .. last) \ {SrcPending}, FALSE)

(***************************************************************************)
(* What the source pager tells the backups attached to it.                 *)
(***************************************************************************)
Attached == {b \in Bk : bk[b].isAttached}

\* sqlite3BackupRestart()
BackupRestart == [b \in Bk |-> IF b \in Attached THEN [bk[b] EXCEPT !.iNext = 1]
                               ELSE bk[b]]

\* sqlite3BackupUpdate(), for each page of a set
Wants(b, p) == b \in Attached /\ ~isFatalError(bk[b].rc) /\ p < bk[b].iNext
BackupUpdate(img, pages) ==
  [b \in Bk |-> backupOnePage(dst[b], img, {p \in pages : Wants(b, p)}, TRUE)]

\* The same when writing to the destination of b fails: the error is kept.
UpdateFails(b, pages) ==
  /\ faulty /\ faulty' = FALSE
  /\ \E p \in pages : Wants(b, p)
  /\ bk' = [bk EXCEPT ![b].rc = "IOERR"]

Update(img, pages) ==
  /\ dst' = BackupUpdate(img, pages)
  /\ \/ UNCHANGED <<bk, faulty>>
     \/ \E b \in Bk : UpdateFails(b, pages)

(***************************************************************************)
(* The source.  Nothing happens in its connection while backup_step() is   *)
(* at work: that call holds the mutex of the connection.                   *)
(***************************************************************************)
InCall == \E b \in Bk : dst[b].at # "idle"

\* sqlite3PagerSharedLock() and pagerBeginReadTransaction(): when the file
\* is not the one that is in the cache, pager_reset() empties the cache and
\* restarts the backups.
pager_reset == [s |-> [src EXCEPT !.view = Disk, !.seen = Len(src.hist)],
                b |-> BackupRestart]

\* Mutant: the cache is taken for stale at every lock.
SharedLock_Always ==
  IF src.trans = "none" THEN pager_reset ELSE [s |-> src, b |-> bk]

SharedLock == IF src.trans = "none" /\ src.seen # Len(src.hist)
              THEN pager_reset ELSE [s |-> src, b |-> bk]

BeginRead ==
  /\ ~InCall /\ src.trans = "none"
  /\ src' = [SharedLock.s EXCEPT !.trans = "read"]
  /\ bk' = SharedLock.b
  /\ UNCHANGED <<sc, dst, faulty>>

EndRead ==
  /\ ~InCall /\ src.trans = "read"
  /\ src' = [src EXCEPT !.trans = "none"]
  /\ UNCHANGED <<sc, bk, dst, faulty>>

\* PagerWrite() on pages of the source, which get what img has.
SourceWrite(s, img, pages) ==
  [s EXCEPT !.view = img, !.dirty = @ \cup pages,
            !.journal = @ \cup {p \in pages : p <= Len(src.hist[s.seen])}]

\* sqlite3BtreeBeginTrans() for a writer, who must not be behind.  A header
\* that claims the wrong number of pages is corrected first.
BeginWrite ==
  /\ ~InCall /\ sc.own /\ src.trans # "write" /\ src.txn < sc.txns
  /\ src.trans = "read" => src.seen = Len(src.hist)
  /\ LET s == [SharedLock.s EXCEPT !.trans = "write", !.txn = @ + 1] IN
     src' = IF s.view[1][2] = Len(s.view) THEN s
            ELSE SourceWrite(s, [s.view EXCEPT ![1] = <<@[1], Len(s.view)>>], {1})
  /\ bk' = SharedLock.b
  /\ UNCHANGED <<sc, dst, faulty>>

\* A page is changed, a page is added at the end, or the last one is freed
\* and cut off.
Change ==
  /\ ~InCall /\ src.trans = "write"
  /\ \/ \E p \in Used(src.view) :
          src' = SourceWrite(src, [src.view EXCEPT ![p] = <<src.txn, @[2]>>], {p})
     \/ /\ Len(Grown(src.view, 0)) <= sc.maxPage
        /\ LET g == Claim(Grown(src.view, src.txn), src.txn) IN
           src' = SourceWrite(src, g, {1, Len(g)})
     \/ /\ Len(src.view) > 1
        /\ src' = SourceWrite(src, Claim(Shrunk(src.view), src.txn), {1})
  /\ UNCHANGED <<sc, bk, dst, faulty>>

\* pagerStress(): a dirty page that nobody uses (so not page 1, which the
\* b-tree holds) is written out before the commit, to the file once the
\* journal is synced, or to the log.
Spill ==
  /\ ~InCall /\ src.trans = "write" /\ sc.mode # "MEMORY"
  /\ \E p \in src.dirty \ {1} :
       /\ p <= Len(src.view)
       /\ src' = [src EXCEPT !.dirty = @ \ {p}, !.spilled = TRUE,
                    !.synced = IF sc.mode = "DELETE" THEN src.journal ELSE @]
       /\ Update(src.view, {p})
  /\ UNCHANGED sc

Idle(s) == [s EXCEPT !.trans = "none", !.dirty = {}, !.journal = {},
                     !.synced = {}, !.spilled = FALSE]
Changed == src.dirty # {} \/ src.spilled
InImage(pages) == {p \in pages : p <= Len(src.view)}

\* sqlite3PagerCommitPhaseOne() and Two.  With a journal page 1 is always
\* written, for the change counter; in memory nothing is written and the
\* backups start again.
Commit ==
  LET img == IF sc.mode = "DELETE" THEN [src.view EXCEPT ![1] = <<src.txn, @[2]>>]
             ELSE src.view
      out == InImage(IF sc.mode = "DELETE" THEN src.dirty \cup {1}
                     ELSE IF src.dirty = {} THEN {1} ELSE src.dirty) IN
  /\ ~InCall /\ src.trans = "write"
  /\ IF Changed
     THEN /\ src' = Idle([src EXCEPT !.hist = Append(@, img), !.view = img,
                                     !.seen = Len(src.hist) + 1])
          /\ IF sc.mode = "MEMORY"
             THEN bk' = BackupRestart /\ UNCHANGED <<dst, faulty>>
             ELSE Update(img, out)
     ELSE src' = Idle(src) /\ UNCHANGED <<bk, dst, faulty>>
  /\ UNCHANGED sc

\* Mutant: in WAL mode the backups are not restarted.
Rollback_Silent ==
  /\ ~InCall /\ src.trans = "write"
  /\ src' = Idle([src EXCEPT !.view = src.hist[src.seen]])
  /\ IF sc.mode = "DELETE" THEN Update(src.hist[src.seen], src.synced)
     ELSE UNCHANGED <<bk, dst, faulty>>
  /\ UNCHANGED sc

\* sqlite3PagerRollback().  pager_playback() writes back every page whose
\* record is synced, if the file was touched at all, and tells the backups;
\* in WAL mode pagerUndoCallback() restarts them.
Rollback ==
  /\ ~InCall /\ src.trans = "write"
  /\ src' = Idle([src EXCEPT !.view = src.hist[src.seen]])
  /\ CASE sc.mode = "DELETE" -> Update(src.hist[src.seen], src.synced)
       [] sc.mode = "WAL" /\ Changed ->
            bk' = BackupRestart /\ UNCHANGED <<dst, faulty>>
       [] OTHER -> UNCHANGED <<bk, dst, faulty>>
  /\ UNCHANGED sc

\* An I/O error in a write transaction: the pager is in the ERROR state,
\* pager_unlock() resets it, and the next reader finds a hot journal.
SourceFails ==
  /\ ~InCall /\ src.trans = "write" /\ sc.mode # "MEMORY" /\ Changed
  /\ faulty /\ faulty' = FALSE
  /\ src' = Idle(pager_reset.s)
  /\ bk' = pager_reset.b
  /\ UNCHANGED <<sc, dst>>

\* Another process commits; with a journal nobody else may hold a lock.  It
\* may be an old version that does not know of the page count in the header.
ExternalCommit ==
  LET t == src.txn + 1
      claim(img) == IF sc.header = sc.nSrc THEN Claim(img, t)
                    ELSE [img EXCEPT ![1] = <<t, @[2]>>] IN
  /\ sc.ext /\ sc.mode # "MEMORY" /\ t <= sc.txns
  /\ IF sc.mode = "WAL" THEN src.trans # "write"
     ELSE src.trans = "none" /\ ~InCall
  /\ \E img \in {[Disk EXCEPT ![p] = <<t, @[2]>>] : p \in Used(Disk)}
                \cup {i \in {Grown(Disk, t)} : Len(i) <= sc.maxPage}
                \cup (IF Len(Disk) > 1 THEN {Shrunk(Disk)} ELSE {}) :
       src' = [src EXCEPT !.hist = Append(@, claim(img)), !.txn = t]
  /\ UNCHANGED <<sc, bk, dst, faulty>>

(***************************************************************************)
(* The backup.                                                             *)
(***************************************************************************)
\* sqlite3_backup_init()
BackupInit(b) ==
  /\ b \in sc.backups /\ bk[b].state = "none"
  /\ ~InCall
  /\ bk' = [bk EXCEPT ![b].state = "open"]
  /\ UNCHANGED <<sc, src, dst, faulty>>

\* Another connection reads the destination for a while.
DestReader(b) ==
  /\ bk[b].state = "open" /\ ~bk[b].bDestLocked /\ dst[b].reader = "new"
  /\ dst' = [dst EXCEPT ![b].reader = "on"]
  /\ UNCHANGED <<sc, src, bk, faulty>>

DestReaderLeaves(b) ==
  /\ dst[b].reader = "on"
  /\ dst' = [dst EXCEPT ![b].reader = "left"]
  /\ UNCHANGED <<sc, src, bk, faulty>>

CanStep(b) == bk[b].state = "open" /\ ~isFatalError(bk[b].rc) /\ ~InCall

\* The source is being written, through this cache.
StepBusy(b) ==
  /\ CanStep(b) /\ src.trans = "write"
  /\ bk' = [bk EXCEPT ![b].rc = "BUSY"]
  /\ UNCHANGED <<sc, src, dst, faulty>>

\* The destination cannot be locked.
StepDestBusy(b) ==
  /\ CanStep(b) /\ src.trans # "write"
  /\ ~bk[b].bDestLocked /\ dst[b].reader = "on"
  /\ src' = SharedLock.s
  /\ bk' = [SharedLock.b EXCEPT ![b].rc = "BUSY"]
  /\ UNCHANGED <<sc, dst, faulty>>

\* Mutant: iNext is advanced by nPage also where the source ends.
StepCopy_PastEnd(b, nPage) ==
  LET img   == SharedLock.s.view
      first == SharedLock.b[b].iNext
      next  == first + nPage
      done  == next > Len(img) IN
  /\ CanStep(b) /\ src.trans # "write"
  /\ ~bk[b].bDestLocked => dst[b].reader # "on"
  /\ src' = IF done THEN [SharedLock.s EXCEPT !.trans = "read"] ELSE SharedLock.s
  /\ bk' = [SharedLock.b EXCEPT ![b].bDestLocked = TRUE, ![b].iNext = next,
                                ![b].rc = "OK", ![b].isAttached = @ \/ ~done]
  /\ dst' = [dst EXCEPT ![b] =
               [CopyPages(@, img, first, Min({next - 1, Len(img)})) EXCEPT
                  !.at = IF done THEN "commit" ELSE "idle",
                  !.close = done /\ src.trans = "none"]]
  /\ UNCHANGED <<sc, faulty>>

\* sqlite3_backup_step(): copy up to nPage pages, and attach the backup to
\* the pager or go on to the commit.
StepCopy(b, nPage) ==
  LET img   == SharedLock.s.view
      first == SharedLock.b[b].iNext
      last  == Min({first + nPage - 1, Len(img)})
      next  == Max({first, last + 1})
      done  == next > Len(img) IN
  /\ CanStep(b) /\ src.trans # "write"
  /\ ~bk[b].bDestLocked => dst[b].reader # "on"
  /\ src' = IF done THEN [SharedLock.s EXCEPT !.trans = "read"] ELSE SharedLock.s
  /\ bk' = [SharedLock.b EXCEPT ![b].bDestLocked = TRUE, ![b].iNext = next,
                                ![b].rc = "OK",
                                ![b].isAttached = @ \/ ~done]
  /\ dst' = [dst EXCEPT ![b] =
               [CopyPages(@, img, first, last) EXCEPT
                  !.at = IF done THEN "commit" ELSE "idle",
                  !.close = done /\ src.trans = "none"]]
  /\ UNCHANGED <<sc, faulty>>

\* The step meets an I/O error, at any page or in the commit.
StepFails(b) ==
  /\ bk[b].state = "open" /\ ~isFatalError(bk[b].rc)
  /\ faulty /\ faulty' = FALSE
  /\ \/ /\ CanStep(b) /\ src.trans # "write"
        /\ src' = SharedLock.s
        /\ bk' = [SharedLock.b EXCEPT ![b].rc = "IOERR"]
     \/ /\ dst[b].at \in {"commit", "extra", "cut", "sync"}
        /\ src' = [src EXCEPT !.trans = IF dst[b].close THEN "none" ELSE @]
        /\ bk' = [bk EXCEPT ![b].rc = "IOERR"]
  /\ dst' = [dst EXCEPT ![b].at = "idle", ![b].close = FALSE]
  /\ UNCHANGED sc

(***************************************************************************)
(* The end of the last step: the destination's transaction is committed.   *)
(* at is what comes next:                                                  *)
(*   commit   sqlite3PagerCommitPhaseOne()                                 *)
(*   extra    pages beside the destination's pending byte, by OsWrite()    *)
(*   cut      backupTruncateFile()                                         *)
(*   sync     sqlite3PagerSync(), by the backup or by PhaseOne             *)
(*   final    the journal is deleted                                       *)
(*   trunc    pager_truncate() in pager_end_transaction(), and the return  *)
(* extra and cut are for a source with smaller pages only.                 *)
(***************************************************************************)
nSrcPage == Len(src.view)
iSize    == sc.srcSz * nSrcPage
Smaller  == sc.srcSz < sc.destSz
Upto(f, n) == SubSeq(f, 1, Min({n, Len(f)}))

nDestTruncate ==
  IF Smaller
  THEN LET ratio == sc.destSz \div sc.srcSz
           n     == (nSrcPage + ratio - 1) \div ratio IN
       IF n = DestPending THEN n - 1 ELSE n
  ELSE nSrcPage * (sc.srcSz \div sc.destSz)

\* pager_write_pagelist() on the destination.
WriteDirty(d) ==
  LET out == {p \in d.dirty : p * sc.destSz <= Len(d.img)}
      len == Max({Len(d.file)} \cup {p * sc.destSz : p \in out}) IN
  [d EXCEPT !.file = [u \in 1 .. len |->
                        IF PageOf(u, sc.destSz) \in out THEN d.img[u]
                        ELSE IF u <= Len(@) THEN @[u] ELSE Zero]]

\* Mutant: the pages the truncation destroys are not journalled.
CommitPhaseOne_NoTail(b) ==
  /\ dst[b].at = "commit"
  /\ dst' = [dst EXCEPT ![b] =
       IF Smaller THEN [WriteDirty(@) EXCEPT !.at = "extra"]
       ELSE [WriteDirty([@ EXCEPT !.img = Upto(@, nDestTruncate * sc.destSz)])
               EXCEPT !.at = "sync"]]
  /\ UNCHANGED <<sc, src, bk, faulty>>

\* A destination with larger pages keeps its size for now, and what the
\* truncation will destroy goes into the journal.
CommitPhaseOne(b) ==
  LET d    == dst[b]
      tail == (nDestTruncate .. Len(d.img) \div sc.destSz) \ {DestPending} IN
  /\ d.at = "commit"
  /\ dst' = [dst EXCEPT ![b] =
       IF Smaller
       THEN [WriteDirty(PagerWrite(d, tail)) EXCEPT !.at = "extra"]
       ELSE [WriteDirty([d EXCEPT !.img = Upto(@, nDestTruncate * sc.destSz)])
               EXCEPT !.at = "sync"]]
  /\ UNCHANGED <<sc, src, bk, faulty>>

WriteExtra(b) ==
  LET iEnd == Min({PendingByte + sc.destSz, iSize})
      out  == PendingByte + sc.srcSz + 1 .. iEnd IN
  /\ dst[b].at = "extra"
  /\ dst' = [dst EXCEPT ![b].at = "cut",
       ![b].file = [u \in 1 .. Max({Len(@)} \cup out) |->
                      IF u \in out THEN Unit(src.view, u)
                      ELSE IF u <= Len(@) THEN @[u] ELSE Zero]]
  /\ UNCHANGED <<sc, src, bk, faulty>>

backupTruncateFile(b) ==
  /\ dst[b].at = "cut"
  /\ dst' = [dst EXCEPT ![b].at = "sync", ![b].file = Upto(@, iSize)]
  /\ UNCHANGED <<sc, src, bk, faulty>>

PagerSync(b) ==
  /\ dst[b].at = "sync"
  /\ dst' = [dst EXCEPT ![b].at = "final", ![b].disk = dst[b].file]
  /\ UNCHANGED <<sc, src, bk, faulty>>

DeleteJournal(b) ==
  /\ dst[b].at = "final"
  /\ dst' = [dst EXCEPT ![b].at = "trunc", ![b].journal = {}, ![b].dirty = {},
                         ![b].copied = src.seen]
  /\ UNCHANGED <<sc, src, bk, faulty>>

StepDone(b) ==
  /\ dst[b].at = "trunc"
  /\ dst' = [dst EXCEPT ![b].at = "idle", ![b].close = FALSE,
                         ![b].file = IF Smaller THEN @
                                     ELSE Upto(@, Len(dst[b].img))]
  /\ bk' = [bk EXCEPT ![b].rc = "DONE"]
  /\ src' = [src EXCEPT !.trans = IF dst[b].close THEN "none" ELSE @]
  /\ UNCHANGED <<sc, faulty>>

\* What the playback of the destination's journal makes of file f; there is a
\* journal from the first page written to the end of the commit.
Restored(d, f) ==
  IF d.dirty = {} THEN f
  ELSE [u \in 1 .. Len(d.orig) |->
          IF PageOf(u, sc.destSz) \in d.journal THEN d.orig[u]
          ELSE IF u <= Len(f) THEN f[u] ELSE Zero]

Closed(d, f) == [d EXCEPT !.file = f, !.disk = f, !.img = f, !.dirty = {},
                          !.journal = {}, !.at = "idle", !.close = FALSE]

\* sqlite3_backup_finish(), at any time: what is not committed is rolled back.
BackupFinish(b) ==
  /\ bk[b].state = "open" /\ ~InCall
  /\ bk' = [bk EXCEPT ![b].state = "closed", ![b].isAttached = FALSE]
  /\ dst' = [dst EXCEPT ![b] = Closed(@, Restored(@, @.file))]
  /\ UNCHANGED <<sc, src, faulty>>

\* The power fails: of what was written since the last sync any part is lost,
\* and the file may have its old or its new length.
Unsynced(d) == {u \in 1 .. Max({Len(d.file), Len(d.disk)}) :
                  \/ u > Min({Len(d.file), Len(d.disk)})
                  \/ d.file[u] # d.disk[u]}
AfterLoss(d, kept, long) ==
  [u \in 1 .. (IF long THEN Len(d.file) ELSE Len(d.disk)) |->
     IF u \in kept /\ u <= Len(d.file) THEN d.file[u]
     ELSE IF u <= Len(d.disk) THEN d.disk[u] ELSE Zero]

\* The next reader of a destination with a journal plays it back.
PowerLoss ==
  /\ faulty /\ faulty' = FALSE
  /\ \E b \in Bk : bk[b].state = "open"
  /\ \E kept \in SUBSET UNION {Unsynced(dst[b]) : b \in Bk}, long \in BOOLEAN :
       dst' = [b \in Bk |->
                 IF bk[b].state = "open"
                 THEN Closed(dst[b], Restored(dst[b], AfterLoss(dst[b], kept, long)))
                 ELSE dst[b]]
  /\ bk' = [b \in Bk |-> IF bk[b].state = "open"
                           THEN [bk[b] EXCEPT !.state = "closed",
                                              !.isAttached = FALSE]
                           ELSE bk[b]]
  /\ src' = Idle(pager_reset.s)
  /\ UNCHANGED sc

(***************************************************************************)
(* The specification.                                                      *)
(***************************************************************************)
Source == \/ BeginRead \/ EndRead \/ BeginWrite \/ Change \/ Spill
          \/ Commit \/ Rollback \/ SourceFails \/ ExternalCommit

CommitStep(b) == \/ CommitPhaseOne(b) \/ WriteExtra(b)
                 \/ backupTruncateFile(b) \/ PagerSync(b)
                 \/ DeleteJournal(b) \/ StepDone(b)

Next ==
  \/ Source
  \/ \E b \in Bk :
       \/ BackupInit(b) \/ DestReader(b) \/ DestReaderLeaves(b)
       \/ StepBusy(b) \/ StepDestBusy(b)
       \/ \E n \in sc.steps : StepCopy(b, n)
       \/ StepFails(b) \/ CommitStep(b) \/ BackupFinish(b)
  \/ PowerLoss

\* A transaction of the source ends, readers of the destination leave, and
\* the application calls backup_step() until it is told to stop.
Fairness ==
  /\ WF_vars(Commit \/ Rollback)
  /\ \A b \in Bk : /\ WF_vars(DestReaderLeaves(b))
                    /\ WF_vars(\E n \in sc.steps \ {0} : StepCopy(b, n))
                    /\ WF_vars(CommitStep(b))

Spec == Init /\ [][Next]_vars /\ Fairness

(***************************************************************************)
(* Properties.                                                             *)
(***************************************************************************)
Version == 0 .. Old
Content == Version \X Nat
Image   == Seq(Content)

\* The fields hold what the C structures could; in particular iNext never
\* runs more than one page past what the source may have.
TypeOK ==
  /\ sc \in Scenarios
  /\ src \in [hist : Seq(Image), view : Image, seen : 1 .. Len(src.hist),
              trans : {"none", "read", "write"}, txn : 0 .. MaxTxn,
              dirty : SUBSET (1 .. sc.maxPage), journal : SUBSET (1 .. sc.maxPage),
              synced : SUBSET src.journal, spilled : BOOLEAN]
  /\ bk \in [Bk -> [state : {"none", "open", "closed"},
                    iNext : 1 .. sc.maxPage + 1,
                    rc : {"OK", "BUSY", "IOERR", "DONE"},
                    bDestLocked : BOOLEAN, isAttached : BOOLEAN]]
  /\ \A b \in Bk :
       /\ dst[b].dirty \subseteq (1 .. 2 * sc.maxPage) \cup (1 .. sc.nDest)
       /\ dst[b].journal \subseteq 1 .. sc.nDest
       /\ dst[b].reader \in {"new", "on", "left"}
       /\ dst[b].at \in {"idle", "commit", "extra", "cut", "sync", "final", "trunc"}
       /\ dst[b].copied \in 0 .. Len(src.hist)
  /\ faulty \in BOOLEAN

\* What the pager has written out of the pages a backup has copied is in
\* its destination: no change of a page is missed, in a commit, a rollback,
\* a spill, or a change by somebody else (backupUpdate, backup.c:684).
CopiedPagesCurrent ==
  \A b \in Attached :
    ~isFatalError(bk[b].rc) =>
      \A p \in Used(src.view) \ src.dirty : p < bk[b].iNext =>
        \A u \in Units(p, sc.srcSz) :
          PageOf(u, sc.destSz) # DestPending =>
            dst[b].img[u][1] = Unit(src.view, u)[1]

TransOpen(b) == bk[b].state = "open" /\ bk[b].bDestLocked /\ bk[b].rc # "DONE"

\* Whoever can read the destination finds what was there before or, from
\* the moment its journal is deleted, exactly one image the source
\* committed, with its size: whatever was written to the source between the
\* steps, whatever fails, and whatever the two page sizes are.
DestOldOrCopy ==
  \A b \in Bk : ~TransOpen(b) =>
    LET d == dst[b] IN
    IF d.copied = 0
    THEN /\ Len(d.file) = Len(d.orig)
         /\ \A u \in DOMAIN d.orig :
              PageOf(u, sc.destSz) # DestPending => d.file[u] = d.orig[u]
    ELSE LET img == src.hist[d.copied] IN
         /\ Len(d.file) >= sc.srcSz * Len(img)
         /\ bk[b].state = "open" => Len(d.file) = sc.srcSz * Len(img)
         /\ \A p \in Used(img) : \A u \in Units(p, sc.srcSz) :
              d.file[u][1] = Unit(img, u)[1]

\* The header of a finished copy claims the pages it has: the change counter
\* the commit writes makes every later reader believe it.
DestHeaderCounts ==
  \A b \in Bk : ~TransOpen(b) /\ dst[b].copied # 0 =>
    dst[b].file[1][2] = Len(src.hist[dst[b].copied])

\* A backup is only restarted so often as the source is changed by others: it
\* ends when the application goes on calling backup_step().
BackupFinishes ==
  \A b \in Bk : bk[b].state = "open" ~>
                  (isFatalError(bk[b].rc) \/ bk[b].state # "open")

=============================================================================
