# A TLA+ verification of SQLite's transaction core

The repository holds the sources of SQLite 3.21.0
(`src/sqlite_src_doc/source_code/`), their documentation
(`src/sqlite_src_doc/doc/`) and the generated amalgamation (`src/sqlite3/`).
This project models the part of SQLite whose correctness depends on
interleavings, crashes and the order of I/O: file locking, the rollback
journal, the write-ahead log, the wal-index and its shared memory, the locks of
a shared cache with unlock-notify, and the online backup. All source
names below are files of `src/sqlite_src_doc/source_code/src/`. The exact
lines that each definition translates are under `map` in `PROJECT.json`.

## 1. The system

### Components, their state and their operations

| component | state | operations | hard because |
|---|---|---|---|
| posix locks (`os_unix.c`) | per handle `eFileLock`; per process and inode `eFileLock`, `nShared`, `nLock`, `pUnused`; three posix lock ranges per process | `unixOpen`, `unixLock`, `posixUnlock`, `unixCheckReservedLock`, `unixClose` | posix locks belong to the process, die with any `close()`, are taken one `fcntl()` at a time, and any call may fail |
| shared memory (`os_unix.c`) | `unixShmNode` per process (descriptor, `nRef`, `pFirst`), `sharedMask`/`exclMask` per connection, lock bytes and dead-man switch | `unixOpenSharedMemory`, `unixShmLock`, `unixShmUnmap`, `unixShmPurge` | first and last users race; siblings share posix locks; processes die |
| rollback journal (`pager.c`) | `Pager` (eState, cache, dirty pages, journal offsets), database file, journal file | shared lock with hot-journal recovery, read, begin, write, spill, commit phases one and two, rollback | crash at any write, unsynced data, stale journals, failing calls |
| log file (`wal.c`) | header, frames, salts, cumulative checksums, `iReCksum` | `sqlite3WalFrames`, savepoint undo, checkpoint, restart, close, recovery | overwritten frames, partial writes, power loss |
| wal-index protocol (`wal.c`) | two header copies, `nBackfill`, `aReadMark`, page index, lock slots | read, write, checkpoint in four modes, restart, recovery | everything is read and written without a common lock; processes die in the middle |
| savepoints in rollback mode (`pager.c`, `memjournal.c`) | sub-journal, `PagerSavepoint` | open, release, rollback to | main journal and sub-journal played back together |
| multi-file commit (`vdbeaux.c`, `pager.c`) | master journal | `vdbeCommit`, `pager_delmaster` | crash between two files |
| shared cache (`btree.c`) | `BtShared`: `pLock`, `pWriter`, `nTransaction`, `BTS_EXCLUSIVE`, `BTS_PENDING`; `inTrans` per connection | begin, lock a table, downgrade, end a transaction | locks of one connection are given up on many paths; new transactions must be held back, but not for ever |
| unlock-notify (`notify.c`) | `pBlockingConnection`, `pUnlockConnection`, `sqlite3BlockedList` | blocked, register, cancel, unlocked, closed | lost wake-ups, connections waiting in a circle |
| online backup (`backup.c`) | `iNext`, `rc`, `bDestLocked`, list of backups of the source | init, step, finish; update and restart callbacks | the source is written between two steps; page sizes differ; the commit of the copy is several writes |
| mutex order (`btmutex.c`) | `wantToLock`, `locked` per `Btree` | `sqlite3BtreeEnter`, `sqlite3BtreeLeave` | several mutexes taken by one thread |
| page cache (`pcache.c`, `pcache1.c`) | dirty list, LRU, groups | fetch, unpin, purge | limits shared by several caches |
| b-tree, VDBE, SQL compiler, functions, shell, extensions | – | – | mostly sequential; see section 7 |

### How they interact

```
   SQL / VDBE / b-tree
          |
        pager -------- rollback mode: Pager      WAL mode: WalLog, WalIndex
          |                         |                          |
   xLock, xUnlock, xCheckReservedLock                xShmLock, xShmUnmap
          |  contract: FileLock                         |  contract: WalLocks
        UnixLock  (os_unix.c)                        ShmLock  (os_unix.c)
```

`SharedCache` sits above the pager: connections of one process that share a
b-tree never meet at the file lock, only at its table locks. `Backup` sits
beside it: the pager of the source calls it whenever it writes a page out
(`sqlite3BackupUpdate`) and whenever it drops its cache (`sqlite3BackupRestart`).

The pager sees the VFS through two contracts. Each is a module of its own:
`FileLock` for the lock on the database file and `WalLocks` for the locks on
the wal-index. `UnixLock` and `ShmLock` are shown to implement them. `Pager`
uses the actions of `FileLock` directly. `WalIndex` states the same exclusion as
`WalLocks` through the lock fields of its connections, and therefore needs only
connections in processes of their own.

### Correctness, component by component

* posix locks: EXCLUSIVE excludes everybody, one writer, a level is always
  backed by posix locks, a RESERVED lock is always seen, a waiting writer gets
  on.
* shared memory: a lock byte excludes across siblings and processes, nobody's
  memory is wiped or replaced.
* rollback journal: readers see the last commit, caches are current, at every
  moment the journal restores the last commit; a transaction finds its own
  changes, or what a savepoint left of them.
* log file: recovery finds a committed image no older than what was promised;
  the live header equals what recovery would build; a transaction reads what it
  wrote.
* wal-index: snapshot isolation, no commit lost by checkpoints or restarts,
  current caches.
* shared cache: a transaction sees no table change under it; `BTS_PENDING` and
  `BTS_EXCLUSIVE` go when their reason goes.
* unlock-notify: whoever is named as a blocker will still call back, the list
  of blocked connections is exact, nobody waits in a circle, threads get to
  their end.
* online backup: pages already copied stay current; the destination is what it
  was or exactly one committed image, also after a power loss; a backup ends.

## 2. Modules

| module | models | refined / used by |
|---|---|---|
| `LockLevels` | the five lock levels of `os.h` | all file-lock modules |
| `FileLock` | abstract: what a VFS promises about the file lock | `UnixLock` (refinement), `Pager` (uses its actions) |
| `UnixLock` | `unixOpen`, `unixLock`, `posixUnlock`, `unixCheckReservedLock`, `unixClose`, process death | `MCUnixLock`, `UnixLockProofs` |
| `WalLocks` | abstract: what `xShmLock` promises | `ShmLock` (refinement) |
| `ShmLock` | opening, locking, closing and deleting the `-shm` file | `MCShmLock`, `ShmLockProofs` |
| `Pager` | `pager.c` in rollback mode, with savepoints | `MCPager`, `PagerProofs` |
| `WalLog` | the log file, one connection | `MCWalLog`, `WalLogProofs` |
| `WalIndex` | the wal-index protocol, several connections | `MCWalIndex`, `WalIndexProofs` |
| `SharedCache` | table locks and transactions of one `BtShared`, all of `notify.c`, `sqlite3_blocking_step()` | `MCSharedCache`, `SharedCacheProofs` |
| `Backup` | `backup.c`, the calls the source pager makes of it, the commit of the destination | `MCBackup`, `BackupProofs` |

`BoundedSets` holds facts about finite sets of naturals (least and largest element,
positions) that the proofs share; it models nothing.

`Pager`, `WalLog`, `WalIndex` and `Backup` choose a *scenario* at the start:
a record with the way the connections are used and the bounds of that use. A
run checks its properties in several scenarios.

A definition named `X_Y` with the comment "Mutant" is `X` with a plausible
mistake. It is in no specification; it exists to show that a property notices
the mistake.

### UnixLock and FileLock

One database file, any handles (`File`) in any processes (`ProcOf`). The three
byte ranges are per process, as in the kernel. Every `fcntl()` is a step;
handles of one process exclude each other by `unixEnterMutex()`, and the
assignment of `pFile->eFileLock` after `posixUnlock` left the mutex is a step
too (labels `ret0`, `ret1`). `Held(f)` is the level the holder may rely on,
which the field overstates during those labels. With `IoErr` every `fcntl()`
may fail: the error paths keep what the code keeps (`rdFail`, a close after a
failed unlock that leaves the handle counted).

`FileLock` says which transitions of one handle's level are possible given
the others. It records two facts that the table of `os.h` does not: a sibling of a
reader may pass by a PENDING lock of another process, and a handle that goes
from SHARED directly to EXCLUSIVE is not `reserved`, which hot-journal detection
relies on.

### ShmLock and WalLocks

Each process has at most one `unixShmNode` (`h`, `refs`, `pFirst`) and each
connection its masks. Steps are cut at the `fcntl()` calls of
`unixLockSharedMemory` (write-lock the dead-man switch, truncate, read-lock it),
between counting in `nRef` and linking into `pFirst`, and between unlinking,
`unlink()` and `unixShmPurge`. The lock on the database file that the pager
holds meanwhile (`dbLock`) is the contract of `FileLock` with SHARED and EXCLUSIVE
only. `unlink()` makes a new inode the file of the name, so old and new files
can coexist.

### Pager

A connection is a process of its own with a `Pager` object (`con[c]`). Page 1
stands for the change counter; every other page holds the number of the
transaction that wrote it. The journal is a sequence of slots, each a header
`[magic, nRec, ck, orig]` or a record `[pgno, data, ck]`. `Slots` is the walk of
`pager_playback` over headers and records, including the rule for a header
whose count is not yet written.

Each write to a file is one step; a sync is part of the step of the next
write. `db`, `jrn` are what `read()` returns; `dbDisk[p]`, `jdisk[s]` are the
values the disk may hold, `jold` the deleted or truncated journals that may be
back and `jnone` whether the name may be missing. `unixSync` of a file opened with
CREATE syncs the directory (`SyncNames`).

Savepoints (of `SAVEPOINT` and of statements) are entries of `aSavepoint`, the
sub-journal is `sub`, which is private to the process. `RollbackTo` computes what
`pagerPlaybackSavepoint` plays back (`SavepointSlots`, `Undo`) and the records are then
played one by one (`undo`), into the cache and, where the original page is known to be
synced, into the file. `view` is the database as the transaction is to see it: what
was committed and its own changes. The b-tree layer goes by its size (it is in the
header of page 1), a commit makes it the `image`. A file may be longer than the image after
a savepoint undid spilled pages; `TruncateDb` cuts it after the commit.

Abstractions:
* A page or a journal record reaches the disk whole or not at all. The pager
  defends against torn records by checksum alone in NORMAL mode, with a
  documented residual risk; so power losses are explored with
  `synchronous=FULL` only.
* A truncation is ordered before later writes to the same file.
* `cksumInit` never repeats.
* The database is never empty, and grows by whole pages at its end.
* Page 1 is read first and stays referenced, as the b-tree layer does. A page
  that was spilled leaves the cache.
* The PENDING lock of a refused hot-journal rollback is given up in the step of
  the refusal (`HotBusy`).
* After a power loss that brings back a deleted journal, `image` is the image
  that journal restores: without `extraSync` the last commit may then be undone
  as a whole, which is what `synchronous=FULL` promises in DELETE mode.
* The records of a segment never end exactly where the next header starts, so
  the two uses of `journalHdr` do not meet (see section 6).

### WalLog

One connection, alone. A checksum is the sequence of everything it covers, so
two histories never collide; salts never repeat. Page contents do not repeat
outside the savepoint scenario. Overwrites of frames of the open transaction,
`iReCksum` and `walRewriteChecksums` (one step) are included. A power loss keeps,
for every slot or page, any value since the last sync or a torn one. Left
out: sector padding (powersafe overwrite is assumed), database growth and
shrinkage, I/O errors, read-only logs, nested savepoints.

### WalIndex

Each connection is a process. A header copy is read or written in one step,
the two copies in different ones; `nBackfill`, each read mark and each frame
of a checkpoint are steps too. A transaction's frames are appended in one step
(their detail is `WalLog`'s). Checkpoints start from an idle connection after its
first read. The busy handler gives up at once. `SQLITE_PROTOCOL` may follow any
retry. The checkpoint iterator fixes the order of frames when it is
built and reads `aPgno` again when it uses an entry, as `walIteratorNext` does.
Left out: snapshots, read-only shared memory, exclusive locking mode, the close of
the last connection (`WalLog` has it).

### SharedCache

One `BtShared` (`bt`) and the connections that share it. A `sqlite3_step()`
holds the mutex of the `BtShared` from `sqlite3VdbeEnter()` to its end, so a
statement that begins a transaction, locks its table and fails or halts is one
action; COMMIT, ROLLBACK, `sqlite3_reset()` and `sqlite3_close()` call
`sqlite3ConnectionUnlocked()` after the mutex is dropped, so these are two
(phases `unlock`, `abortunlock`, `close`). `un` is the state of `notify.c`. An
application that gets SQLITE_LOCKED does what `sqlite3_blocking_step()` of
`test_thread.c` does, or cancels, or gives up.

`seen`, `dirty` and `nested` are observations: what an open transaction knows of a
table, who has uncommitted changes to it, and whether an autocommit statement
ever began while another of its connection was under way. They guard nothing.

Abstractions: a statement uses one table beside `sqlite_master`; all connections
register the same callback; the file lock (SQLITE_BUSY) is left to `UnixLock` and
`Pager`. With one `BtShared` a connection waits for at most one other, and only
circles of two occur; longer ones need several shared caches.

### Backup

Files are sequences of units, the smaller of the two page sizes, so that pages
of either side are one or two units. A unit holds the number of the transaction
that wrote it, the first one also the page count of the header. The page at
`PendingByte` is skipped on both sides, each with its own page size.

Of the source pager only what `backup.c` can notice is kept: the image in its cache,
which of its pages are dirty, journaled or spilled, and the calls of
`sqlite3BackupUpdate` and `sqlite3BackupRestart`, with a spill, a commit, a rollback, a
failed call, and a change by another process that the next shared lock finds. The
commit of the destination is step by step (`CommitPhaseOne`, `WriteExtra` past
the last page when its pages are larger, `backupTruncateFile`, `PagerSync`,
`DeleteJournal`), each of which may fail or be followed by a power loss that
keeps any of the unsynced writes; recovery plays the journal back (`Restored`).
`hist` records every committed image of the source, `copied` which of them the
destination took.

## 3. Runs

All runs check for deadlock. Sizes are distinct states.

| run | question | instance |
|---|---|---|
| `unixlock_safety` | do lock levels keep their meaning, and stay backed, with every interleaving of `fcntl()` calls any of which may fail? | 2 handles in one process, 1 in another, I/O errors |
| `unixlock_live` | does `UnixLock` implement `FileLock`, and does a PENDING writer get on against single-handle readers? | the same handles, no I/O errors, fairness; 21,755 states |
| `wallog` | does recovery find what was promised after crashes and power losses? | 2 pages, 3 frames, 2 commits; FULL with one failure, NORMAL with size limit and one failure, the same with two failures after 2 writes, savepoints without failures; 1.4 million states |
| `wallog_recksum` | the savepoint scenario with 3 pages | **violated** |
| `wallog_header` | three commits, and two power losses with FULL; the action constraint `TornHeader` keeps to behaviours in which the first loss tears the header of a restarted log and the second strikes among frames | **violated** |
| `walindex` | does a snapshot stay as it was, does any step of another touch what an open transaction reads (`SnapshotStable`), does every commit survive, are caches dropped in time? | 2 connections, 2 read locks. A reader beside a connection that checkpoints (PASSIVE, RESTART, TRUNCATE) and restarts the log; two that both read, write and checkpoint (FULL), and two that write three transactions; a process that dies at any step of a checkpoint or a commit; 1.4 million states |
| `walindex_reset` | a checkpoint by another connection that looked at the header before a restart | **violated** |
| `shmlock` | exclusion, backing, dead-man switch, one memory, implementation of `WalLocks` | 2 processes with 2 connections each, 2 locks, 3 inodes; 35,144 states |
| `pager` | readers see the last commit, caches are current, the journal restores the last commit at all times | one connection with spills and two failures (errors, crashes, power losses), three journal modes; one with savepoints and spills, 4 writes or savepoints without a failure and 3 with a power loss; two connections with one crash or error; 2 pages growing to 3, 2 transactions; 1.2 million states |
| `sharedcache` | isolation, life of the flags (`FlagsJustified`) and of the blocked list, no waiting in a circle, programs end | 3 connections with 2, 1 and 1 statements, or 2 with 3 and 2; `sqlite_master` and one table; c3 has `read_uncommitted`; 179,862 states |
| `sharedcache_nested` | do programs end that keep a SELECT open in autocommit mode and write meanwhile? | 2 connections, 2 statements each; **violated** |
| `backup` | is the destination the old file or one committed image, and does the backup end? | source in DELETE, WAL and MEMORY mode; page sizes 1:1, 1:2 and 2:1 around the pending byte; two backups of one source; a source written by an old library; one failure or power loss; 132,343 states |

### Why the bounds suffice for the cases that matter

* Two handles in one process and one in another are the least that have both a
  sibling and a foreigner. More of either kind is covered by the theorems.
* Three frames and two pages hold a transaction that overwrites a page twice and a second
  transaction behind it. Two salts are one restart. TRUNCATE is run with one
  frame: it is a restart that also resets the file.
* `nReader` is 2 instead of 5: besides the read lock of a log that was wholly
  backfilled there is one other, so connections have to share or move it, which
  with 5 would need five connections.
* `maxSalt = 1` in the scenarios with two writers and with a crash excludes a
  restart of the log; where it is restarted, the connection that does so is the
  one that checkpoints. The two combinations left are known to fail: another
  checkpointer (`walindex_reset`) and a death during a restart (section 6). Section 5
  proves that nothing else can break `SnapshotIsolation` and `CommitsSurvive`.
* In `Pager` two transactions are what a stale journal needs, two failures
  what a failure during recovery needs. One page more than at the start is
  what a truncation at rollback needs. Spills are explored with one
  connection, since the cache of one does not touch the locks of another beyond what
  a commit does. Four writes or savepoints are a savepoint inside another with a
  change in each, and spills between any two; without a failure `CrashRecovers` still asks
  at every step what a crash would leave (5 of them were checked in a longer run).
* In `SharedCache` two connections are what a circle needs, and the third comes
  into the middle of it, or is held back by `BTS_PENDING`. Three statements of one
  connection allow a SELECT left open, a write beside it, and what follows.
* In `Backup` the pending byte lies in the third unit, so that it is inside, at
  the edge of, or beyond the files as they grow to 4 or 5 pages and shrink. Steps of one
  page put every change between every two pages; a step of 9 is the whole file, and a
  step of 0 copies nothing.
* `Pager.cfg` and `WalIndex.cfg` use symmetry between connections; their
  sets of scenarios do not tell connections apart (where one connection has a
  role, each of them has it in some scenario). What they check is symmetric too:
  invariants, and in `WalIndex.cfg` one action property about all connections; no liveness.

### Fairness

* `UnixLock`, `LiveSpec`: weak fairness for the steps inside a call (a running
  process executes its code), strong fairness for the end of reading and
  reserving transactions (applications end them, and the mutex of the process
  is granted again and again), and strong fairness for the retry of a PENDING
  writer (its busy handler calls `unixLock` again).
* `SharedCache`, `Spec`: weak fairness for `Proceed(c)`, whatever the thread of
  c does next of its own accord; a thread with a registered callback waits and
  is promised nothing. What a thread does is its own choice, but the number of its
  statements is bounded.
* `Backup`, `Spec`: transactions of the source end, readers of the destination
  leave, and the application calls `sqlite3_backup_step()` again until it is told
  to stop. Nothing is assumed of who changes the source.

## 4. What the code does otherwise than it says

Four runs end in a counterexample; `findings` in `PROJECT.json` quotes the text.

1. `wallog_recksum`: `sqlite3WalSavepointUndo` leaves `iReCksum` as it was.
   After a spill, an overwrite, a ROLLBACK TO and further spills, a synced
   commit is not found by recovery.
2. `wallog_header`: `walIndexRecover` takes `nCkpt` and the salts from a header before it
   verifies the header's checksum. If power fails while the header of a restarted log is
   written, from its end (`atomiccommit.in:74`: a sector write is linear, but not atomic),
   the new checksum stands after the old salts. The header is rejected, its salts are kept,
   and since `nCkpt` is not 0 the next transaction draws no new ones: it writes the *old* header
   again, under which all old frames are valid. A second power loss, in a transaction of
   two frames of which the first is not on the disk, leaves an old commit frame at the start of the log.
   Recovery replays it over a database that is ahead of it: a synced commit is lost.
   In the scenarios of the run `wallog` the failures and writes do not suffice for
   that, so `PowerLossDurable` holds there; section 5 says which theorem covers the rest.
3. `walindex_reset`: `walCheckpoint` trusts a header it copied before a restart
   of the log, and then records as backfilled frames it never copied. A later
   restart overwrites a committed transaction.
4. `sharedcache_nested`: `sqlite3VdbeHalt` takes the halt of any autocommit
   statement for the end of the connection's transaction, also when another
   SELECT of the connection goes on and keeps its locks. Two connections that
   each hold a SELECT open and retry a blocked write call each other back for
   ever, and the deadlock test never sees both registrations. Programs that
   run one autocommit statement at a time are not affected
   (`UnnestedProgramsFinish`).
The counterexamples of 2 and 4 were replayed as small C programs, which behave as the traces
say: the first with copies of the files put together from what two power losses may leave,
against `src/sqlite3/sqlite3.c`, the other against a build of these sources.

## 5. Proofs

TLAPS proves safety properties of seven modules for every value of their constants: all
processes, handles, connections, tables, pages and scenarios. In each, `IInv` is an
inductive invariant with one lemma per action, and the properties the runs check follow
from it. The scenarios of a module are a constant as well, so a theorem about `WalIndex`
says the same of combinations no run explores.

**UnixLockProofs** (`UnixLockInvariant`, `UnixLockTypeOK`, `UnixLockExclusion`,
`UnixLockOneWriter`, `UnixLockBacked`, `UnixLockReservedVisible`).
Assumption: `UnixLockAssumption` (each handle has a process, handles are
finitely many). `ExclusiveExcludesAll` is not inductive: that a level is backed by posix
locks depends on the counts, the counts on who is in the middle of a call, and
this on the mutex. `IInv` adds these: at most one handle of a process inside the
mutex (`MutexOK`), what each label implies (`HandleOK`), what the inode's level
and counts imply about the posix locks (`InodeOK`), the compatibility of posix
locks between processes (`PosixOK`), `nShared` at least the number of readers
(`CountOK`; not equal, since a handle closed after a failed unlock stays
counted), and that the writer's level is the inode's (`WriterOK`). There is one lemma
per action; `CountStep` treats the cardinalities once for all of them.
`SafetyFromIInv` derives the safety properties.

The refinement is in the same module (`UnixLockExact`, `UnixLockImplements`, `UnixLockParked`): every
step of `UnixLock` without I/O errors is a step of `FileLock`, the contract that `Pager`
uses, or changes no level. Where `FileLock` asks that nobody else reads or writes, `UnixLock` has
counters and posix locks, and `IInv` only says that `nShared` is *at least* the number of readers. So
`ExactInv` adds what holds while no call fails: the count is exact, the reserved byte is
held only for a handle above SHARED that says so, and a closed handle is not counted. It is inductive
relative to `IInv`; with I/O errors it is false (`rdFail`), and `ImplementsFileLock` is
claimed only without them. `UnixLockParked` holds with and without.

**ShmLockProofs** (`ShmLockInvariant`, `ShmLockTypeOK`, `ShmLockExclusion`, `ShmLockBacked`,
`ShmLockMemoryKept`, `ShmLockOneMemory`, `ShmLockImplements`). Assumption:
`ShmLockAssumption`. Exclusion between processes rests on posix locks of the
*same* file. So `IInv` contains that connected processes have the file of the
name open (`FileInv`, `NodeInv`), that deletion happens only under an EXCLUSIVE
database lock (`DbInv`), the meaning of the program counters (`PcInv`), the
dead-man switch (`PosixInv`) and masks only while connected (`MaskInv`).
`StepSimulation` shows that each step is a step of `WalLocks` or changes no
mask; `ShmLockImplements` is the refinement theorem that justifies treating
connections of `WalIndex` as processes.

**SharedCacheProofs** (`SharedCacheInvariant`, `SharedCacheTypeOK`, `SharedCacheIsolation`,
`SharedCacheFlagsJustified`, `SharedCacheBlockersLive`, `SharedCacheWaitsAcyclic`,
`SharedCacheBlockedListExact`): all six safety properties of the run, for any connections, tables and
programs. `Isolation` compares what a transaction saw with what the table holds
now. For it one must know that table locks are held only within a transaction, that `nTransaction`
counts the open ones, that a write lock on a table excludes every other lock, and that uncommitted
changes stand only under such a lock. `BlockersLive` needs the same facts: a
connection that is named as a blocker is in a transaction, or in the phase
before its call to `sqlite3ConnectionUnlocked()`. The list of `notify.c` is
exact because every path that clears both pointers of a connection removes it, and only those do.
`Together` puts these parts into one formula that each step lemma
re-establishes after the mutex is dropped. `KeptFacts`, `InsertFacts` and `ListExactFacts` are the
lemmas about lists, `AcyclicGrows` says why the deadlock test of
`sqlite3_unlock_notify()` suffices: a chain that does not come back to the caller may
be extended by it.

**WalLogProofs** (`InvHolds`, `TypeCorrect`, `CommitsSurviveCrash`, `CommitsSurvivePowerLoss`,
`LiveHeaderRecovers`, `TransactionReadsItself`): all five properties of the run, for any pages,
frames, writes, commits, salts and scenarios, and any number of process crashes and power losses, each of
which may come in the middle of a recovery from the one before. Each theorem has two hypotheses, and
each of them excludes what a run shows to fail:

* `~sc.savepoints`: the application opens no savepoint. With them `CommitsDurable` is false (`wallog_recksum`).
* `[]~RevivedLog`: no power loss leaves a torn header whose counter and salts are still
  those of whole old frames. Where this happens `PowerLossDurable` is false (`wallog_header`). `RevivedLog`
  speaks of the log file alone; all other torn headers, frames and pages are covered, and so is every
  crash of a process.

What makes these properties hard to carry from step to step is that a crash uncovers old
content: the frames recovery accepts need not be those the log shows now. So the invariant speaks of
every frame a slot may turn out to hold (`Known(i)`: what is there, was there at the last
sync, or was written since). Such a commit frame is either in the valid prefix, or
`Dead`: a frame before it that its checksum covers is no longer held by any file the
disk may show (`Classified`). `StaleInv` keeps this true while an open transaction
overwrites the frames after the last commit one at a time: a checksum covers contents, and a page that
is written has a value no earlier frame has (`FreshInv`). `LogInv` says
what each prefix shows: some prefix is on the disk, whatever the database file on the disk lacks is in it, and
every commit frame from there on shows one image of `hist`, the last one the latest commit. Without frames
(`DbInv`) the database file alone is that image, synced, and what may be left of former logs
is dead under the next header or says nothing new (`Retired`: the log was backfilled completely
before it was restarted or truncated). `LiveInv` ties this to the header in memory, `EndInv` and `ChainInv`
say where the open transaction ends, which of its frames await new checksums (`iReCksum`) and that
those before it are valid, `PagerInv` and `ListInv` that each page is dirty, in the list of the call, or in the
log. There is one lemma per action, and `PowerLossStep` for the choice of survivors. All conjuncts were
checked by TLC in the scenarios of `WalLog.cfg` first; the search for the invariant of power losses is what led
to the run `wallog_header`.

**WalIndexProofs** (`WalIndexInvariant`, `WalIndexTypeOK`, `WalIndexSnapshotStable`): in every
scenario, whoever writes, checkpoints in any mode, restarts, truncates or recovers,
and wherever it dies, no step changes a frame that an open transaction reads, or the
database file below one that reads it alone. This is the part of snapshot
isolation that the *locks* of the protocol guarantee; it holds also where `CommitsSurvive` fails
(`walindex_reset`), since that failure is one of recorded contents (`nBackfill`), not of locks. `IInv`
consists of the types (`TypeInv`); for each connection what its program counter says about the call
it is in (`Ctl`), the locks it holds there (`Held`) and its header compared with
the published one (`Sees`: a reader's is no longer, a writer's is equal, and
there is room for what it will append); and the compatibility of any two
connections' locks (`LockInv`). `LogKeptStep` then shows that the
log is overwritten only with every read lock except 0 held exclusively, `OtherStable` that this
leaves the others' snapshots alone.

**WalIndexProofs**, continued (`WalIndexIsolation`, `WalIndexSurvival`, `WalIndexTornByDeath`,
`WalIndexCompleteRestarts`): what a snapshot *contains*, and what a recovery finds. `SnapshotIsolation` and
`CommitsSurvive` hold in every scenario, under two hypotheses, each of which excludes one kind of state that the
code can reach and that the properties do not survive:

* `[]~StaleCheckpoint`: no checkpoint copies under a header whose salt is not the published one, that is,
  a header it read before another connection restarted the log. Where this happens `CommitsSurvive`
  is false (`walindex_reset`, finding 3).
* `[]~TornRestart`: `nBackfill` is not beyond the published `mxFrame` while nobody is restarting the log.
  Only a death in the middle of a restart leaves that state (`WalIndexTornByDeath`; section 6, wal.c:1685). So
  `WalIndexCompleteRestarts` has `RestartsComplete` in its place: deaths at every other step, of any
  connection, are covered.

For these two properties nothing else goes wrong in the protocol as modelled: recoveries, stale read marks, interrupted and
partial checkpoints, writers that die between frames and header, between the two copies, or before, preserve both
properties. The invariant `HInv` (`WalIndexAgreement`) relates five things the code keeps in different
places. `PubInv`: the published header's frames over the database file show the last transaction, the hash table
knows those frames, the frames up to `nBackfill` are in the file (`Backed`), and recovery would accept
them (`Whole`). `SurvInv`: what recovery would accept beyond the header is a transaction that is not
published yet, and shows its image. `SnapInv`: each open transaction finds the image of its snapshot, in the frames
from `minFrame` on or in the file (`Sight`). `OneInv` says of each connection what the step it is at relies on:
which header it may publish (`CommitOk`, `RecoverOk`, `RestartOk`), that its `minFrame` and its read mark are not
too large (`ReadOk`), which frames a checkpoint still has in hand and that those it has done with are in the
file (`WorkOk`). `TwoInv` is about pairs: the salt of a log about to be started is in nobody's header
(`FreshOk`), checkpoints and recoveries exclude each other (`CkptAlone`), and a checkpoint goes beyond no reader
whose slot it has passed (`Limited`), although it reads the mark before it tries the lock. `NextH` has a
lemma for each action. `CkptCopiedH` and `CkptCopyH` need the first hypothesis, `WriteHdr0H` needs the second. TLC checked `HInv`, with two
and three connections, before it was proved, by search and by simulation.

**PagerProofs** (`PagerInvariant`, `PagerReadersUndisturbed`, `PagerReadersSeeCommitted`):
the locks of the rollback-mode pager, for any connections, pages, scenarios, failing calls,
crashes and power losses. Assumption: `PagerAssumption` (the database is not empty, the scenarios
are scenarios, and `None` is neither a number nor a journal header). `IInv` has three parts. `Control` says, for
each state of the `Pager` object and each point of a call, which lock the connection
holds. `LockInv` says which two locks may meet, and who is seen as RESERVED: not
whoever goes from SHARED to EXCLUSIVE for a hot journal. `JournalInv` says that a
journal is open and has a header before a transaction puts anything into it, that a playback
that found no header leaves nothing to be played back, and that the journal is not hot between
the commit and the truncation of the file. Each action is shown to be `Good`: it keeps these
parts for its own connection, changes the journal only under RESERVED or more and the database
only under EXCLUSIVE. `StepFacts` derives the invariant from that once for all actions, by the compatibility
of the locks. Hence `PagerReadersUndisturbed`, an action property: what a connection reads does
not change under it, and nobody commits meanwhile.

`PagerReadersSeeCommitted` is conditional: *if* `CrashRecovers` holds at every moment, that is, the
journal, played back where it is hot, gives the last commit, *then* every reader finds the last commit. So the theorem is about
the other half of recovery, the one that takes several processes: that no
connection gets past `hasHotJournal()` while a journal is hot and has no live writer. Its invariant `CalmInv` extends
`ReadersSeeCommitted` to the steps before and after reading: a connection about to compare
the change counter, or a writer that is RESERVED or PENDING, has a database in order as well. A connection gets
there because there is no journal with a header, because
a writer that has not yet touched the file is RESERVED (`CheckReserved`), or because it has itself played
the journal back and finalized it (`Ordered`). TLC checks `CrashRecovers` itself, and `ReadersSeeCommitted` without
the condition, in the scenarios of `Pager.cfg`.

**BackupProofs** (`BackupInvariant`, `BackupTypeOK`, `BackupCopiedPagesCurrent`,
`BackupDestOldOrCopy`): for any page sizes, files, numbers of backups, transactions of
the source, I/O errors and one power loss. Assumption: `BackupAssumption` (the pending byte is
a multiple of both page sizes; the source is not empty and does not end on the page with the
pending byte). `CopiedPagesCurrent` alone is not inductive: a rollback of the source
puts back pages that the backup has copied from its cache. So a backup that goes on must agree with two
images (`CopyOK`): with the one in the source's cache, but for the dirty pages
that were not yet written out, and with the last committed one, but for the pages whose journal is synced,
since the rollback tells the backup of exactly these. `SrcOK` says which pages a rollback of the
source may have to restore. The second argument is about the destination.
Until its journal is deleted, the old file can be restored: whatever differs in the
file *or on the disk* is in the journal (`Journaled`, in `OldOK`). The last step of
the commit that looks safe but needs this is the truncation when the destination's
pages are larger: the pages past the end are put in the journal beforehand (`TailSafe`, in `CommitOK`),
and `WriteExtra` fills the part of the last page that would be lost
(`HasBut` becomes `Has`: everything, with the page under the destination's pending byte). After the journal is gone, the
file and the disk both hold the whole image (`NewOK`); the file may still be too long, until
`StepDone` or never, if the power fails there. `ClosedGood` treats playback once for a
failed step, a call of `sqlite3_backup_finish()` and a power loss: `Readable` says what a file may
look like for the playback of the journal to give the old or the new image.

**BoundedSets** (`Ranks`, `MinFacts`, `MaxFacts`): a finite set of naturals can be numbered
in order, and has a least and a largest element.

TLC checks the proved properties on the small instances. The `IInv` of `WalIndex`, of `Backup` and of
`Pager`, `CalmInv` and `ReadersUndisturbed` were checked by TLC in the scenarios of their runs before they were proved.

**Only model-checked**, and why:

* liveness (`WriterNotStarvedBySolo`, `UnnestedProgramsFinish`, `BackupFinishes`): out of the
  prover's reach.
* `CacheCoherent` of `WalIndex`, `DestHeaderCounts` of `Backup`: they hold in
  the scenarios of the runs, but not in all (section 6), and what goes wrong there is
  not one kind of state that a hypothesis could name, as those of `WalLogProofs` and `WalIndexProofs` do.
  Adding the scenarios' limits as assumptions would state less than the code promises.
* `CommitsDurable`, `HeaderMatchesLog` and `ReadsOwnWrites` of `WalLog` with savepoints: `ReadsOwnWrites` and
  `HeaderMatchesLog` hold in the run, but rest on an invariant that finding 1 breaks.
* `CrashRecovers` and `CacheFresh` of `Pager`, and with the first the hypothesis of
  `PagerReadersSeeCommitted`: what playback restores is defined by a walk over the journal
  (`Slots`), a recursive function; to reason about it for every journal takes an induction
  over data, for which the library's theorems cannot be instantiated here.
* `TypeOK` of `Pager`: not proved; it needs a count of the journal's slots.

## 6. Observations without a run

* `backupOnePage` corrects the header's page count when a step
  copies page 1 (backup.c:305), not when the source's rollback hands the old page 1 to
  `sqlite3BackupUpdate` (pager.c:2443). A copy of a database last written by an old library
  then claims a stale size that every reader believes, while `backup.in:346` promises "a consistent and
  up-to-date snapshot of the original". With `Scenarios <- Legacy` of `MCBackup` TLC finds
  `DestHeaderCounts` violated, and a C program against a build of these sources ends with such a copy. The
  scenarios of `Backup.cfg` leave out the source's own writer where the header is stale.

* Two connections of one process that overlap their reads keep a PENDING writer of
  another process waiting for ever: `unixLock` counts a second reader of the
  process without looking at the pending byte (os_unix.c:1618), while
  `lockingv3.in:427` says PENDING keeps new readers out. `WriterNotStarvedBySolo`
  is therefore about processes with one reading handle.
* A process that dies in `walRestartHdr` between the assignments of wal.c:1685
  and 1686 leaves a small `mxFrame` with a large `nBackfill`. Readers take the log
  for backfilled and miss later commits until the wal-index is rebuilt.
* `checkListProperties` of `notify.c` asserts that connections with the same
  callback are adjacent in the blocked list (property (2), notify.c:50).
  `sqlite3ConnectionUnlocked` clears a connection's callback without moving it
  (notify.c:299), and a later registration does not always restore the
  grouping: the assertion can fire in a debug build. Only the batching of
  callbacks depends on it, so it is not a property of the model.
* With exactly as many records in a journal segment as fill up to a sector
  boundary (64 records with 512-byte sectors: each is a page and 8 bytes), the end of the
  records is the place of the next header. After `syncJournal` without a new
  header, `journalHdr` is that place, and a rollback of the same connection skips
  the magic test there (`readJournalHdr`, pager.c:1589). Slots cannot
  express this alignment; it is not modelled.
* `walIndexRecover` builds the header of an empty log from zeros (`wal.c:1110`). A connection
  that holds such a header and stays idle may keep its page cache too long: another one
  commits, checkpoints with TRUNCATE, commits and begins a second TRUNCATE, and dies between the two copies of the
  header (`wal.c:672`); a third recovers, and publishes the same zeros once more. The
  idle connection's `memcmp` (`wal.c:2040`) finds no change, `*pChanged` stays 0, and in
  WAL mode the pager does not look at the file (`pager.c:5152`), while
  `wal.c:2467` says: "If the database contents have changes since the previous read
  transaction, then *pChanged is set to 1 before returning". `Stale` in `MCWalIndex` is the scenario
  in which TLC finds `CacheCoherent` violated (`Conn = {a, b}`, `MaxPage = 1`,
  `Scenarios <- Stale`). A C program against a build of these sources, with a
  process killed at that point, reads the old value too.
* `walIndexReadHdr` asserts that the write lock is not held when the header is
  bad (`wal.c:2089`). A FULL checkpoint calls it with the write lock held, and
  finds a bad header if another process died between the two copies.

## 7. Not modelled

The whole list with reasons is under `components`. In short:

* `os_unix.c`: `unixShmMap` regions, `readonly_shm` and `unix-excl` heap memory;
  the other unix locking styles and the windows port.
* `pager.c`: multi-file commit, exclusive locking mode, `PAGER_GET_NOCONTENT` and
  `sqlite3PagerMovepage`, the in-memory journal of `memjournal.c`, auto-vacuum truncation, journal modes MEMORY and OFF, memory-mapped I/O.
* shared cache: the mutex order of `btmutex.c` (a sorted try-lock discipline over several
  `BtShared`), virtual tables, several shared caches.
* `backup.c`: an empty source, a savepoint rollback of the source, a change of its page
  size, a destination in WAL mode or one whose cache spills, the schema cookie,
  `remaining` and `pagecount`, and `sqlite3BtreeCopyFile` (VACUUM).
* b-tree page editing; VDBE and SQL compiler (sequential translation of large data);
  allocators; shell, extensions and tests.
* the amalgamation in `src/sqlite3/`, generated from the files above. It and the
  sequential parts are by far the most lines of the repository; the modules cover the
  protocols, which are few lines.

## 8. Plan

Done, in this order: file locks with abstract contract and proofs; log file;
wal-index; shared memory with contract and proofs; rollback journal with
savepoints; shared cache with unlock-notify; online backup; the refinement of the file lock as a
theorem; proofs about the shared cache; proofs about the locks of the wal-index; proofs about the online backup; proofs
about the locks of the rollback journal; proofs about the log file; proofs about what the wal-index
protocol shows and keeps.

Next, by importance:

1. Proofs. `TypeOK` of `Pager`; from it, that a rollback to a savepoint
   plays nothing back before the first write (an assertion of `pager_playback_one_page`), and
   the cache (`CacheFresh`) where no savepoints are used.
2. `Pager`: multi-file commit with the master journal (`vdbeCommit`), composed
   from two `Pager` files. Hazard there: `pager.c:1686` (master name written and
   half lost).
3. `btmutex.c` with two shared caches, which `WaitsAcyclic` over circles of
   three needs as well.
4. `pcache1.c` (group limits), `bitvec.c`, `rowset.c`: operators against
   reference definitions.
