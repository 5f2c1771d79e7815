-------------------------------- MODULE Pager --------------------------------
(***************************************************************************)
(* The rollback journal of pager.c: how connections read and change one     *)
(* database file so that every reader sees a committed image, whichever     *)
(* process dies, whatever I/O call fails and wherever the power goes.       *)
(*                                                                         *)
(* A connection is a process of its own and takes its locks on the database *)
(* file from module FileLock, which os_unix.c implements (UnixLock).  Page  *)
(* 1 stands for the change counter in the header of the database; what the  *)
(* other pages hold is the number of the transaction that wrote it or, where *)
(* savepoints are used, of the write.                                       *)
(*                                                                         *)
(* A file is an array of pages or of journal slots.  A write is seen by     *)
(* everybody at once and is on the disk after a sync; at a power loss each  *)
(* slot keeps any one of the values it was given since the last sync.  A    *)
(* journal that was deleted or truncated may be back after a power loss     *)
(* until the directory, or the file, is synced.                             *)
(***************************************************************************)
EXTENDS LockLevels, Sequences, FiniteSets, FiniteSetsExt, SequencesExt, TLC

CONSTANTS Conn,      \* connections, each in a process of its own
          NPage,     \* pages the database may grow to
          InitSize,  \* pages it has at first
          MaxTxn,    \* bound: write transactions
          Scenarios, \* what is run, see ScenarioType
          None       \* a page or slot beyond the end of the file

VARIABLES
  sc,       \* the scenario, chosen at the start
  held,     \* held[c]: the lock of c on the database file
  reserved, \* who is RESERVED, or was before PENDING or EXCLUSIVE
  con,      \* con[c]: the Pager object
  db,       \* the database file as read() sees it
  dbDisk,   \* dbDisk[p]: what page p may be after a power loss
  jexists,  \* the journal file exists
  jrn,      \* its slots
  jdisk,    \* jdisk[s]: what slot s may be after a power loss
  jnone,    \* after a power loss there may be no journal
  jold,     \* earlier journals that may be back after a power loss
  image,    \* the database as the last commit left it
  nTxn, nFault

disk  == <<db, dbDisk>>
jvars == <<jexists, jrn, jdisk, jnone, jold>>
locks == <<held, reserved>>
vars  == <<sc, locks, con, disk, jvars, image, nTxn, nFault>>

FL == INSTANCE FileLock WITH File <- Conn, Proc <- Conn,
                             ProcOf <- [c \in Conn |-> c]

Page    == 1 .. NPage
MaxSlot == 2 * NPage            \* a header and a record for every page
Slot    == 1 .. MaxSlot
Value   == 0 .. MaxTxn + Max({s.calls : s \in Scenarios})
Image   == [Page -> Value \cup {None}]
Cksum   == 0 .. MaxSlot * (MaxTxn + 1)
Header  == [magic : BOOLEAN, nRec : 0 .. NPage, ck : Cksum, orig : 0 .. NPage]
Record  == [pgno : Page, data : Value, ck : Cksum]
Content == Header \cup Record \cup {None}

ScenarioType == [mode : {"DELETE", "TRUNCATE", "PERSIST"},  \* journal_mode
                 fullSync : BOOLEAN, extraSync : BOOLEAN,   \* synchronous
                 conns : SUBSET Conn,      \* connections that take part
                 spills : BOOLEAN,         \* the page cache is short of memory
                 txns : 0 .. MaxTxn,       \* bound: write transactions
                 calls : Nat,              \* bound: writes and savepoints of a
                                           \* transaction; 0: no savepoints
                 faults : Nat,             \* bound: crashes and I/O errors
                 power : BOOLEAN]          \* the power may fail

ASSUME PagerAssumption ==
  /\ NPage \in Nat /\ InitSize \in 1 .. NPage /\ MaxTxn \in Nat
  /\ Scenarios \subseteq ScenarioType
  /\ None \notin Nat /\ None \notin Header

(***************************************************************************)
(* pc is where the connection is inside a call:                            *)
(*   access .. vers   sqlite3PagerSharedLock                               *)
(*   play             pager_playback, of a hot journal or for a rollback   *)
(*   excl .. write    syncJournal and pager_write_pagelist, for a commit   *)
(*                    or, when spill is a page, for pagerStress            *)
(*   sync .. trunc    the end of sqlite3PagerCommitPhaseOne, PhaseTwo      *)
(*   undo             pagerPlaybackSavepoint                               *)
(***************************************************************************)
ReadStep  == {"access", "reserved", "first", "hotlock", "hotopen", "vers"}
WriteStep == {"nrec", "jsync", "write", "sync"}
Step      == {"idle", "play", "excl", "final", "trunc", "undo"} \cup ReadStep \cup WriteStep
DbModified == {"DBMOD", "FINISHED"}
Writer    == {"LOCKED", "CACHEMOD"} \cup DbModified
State     == {"OPEN", "READER", "ERROR"} \cup Writer

Blank      == [s \in Slot |-> None]
NoCache    == [p \in Page |-> None]
Durable(f) == [x \in DOMAIN f |-> {f[x]}]
Size(f)    == Max({x \in DOMAIN f : f[x] # None} \cup {0})
Cut(f, n)  == [x \in DOMAIN f |-> IF x <= n THEN f[x] ELSE None]

Fresh == [eState |-> "OPEN", pc |-> "idle",
          cache |-> NoCache,    \* pages in the page cache
          vers |-> 0,           \* dbFileVers: change counter of the cache
          size |-> 0,           \* dbSize
          orig |-> 0,           \* dbOrigSize
          txn |-> 0,            \* what this transaction writes into pages
          dirty |-> {}, needSync |-> {}, \* PGHDR_DIRTY, PGHDR_NEED_SYNC
          inJournal |-> {},     \* pInJournal
          ccDone |-> FALSE,     \* changeCountDone
          jfd |-> "closed",     \* "new": opened with CREATE and not yet synced
          off |-> 0,            \* journalOff: the next slot, or 0
          hdr |-> 0,            \* journalHdr
          ownHdr |-> FALSE,     \* a header was written at hdr
          nRec |-> 0,
          spill |-> 0,          \* the page pagerStress writes, or 0
          isHot |-> FALSE,
          play |-> <<>>,        \* records still to be played back
          aSavepoint |-> <<>>,  \* open savepoints, see Savepoint
          sub |-> <<>>,         \* the records of the sub-journal
          calls |-> 0,          \* writes and savepoints so far, where counted
          view |-> NoCache]     \* the database as the transaction is to see it

Init ==
  /\ sc \in Scenarios
  /\ FL!Init
  /\ con = [c \in Conn |-> Fresh]
  /\ db = [p \in Page |-> IF p <= InitSize THEN 0 ELSE None]
  /\ dbDisk = Durable(db)
  /\ jexists = FALSE /\ jrn = Blank /\ jdisk = Durable(Blank)
  /\ jnone = TRUE /\ jold = {}
  /\ image = db
  /\ nTxn = 0 /\ nFault = 0

-----------------------------------------------------------------------------
(* The two files.                                                          *)

Become(c, me) == con' = [con EXCEPT ![c] = me]
UnlockTo(c, l) == /\ held' = [held EXCEPT ![c] = l]
                  /\ reserved' = reserved \ {c}
Fault == nFault < sc.faults /\ nFault' = nFault + 1

WriteDbPage(p, v) ==
  /\ db' = [db EXCEPT ![p] = v]
  /\ dbDisk' = [dbDisk EXCEPT ![p] = @ \cup {v}]

\* pager_truncate.
CutDb(n) ==
  /\ db' = Cut(db, n)
  /\ dbDisk' = [p \in Page |-> IF p <= n THEN dbDisk[p] ELSE dbDisk[p] \cup {None}]

\* f gives the slots that are written their content.
WriteJournal(f) ==
  /\ jrn' = [s \in Slot |-> IF s \in DOMAIN f THEN f[s] ELSE jrn[s]]
  /\ jdisk' = [s \in Slot |-> jdisk[s] \cup (IF s \in DOMAIN f THEN {f[s]}
                                             ELSE {})]

\* The journal with what it restores, as a power loss may bring it back.
ThisJournal == [disk |-> jdisk, image |-> image]

\* Mutant: the directory is not synced with a new journal.
SyncNames_FileOnly(me) ==
  /\ UNCHANGED jnone
  /\ jold' = IF sc.mode = "TRUNCATE" THEN {} ELSE jold

\* unixSync: a file opened with CREATE has its directory synced as well.
\* A truncated journal cannot come back once the file is synced.
SyncNames(me) ==
  /\ jnone' = (jnone /\ me.jfd # "new")
  /\ jold' = IF me.jfd = "new" \/ sc.mode = "TRUNCATE" THEN {} ELSE jold
Synced(me) == [me EXCEPT !.jfd = "open"]

\* j holds a header that is not overwritten with zeros at slot s.
IsHeader(j, s) == s \in Slot /\ j[s] \in Header
HasMagic(j, s) == IsHeader(j, s) /\ j[s].magic

-----------------------------------------------------------------------------
(* pager_playback: which records of the journal are played back.           *)

(***************************************************************************)
(* Slots(j, me, isHot) is the sequence of the slots that are played back   *)
(* from journal j.  walk[s, n, h]: at slot s, with n records left of the   *)
(* segment that starts with the header at slot h.  A record whose checksum *)
(* does not start from that header's ends the playback; one beyond the     *)
(* original size is passed over unread.  The last header of a transaction  *)
(* that is rolled back by its own connection has no count yet: its records *)
(* go to the end of the file.                                              *)
(***************************************************************************)
Slots(j, me, isHot) ==
  LET last == Size(j)
      Own(s) == ~isHot /\ me.ownHdr /\ s = me.hdr
      Count(s) == IF Own(s) /\ j[s].nRec = 0 THEN last - s ELSE j[s].nRec
      walk[s \in 1 .. MaxSlot + 1, n \in 0 .. MaxSlot, h \in 0 .. MaxSlot] ==
        IF s > last THEN <<>>
        ELSE IF n = 0
        THEN IF HasMagic(j, s) \/ (Own(s) /\ IsHeader(j, s))
             THEN walk[s + 1, Count(s), s]
             ELSE <<>>
        ELSE IF j[s] \notin Record THEN <<>>
        ELSE IF j[s].pgno > j[1].orig THEN walk[s + 1, n - 1, h]
        ELSE IF j[s].ck # j[h].ck THEN <<>>
        ELSE <<s>> \o walk[s + 1, n - 1, h]
  IN walk[1, 0, 0]

\* The first header is read: its size is the one to truncate to.
Readable(j, me, isHot) ==
  HasMagic(j, 1) \/ (~isHot /\ me.ownHdr /\ me.hdr = 1 /\ IsHeader(j, 1))

\* The database d after the journal j has been played back, if it is hot.
PlayedBack(j, d) ==
  FoldLeft(LAMBDA f, s : [f EXCEPT ![j[s].pgno] = j[s].data],
           Cut(d, j[1].orig), Slots(j, Fresh, TRUE))
Restored(j, d) == IF HasMagic(j, 1) THEN PlayedBack(j, d) ELSE d

\* A record that is to be played back: whether it is in the main journal, and
\* whether the page is known to be synced there, so that the file may be written.
MainRecord(me, s) == [pgno |-> jrn[s].pgno, data |-> jrn[s].data,
                      main |-> TRUE, isSynced |-> s + 1 <= me.hdr]

\* The database file has been written since the transaction began.
InFile(me) == me.eState \in {"OPEN"} \cup DbModified

\* pager_playback up to the first record, with pager_truncate.
StartPlayback(c, me, isHot) ==
  LET n == jrn[1].orig
      todo == Slots(jrn, me, isHot)
  IN /\ Become(c, [me EXCEPT
           !.pc = "play", !.isHot = isHot, !.spill = 0, !.ccDone = FALSE,
           !.size = IF Readable(jrn, me, isHot) THEN n ELSE @,
           !.off = IF Readable(jrn, me, isHot) THEN Size(jrn) + 1 ELSE 0,
           !.cache = IF isHot /\ todo # <<>> THEN NoCache ELSE @,
           !.play = [i \in DOMAIN todo |-> MainRecord(me, todo[i])]])
     /\ IF InFile(me) /\ Readable(jrn, me, isHot)
        THEN CutDb(n)
        ELSE UNCHANGED disk

\* pager_playback_one_page.  A page that is neither written nor in the cache
\* is put there, and dirty, by the sub-journal.
PlayPage(c) ==
  LET me == con[c]
      e == Head(me.play)
      write == InFile(me) /\ e.isSynced
      load == ~write /\ ~e.main
      done == [me EXCEPT !.play = Tail(@),
                         !.pc = IF @ = "undo" /\ Len(me.play) = 1 THEN "idle" ELSE @]
  IN /\ me.pc \in {"play", "undo"} /\ me.play # <<>>
     /\ IF write THEN WriteDbPage(e.pgno, e.data) ELSE UNCHANGED disk
     /\ Become(c, IF me.cache[e.pgno] = None /\ ~load THEN done
                  ELSE [done EXCEPT !.cache[e.pgno] = e.data,
                                    !.dirty = IF me.cache[e.pgno] = None
                                              THEN @ \cup {e.pgno} ELSE @,
                                    !.vers = IF e.pgno = 1 THEN e.data ELSE @])
     /\ UNCHANGED <<sc, locks, jvars, image, nTxn, nFault>>

-----------------------------------------------------------------------------
(* pager_end_transaction.                                                  *)

ZeroHeader == [magic |-> FALSE, nRec |-> 0, ck |-> 0, orig |-> 0]

\* The journal is finalized; what it is now may come back until a sync.
FinalizeJournal(me) ==
  IF me.jfd = "closed" \/ (me.off = 0 /\ sc.mode # "DELETE")
  THEN UNCHANGED jvars
  ELSE \/ /\ sc.mode = "DELETE"
          /\ jexists' = FALSE /\ jnone' = TRUE
          /\ jrn' = Blank /\ jdisk' = Durable(Blank)
          /\ jold' = IF sc.extraSync THEN {} ELSE jold \cup {ThisJournal}
       \/ /\ sc.mode = "TRUNCATE"
          /\ jrn' = Blank /\ jdisk' = Durable(Blank)
          /\ IF sc.fullSync THEN SyncNames(me)
             ELSE jold' = jold \cup {ThisJournal} /\ UNCHANGED jnone
          /\ UNCHANGED jexists
       \/ /\ sc.mode = "PERSIST"         \* zeroJournalHdr
          /\ jrn' = [jrn EXCEPT ![1] = ZeroHeader]
          /\ jdisk' = Durable(jrn')
          /\ SyncNames(me) /\ UNCHANGED jexists

\* What is left of the Pager object; img is what it reads from now on.
Ended(me, img) ==
  [me EXCEPT !.eState = IF @ = "OPEN" THEN "OPEN" ELSE "READER",
             !.pc = IF me.eState = "OPEN" THEN "vers" ELSE "idle",
             !.cache = Cut(@, me.size), !.dirty = {}, !.needSync = {},
             !.inJournal = {}, !.nRec = 0, !.off = 0, !.ccDone = FALSE,
             !.isHot = FALSE, !.view = img,
             !.aSavepoint = <<>>, !.sub = <<>>, !.calls = 0,
             !.jfd = IF sc.mode = "DELETE" THEN "closed"
                     ELSE IF @ = "new" THEN
                       IF (sc.mode = "PERSIST" \/ sc.fullSync) /\ me.off > 0
                       THEN "open" ELSE "new"
                     ELSE @]

\* The end of pager_playback: sqlite3PagerSync, then pager_end_transaction.
EndPlayback(c) ==
  LET me == con[c] IN
  /\ me.pc = "play" /\ me.play = <<>>
  /\ dbDisk' = IF InFile(me) THEN Durable(db) ELSE dbDisk
  /\ FinalizeJournal(me)
  /\ Become(c, Ended(me, image))
  /\ UnlockTo(c, SHARED_LOCK)
  /\ UNCHANGED <<sc, db, image, nTxn, nFault>>

\* pager_unlock.
Unlocked(me) == [Fresh EXCEPT !.cache = me.cache, !.vers = me.vers]

-----------------------------------------------------------------------------
(* sqlite3PagerSharedLock.                                                 *)

SharedLock(c) ==
  /\ con[c].pc = "idle" /\ con[c].eState = "OPEN"
  /\ FL!AcquireShared(c)
  /\ Become(c, [con[c] EXCEPT !.pc = "access"])
  /\ UNCHANGED <<sc, disk, jvars, image, nTxn, nFault>>

GoTo(c, from, to) ==
  /\ con[c].pc = from
  /\ Become(c, [con[c] EXCEPT !.pc = to])
  /\ UNCHANGED <<sc, disk, jvars, image, nTxn, nFault>>

\* hasHotJournal: is there a journal ...
Access(c) ==
  /\ GoTo(c, "access", IF jexists THEN "reserved" ELSE "vers")
  /\ UNCHANGED locks

\* ... without a writer ...
CheckReserved(c) ==
  LET locked == reserved \ {c} # {}
  IN /\ GoTo(c, "reserved", IF locked THEN "vers" ELSE "first")
     /\ UNCHANGED locks

\* ... whose first byte is not zero?  One that cannot be opened may be hot.
ReadFirst(c) ==
  /\ GoTo(c, "first", IF ~jexists \/ HasMagic(jrn, 1) THEN "hotlock"
                      ELSE "vers")
  /\ UNCHANGED locks

\* Mutant: RESERVED is taken on the way to EXCLUSIVE.
HotLock_Reserved(c) ==
  \/ GoTo(c, "hotlock", "hotlock") /\ FL!AcquireReserved(c)
  \/ GoTo(c, "hotlock", "hotopen") /\ FL!AcquireExclusive(c)

\* RESERVED is not taken on the way: it would tell others not to look at the
\* journal.
HotLock(c) == GoTo(c, "hotlock", "hotopen") /\ FL!AcquireExclusive(c)

\* SQLITE_BUSY: pager_unlock gives up the lock, PENDING included.
HotBusy(c) ==
  /\ con[c].pc = "hotlock"
  /\ \E d \in Conn \ {c} : held[d] # NO_LOCK
  /\ Become(c, Unlocked(con[c]))
  /\ UnlockTo(c, NO_LOCK)
  /\ UNCHANGED <<sc, disk, jvars, image, nTxn, nFault>>

\* The journal is opened if it is still there, synced and played back.
HotOpen(c) ==
  LET me == con[c] IN
  \/ /\ ~jexists
     /\ GoTo(c, "hotopen", "vers")
     /\ UnlockTo(c, SHARED_LOCK)
  \/ /\ jexists /\ me.pc = "hotopen"
     /\ jdisk' = Durable(jrn)
     /\ StartPlayback(c, [me EXCEPT !.jfd = "open", !.hdr = Size(jrn) + 1],
                      TRUE)
     /\ UNCHANGED <<sc, locks, jexists, jrn, jnone, jold, image, nTxn, nFault>>

\* Mutant: the change counter is not compared.
CheckVersion_KeepCache(c) ==
  /\ con[c].pc = "vers"
  /\ Become(c, [con[c] EXCEPT !.pc = "idle", !.eState = "READER",
                              !.size = Size(db), !.view = image])
  /\ UNCHANGED <<sc, locks, disk, jvars, image, nTxn, nFault>>

\* The cache is dropped unless the change counter is still the one it had.
CheckVersion(c) ==
  LET me == con[c] IN
  /\ me.pc = "vers"
  /\ Become(c, [me EXCEPT !.pc = "idle", !.eState = "READER",
                          !.size = Size(db), !.view = image,
                          !.cache = IF db[1] = me.vers THEN @ ELSE NoCache])
  /\ UNCHANGED <<sc, locks, disk, jvars, image, nTxn, nFault>>

\* readDbPage.  The b-tree layer reads page 1 first and keeps it referenced
\* for as long as it holds the lock, and goes by the size in its header.
ReadPage(c, p) ==
  LET me == con[c] IN
  /\ me.pc = "idle" /\ me.eState \in {"READER", "LOCKED", "CACHEMOD", "DBMOD"}
  /\ p <= Size(me.view) /\ me.cache[p] = None
  /\ p # 1 => me.cache[1] # None
  /\ Become(c, [me EXCEPT !.cache[p] = db[p],
                          !.vers = IF p = 1 THEN db[1] ELSE @])
  /\ UNCHANGED <<sc, locks, disk, jvars, image, nTxn, nFault>>

\* pagerUnlockAndRollback of a reader, or of a pager in the error state,
\* whose cache is not to be trusted.
EndRead(c) ==
  LET me == con[c] IN
  /\ me.pc = "idle" /\ me.eState \in {"READER", "ERROR"}
  /\ Become(c, [Unlocked(me) EXCEPT
                  !.cache = IF me.eState = "ERROR" THEN NoCache ELSE @])
  /\ UnlockTo(c, NO_LOCK)
  /\ UNCHANGED <<sc, disk, jvars, image, nTxn, nFault>>

-----------------------------------------------------------------------------
(* Write transactions.                                                     *)

Begin(c) ==
  LET me == con[c] IN
  /\ me.pc = "idle" /\ me.eState = "READER" /\ me.cache[1] # None
  /\ nTxn < sc.txns
  /\ nTxn' = nTxn + 1
  /\ FL!AcquireReserved(c)
  /\ Become(c, [me EXCEPT !.eState = "LOCKED", !.orig = me.size, !.off = 0,
                          !.txn = nTxn + 1])
  /\ UNCHANGED <<sc, disk, jvars, image, nFault>>

\* cksumInit is random: no two headers of the model have the same.
CksumInit(me, s) == me.txn * MaxSlot + s
NewHeader(me, s) == [magic |-> FALSE, nRec |-> 0, ck |-> CksumInit(me, s),
                     orig |-> me.orig]

\* pager_open_journal, on the first write of a transaction.
Opened(me) ==
  IF me.eState # "LOCKED" THEN me
  ELSE [me EXCEPT !.eState = "CACHEMOD", !.nRec = 0, !.off = 2, !.hdr = 1,
                  !.ownHdr = TRUE, !.jfd = IF @ = "closed" THEN "new" ELSE @]

\* Savepoints that are open and have page p, which a journal now holds.
addToSavepointBitvecs(sps, p) ==
  [i \in DOMAIN sps |-> IF p <= sps[i].nOrig
                        THEN [sps[i] EXCEPT !.pInSavepoint = @ \cup {p}]
                        ELSE sps[i]]

Called(me) == [me EXCEPT !.calls = IF sc.calls = 0 THEN 0 ELSE @ + 1]

\* The page has to go into the journal before it changes.
ToJournal(me, p) == p <= me.orig /\ p \notin me.inJournal

Present(me, p) == IF me.cache[p] = None THEN db[p] ELSE me.cache[p]

\* Some savepoint is left without the page as it is now.
subjRequiresPage(me, p) ==
  /\ ~ToJournal(me, p)
  /\ \E i \in DOMAIN me.aSavepoint :
       LET sp == me.aSavepoint[i] IN p <= sp.nOrig /\ p \notin sp.pInSavepoint

\* pager_write and the change to page p that follows: the Pager object ...
Written(me, p, v) ==
  [me EXCEPT
     !.dirty = @ \cup {p}, !.cache[p] = v, !.view[p] = v,
     !.sub = IF subjRequiresPage(me, p)
             THEN Append(@, [pgno |-> p, data |-> Present(me, p)]) ELSE @,
     !.aSavepoint = IF ToJournal(me, p) \/ subjRequiresPage(me, p)
                    THEN addToSavepointBitvecs(@, p) ELSE @,
     !.needSync = IF ToJournal(me, p) \/ (p > me.orig /\ me.eState # "DBMOD")
                  THEN @ \cup {p} ELSE @,
     !.inJournal = IF ToJournal(me, p) THEN @ \cup {p} ELSE @,
     !.nRec = IF ToJournal(me, p) THEN @ + 1 ELSE @,
     !.off = IF ToJournal(me, p) THEN @ + 1 ELSE @,
     !.size = IF p > @ THEN p ELSE @]

\* ... and the slots of the journal it writes.
JournalPage(me, p) ==
  IF ToJournal(me, p)
  THEN me.off :> [pgno |-> p, ck |-> CksumInit(me, me.hdr),
                  data |-> Present(me, p)]
  ELSE <<>>

\* A transaction without savepoints gains nothing by changing a page again.
Write(c, p) ==
  LET me == Called(Opened(con[c]))
      hdr == IF con[c].eState = "LOCKED" THEN 1 :> NewHeader(me, 1) ELSE <<>>
  IN /\ con[c].pc = "idle"
     /\ con[c].eState \in {"LOCKED", "CACHEMOD", "DBMOD"}
     /\ p # 1 /\ p <= Size(me.view) + 1
     /\ IF sc.calls = 0 THEN p \notin me.dirty ELSE con[c].calls < sc.calls
     /\ WriteJournal(hdr @@ JournalPage(me, p))
     /\ jexists' = TRUE
     /\ Become(c, Written(me, p, me.txn + me.calls))
     /\ UNCHANGED <<sc, locks, disk, jnone, jold, image, nTxn, nFault>>

\* pagerStress: the page cache asks for page p to be written, so as to use
\* its memory for another page.
Spill(c, p) ==
  LET me == con[c] IN
  /\ sc.spills
  /\ me.pc = "idle" /\ me.eState \in {"CACHEMOD", "DBMOD"}
  /\ p \in me.dirty \ {1}
  /\ Become(c, [me EXCEPT
        !.spill = p,
        !.pc = IF p \in me.needSync \/ me.eState = "CACHEMOD" THEN "excl"
               ELSE "write"])
  /\ UNCHANGED <<sc, locks, disk, jvars, image, nTxn, nFault>>

\* The start of sqlite3PagerCommitPhaseOne: pager_incr_changecounter.
CommitStart(c) ==
  LET me == con[c]
      done == [me EXCEPT !.pc = "excl", !.ccDone = TRUE]
  IN /\ me.pc = "idle" /\ me.eState \in {"CACHEMOD", "DBMOD"}
     /\ \/ /\ me.ccDone
           /\ Become(c, done) /\ UNCHANGED <<jrn, jdisk>>
        \/ /\ ~me.ccDone
           /\ WriteJournal(JournalPage(me, 1))
           /\ Become(c, Written(done, 1, me.vers + 1))
     /\ UNCHANGED <<sc, locks, disk, jexists, jnone, jold, image, nTxn, nFault>>

-----------------------------------------------------------------------------
(* syncJournal and pager_write_pagelist.                                   *)

\* The header of an earlier transaction that follows in the file is undone.
Exclusive(c) ==
  LET me == con[c] IN
  /\ me.pc = "excl"
  /\ IF held[c] = EXCLUSIVE_LOCK THEN UNCHANGED locks
     ELSE FL!AcquireExclusive(c)
  /\ WriteJournal(IF HasMagic(jrn, me.off)
                  THEN me.off :> [jrn[me.off] EXCEPT !.magic = FALSE]
                  ELSE <<>>)
  /\ Become(c, [me EXCEPT !.pc = "nrec"])
  /\ UNCHANGED <<sc, disk, jexists, jnone, jold, image, nTxn, nFault>>

\* SQLITE_BUSY: the commit or the spill is given up for now, with PENDING.
ExclusiveBusy(c) ==
  /\ con[c].pc = "excl"
  /\ \E d \in Conn \ {c} : held[d] # NO_LOCK
  /\ \/ FL!AcquirePending(c)
     \/ held[c] = PENDING_LOCK /\ UNCHANGED locks
  /\ Become(c, [con[c] EXCEPT !.pc = "idle", !.spill = 0])
  /\ UNCHANGED <<sc, disk, jvars, image, nTxn, nFault>>

\* A first sync in full-synchronous mode, then the count of records.
WriteNRec(c) ==
  LET me == con[c]
      hdr == [jrn[me.hdr] EXCEPT !.magic = TRUE, !.nRec = me.nRec]
  IN /\ me.pc = "nrec"
     /\ jrn' = [jrn EXCEPT ![me.hdr] = hdr]
     /\ IF sc.fullSync
        THEN /\ jdisk' = [Durable(jrn) EXCEPT ![me.hdr] = @ \cup {hdr}]
             /\ SyncNames(me)
             /\ Become(c, [Synced(me) EXCEPT !.pc = "jsync"])
        ELSE /\ jdisk' = [jdisk EXCEPT ![me.hdr] = @ \cup {hdr}]
             /\ Become(c, [me EXCEPT !.pc = "jsync"])
             /\ UNCHANGED <<jnone, jold>>
     /\ UNCHANGED <<sc, locks, disk, jexists, image, nTxn, nFault>>

\* A header at slot s ends the first segment of the savepoints opened since the
\* last one.  The very first header is at offset 0, which says nothing.
HeaderAt(sps, s) ==
  [i \in DOMAIN sps |-> IF sps[i].iHdrOffset # 0 THEN sps[i]
                        ELSE [sps[i] EXCEPT !.iHdrOffset = s]]

\* Mutant: PGHDR_NEED_SYNC is not cleared.
SyncJournal_KeepFlags(c) ==
  LET me == Synced(con[c])
      h == NewHeader(me, me.off)
  IN /\ me.pc = "jsync" /\ me.spill # 0
     /\ SyncNames(con[c])
     /\ jrn' = [jrn EXCEPT ![me.off] = h]
     /\ jdisk' = [Durable(jrn) EXCEPT ![me.off] = @ \cup {h}]
     /\ Become(c, [me EXCEPT !.pc = "write", !.eState = "DBMOD",
                      !.hdr = me.off, !.ownHdr = TRUE, !.nRec = 0,
                      !.off = @ + 1, !.aSavepoint = HeaderAt(@, me.off)])
     /\ UNCHANGED <<sc, locks, disk, jexists, image, nTxn, nFault>>

\* The sync before the database may be written.  A spill starts a new
\* segment of the journal.
SyncJournal(c) ==
  LET me == Synced(con[c])
      next == [me EXCEPT !.pc = "write", !.eState = "DBMOD", !.needSync = {},
                         !.hdr = me.off, !.ownHdr = (me.spill # 0)]
  IN /\ me.pc = "jsync"
     /\ SyncNames(con[c])
     /\ IF me.spill = 0
        THEN jrn' = jrn /\ jdisk' = Durable(jrn) /\ Become(c, next)
        ELSE LET h == NewHeader(me, me.off)
             IN /\ jrn' = [jrn EXCEPT ![me.off] = h]
                /\ jdisk' = [Durable(jrn) EXCEPT ![me.off] = @ \cup {h}]
                /\ Become(c, [next EXCEPT !.nRec = 0, !.off = @ + 1,
                                 !.aSavepoint = HeaderAt(@, me.off)])
     /\ UNCHANGED <<sc, locks, disk, jexists, image, nTxn, nFault>>

\* One page of the list, which is in the order of the page numbers.  A page
\* that was spilled leaves the cache.  One beyond the end of the database, as
\* a savepoint may leave it, is not written.
WritePage(c) ==
  LET me == con[c]
      p == IF me.spill # 0 THEN me.spill ELSE Min(me.dirty)
      rest == me.dirty \ {p}
  IN /\ me.pc = "write"
     /\ IF p <= me.size THEN WriteDbPage(p, me.cache[p]) ELSE UNCHANGED disk
     /\ Become(c, [me EXCEPT
           !.dirty = rest, !.spill = 0,
           !.vers = IF p = 1 THEN me.cache[1] ELSE @,
           !.cache[p] = IF me.spill # 0 THEN None ELSE @,
           !.pc = IF me.spill # 0 THEN "idle"
                  ELSE IF rest = {} THEN "sync" ELSE "write"])
     /\ UNCHANGED <<sc, locks, jvars, image, nTxn, nFault>>

\* The end of sqlite3PagerCommitPhaseOne.
SyncDb(c) ==
  /\ con[c].pc = "sync"
  /\ dbDisk' = Durable(db)
  /\ Become(c, [con[c] EXCEPT !.pc = "final", !.eState = "FINISHED"])
  /\ UNCHANGED <<sc, locks, db, jvars, image, nTxn, nFault>>

\* sqlite3PagerCommitPhaseTwo: the transaction is committed.
CommitPhaseTwo(c) ==
  LET me == con[c] IN
  /\ me.pc = "final"
  /\ FinalizeJournal(me)
  /\ image' = me.view
  /\ IF Size(db) > me.size
     THEN Become(c, [me EXCEPT !.pc = "trunc"]) /\ UNCHANGED locks
     ELSE Become(c, Ended(me, me.view)) /\ UnlockTo(c, SHARED_LOCK)
  /\ UNCHANGED <<sc, disk, nTxn, nFault>>

\* Pages that were spilled and then undone are cut off, without a sync.
TruncateDb(c) ==
  LET me == con[c] IN
  /\ me.pc = "trunc"
  /\ CutDb(me.size)
  /\ Become(c, Ended(me, me.view))
  /\ UnlockTo(c, SHARED_LOCK)
  /\ UNCHANGED <<sc, jvars, image, nTxn, nFault>>

\* sqlite3PagerRollback, or a commit, before anything was written.
EndUnchanged(c) ==
  /\ con[c].pc = "idle" /\ con[c].eState = "LOCKED"
  /\ Become(c, Ended(con[c], con[c].view))
  /\ UnlockTo(c, SHARED_LOCK)
  /\ FinalizeJournal(con[c])
  /\ UNCHANGED <<sc, disk, image, nTxn, nFault>>

\* sqlite3PagerRollback.  A transaction over several files may be rolled
\* back when this file was ready to commit.
Rollback(c) ==
  LET me == con[c] IN
  /\ \/ me.pc = "idle" /\ me.eState \in {"CACHEMOD", "DBMOD"}
     \/ me.pc = "final"
  /\ StartPlayback(c, me, FALSE)
  /\ UNCHANGED <<sc, locks, jvars, image, nTxn, nFault>>

-----------------------------------------------------------------------------
(* Savepoints, of SAVEPOINT and of statements.                             *)

\* pagerOpenSavepoint.
NewSavepoint(me) ==
  [nOrig |-> me.size,                            \* dbSize at the savepoint
   iOffset |-> IF me.off > 0 THEN me.off ELSE 2, \* where its records start
   iHdrOffset |-> 0,                             \* where the next header is
   iSubRec |-> Len(me.sub),                      \* sub-journal records before
   pInSavepoint |-> {},
   view |-> me.view]                             \* observed: what it is to restore

InTransaction(me) == me.pc = "idle" /\ me.eState \in {"LOCKED", "CACHEMOD", "DBMOD"}

OpenSavepoint(c) ==
  LET me == con[c] IN
  /\ InTransaction(me) /\ me.calls < sc.calls
  /\ Become(c, [Called(me) EXCEPT !.aSavepoint = Append(@, NewSavepoint(me))])
  /\ UNCHANGED <<sc, locks, disk, jvars, image, nTxn, nFault>>

\* Savepoint i and those inside it are released; with the last one the
\* sub-journal starts anew.
Release(c, i) ==
  LET me == con[c] IN
  /\ InTransaction(me) /\ i \in DOMAIN me.aSavepoint
  /\ Become(c, [me EXCEPT !.aSavepoint = SubSeq(@, 1, i - 1),
                          !.sub = IF i = 1 THEN <<>> ELSE @])
  /\ UNCHANGED <<sc, locks, disk, jvars, image, nTxn, nFault>>

(***************************************************************************)
(* The slots of the main journal that pagerPlaybackSavepoint reads, whose  *)
(* end is at journalOff: those behind first up to the header at the end of *)
(* that segment, and then segment by segment.                              *)
(***************************************************************************)
SavepointSlots(me, first, hdrOff) ==
  LET szJ == me.off
      Count(s) == IF s = me.hdr /\ jrn[s].nRec = 0 THEN szJ - s - 1 ELSE jrn[s].nRec
      walk[s \in 0 .. MaxSlot + 1] ==
        IF s >= szJ \/ ~(HasMagic(jrn, s) \/ s = me.hdr) THEN <<>>
        ELSE LET last == Min({s + Count(s), szJ - 1})
             IN [i \in 1 .. last - s |-> s + i] \o walk[last + 1]
      end == IF hdrOff # 0 THEN hdrOff ELSE szJ
  IN [i \in 1 .. end - first |-> first + i - 1] \o walk[end]

\* Mutant: the sub-journal is written to the file whether or not the record of
\* the page in the main journal is synced.
SubSynced_Always(me, p) == TRUE

SubSynced(me, p) == me.cache[p] = None \/ p \notin me.needSync

\* What pagerPlaybackSavepoint plays back to get to size n, main being the
\* slots of the main journal and sub the records of the sub-journal: each
\* page once, with its first record.
Undo(me, n, main, sub) ==
  LET SubRecord(r) == [pgno |-> r.pgno, data |-> r.data,
                       main |-> FALSE, isSynced |-> SubSynced(me, r.pgno)]
      all == [i \in DOMAIN main |-> MainRecord(me, main[i])]
             \o [i \in DOMAIN sub |-> SubRecord(sub[i])]
  IN FoldLeft(LAMBDA done, e : IF e.pgno > n \/ \E i \in DOMAIN done : done[i].pgno = e.pgno
                               THEN done ELSE Append(done, e),
              <<>>, all)

\* sqlite3PagerSavepoint(SAVEPOINT_ROLLBACK): to savepoint i, which stays, or
\* with 0 to the start of the transaction, which stays open.
RollbackTo(c, i) ==
  LET me == con[c]
      sp == me.aSavepoint[i]
      todo == IF me.jfd = "closed" THEN <<>>
              ELSE IF i = 0 THEN Undo(me, me.orig, SavepointSlots(me, 1, 1), <<>>)
              ELSE Undo(me, sp.nOrig, SavepointSlots(me, sp.iOffset, sp.iHdrOffset),
                        SubSeq(me.sub, sp.iSubRec + 1, Len(me.sub)))
  IN /\ InTransaction(me) /\ sc.calls > 0
     /\ i \in 0 .. Len(me.aSavepoint)
     /\ Become(c, [me EXCEPT
           !.aSavepoint = SubSeq(@, 1, i), !.ccDone = FALSE,
           !.size = IF i = 0 THEN me.orig ELSE sp.nOrig,
           !.view = IF i = 0 THEN image ELSE sp.view,
           !.play = todo, !.pc = IF todo = <<>> THEN "idle" ELSE "undo"])
     /\ UNCHANGED <<sc, locks, disk, jvars, image, nTxn, nFault>>

-----------------------------------------------------------------------------
(* Failures.                                                               *)

\* A call to the VFS fails during a commit or on the way back to a savepoint;
\* the transaction is then rolled back.
CommitFails(c) ==
  /\ con[c].pc \in WriteStep \cup {"undo"} /\ con[c].spill = 0
  /\ Fault
  /\ StartPlayback(c, con[c], FALSE)
  /\ UNCHANGED <<sc, locks, jvars, image, nTxn>>

\* One fails during a spill, a rollback or the end of a transaction:
\* pager_error.  pager_end_transaction gives up the lock all the same.
Fails(c) ==
  LET me == con[c] IN
  /\ \/ me.pc \in WriteStep /\ me.spill # 0
     \/ me.pc = "play" /\ ~me.isHot
     \/ me.pc \in {"final", "trunc"}
  /\ Fault
  /\ Become(c, [me EXCEPT !.eState = "ERROR", !.pc = "idle", !.play = <<>>])
  /\ IF me.pc \in {"final", "trunc"} \/ (me.pc = "play" /\ me.play = <<>>)
     THEN UnlockTo(c, SHARED_LOCK) ELSE UNCHANGED locks
  /\ UNCHANGED <<sc, disk, jvars, image, nTxn>>

\* One fails while a hot journal is played back.
HotFails(c) ==
  /\ con[c].pc = "play" /\ con[c].isHot
  /\ Fault
  /\ Become(c, [Unlocked(con[c]) EXCEPT !.cache = NoCache])
  /\ UnlockTo(c, NO_LOCK)
  /\ UNCHANGED <<sc, disk, jvars, image, nTxn>>

\* The process of c dies.
Crash(c) ==
  /\ con[c] # Fresh
  /\ Fault
  /\ Become(c, Fresh)
  /\ FL!ReleaseAll(c)
  /\ UNCHANGED <<sc, disk, jvars, image, nTxn>>

\* The sequences t with t[i] in D[i], and the same as files.
Picks(D) ==
  LET pick[n \in 0 .. Len(D)] ==
        IF n = 0 THEN {<<>>}
        ELSE {Append(t, v) : t \in pick[n - 1], v \in D[n]}
  IN pick[Len(D)]
Versions(D) == {[i \in DOMAIN D |-> t[i]] : t \in Picks(D)}

\* Every process dies, and of each file one of its versions is left.
PowerLoss ==
  /\ sc.power
  /\ Fault
  /\ \E d \in Versions(dbDisk) : db' = d /\ dbDisk' = Durable(d)
  /\ \/ \E o \in jold \cup (IF jexists THEN {ThisJournal} ELSE {}) :
          /\ \E j \in Versions(o.disk) : jrn' = j /\ jdisk' = Durable(j)
          /\ jexists' = TRUE /\ jnone' = FALSE /\ image' = o.image
     \/ /\ jnone
        /\ jrn' = Blank /\ jdisk' = Durable(Blank)
        /\ jexists' = FALSE /\ jnone' = TRUE /\ UNCHANGED image
  /\ jold' = {}
  /\ con' = [c \in Conn |-> Fresh]
  /\ held' = [c \in Conn |-> NO_LOCK] /\ reserved' = {}
  /\ UNCHANGED <<sc, nTxn>>

-----------------------------------------------------------------------------
Reader(c) == \/ SharedLock(c) \/ Access(c) \/ CheckReserved(c) \/ ReadFirst(c)
             \/ HotLock(c) \/ HotBusy(c) \/ HotOpen(c)
             \/ PlayPage(c) \/ EndPlayback(c)
             \/ CheckVersion(c) \/ EndRead(c)
             \/ \E p \in Page : ReadPage(c, p)
WriterStep(c) == \/ Begin(c) \/ EndUnchanged(c) \/ CommitStart(c)
                 \/ \E p \in Page : Write(c, p) \/ Spill(c, p)
                 \/ OpenSavepoint(c)
                 \/ \E i \in 0 .. sc.calls : Release(c, i) \/ RollbackTo(c, i)
                 \/ Exclusive(c) \/ ExclusiveBusy(c)
                 \/ WriteNRec(c) \/ SyncJournal(c) \/ WritePage(c)
                 \/ SyncDb(c) \/ CommitPhaseTwo(c) \/ TruncateDb(c) \/ Rollback(c)
Failure(c) == CommitFails(c) \/ Fails(c) \/ HotFails(c) \/ Crash(c)

Next == \/ \E c \in sc.conns : Reader(c) \/ WriterStep(c) \/ Failure(c)
        \/ PowerLoss

Spec == Init /\ [][Next]_vars
-----------------------------------------------------------------------------
(* Properties.                                                             *)

PlayType == Seq([pgno : Page, data : Value, main : BOOLEAN, isSynced : BOOLEAN])
SavepointType ==
  [nOrig : 0 .. NPage, iOffset : 2 .. MaxSlot + 1, iHdrOffset : 0 .. MaxSlot,
   iSubRec : Nat, pInSavepoint : SUBSET Page, view : Image]

\* The fields of the Pager objects and the slots of the files are in range.
TypeOK ==
  /\ sc \in ScenarioType
  /\ held \in [Conn -> LockLevel] /\ reserved \subseteq Conn
  /\ \A c \in Conn :
       LET me == con[c] IN
       /\ me.eState \in State /\ me.pc \in Step
       /\ me.cache \in Image /\ me.vers \in Value
       /\ me.size \in 0 .. NPage /\ me.orig \in 0 .. NPage
       /\ me.txn \in Value
       /\ me.dirty \subseteq Page /\ me.needSync \subseteq me.dirty
       /\ me.inJournal \subseteq 1 .. me.orig
       /\ me.jfd \in {"closed", "new", "open"}
       /\ me.off \in 0 .. MaxSlot + 1 /\ me.hdr \in 0 .. MaxSlot + 1
       /\ me.nRec \in 0 .. NPage /\ me.spill \in 0 .. NPage
       /\ {me.ccDone, me.ownHdr, me.isHot} \subseteq BOOLEAN
       /\ me.play \in PlayType
       /\ me.aSavepoint \in Seq(SavepointType) /\ me.view \in Image
       /\ me.calls \in 0 .. sc.calls
       /\ me.sub \in Seq([pgno : Page, data : Value])
  /\ db \in Image /\ image \in Image
  /\ \A p \in Page : db[p] \in dbDisk[p]
  /\ \A s \in Slot : jrn[s] \in Content /\ jrn[s] \in jdisk[s]
  /\ {jexists, jnone} \subseteq BOOLEAN
  /\ \A o \in jold : o.image \in Image
  /\ nTxn \in 0 .. MaxTxn /\ nFault \in 0 .. sc.faults

\* File f holds image img.  After a savepoint a file may be too long: it is
\* cut off after the commit, and readers go by the header.
Holds(f, img) ==
  /\ \A p \in 1 .. Size(img) : f[p] = img[p]
  /\ sc.calls = 0 => Size(f) = Size(img)

\* Whoever reads the database (SHARED or more after sqlite3PagerSharedLock,
\* before the database is written) finds what the last commit left in it,
\* which is what its transaction saw, whatever crashes, power losses, I/O
\* errors and savepoints came before.
ReadersSeeCommitted ==
  \A c \in Conn : con[c].eState \in {"READER", "LOCKED", "CACHEMOD"}
                    /\ con[c].pc # "play" => Holds(db, image)

\* The cache a connection starts to read or write with holds nothing but
\* pages of the last commit: one that was left by an earlier transaction was
\* dropped if another connection changed the database since, and is restored
\* by a rollback.  A transaction finds its own changes on top of these, or
\* those that a savepoint left of them, in the cache or, where they were
\* spilled, in the file.
CacheFresh ==
  \A c \in Conn :
    LET me == con[c] IN
    /\ me.eState \in {"READER", "LOCKED"} =>
         /\ sc.calls = 0 => me.size = Size(image)
         /\ \A p \in Page : \/ me.cache[p] \in {None, image[p]}
                            \/ sc.calls > 0 /\ p > Size(image)
    /\ InTransaction(me) =>
         /\ me.size >= Size(me.view)
         /\ \A p \in 1 .. Size(me.view) : Present(me, p) = me.view[p]

\* If every process died now, the journal that is left would bring back the
\* last commit.
CrashRecovers == Holds(Restored(IF jexists THEN jrn ELSE Blank, db), image)
=============================================================================
