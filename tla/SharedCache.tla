---------------------------- MODULE SharedCache ----------------------------
(***************************************************************************)
(* Connections of one process that share a page cache (a BtShared), after  *)
(* btree.c and notify.c: transactions and table locks on the shared        *)
(* b-tree, the flags BTS_EXCLUSIVE and BTS_PENDING, and the list of        *)
(* blocked connections behind sqlite3_unlock_notify().                     *)
(*                                                                         *)
(* One sqlite3_step() runs inside sqlite3VdbeEnter(), which holds the      *)
(* mutex of the BtShared for the whole call, so opening the transaction,   *)
(* locking the table and a failure's rollback are one action here.  COMMIT,*)
(* ROLLBACK, sqlite3_reset() and sqlite3_close() release the locks first   *)
(* and call sqlite3ConnectionUnlocked() after the mutex is dropped: those  *)
(* are two actions.                                                        *)
(*                                                                         *)
(* The application is any mix of statements; when a call returns           *)
(* SQLITE_LOCKED it does what sqlite3_blocking_step() of test_thread.c     *)
(* does (register, wait, retry; roll back if told of a deadlock) or gives  *)
(* up.  The lock on the file, which other processes contend for, is the    *)
(* subject of UnixLock and Pager.                                          *)
(***************************************************************************)
EXTENDS Naturals, FiniteSets, Sequences, SequencesExt

CONSTANTS
  Conn,          \* the connections
  NoConn,        \* the NULL sqlite3*
  Table,         \* root pages of tables; 1 is sqlite_master (MASTER_ROOT)
  ReadUncommit,  \* connections with PRAGMA read_uncommitted on
  Budget,        \* bound: the statements each connection starts, a set of cases
  MaxActive      \* bound: SELECTs of one connection that are under way

ASSUME SharedCacheAssumption ==
  /\ IsFiniteSet(Conn) /\ NoConn \notin Conn
  /\ 1 \in Table /\ Table \subseteq Nat
  /\ ReadUncommit \subseteq Conn
  /\ Budget \subseteq [Conn -> Nat] /\ MaxActive \in Nat

VARIABLES
  bt,          \* the BtShared and the Btree handles of the connections
  un,          \* the unlock-notify state of the connections
  autoCommit,  \* db->autoCommit of each connection
  nVdbeRead,   \* SELECT statements of each connection under way
  phase,       \* where the application is with each connection
  left,        \* statements each connection may still start
  seen,        \* observed: what the open transaction knows of each table
  dirty,       \* observed: the connection with uncommitted changes to a table
  nested       \* observed: some autocommit statement began beside another

vars == <<bt, un, autoCommit, nVdbeRead, phase, left, seen, dirty, nested>>

TRANS_NONE == 0
TRANS_READ == 1
TRANS_WRITE == 2
NO_LOCK == 0
READ_LOCK == 1
WRITE_LOCK == 2
MASTER_ROOT == 1

(***************************************************************************)
(* "run": between calls.  "locked": a call returned SQLITE_LOCKED.         *)
(* "abort": sqlite3_unlock_notify() returned SQLITE_LOCKED, the            *)
(* transaction is being rolled back.  "unlock", "abortunlock", "close":    *)
(* locks released, sqlite3ConnectionUnlocked() or ...Closed() to come.     *)
(***************************************************************************)
Phase == {"run", "locked", "abort", "unlock", "abortunlock", "close", "closed"}

BtShared ==
  [pWriter: Conn \cup {NoConn}, exclusive: BOOLEAN, pending: BOOLEAN,
   nTransaction: 0 .. Cardinality(Conn), inTransaction: TRANS_NONE .. TRANS_WRITE,
   inTrans: [Conn -> TRANS_NONE .. TRANS_WRITE],
   eLock: [Conn -> [Table -> NO_LOCK .. WRITE_LOCK]],
   pLock: Seq([conn: Conn, table: Table])]

Notify ==
  [blocking: [Conn -> Conn \cup {NoConn}], unlock: [Conn -> Conn \cup {NoConn}],
   list: Seq(Conn)]

TypeOK ==
  /\ bt \in BtShared
  /\ un \in Notify
  /\ autoCommit \in [Conn -> BOOLEAN]
  /\ nVdbeRead \in [Conn -> 0 .. MaxActive]
  /\ phase \in [Conn -> Phase]
  /\ left \in [Conn -> Nat]
  /\ seen \in [Conn -> [Table -> {"unread", "clean", "changed"}]]
  /\ dirty \in [Table -> Conn \cup {NoConn}]
  /\ nested \in BOOLEAN

Init ==
  /\ bt = [pWriter |-> NoConn, exclusive |-> FALSE, pending |-> FALSE,
           nTransaction |-> 0, inTransaction |-> TRANS_NONE,
           inTrans |-> [c \in Conn |-> TRANS_NONE],
           eLock |-> [c \in Conn |-> [t \in Table |-> NO_LOCK]],
           pLock |-> <<>>]
  /\ un = [blocking |-> [c \in Conn |-> NoConn],
           unlock |-> [c \in Conn |-> NoConn], list |-> <<>>]
  /\ autoCommit = [c \in Conn |-> TRUE]
  /\ nVdbeRead = [c \in Conn |-> 0]
  /\ left \in Budget
  /\ phase = [c \in Conn |-> IF left[c] > 0 THEN "run" ELSE "closed"]
  /\ seen = [c \in Conn |-> [t \in Table |-> "unread"]]
  /\ dirty = [t \in Table |-> NoConn]
  /\ nested = FALSE

(***************************************************************************)
(* Table locks.  Each operator maps a BtShared to the one that the         *)
(* function of the same name in btree.c leaves behind.                     *)
(***************************************************************************)

\* The entries of a list that are in S, in their order: each at the place that
\* the number of kept entries up to it gives.
Kept(s, S) ==
  LET K == {i \in DOMAIN s : s[i] \in S}
      Rank(i) == Cardinality({k \in K : k <= i})
  IN [j \in 1 .. Cardinality(K) |-> s[CHOOSE i \in K : Rank(i) = j]]

\* The first entry of BtShared.pLock that is one of the conflicting ones, as the
\* set of its owner; no such entry, no owner.
FirstOwner(b, conflicts) ==
  LET I == {i \in DOMAIN b.pLock : b.pLock[i] \in conflicts}
  IN IF I = {} THEN {} ELSE {b.pLock[Min(I)].conn}

\* Mutant: only a write lock conflicts.
querySharedCacheTableLock_WritersOnly(b, c, t, e) ==
  IF b.pWriter # c /\ b.exclusive
  THEN {b.pWriter}
  ELSE FirstOwner(b, {k \in Range(b.pLock) : /\ k.conn # c /\ k.table = t
                                          /\ b.eLock[k.conn][t] = WRITE_LOCK})

\* The connection that querySharedCacheTableLock() names as the blocker of lock
\* e on table t for c.  None: the lock may be taken.
querySharedCacheTableLock(b, c, t, e) ==
  IF b.pWriter # c /\ b.exclusive
  THEN {b.pWriter}
  ELSE FirstOwner(b, {k \in Range(b.pLock) : /\ k.conn # c /\ k.table = t
                                          /\ b.eLock[k.conn][t] # e})

\* The first half of sqlite3BtreeBeginTrans(): the connection it names as the
\* blocker of a transaction of kind wr (0 read, 1 write, 2 exclusive).
BeginTransBlocker(b, c, wr) ==
  LET other == FirstOwner(b, {k \in Range(b.pLock) : k.conn # c}) IN
  IF b.inTrans[c] = TRANS_WRITE \/ (b.inTrans[c] = TRANS_READ /\ wr = 0) THEN {}
  ELSE IF (wr > 0 /\ b.inTransaction = TRANS_WRITE) \/ b.pending THEN {b.pWriter}
  ELSE IF wr > 1 /\ other # {} THEN other
  ELSE querySharedCacheTableLock(b, c, MASTER_ROOT, READ_LOCK)

\* A lock is a new entry at the head of pLock, or an old one raised to e.
setSharedCacheTableLock(b, c, t, e) ==
  [b EXCEPT !.pLock = IF b.eLock[c][t] = NO_LOCK
                      THEN <<[conn |-> c, table |-> t]>> \o @ ELSE @,
            !.eLock[c][t] = IF e > @ THEN e ELSE @]

\* Mutant: an upgrade counts as a new transaction.
sqlite3BtreeBeginTrans_CountsUpgrade(b, c, wr) ==
  LET kind == IF wr > 0 THEN TRANS_WRITE ELSE TRANS_READ
  IN IF b.inTrans[c] = TRANS_WRITE \/ (b.inTrans[c] = TRANS_READ /\ wr = 0)
     THEN b
     ELSE [setSharedCacheTableLock(b, c, MASTER_ROOT, READ_LOCK) EXCEPT
            !.nTransaction = @ + 1,
            !.inTrans[c] = kind,
            !.inTransaction = IF kind > @ THEN kind ELSE @,
            !.pWriter = IF wr > 0 THEN c ELSE @,
            !.exclusive = IF wr > 0 THEN wr > 1 ELSE @]

\* The second half: the transaction is opened, or upgraded.
sqlite3BtreeBeginTrans(b, c, wr) ==
  LET new  == b.inTrans[c] = TRANS_NONE
      kind == IF wr > 0 THEN TRANS_WRITE ELSE TRANS_READ
  IN IF b.inTrans[c] = TRANS_WRITE \/ (b.inTrans[c] = TRANS_READ /\ wr = 0)
     THEN b
     ELSE [(IF new THEN setSharedCacheTableLock(b, c, MASTER_ROOT, READ_LOCK) ELSE b) EXCEPT
            !.nTransaction = IF new THEN @ + 1 ELSE @,
            !.inTrans[c] = kind,
            !.inTransaction = IF kind > @ THEN kind ELSE @,
            !.pWriter = IF wr > 0 THEN c ELSE @,
            !.exclusive = IF wr > 0 THEN wr > 1 ELSE @]

\* Mutant: BTS_PENDING is cleared by the writer only.
clearAllSharedCacheTableLocks_WriterOnly(b, c) ==
  [b EXCEPT
    !.eLock[c] = [t \in Table |-> NO_LOCK],
    !.pLock = Kept(@, [conn: Conn \ {c}, table: Table]),
    !.pWriter = IF @ = c THEN NoConn ELSE @,
    !.exclusive = IF b.pWriter = c THEN FALSE ELSE @,
    !.pending = IF b.pWriter = c THEN FALSE ELSE @]

\* The entries of c leave BtShared.pLock; the pending flag goes with the
\* writer, or with the last connection the writer could be waiting for.
clearAllSharedCacheTableLocks(b, c) ==
  [b EXCEPT
    !.eLock[c] = [t \in Table |-> NO_LOCK],
    !.pLock = Kept(@, [conn: Conn \ {c}, table: Table]),
    !.pWriter = IF @ = c THEN NoConn ELSE @,
    !.exclusive = IF b.pWriter = c THEN FALSE ELSE @,
    !.pending = IF b.pWriter = c \/ b.nTransaction = 2 THEN FALSE ELSE @]

downgradeAllSharedCacheTableLocks(b, c) ==
  IF b.pWriter # c THEN b
  ELSE [b EXCEPT
         !.pWriter = NoConn, !.exclusive = FALSE, !.pending = FALSE,
         !.eLock = [d \in Conn |-> [t \in Table |->
                     IF @[d][t] = NO_LOCK THEN NO_LOCK ELSE READ_LOCK]]]

\* others: db->nVdbeRead>1, other statements of c are reading.
btreeEndTransaction(b, c, others) ==
  IF b.inTrans[c] # TRANS_NONE /\ others
  THEN [downgradeAllSharedCacheTableLocks(b, c) EXCEPT !.inTrans[c] = TRANS_READ]
  ELSE IF b.inTrans[c] = TRANS_NONE THEN b
  ELSE LET b1 == clearAllSharedCacheTableLocks(b, c) IN
       [b1 EXCEPT
         !.nTransaction = @ - 1,
         !.inTransaction = IF b1.nTransaction = 1 THEN TRANS_NONE ELSE @,
         !.inTrans[c] = TRANS_NONE]

\* sqlite3BtreeCommitPhaseTwo() and sqlite3BtreeRollback(): alike in what they
\* do to transactions and locks.
ConcludeTrans(b, c, others) ==
  btreeEndTransaction(
    [b EXCEPT !.inTransaction = IF b.inTrans[c] = TRANS_WRITE THEN TRANS_READ ELSE @],
    c, others)

(***************************************************************************)
(* notify.c, each function under the STATIC_MASTER mutex.  xUnlockNotify   *)
(* is one callback, set exactly while unlock[p] is.                        *)
(***************************************************************************)
HasCallback(u, c) == u.unlock[c] # NoConn

\* Mutant: the connection stays where it is on the list.
removeFromBlockedList_Not(u, c) == u

removeFromBlockedList(u, c) == [u EXCEPT !.list = Kept(@, Conn \ {c})]

\* Before the first entry with the same callback, else at the end.
addToBlockedList(u, c) ==
  LET I == {i \in DOMAIN u.list : HasCallback(u, u.list[i]) = HasCallback(u, c)}
  IN [u EXCEPT !.list = InsertAt(@, IF I = {} THEN Len(@) + 1 ELSE Min(I), c)]

\* Mutant: the blocker is not recorded.
sqlite3ConnectionBlocked_Not(u, c, d) == u

sqlite3ConnectionBlocked(u, c, d) ==
  LET u1 == IF u.blocking[c] = NoConn /\ u.unlock[c] = NoConn
            THEN addToBlockedList(u, c) ELSE u
  IN [u1 EXCEPT !.blocking[c] = d]

\* Mutant: pBlockingConnection is left as it was.
sqlite3ConnectionUnlocked_CallbacksOnly(u, c) ==
  LET unlock == [p \in Conn |-> IF p \in Range(u.list) /\ u.unlock[p] = c
                                THEN NoConn ELSE u.unlock[p]]
  IN [u EXCEPT !.unlock = unlock,
               !.list = Kept(@, {p \in Conn : u.blocking[p] # NoConn \/ unlock[p] # NoConn})]

\* Every entry of the list that names c: the callbacks run, entries left
\* without a reason to be on the list are removed.
sqlite3ConnectionUnlocked(u, c) ==
  LET Clear(f) == [p \in Conn |-> IF p \in Range(u.list) /\ f[p] = c
                                  THEN NoConn ELSE f[p]]
      blocking == Clear(u.blocking)
      unlock   == Clear(u.unlock)
  IN [blocking |-> blocking, unlock |-> unlock,
      list |-> Kept(u.list, {p \in Conn : blocking[p] # NoConn \/ unlock[p] # NoConn})]

\* The object is freed: its own fields go with it.
sqlite3ConnectionClosed(u, c) ==
  LET u1 == removeFromBlockedList(sqlite3ConnectionUnlocked(u, c), c)
  IN [u1 EXCEPT !.blocking[c] = NoConn, !.unlock[c] = NoConn]

\* The loop of sqlite3_unlock_notify() that follows pUnlockConnection from d
\* meets c: c is in every set that holds d and is closed under the pointer.
WaitsFor(u, d, c) ==
  \A S \in SUBSET Conn :
    (/\ d \in S
     /\ \A p \in S : u.unlock[p] \in S \cup {NoConn}) => c \in S

(***************************************************************************)
(* The observers.  A table is "clean" for a transaction that has read it,  *)
(* and "changed" once another connection has written it since, or if the   *)
(* read met another connection's uncommitted changes.                      *)
(***************************************************************************)
AfterRead(s, c, t) ==
  [s EXCEPT ![c][t] = IF @ = "changed" \/ dirty[t] \notin {NoConn, c}
                      THEN "changed" ELSE "clean"]

AfterWrite(s, c, t) ==
  [d \in Conn |-> IF d # c /\ s[d][t] = "clean"
                  THEN [s[d] EXCEPT ![t] = "changed"] ELSE s[d]]

\* A connection without a transaction knows nothing of any table.
Known(s, b) ==
  [c \in Conn |-> IF b.inTrans[c] = TRANS_NONE
                  THEN [t \in Table |-> "unread"] ELSE s[c]]

CleanOf(c) == [t \in Table |-> IF dirty[t] = c THEN NoConn ELSE dirty[t]]

(***************************************************************************)
(* Calls of the application.                                               *)
(***************************************************************************)

\* sqlite3VdbeHalt() inside sqlite3VdbeExec(): in autocommit mode the
\* transaction is committed, or rolled back after an error, and
\* sqlite3ConnectionUnlocked() follows.  b, u, s, w: the state the statement
\* leaves (w the uncommitted changes); others: other statements are reading.
sqlite3VdbeHalt(c, b, u, s, w, others) ==
  IF autoCommit[c]
  THEN /\ bt' = ConcludeTrans(b, c, others)
       /\ un' = sqlite3ConnectionUnlocked(u, c)
       /\ seen' = Known(s, bt')
       /\ dirty' = [t \in Table |-> IF w[t] = c THEN NoConn ELSE w[t]]
  ELSE bt' = b /\ un' = u /\ seen' = s /\ dirty' = w

\* The statement cannot have its lock: d is recorded as the blocker, the
\* statement halts with SQLITE_LOCKED.
StatementBlocked(c, b, d) ==
  /\ sqlite3VdbeHalt(c, b, sqlite3ConnectionBlocked(un, c, d),
                     IF b.inTrans[c] # TRANS_NONE /\ bt.inTrans[c] = TRANS_NONE
                     THEN AfterRead(seen, c, MASTER_ROOT) ELSE seen,
                     dirty, nVdbeRead[c] > 0)
  /\ phase' = [phase EXCEPT ![c] = "locked"]
  /\ UNCHANGED <<autoCommit, nVdbeRead, left>>

\* The statement has its locks.  A SELECT may stop at a row; a statement that
\* runs to its end halts.
StatementRuns(c, b, t, w) ==
  LET s1 == IF bt.inTrans[c] = TRANS_NONE THEN AfterRead(seen, c, MASTER_ROOT) ELSE seen
      s2 == IF w THEN AfterWrite(s1, c, t)
            ELSE IF c \in ReadUncommit THEN s1 ELSE AfterRead(s1, c, t)
  IN /\ \/ /\ ~w /\ nVdbeRead[c] < MaxActive
           /\ nVdbeRead' = [nVdbeRead EXCEPT ![c] = @ + 1]
           /\ bt' = b /\ seen' = s2
           /\ UNCHANGED <<un, dirty>>
        \/ /\ sqlite3VdbeHalt(c, b, un, s2,
                              IF w THEN [dirty EXCEPT ![t] = c] ELSE dirty,
                              nVdbeRead[c] > 0)
           /\ UNCHANGED nVdbeRead
     /\ left' = [left EXCEPT ![c] = @ - 1]
     /\ UNCHANGED <<autoCommit, phase>>

\* sqlite3_step() of a new statement that reads (w false) or writes table t:
\* OP_Transaction, then OP_TableLock.
Statement(c, t, w) ==
  LET wr    == IF w THEN 1 ELSE 0
      e     == IF w THEN WRITE_LOCK ELSE READ_LOCK
      locks == w \/ c \notin ReadUncommit
      begin == BeginTransBlocker(bt, c, wr)
      b1    == sqlite3BtreeBeginTrans(bt, c, wr)
      query == IF locks THEN querySharedCacheTableLock(b1, c, t, e) ELSE {}
  IN /\ phase[c] = "run" /\ left[c] > 0
     /\ nested' = (nested \/ (autoCommit[c] /\ nVdbeRead[c] > 0))
     /\ \/ \E d \in begin : StatementBlocked(c, bt, d)
        \/ /\ begin = {}
           /\ \E d \in query :
                StatementBlocked(c, IF w THEN [b1 EXCEPT !.pending = TRUE] ELSE b1, d)
        \/ /\ begin = {} /\ query = {}
           /\ StatementRuns(c, IF locks THEN setSharedCacheTableLock(b1, c, t, e) ELSE b1,
                            t, w)

\* BEGIN, BEGIN IMMEDIATE and BEGIN EXCLUSIVE: OP_Transaction for the last
\* two, then OP_AutoCommit.
Begin(c, wr) ==
  LET begin == IF wr = 0 THEN {} ELSE BeginTransBlocker(bt, c, wr) IN
  /\ phase[c] = "run" /\ left[c] > 0 /\ autoCommit[c]
  /\ nested' = (nested \/ nVdbeRead[c] > 0)
  /\ \/ \E d \in begin : StatementBlocked(c, bt, d)
     \/ /\ begin = {}
        /\ bt' = IF wr = 0 THEN bt ELSE sqlite3BtreeBeginTrans(bt, c, wr)
        /\ autoCommit' = [autoCommit EXCEPT ![c] = FALSE]
        /\ seen' = IF bt'.inTrans[c] # TRANS_NONE /\ bt.inTrans[c] = TRANS_NONE
                   THEN AfterRead(seen, c, MASTER_ROOT) ELSE seen
        /\ left' = [left EXCEPT ![c] = @ - 1]
        /\ UNCHANGED <<un, nVdbeRead, phase, dirty>>

\* sqlite3_prepare(): fails while another connection has the schema locked.
Prepare(c) ==
  /\ phase[c] = "run" /\ left[c] > 0
  /\ \E d \in querySharedCacheTableLock(bt, c, MASTER_ROOT, READ_LOCK) :
       un' = sqlite3ConnectionBlocked(un, c, d)
  /\ phase' = [phase EXCEPT ![c] = "locked"]
  /\ UNCHANGED <<bt, autoCommit, nVdbeRead, left, seen, dirty, nested>>

\* The last sqlite3_step() of a SELECT under way.
StepDone(c) ==
  /\ phase[c] = "run" /\ nVdbeRead[c] > 0
  /\ nVdbeRead' = [nVdbeRead EXCEPT ![c] = @ - 1]
  /\ sqlite3VdbeHalt(c, bt, un, seen, dirty, nVdbeRead[c] > 1)
  /\ UNCHANGED <<autoCommit, phase, left, nested>>

\* The locks of c are released; sqlite3ConnectionUnlocked() is still to come.
Release(c, others) ==
  /\ bt' = ConcludeTrans(bt, c, others)
  /\ seen' = Known(seen, bt')
  /\ dirty' = CleanOf(c)
  /\ phase' = [phase EXCEPT ![c] = IF @ = "abort" THEN "abortunlock" ELSE "unlock"]

\* sqlite3_reset() of a SELECT under way.
Reset(c) ==
  /\ phase[c] \in {"run", "abort"} /\ nVdbeRead[c] > 0
  /\ nVdbeRead' = [nVdbeRead EXCEPT ![c] = @ - 1]
  /\ IF autoCommit[c] THEN Release(c, nVdbeRead[c] > 1)
     ELSE UNCHANGED <<bt, seen, dirty, phase>>
  /\ UNCHANGED <<un, autoCommit, left, nested>>

\* COMMIT and ROLLBACK (OP_AutoCommit, which counts as a reader itself).
EndTransaction(c) ==
  /\ phase[c] \in {"run", "abort"} /\ ~autoCommit[c]
  /\ autoCommit' = [autoCommit EXCEPT ![c] = TRUE]
  /\ Release(c, nVdbeRead[c] > 0)
  /\ UNCHANGED <<un, nVdbeRead, left, nested>>

\* The call at the end of sqlite3VdbeHalt(), outside the BtShared mutex.
ConnectionUnlocked(c) ==
  /\ phase[c] \in {"unlock", "abortunlock"}
  /\ un' = sqlite3ConnectionUnlocked(un, c)
  /\ phase' = [phase EXCEPT ![c] = IF @ = "unlock" THEN "run" ELSE "abort"]
  /\ UNCHANGED <<bt, autoCommit, nVdbeRead, left, seen, dirty, nested>>

\* sqlite3_close(): refused while statements are under way; the open
\* transaction is rolled back.
Close(c) ==
  /\ phase[c] = "run" /\ nVdbeRead[c] = 0
  /\ bt' = ConcludeTrans(bt, c, FALSE)
  /\ seen' = Known(seen, bt')
  /\ dirty' = CleanOf(c)
  /\ phase' = [phase EXCEPT ![c] = "close"]
  /\ UNCHANGED <<un, autoCommit, nVdbeRead, left, nested>>

ConnectionClosed(c) ==
  /\ phase[c] = "close"
  /\ un' = sqlite3ConnectionClosed(un, c)
  /\ phase' = [phase EXCEPT ![c] = "closed"]
  /\ UNCHANGED <<bt, autoCommit, nVdbeRead, left, seen, dirty, nested>>

\* Mutant: the chain of waiting connections is not followed.
UnlockNotify_Unchecked(c) ==
  LET d == un.blocking[c] IN
  /\ phase[c] = "locked"
  /\ un' = IF d = NoConn THEN un
           ELSE addToBlockedList(removeFromBlockedList([un EXCEPT !.unlock[c] = d], c), c)
  /\ phase' = [phase EXCEPT ![c] = "run"]
  /\ UNCHANGED <<bt, autoCommit, nVdbeRead, left, seen, dirty, nested>>

\* sqlite3_unlock_notify() with a callback, after SQLITE_LOCKED: the callback
\* runs at once, or the wait would close a cycle, or c is registered.
UnlockNotify(c) ==
  LET d  == un.blocking[c]
      u1 == removeFromBlockedList([un EXCEPT !.unlock[c] = d], c)
  IN /\ phase[c] = "locked"
     /\ \/ d = NoConn /\ un' = un /\ phase' = [phase EXCEPT ![c] = "run"]
        \/ /\ d # NoConn /\ WaitsFor(un, d, c)
           /\ un' = un /\ phase' = [phase EXCEPT ![c] = "abort"]
        \/ /\ d # NoConn /\ ~WaitsFor(un, d, c)
           /\ un' = addToBlockedList(u1, c) /\ phase' = [phase EXCEPT ![c] = "run"]
     /\ UNCHANGED <<bt, autoCommit, nVdbeRead, left, seen, dirty, nested>>

\* sqlite3_unlock_notify() with a NULL callback.  The bound on statements
\* bounds the calls.
CancelNotify(c) ==
  /\ phase[c] \in {"run", "locked"} /\ left[c] > 0
  /\ un.blocking[c] # NoConn \/ un.unlock[c] # NoConn
  /\ LET u1 == removeFromBlockedList(un, c) IN
     un' = [u1 EXCEPT !.blocking[c] = NoConn, !.unlock[c] = NoConn]
  /\ phase' = [phase EXCEPT ![c] = "run"]
  /\ left' = [left EXCEPT ![c] = @ - 1]
  /\ UNCHANGED <<bt, autoCommit, nVdbeRead, seen, dirty, nested>>

\* The application reports the SQLITE_LOCKED and goes on to something else.
GiveUp(c) ==
  /\ phase[c] = "locked" /\ left[c] > 0
  /\ phase' = [phase EXCEPT ![c] = "run"]
  /\ left' = [left EXCEPT ![c] = @ - 1]
  /\ UNCHANGED <<bt, un, autoCommit, nVdbeRead, seen, dirty, nested>>

\* After a deadlock: nothing of the transaction is left.  Trying the whole
\* again is another statement.
Aborted(c) ==
  /\ phase[c] = "abort" /\ nVdbeRead[c] = 0 /\ autoCommit[c]
  /\ phase' = [phase EXCEPT ![c] = "run"]
  /\ left' = [left EXCEPT ![c] = @ - 1]
  /\ UNCHANGED <<bt, un, autoCommit, nVdbeRead, seen, dirty, nested>>

\* Everything a connection may do between calls.
Call(c) ==
  \/ \E t \in Table, w \in BOOLEAN : Statement(c, t, w)
  \/ \E wr \in 0 .. 2 : Begin(c, wr)
  \/ Prepare(c)
  \/ StepDone(c)
  \/ Reset(c)
  \/ EndTransaction(c)
  \/ Close(c)

\* What the thread of c does of its own accord under sqlite3_blocking_step():
\* with a callback registered it waits.
Proceed(c) ==
  \/ phase[c] = "run" /\ un.unlock[c] = NoConn /\ Call(c)
  \/ phase[c] = "abort" /\ (Reset(c) \/ EndTransaction(c))
  \/ Aborted(c)
  \/ UnlockNotify(c)
  \/ ConnectionUnlocked(c)
  \/ ConnectionClosed(c)

AllClosed == \A c \in Conn : phase[c] = "closed"

Next ==
  \/ \E c \in Conn :
       \/ Call(c)
       \/ Aborted(c)
       \/ UnlockNotify(c)
       \/ CancelNotify(c)
       \/ GiveUp(c)
       \/ ConnectionUnlocked(c)
       \/ ConnectionClosed(c)
  \/ AllClosed /\ UNCHANGED vars

\* A thread that is not waiting for a callback is scheduled again.
Spec == Init /\ [][Next]_vars /\ \A c \in Conn : WF_vars(Proceed(c))

(***************************************************************************)
(* Properties.                                                             *)
(***************************************************************************)

\* A transaction never sees a table change under it, nor another connection's
\* uncommitted changes, and never a schema change, read-uncommitted or not
\* (the table locks of btree.c, hasReadConflicts()).
Isolation ==
  \A c \in Conn, t \in Table : seen[c][t] # "changed"

\* The flags of the BtShared go when their reason goes.  While BTS_EXCLUSIVE is
\* set no connection but the writer has a transaction (the assertion of
\* clearAllSharedCacheTableLocks()).  sqlite3BtreeBeginTrans() reads
\* pBt->pWriter->db when a write transaction is open or BTS_PENDING is set: there
\* is a writer then.  And BTS_PENDING, which keeps every new transaction out, is
\* set only while another connection has a transaction to wait for.
FlagsJustified ==
  /\ bt.exclusive => \A c \in Conn \ {bt.pWriter} : bt.inTrans[c] = TRANS_NONE
  /\ bt.inTransaction = TRANS_WRITE \/ bt.pending => bt.pWriter # NoConn
  /\ bt.pending => \E c \in Conn \ {bt.pWriter} : bt.inTrans[c] # TRANS_NONE

\* Whoever is named as a blocker still has a transaction, or is on its way to
\* sqlite3ConnectionUnlocked(): no callback is lost and no pointer to a closed
\* connection is left (property (3) of checkListProperties()).
BlockersLive ==
  \A c \in Conn : \A d \in {un.blocking[c], un.unlock[c]} \ {NoConn} :
    bt.inTrans[d] # TRANS_NONE \/ phase[d] \in {"unlock", "abortunlock", "close"}

\* No connection waits for itself through any chain of registered callbacks,
\* so the loop of sqlite3_unlock_notify() ends and some thread can run.
WaitsAcyclic ==
  \A c \in Conn : un.unlock[c] # NoConn => ~WaitsFor(un, un.unlock[c], c)

\* The blocked list holds each connection that has a blocker or a callback,
\* once, and no other (property (1) of checkListProperties()).
BlockedListExact ==
  /\ Range(un.list) = {c \in Conn : un.blocking[c] # NoConn \/ un.unlock[c] # NoConn}
  /\ Len(un.list) = Cardinality(Range(un.list))

\* Threads that use sqlite3_blocking_step() all get to their end: whoever
\* waits is called back, and whoever would wait for ever is told so.
BlockingStepFinishes == <>AllClosed

\* The same for programs that run one autocommit statement at a time.
UnnestedProgramsFinish == []~nested => BlockingStepFinishes

(***************************************************************************)
(* The inductive invariant behind the safety properties: what holds of the *)
(* BtShared, of the blocked list and of the observers between calls.       *)
(***************************************************************************)

\* pLock lists the locks that are held.  A lock belongs to a transaction, a
\* write lock to a write transaction, and every transaction holds the schema.
LocksExact(b) ==
  /\ Range(b.pLock) = {k \in [conn: Conn, table: Table] : b.eLock[k.conn][k.table] # NO_LOCK}
  /\ \A c \in Conn, t \in Table :
       /\ b.eLock[c][t] # NO_LOCK => b.inTrans[c] # TRANS_NONE
       /\ b.eLock[c][t] = WRITE_LOCK => b.inTrans[c] = TRANS_WRITE
  /\ \A c \in Conn : b.inTrans[c] # TRANS_NONE => b.eLock[c][MASTER_ROOT] # NO_LOCK

InTransaction(b) == {c \in Conn : b.inTrans[c] # TRANS_NONE}

\* The counter, the kind of the open transaction and pWriter agree with the
\* transactions of the connections.
WriterExact(b) ==
  /\ b.nTransaction = Cardinality(InTransaction(b))
  /\ \A c \in Conn : b.inTrans[c] = TRANS_WRITE <=> b.pWriter = c
  /\ b.inTransaction = TRANS_WRITE <=> b.pWriter # NoConn

\* BTS_EXCLUSIVE and BTS_PENDING are flags of the writer.
FlagsOfWriter(b) ==
  /\ b.exclusive => b.pWriter # NoConn /\ InTransaction(b) \subseteq {b.pWriter}
  /\ b.pending => b.pWriter # NoConn /\ \E c \in InTransaction(b) : c # b.pWriter

BtOK(b) == b \in BtShared /\ LocksExact(b) /\ WriterExact(b) /\ FlagsOfWriter(b)

Blocked(u) == {c \in Conn : u.blocking[c] # NoConn \/ u.unlock[c] # NoConn}

ListExact(u) == IsInjective(u.list) /\ Range(u.list) = Blocked(u)

\* Some set of connections holds everyone c waits for, and not c.
Acyclic(u) ==
  \A c \in Conn : u.unlock[c] # NoConn => ~WaitsFor(u, u.unlock[c], c)

UnOK(u) == u \in Notify /\ ListExact(u) /\ Acyclic(u)

\* What a transaction knows of a table it has locked, and what is uncommitted
\* has a write lock.
ObserversLocked(b, s, w) ==
  \A c \in Conn, t \in Table :
    /\ s[c][t] # "changed"
    /\ s[c][t] = "clean" => b.eLock[c][t] # NO_LOCK
    /\ w[t] = c => b.eLock[c][t] = WRITE_LOCK

\* A statement that met SQLITE_LOCKED may still be started again.
LockedHasLeft ==
  \A c \in Conn : phase[c] \in {"locked", "abort", "abortunlock"} => left[c] > 0

IInv ==
  /\ TypeOK
  /\ BtOK(bt)
  /\ UnOK(un)
  /\ ObserversLocked(bt, seen, dirty)
  /\ BlockersLive
  /\ LockedHasLeft

=============================================================================
