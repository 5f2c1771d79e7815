--------------------------- MODULE WalIndexProofs ---------------------------
(***************************************************************************)
(* Theorems about WalIndex, in every scenario: any number of connections,   *)
(* any mix of writers, checkpoint modes, restarts, truncations and deaths.  *)
(* First type correctness, and that what an open transaction reads from the *)
(* log, or from the bare database file, does not change under it.  Then,    *)
(* unless a checkpoint works under the header of an earlier log or a log    *)
(* restart is left half done, that it reads the one image of its snapshot,  *)
(* and that a recovery would find the last transaction.                     *)
(***************************************************************************)
EXTENDS WalIndex, BoundedSets, TLAPS

-----------------------------------------------------------------------------
(* The inductive invariant *)

HdrSet(s) == [isInit : BOOLEAN, mx : 0..s.maxFrame, salt : Nat, iChange : Nat,
              ck : 0..s.maxTxn]
FrameSet(s) == [pg : 0..MaxPage, ver : 0..s.maxTxn, commit : BOOLEAN, salt : Nat,
                prev : 0..s.maxTxn]
ShmSet(s) == [hdr0 : HdrSet(s), hdr1 : HdrSet(s), nBackfill : 0..s.maxFrame,
              aReadMark : [1..s.nReader-1 -> 0..s.maxFrame+1],
              aPgno : [1..s.maxFrame -> 0..MaxPage]]
WalSet(s) == [salt : Nat, nCkpt : Nat, f : [1..s.maxFrame -> FrameSet(s)]]

PcSet == {"closed", "idle", "readhdr", "readhdr1", "badhdr", "write1", "write0", "recover",
          "tryread", "check0", "mark", "lockmark", "checkmark", "reading", "writing",
          "restart", "append", "commit", "ckinit", "readmark", "trymark", "lock0", "copy",
          "ckend", "truncate", "ckdone"}
OpSet == {"none", "read", "ckpt", "rewal"}
ThenSet == {"none", "commit", "recover", "restart", "truncate"}
ModeSet == {"PASSIVE", "FULL", "RESTART", "TRUNCATE"}

ConSet(s) ==
  [pc : PcSet, op : OpSet, then : ThenSet, hdr : HdrSet(s), nCkpt : Nat, h1 : HdrSet(s),
   again : BOOLEAN, changed : BOOLEAN, readLock : -1..s.nReader-1,
   excl : SUBSET (0..s.nReader-1), writeLock : BOOLEAN, ckptLock : BOOLEAN,
   mxI : 0..s.nReader-1, mark : 0..s.maxFrame, minFrame : 1..s.maxFrame+1, mode : ModeSet,
   mxSafe : 0..s.maxFrame, i : 1..s.nReader, y : 0..s.maxFrame,
   todo : SUBSET (Page \X (1..s.maxFrame)), prior : 0..MaxPage, lo : 0..s.maxFrame]

TypeInv ==
  /\ sc \in Scenarios /\ shm \in ShmSet(sc) /\ wal \in WalSet(sc)
  /\ db \in [Page -> 0..sc.maxTxn] /\ head \in 0..sc.maxTxn /\ nSalt \in Nat
  /\ con \in [Conn -> ConSet(sc)]

\* Where a call can be: what it was called for, and what it is about to write a
\* header for.
Ctl(r) ==
  /\ r.op = "read" => r.pc \in {"readhdr", "readhdr1", "badhdr", "write1", "write0",
                                "recover", "tryread", "check0", "mark", "lockmark",
                                "checkmark"}
  /\ r.op = "ckpt" => r.pc \in {"readhdr", "readhdr1", "badhdr", "write1", "write0",
                                "recover", "ckinit", "readmark", "trymark", "lock0", "copy",
                                "ckend", "truncate", "ckdone"}
  /\ r.op = "rewal" => r.pc \in {"mark", "lockmark", "checkmark"}
  /\ r.op = "none" => r.pc \in {"closed", "idle", "reading", "writing", "append", "write1",
                                "write0", "commit", "restart"}
  /\ r.pc \in {"commit", "recover", "restart", "truncate"} => r.then = r.pc
  /\ r.pc \in {"write1", "write0"} => r.then # "none"
  /\ r.then # "none" => r.pc \in {"write1", "write0", "commit", "recover", "restart",
                                  "truncate"}
  /\ r.then = "recover" => r.op \in {"read", "ckpt"}
  /\ r.then = "truncate" => r.op = "ckpt"
  /\ r.then \in {"commit", "restart"} => r.op = "none"

\* A writer between BeginWrite and the frames it logs.
Writer(r) == r.pc \in {"writing", "append"} \/ r.op = "rewal" \/ r.then = "restart"

\* The locks a connection holds at each point.
Held(s, r) ==
  /\ Writer(r) \/ r.then # "none" => r.writeLock = TRUE
  /\ r.mode = "TRUNCATE" => r.writeLock = TRUE /\ r.op = "ckpt" /\ r.then # "recover"
  /\ r.excl = IF r.then \in {"restart", "truncate"} THEN 1..s.nReader-1
              ELSE IF r.then = "recover" THEN 0..s.nReader-1
              ELSE IF r.pc = "copy" THEN {0} ELSE {}
  /\ r.pc \in {"reading", "writing"} => r.readLock # -1
  /\ r.pc \in {"append", "commit"} \/ r.then = "commit" => r.readLock \notin {-1, 0}
  /\ r.pc = "check0" \/ r.then = "restart" => r.readLock = 0
  /\ r.pc = "checkmark" => r.readLock = r.mxI
  /\ r.pc \in {"lockmark", "checkmark"} => r.mxI # 0
  /\ r.pc = "trymark" => r.i # s.nReader

\* A reader of the log sees no more than the published header covers; a writer
\* works on that header, with room for its frames and a number for its
\* transaction.
Sees(s, r, h, nv) ==
  /\ r.pc = "reading" /\ r.readLock # 0 => r.hdr.mx <= h.mx
  /\ r.pc \in {"writing", "append", "restart", "commit"} \/ r.op = "rewal" => r.hdr = h
  /\ r.then = "commit" => h.mx <= r.hdr.mx
  /\ Writer(r) => nv <= s.maxTxn /\ r.hdr.mx + s.pagesPerTxn <= s.maxFrame

Good(s, r, h, nv) == r \in ConSet(s) /\ Ctl(r) /\ Held(s, r) /\ Sees(s, r, h, nv)

\* No two connections hold conflicting locks.
Compatible(r, q) ==
  /\ r.readLock \notin q.excl /\ q.readLock \notin r.excl
  /\ r.excl \cap q.excl = {}
  /\ r.writeLock = FALSE \/ q.writeLock = FALSE

ConnInv ==
  \A c \in Conn : Ctl(con[c]) /\ Held(sc, con[c]) /\ Sees(sc, con[c], shm.hdr0, NextVer)
LockInv == \A c, d \in Conn : c # d => Compatible(con[c], con[d])

IInv == TypeInv /\ ConnInv /\ LockInv

-----------------------------------------------------------------------------
(* Facts about the state *)

\* What ConstantsOK says of a scenario.
LEMMA ScFacts ==
  ASSUME NEW s \in Scenarios
  PROVE  /\ s.nReader \in Nat /\ s.nReader >= 2 /\ s.maxFrame \in Nat /\ s.maxTxn \in Nat
         /\ s.pagesPerTxn \in 1..MaxPage /\ MaxPage \in Nat /\ MaxPage >= 1
         /\ s.modes \in SUBSET ModeSet
BY ConstantsOK DEF ScenarioType, ModeSet

\* The fields of a header.
LEMMA HdrFields ==
  ASSUME NEW s, NEW h \in HdrSet(s)
  PROVE  /\ h.mx \in 0..s.maxFrame /\ h.salt \in Nat /\ h.iChange \in Nat
         /\ h.ck \in 0..s.maxTxn
BY DEF HdrSet

\* The fields of the wal-index.
LEMMA ShmFields ==
  ASSUME NEW s, NEW m \in ShmSet(s)
  PROVE  /\ m.hdr0 \in HdrSet(s) /\ m.hdr1 \in HdrSet(s) /\ m.nBackfill \in 0..s.maxFrame
         /\ m.aReadMark \in [1..s.nReader-1 -> 0..s.maxFrame+1]
         /\ m.aPgno \in [1..s.maxFrame -> 0..MaxPage]
BY DEF ShmSet

\* The fields of a connection.
LEMMA ConFields ==
  ASSUME NEW s, NEW r \in ConSet(s)
  PROVE  /\ r.pc \in PcSet /\ r.op \in OpSet /\ r.then \in ThenSet /\ r.hdr \in HdrSet(s)
         /\ r.h1 \in HdrSet(s) /\ r.nCkpt \in Nat /\ r.readLock \in -1..s.nReader-1
         /\ r.excl \in SUBSET (0..s.nReader-1) /\ r.mxI \in 0..s.nReader-1
         /\ r.mark \in 0..s.maxFrame /\ r.minFrame \in 1..s.maxFrame+1
         /\ r.mode \in ModeSet /\ r.mxSafe \in 0..s.maxFrame /\ r.i \in 1..s.nReader
         /\ r.y \in 0..s.maxFrame /\ r.todo \in SUBSET (Page \X (1..s.maxFrame))
         /\ r.prior \in 0..MaxPage /\ r.lo \in 0..s.maxFrame
         /\ r.writeLock \in BOOLEAN /\ r.changed \in BOOLEAN /\ r.again \in BOOLEAN
         /\ r.ckptLock \in BOOLEAN
BY DEF ConSet

\* A step of c preserves the invariant if c's new record is good, it conflicts
\* with no other connection's, and the others' remain good.
LEMMA StepFacts ==
  ASSUME IInv, sc' = sc, NEW c \in Conn, NEW r \in ConSet(sc), Become(c, r),
         shm' \in ShmSet(sc), wal' \in WalSet(sc), db' \in [Page -> 0..sc.maxTxn],
         head' \in 0..sc.maxTxn, nSalt' \in Nat,
         Good(sc, r, shm'.hdr0, NextVer'),
         \A d \in Conn \ {c} : Compatible(r, con[d]),
         \A d \in Conn \ {c} : Sees(sc, con[d], shm'.hdr0, NextVer')
  PROVE  IInv'
<1>1. con' \in [Conn -> ConSet(sc)] /\ con'[c] = r /\ \A d \in Conn \ {c} : con'[d] = con[d]
  BY DEF IInv, TypeInv, Become, Good
<1>2. TypeInv'
  BY <1>1 DEF TypeInv, IInv
<1>3. ConnInv'
  BY <1>1 DEF ConnInv, IInv, Good
<1>4. LockInv'
  <2> SUFFICES ASSUME NEW d \in Conn, NEW e \in Conn, d # e
               PROVE  Compatible(con'[d], con'[e])
    BY DEF LockInv
  <2>1. CASE d # c /\ e # c
    BY <2>1, <1>1 DEF IInv, LockInv
  <2>2. CASE d = c
    BY <2>2, <1>1
  <2>3. CASE e = c
    <3>1. Compatible(r, con[d])
      BY <2>3
    <3>2. Compatible(con[d], r)
      BY <3>1 DEF Compatible
    <3> QED BY <3>2, <2>3, <1>1
  <2> QED BY <2>1, <2>2, <2>3
<1> QED BY <1>2, <1>3, <1>4 DEF IInv

\* A step that leaves the published header, the log and the database alone.
LEMMA QuietStep ==
  ASSUME IInv, sc' = sc, NEW c \in Conn, NEW r \in ConSet(sc), Become(c, r),
         shm' \in ShmSet(sc), shm'.hdr0 = shm.hdr0, UNCHANGED <<wal, db, head>>,
         nSalt' \in Nat,
         Good(sc, r, shm.hdr0, NextVer),
         \A d \in Conn \ {c} : Compatible(r, con[d])
  PROVE  IInv'
<1>1. NextVer' = NextVer
  BY DEF NextVer, MaxFrame
<1>2. /\ wal' \in WalSet(sc) /\ db' \in [Page -> 0..sc.maxTxn] /\ head' \in 0..sc.maxTxn
  BY DEF IInv, TypeInv
<1>3. \A d \in Conn \ {c} : Sees(sc, con[d], shm'.hdr0, NextVer')
  BY <1>1 DEF IInv, ConnInv
<1>4. Good(sc, r, shm'.hdr0, NextVer')
  BY <1>1
<1> HIDE DEF IInv
<1> QED BY <1>2, <1>3, <1>4, StepFacts

\* A step that takes no lock and leaves the published header, the log and the
\* database alone.
LEMMA PrivateStep ==
  ASSUME IInv, sc' = sc, NEW c \in Conn, NEW r \in ConSet(sc), Become(c, r),
         shm' \in ShmSet(sc), shm'.hdr0 = shm.hdr0, UNCHANGED <<wal, db, head>>,
         nSalt' \in Nat, Good(sc, r, shm.hdr0, NextVer),
         r.readLock \in {con[c].readLock, -1}, r.excl \subseteq con[c].excl,
         r.writeLock = con[c].writeLock \/ r.writeLock = FALSE
  PROVE  IInv'
<1>1. \A d \in Conn \ {c} : Compatible(r, con[d])
  <2> SUFFICES ASSUME NEW d \in Conn \ {c} PROVE Compatible(r, con[d])
    OBVIOUS
  <2>1. Compatible(con[c], con[d])
    BY DEF IInv, LockInv
  <2>2. -1 \notin con[d].excl
    <3>1. con[d] \in ConSet(sc) /\ sc \in Scenarios
      BY DEF IInv, TypeInv
    <3> QED BY <3>1, ConFields, ScFacts
  <2> QED BY <2>1, <2>2 DEF Compatible
<1> QED BY <1>1, QuietStep

\* The invariant, for one connection.
LEMMA ConnFacts ==
  ASSUME IInv, NEW c \in Conn
  PROVE  /\ Good(sc, con[c], shm.hdr0, NextVer)
         /\ sc \in Scenarios /\ shm \in ShmSet(sc) /\ wal \in WalSet(sc) /\ nSalt \in Nat
         /\ db \in [Page -> 0..sc.maxTxn] /\ head \in 0..sc.maxTxn
BY DEF IInv, TypeInv, ConnInv, Good

\* Good, part by part.
LEMMA GoodFields ==
  ASSUME NEW s, NEW r, NEW h, NEW nv, Good(s, r, h, nv)
  PROVE  r \in ConSet(s) /\ Ctl(r) /\ Held(s, r) /\ Sees(s, r, h, nv)
BY DEF Good

\* The types of what a connection compares and computes with.
LEMMA ConnTypes ==
  ASSUME IInv, NEW c \in Conn
  PROVE  /\ con[c].op \in {"none", "read", "ckpt", "rewal"}
         /\ con[c].then \in {"none", "commit", "recover", "restart", "truncate"}
         /\ con[c].readLock \in -1..sc.nReader-1 /\ con[c].excl \in SUBSET (0..sc.nReader-1)
         /\ con[c].mxI \in 0..sc.nReader-1 /\ con[c].hdr.mx \in 0..sc.maxFrame
         /\ con[c].hdr \in HdrSet(sc) /\ con[c].nCkpt \in Nat /\ con[c].h1 \in HdrSet(sc)
         /\ shm.hdr0 \in HdrSet(sc) /\ shm.hdr1 \in HdrSet(sc)
         /\ shm.hdr0.mx \in 0..sc.maxFrame
         /\ sc.maxFrame \in Nat /\ sc.nReader \in Nat /\ sc.nReader >= 2
<1>1. con[c] \in ConSet(sc) /\ sc \in Scenarios /\ shm \in ShmSet(sc)
  BY ConnFacts, GoodFields
<1>2. con[c].hdr \in HdrSet(sc) /\ shm.hdr0 \in HdrSet(sc) /\ shm.hdr1 \in HdrSet(sc)
  BY <1>1, ConFields, ShmFields
<1>3. con[c].op \in OpSet /\ con[c].then \in ThenSet
  BY <1>1, ConFields
<1> QED BY <1>1, <1>2, <1>3, ConFields, ScFacts, HdrFields DEF OpSet, ThenSet

\* What the invariant says of two connections.
LEMMA OtherFacts ==
  ASSUME IInv, NEW c \in Conn, NEW d \in Conn \ {c}
  PROVE  Compatible(con[c], con[d]) /\ -1 \notin con[d].excl /\ con[d].writeLock \in BOOLEAN
<1>1. Compatible(con[c], con[d])
  BY DEF IInv, LockInv
<1>2. con[d] \in ConSet(sc) /\ sc \in Scenarios
  BY ConnFacts, GoodFields
<1> QED BY <1>1, <1>2, ConFields, ScFacts

\* With the WRITE lock held by another, a connection depends on the published
\* header only if it reads from the log.
LEMMA OtherSees ==
  ASSUME IInv, NEW c \in Conn, NEW d \in Conn \ {c}, con[c].writeLock = TRUE,
         NEW h, NEW nv, con[d].pc = "reading" /\ con[d].readLock # 0 => con[d].hdr.mx <= h.mx
  PROVE  Sees(sc, con[d], h, nv)
<1>1. Compatible(con[c], con[d])
  BY OtherFacts
<1>2. Ctl(con[d]) /\ Held(sc, con[d])
  BY ConnFacts, GoodFields
<1> QED BY <1>1, <1>2 DEF Compatible, Ctl, Held, Sees, Writer

\* A header that was never written is a header.
LEMMA BadHdrType ==
  ASSUME NEW s \in Scenarios
  PROVE  BadHdr \in HdrSet(s)
<1>1. 0 \in 0..s.maxFrame /\ 0 \in 0..s.maxTxn /\ FALSE \in BOOLEAN /\ 0 \in Nat
  BY ScFacts
<1> QED BY <1>1, Zenon DEF BadHdr, HdrSet

AtRest(s, r, pc) ==
  /\ r \in ConSet(s) /\ r.pc = pc /\ r.op = "none" /\ r.then = "none" /\ r.readLock = -1
  /\ r.excl = {} /\ r.writeLock = FALSE /\ r.mode = "PASSIVE"

\* A connection at rest, as a record.
LEMMA RestingFacts ==
  ASSUME NEW s \in Scenarios, NEW pc \in {"closed", "idle"}, NEW h \in HdrSet(s), NEW n \in Nat
  PROVE  AtRest(s, Resting(pc, h, n), pc)
<1>1. BadHdr \in HdrSet(s)
  BY BadHdrType
<1>2. /\ pc \in PcSet /\ "none" \in OpSet /\ "none" \in ThenSet /\ "PASSIVE" \in ModeSet
      /\ FALSE \in BOOLEAN
  BY DEF PcSet, OpSet, ThenSet, ModeSet
<1>3. /\ -1 \in -1..s.nReader-1 /\ {} \in SUBSET (0..s.nReader-1) /\ 0 \in 0..s.nReader-1
      /\ 0 \in 0..s.maxFrame /\ 1 \in 1..s.maxFrame+1 /\ 1 \in 1..s.nReader
      /\ {} \in SUBSET (Page \X (1..s.maxFrame)) /\ 0 \in 0..MaxPage
  BY ScFacts
<1>4. Resting(pc, h, n) \in ConSet(s)
  BY <1>1, <1>2, <1>3, Zenon DEF ConSet, Resting, None
<1> QED BY <1>4 DEF AtRest, Resting, None

\* A call ends, or a process dies: the connection keeps no lock.
LEMMA RestingStep ==
  ASSUME IInv, sc' = sc, NEW c \in Conn, NEW pc \in {"closed", "idle"},
         NEW h \in HdrSet(sc), NEW n \in Nat, Become(c, Resting(pc, h, n)),
         UNCHANGED <<shm, wal, db, head>>, nSalt' \in Nat
  PROVE  IInv'
<1> DEFINE r == Resting(pc, h, n)
<1>1. BadHdr \in HdrSet(sc) /\ shm' \in ShmSet(sc) /\ shm'.hdr0 = shm.hdr0
  BY ConnFacts, BadHdrType
<1>3. AtRest(sc, r, pc)
  BY ConnFacts, RestingFacts
<1>4. /\ r \in ConSet(sc) /\ r.pc = pc /\ r.op = "none" /\ r.then = "none"
      /\ r.readLock = -1 /\ r.excl = {} /\ r.writeLock = FALSE /\ r.mode = "PASSIVE"
  <2> HIDE DEF r
  <2> QED BY <1>3 DEF AtRest
<1>6. Become(c, r)
  OBVIOUS
<1> HIDE DEF r
<1>7. Good(sc, r, shm.hdr0, NextVer)
  BY <1>4 DEF Good, Ctl, Held, Sees, Writer
<1>8. /\ r.readLock \in {con[c].readLock, -1} /\ r.excl \subseteq con[c].excl
      /\ r.writeLock = con[c].writeLock \/ r.writeLock = FALSE
  BY <1>4
<1> QED BY <1>1, <1>4, <1>6, <1>7, <1>8, PrivateStep

-----------------------------------------------------------------------------
(* Every action preserves the invariant *)

\* BeginRead preserves the invariant.
LEMMA BeginReadStep ==
  ASSUME IInv, sc' = sc, NEW c \in Conn, BeginRead(c)
  PROVE  IInv'
<1> DEFINE q == con[c]
<1>1. q \in ConSet(sc) /\ Ctl(q) /\ Held(sc, q) /\ Sees(sc, q, shm.hdr0, NextVer)
  BY ConnFacts, GoodFields
<1>2. /\ q.pc = "idle"
      /\ shm' \in ShmSet(sc) /\ shm'.hdr0 = shm.hdr0
      /\ UNCHANGED <<wal, db, head>> /\ nSalt' \in Nat
  BY ConnFacts DEF BeginRead, ghosts
<1> HIDE DEF q
<1> DEFINE r == [q EXCEPT !.pc = "readhdr", !.op = "read"]
<1>3. /\ "readhdr" \in PcSet /\ "read" \in OpSet
  BY DEF OpSet, PcSet
<1>4. r \in ConSet(sc)
  BY <1>1, <1>3, Zenon DEF ConSet
<1>5. /\ r.pc = "readhdr" /\ r.op = "read" /\ r.then = q.then /\ r.hdr = q.hdr
      /\ r.readLock = q.readLock /\ r.excl = q.excl /\ r.writeLock = q.writeLock
      /\ r.mxI = q.mxI /\ r.mode = q.mode /\ r.i = q.i
  BY <1>1 DEF ConSet
<1>6. Become(c, r)
  BY DEF BeginRead, q
<1> HIDE DEF r
<1>7. Good(sc, r, shm.hdr0, NextVer)
  BY <1>1, <1>2, <1>4, <1>5 DEF Good, Ctl, Held, Sees, Writer
<1>8. /\ r.readLock \in {con[c].readLock, -1} /\ r.excl \subseteq con[c].excl
      /\ r.writeLock = con[c].writeLock \/ r.writeLock = FALSE
  BY <1>5 DEF q
<1> QED BY <1>2, <1>4, <1>6, <1>7, <1>8, PrivateStep

\* ReadHdr0 preserves the invariant.
LEMMA ReadHdr0Step ==
  ASSUME IInv, sc' = sc, NEW c \in Conn, ReadHdr0(c)
  PROVE  IInv'
<1> DEFINE q == con[c]
<1>1. q \in ConSet(sc) /\ Ctl(q) /\ Held(sc, q) /\ Sees(sc, q, shm.hdr0, NextVer)
  BY ConnFacts, GoodFields
<1>2. /\ q.pc = "readhdr"
      /\ shm' \in ShmSet(sc) /\ shm'.hdr0 = shm.hdr0
      /\ UNCHANGED <<wal, db, head>> /\ nSalt' \in Nat
  BY ConnFacts DEF ReadHdr0, ghosts
<1>3. shm.hdr0 \in HdrSet(sc) /\ shm.hdr0.mx \in Int
  BY ConnTypes
<1> HIDE DEF q
<1> DEFINE r == [q EXCEPT !.pc = "readhdr1", !.h1 = shm.hdr0]
<1>4. /\ "readhdr1" \in PcSet
  BY DEF PcSet
<1>5. r \in ConSet(sc)
  BY <1>1, <1>3, <1>4, Zenon DEF ConSet
<1>6. /\ r.pc = "readhdr1" /\ r.op = q.op /\ r.then = q.then /\ r.hdr = q.hdr
      /\ r.readLock = q.readLock /\ r.excl = q.excl /\ r.writeLock = q.writeLock
      /\ r.mxI = q.mxI /\ r.mode = q.mode /\ r.i = q.i
  BY <1>1 DEF ConSet
<1>7. Become(c, r)
  BY DEF ReadHdr0, q
<1> HIDE DEF r
<1>8. Good(sc, r, shm.hdr0, NextVer)
  BY <1>1, <1>2, <1>5, <1>6 DEF Good, Ctl, Held, Sees, Writer
<1>9. /\ r.readLock \in {con[c].readLock, -1} /\ r.excl \subseteq con[c].excl
      /\ r.writeLock = con[c].writeLock \/ r.writeLock = FALSE
  BY <1>6 DEF q
<1> QED BY <1>2, <1>5, <1>7, <1>8, <1>9, PrivateStep

\* Rollback preserves the invariant.
LEMMA RollbackStep ==
  ASSUME IInv, sc' = sc, NEW c \in Conn, Rollback(c)
  PROVE  IInv'
<1> DEFINE q == con[c]
<1>1. q \in ConSet(sc) /\ Ctl(q) /\ Held(sc, q) /\ Sees(sc, q, shm.hdr0, NextVer)
  BY ConnFacts, GoodFields
<1>2. /\ q.pc = "writing"
      /\ shm' \in ShmSet(sc) /\ shm'.hdr0 = shm.hdr0
      /\ UNCHANGED <<wal, db, head>> /\ nSalt' \in Nat
  BY ConnFacts DEF Rollback, ghosts
<1>3. shm.hdr0 \in HdrSet(sc) /\ shm.hdr0.mx \in Int
  BY ConnTypes
<1> HIDE DEF q
<1> DEFINE r == [q EXCEPT !.pc = "reading", !.writeLock = FALSE, !.hdr = shm.hdr0]
<1>4. /\ "reading" \in PcSet
  BY DEF PcSet
<1>5. r \in ConSet(sc)
  BY <1>1, <1>3, <1>4, Zenon DEF ConSet
<1>6. /\ r.pc = "reading" /\ r.op = q.op /\ r.then = q.then /\ r.hdr = shm.hdr0
      /\ r.readLock = q.readLock /\ r.excl = q.excl /\ r.writeLock = FALSE /\ r.mxI = q.mxI
      /\ r.mode = q.mode /\ r.i = q.i
  BY <1>1 DEF ConSet
<1>7. Become(c, r)
  BY DEF Rollback, q
<1> HIDE DEF r
<1>8. Good(sc, r, shm.hdr0, NextVer)
  BY <1>1, <1>2, <1>3, <1>5, <1>6 DEF Good, Ctl, Held, Sees, Writer
<1>9. /\ r.readLock \in {con[c].readLock, -1} /\ r.excl \subseteq con[c].excl
      /\ r.writeLock = con[c].writeLock \/ r.writeLock = FALSE
  BY <1>6 DEF q
<1> QED BY <1>2, <1>5, <1>7, <1>8, <1>9, PrivateStep

\* EndCommit preserves the invariant.
LEMMA EndCommitStep ==
  ASSUME IInv, sc' = sc, NEW c \in Conn, EndCommit(c)
  PROVE  IInv'
<1> DEFINE q == con[c]
<1>1. q \in ConSet(sc) /\ Ctl(q) /\ Held(sc, q) /\ Sees(sc, q, shm.hdr0, NextVer)
  BY ConnFacts, GoodFields
<1>2. /\ q.pc = "commit"
      /\ shm' \in ShmSet(sc) /\ shm'.hdr0 = shm.hdr0
      /\ UNCHANGED <<wal, db, head>> /\ nSalt' \in Nat
  BY ConnFacts DEF EndCommit, ghosts
<1>3. q.op \in {"none", "read", "ckpt", "rewal"} /\ shm.hdr0.mx \in Int
  BY ConnTypes
<1> HIDE DEF q
<1> DEFINE r == [q EXCEPT !.pc = "reading", !.then = "none", !.writeLock = FALSE]
<1>4. /\ "reading" \in PcSet /\ "none" \in ThenSet
  BY DEF PcSet, ThenSet
<1>5. r \in ConSet(sc)
  BY <1>1, <1>4, Zenon DEF ConSet
<1>6. /\ r.pc = "reading" /\ r.op = q.op /\ r.then = "none" /\ r.hdr = q.hdr
      /\ r.readLock = q.readLock /\ r.excl = q.excl /\ r.writeLock = FALSE /\ r.mxI = q.mxI
      /\ r.mode = q.mode /\ r.i = q.i
  BY <1>1 DEF ConSet
<1>7. Become(c, r)
  BY DEF EndCommit, q
<1> HIDE DEF r
<1>8. Good(sc, r, shm.hdr0, NextVer)
  BY <1>1, <1>2, <1>3, <1>5, <1>6 DEF Good, Ctl, Held, Sees, Writer
<1>9. /\ r.readLock \in {con[c].readLock, -1} /\ r.excl \subseteq con[c].excl
      /\ r.writeLock = con[c].writeLock \/ r.writeLock = FALSE
  BY <1>6 DEF q
<1> QED BY <1>2, <1>5, <1>7, <1>8, <1>9, PrivateStep

\* CkptInterrupt preserves the invariant.
LEMMA CkptInterruptStep ==
  ASSUME IInv, sc' = sc, NEW c \in Conn, CkptInterrupt(c)
  PROVE  IInv'
<1> DEFINE q == con[c]
<1>1. q \in ConSet(sc) /\ Ctl(q) /\ Held(sc, q) /\ Sees(sc, q, shm.hdr0, NextVer)
  BY ConnFacts, GoodFields
<1>2. /\ q.pc = "copy"
      /\ shm' \in ShmSet(sc) /\ shm'.hdr0 = shm.hdr0
      /\ UNCHANGED <<wal, db, head>> /\ nSalt' \in Nat
  BY ConnFacts DEF CkptInterrupt, ghosts
<1> HIDE DEF q
<1> DEFINE r == [q EXCEPT !.pc = "ckdone", !.excl = {}, !.todo = {}]
<1>3. /\ "ckdone" \in PcSet
  BY DEF PcSet
<1>4. r \in ConSet(sc)
  BY <1>1, <1>3, Zenon DEF ConSet
<1>5. /\ r.pc = "ckdone" /\ r.op = q.op /\ r.then = q.then /\ r.hdr = q.hdr
      /\ r.readLock = q.readLock /\ r.excl = {} /\ r.writeLock = q.writeLock
      /\ r.mxI = q.mxI /\ r.mode = q.mode /\ r.i = q.i
  BY <1>1 DEF ConSet
<1>6. Become(c, r)
  BY DEF CkptInterrupt, q
<1> HIDE DEF r
<1>7. Good(sc, r, shm.hdr0, NextVer)
  BY <1>1, <1>2, <1>4, <1>5 DEF Good, Ctl, Held, Sees, Writer
<1>8. /\ r.readLock \in {con[c].readLock, -1} /\ r.excl \subseteq con[c].excl
      /\ r.writeLock = con[c].writeLock \/ r.writeLock = FALSE
  BY <1>5 DEF q
<1> QED BY <1>2, <1>4, <1>6, <1>7, <1>8, PrivateStep

\* A header that is read is accepted.
LEMMA AcceptStep ==
  ASSUME IInv, sc' = sc, NEW c \in Conn, con[c].pc \in {"readhdr1", "badhdr"},
         NEW h \in HdrSet(sc), Become(c, Accept(con[c], h)),
         UNCHANGED <<shm, wal, db, head>>, nSalt' \in Nat
  PROVE  IInv'
<1> DEFINE q == con[c]
<1>1. q \in ConSet(sc) /\ Ctl(q) /\ Held(sc, q) /\ Sees(sc, q, shm.hdr0, NextVer)
  BY ConnFacts, GoodFields
<1>2. /\ q.pc \in {"readhdr1", "badhdr"}
      /\ shm' \in ShmSet(sc) /\ shm'.hdr0 = shm.hdr0
      /\ UNCHANGED <<wal, db, head>> /\ nSalt' \in Nat
  BY ConnFacts DEF Accept, ghosts
<1>3. q.op \in {"none", "read", "ckpt", "rewal"}
  BY ConnTypes
<1>4. /\ AfterHdr(q.op) \in PcSet /\ (q.changed \/ h # q.hdr) \in BOOLEAN
      /\ BadHdr \in HdrSet(sc)
  BY ConnFacts, BadHdrType DEF AfterHdr, PcSet
<1> HIDE DEF q
<1> DEFINE r == [q EXCEPT !.pc = AfterHdr(q.op), !.hdr = h,
                          !.changed = q.changed \/ h # q.hdr, !.h1 = BadHdr]
<1>6. r \in ConSet(sc)
  BY <1>1, <1>4, Zenon DEF ConSet
<1>7. /\ r.pc = AfterHdr(q.op) /\ r.op = q.op /\ r.then = q.then /\ r.hdr = h
      /\ r.readLock = q.readLock /\ r.excl = q.excl /\ r.writeLock = q.writeLock
      /\ r.mxI = q.mxI /\ r.mode = q.mode /\ r.i = q.i
  BY <1>1 DEF ConSet
<1>8. Become(c, r)
  BY DEF Accept, q
<1> HIDE DEF r
<1>9. Good(sc, r, shm.hdr0, NextVer)
  BY <1>1, <1>2, <1>3, <1>6, <1>7 DEF Good, Ctl, Held, Sees, Writer, AfterHdr
<1>10. /\ r.readLock \in {con[c].readLock, -1} /\ r.excl \subseteq con[c].excl
       /\ r.writeLock = con[c].writeLock \/ r.writeLock = FALSE
  BY <1>7 DEF q
<1> QED BY <1>2, <1>6, <1>8, <1>9, <1>10, PrivateStep

\* A read transaction, or the writer's move to a read mark, starts over.
LEMMA RetryStep ==
  ASSUME IInv, sc' = sc, NEW c \in Conn, con[c].pc \in {"check0", "mark", "lockmark", "checkmark"},
         Become(c, Retry(con[c])), UNCHANGED <<shm, wal, db, head>>, nSalt' \in Nat
  PROVE  IInv'
<1> DEFINE q == con[c]
<1>1. q \in ConSet(sc) /\ Ctl(q) /\ Held(sc, q) /\ Sees(sc, q, shm.hdr0, NextVer)
  BY ConnFacts, GoodFields
<1>2. /\ q.pc \in {"check0", "mark", "lockmark", "checkmark"}
      /\ shm' \in ShmSet(sc) /\ shm'.hdr0 = shm.hdr0
      /\ UNCHANGED <<wal, db, head>> /\ nSalt' \in Nat
  BY ConnFacts DEF Retry, ghosts
<1>3. /\ q.op \in {"none", "read", "ckpt", "rewal"} /\ q.readLock \in Int
      /\ q.then \in {"none", "commit", "recover", "restart", "truncate"}
  BY ConnTypes
<1>4. /\ (IF q.op = "read" THEN "readhdr" ELSE "mark") \in PcSet
      /\ (q.op = "read") \in BOOLEAN
      /\ None \in -1..sc.nReader-1 /\ 0 \in 0..sc.nReader-1 /\ 0 \in 0..sc.maxFrame
      /\ 1 \in 1..sc.maxFrame+1
  BY ConnTypes DEF PcSet, None
<1> HIDE DEF q
<1> DEFINE r == [q EXCEPT !.pc = IF q.op = "read" THEN "readhdr" ELSE "mark",
                          !.again = (q.op = "read"), !.readLock = None, !.mxI = 0,
                          !.mark = 0, !.minFrame = 1]
<1>6. r \in ConSet(sc)
  BY <1>1, <1>4, Zenon DEF ConSet
<1>7. /\ r.pc = (IF q.op = "read" THEN "readhdr" ELSE "mark") /\ r.op = q.op
      /\ r.then = q.then /\ r.hdr = q.hdr /\ r.readLock = None /\ r.excl = q.excl
      /\ r.writeLock = q.writeLock /\ r.mxI = 0 /\ r.mode = q.mode /\ r.i = q.i
  BY <1>1 DEF ConSet
<1>8. Become(c, r)
  BY DEF Retry, q
<1> HIDE DEF r
<1>9. Good(sc, r, shm.hdr0, NextVer)
  BY <1>1, <1>2, <1>3, <1>6, <1>7 DEF Good, Ctl, Held, Sees, Writer, None
<1>10. /\ r.readLock \in {con[c].readLock, -1} /\ r.excl \subseteq con[c].excl
       /\ r.writeLock = con[c].writeLock \/ r.writeLock = FALSE
  BY <1>7 DEF q, None
<1> QED BY <1>2, <1>6, <1>8, <1>9, <1>10, PrivateStep

\* A read transaction is open.
LEMMA OpenSnapshotStep ==
  ASSUME IInv, sc' = sc, NEW c \in Conn, con[c].pc \in {"check0", "checkmark"},
         con[c].op = "read", shm.hdr0 = con[c].hdr, OpenSnapshot(c, "reading"),
         UNCHANGED <<shm, wal, db, head>>, nSalt' \in Nat
  PROVE  IInv'
<1> DEFINE q == con[c]
<1>1. q \in ConSet(sc) /\ Ctl(q) /\ Held(sc, q) /\ Sees(sc, q, shm.hdr0, NextVer)
  BY ConnFacts, GoodFields
<1>2. /\ q.pc \in {"check0", "checkmark"} /\ q.op = "read" /\ shm.hdr0 = q.hdr
      /\ shm' \in ShmSet(sc) /\ shm'.hdr0 = shm.hdr0
      /\ UNCHANGED <<wal, db, head>> /\ nSalt' \in Nat
  BY ConnFacts DEF OpenSnapshot, ghosts
<1>3. /\ q.readLock \in -1..sc.nReader-1 /\ q.mxI \in 0..sc.nReader-1
      /\ q.then \in {"none", "commit", "recover", "restart", "truncate"}
      /\ shm.hdr0.mx \in Int /\ sc.nReader \in Nat
  BY ConnTypes
<1>4. FALSE \in BOOLEAN /\ 0 \in 0..sc.nReader-1 /\ 0 \in 0..sc.maxFrame
  BY ConnTypes
<1> HIDE DEF q
<1> DEFINE r == [q EXCEPT !.pc = "reading", !.op = "none", !.changed = FALSE,
                          !.again = FALSE, !.mxI = 0, !.mark = 0]
<1>5. /\ "reading" \in PcSet /\ "none" \in OpSet
  BY DEF OpSet, PcSet
<1>6. r \in ConSet(sc)
  BY <1>1, <1>4, <1>5, Zenon DEF ConSet
<1>7. /\ r.pc = "reading" /\ r.op = "none" /\ r.then = q.then /\ r.hdr = q.hdr
      /\ r.readLock = q.readLock /\ r.excl = q.excl /\ r.writeLock = q.writeLock
      /\ r.mxI = 0 /\ r.mode = q.mode /\ r.i = q.i
  BY <1>1 DEF ConSet
<1>8. Become(c, r)
  BY DEF OpenSnapshot, q
<1> HIDE DEF r
<1>9. Good(sc, r, shm.hdr0, NextVer)
  BY <1>1, <1>2, <1>3, <1>6, <1>7 DEF Good, Ctl, Held, Sees, Writer
<1>10. /\ r.readLock \in {con[c].readLock, -1} /\ r.excl \subseteq con[c].excl
       /\ r.writeLock = con[c].writeLock \/ r.writeLock = FALSE
  BY <1>7 DEF q
<1> QED BY <1>2, <1>6, <1>8, <1>9, <1>10, PrivateStep

\* ReadHdr1 preserves the invariant.
LEMMA ReadHdr1Step ==
  ASSUME IInv, sc' = sc, NEW c \in Conn, ReadHdr1(c)
  PROVE  IInv'
<1> DEFINE q == con[c]
<1>1. q \in ConSet(sc) /\ Ctl(q) /\ Held(sc, q) /\ Sees(sc, q, shm.hdr0, NextVer)
  BY ConnFacts, GoodFields
<1>2. /\ q.pc = "readhdr1" /\ UNCHANGED <<shm, wal, db, head>>
      /\ shm' \in ShmSet(sc) /\ shm'.hdr0 = shm.hdr0 /\ nSalt' \in Nat
  BY ConnFacts DEF ReadHdr1, ghosts
<1>3. q.h1 \in HdrSet(sc) /\ BadHdr \in HdrSet(sc)
  BY ConnFacts, ConnTypes, BadHdrType
<1>4. CASE q.h1 = shm.hdr1 /\ q.h1.isInit
  <2>1. Become(c, Accept(con[c], q.h1))
    BY <1>4 DEF ReadHdr1
  <2> QED BY <2>1, <1>2, <1>3, AcceptStep
<1>5. CASE ~(q.h1 = shm.hdr1 /\ q.h1.isInit)
  <2>1. Become(c, [q EXCEPT !.pc = "badhdr", !.h1 = BadHdr])
    BY <1>5 DEF ReadHdr1
  <2> HIDE DEF q
  <2> DEFINE r == [q EXCEPT !.pc = "badhdr", !.h1 = BadHdr]
  <2>2. /\ "badhdr" \in PcSet
    BY DEF PcSet
  <2>3. r \in ConSet(sc)
    BY <1>1, <1>3, <2>2, Zenon DEF ConSet
  <2>4. /\ r.pc = "badhdr" /\ r.op = q.op /\ r.then = q.then /\ r.hdr = q.hdr
        /\ r.readLock = q.readLock /\ r.excl = q.excl /\ r.writeLock = q.writeLock
        /\ r.mxI = q.mxI /\ r.mode = q.mode /\ r.i = q.i
    BY <1>1 DEF ConSet
  <2>5. Become(c, r)
    BY <2>1 DEF ReadHdr1, q
  <2> HIDE DEF r
  <2>6. Good(sc, r, shm.hdr0, NextVer)
    BY <1>1, <1>2, <2>3, <2>4 DEF Good, Ctl, Held, Sees, Writer
  <2>7. /\ r.readLock \in {con[c].readLock, -1} /\ r.excl \subseteq con[c].excl
        /\ r.writeLock = con[c].writeLock \/ r.writeLock = FALSE
    BY <2>4 DEF q
  <2> QED BY <1>2, <2>3, <2>5, <2>6, <2>7, PrivateStep
<1> QED BY <1>4, <1>5

\* HdrRetryOk preserves the invariant.
LEMMA HdrRetryOkStep ==
  ASSUME IInv, sc' = sc, NEW c \in Conn, HdrRetryOk(c)
  PROVE  IInv'
<1>1. shm.hdr0 \in HdrSet(sc) /\ nSalt' \in Nat
  BY ConnFacts, ConnTypes DEF HdrRetryOk
<1>2. /\ con[c].pc = "badhdr" /\ Become(c, Accept(con[c], shm.hdr0))
      /\ UNCHANGED <<shm, wal, db, head>>
  BY DEF HdrRetryOk, ghosts
<1> QED BY <1>1, <1>2, AcceptStep

\* HdrBusy preserves the invariant.
LEMMA HdrBusyStep ==
  ASSUME IInv, sc' = sc, NEW c \in Conn, HdrBusy(c)
  PROVE  IInv'
<1> DEFINE q == con[c]
<1>1. q \in ConSet(sc) /\ Ctl(q) /\ Held(sc, q) /\ Sees(sc, q, shm.hdr0, NextVer)
  BY ConnFacts, GoodFields
<1>2. /\ q.pc = "badhdr" /\ UNCHANGED <<shm, wal, db, head>>
      /\ shm' \in ShmSet(sc) /\ shm'.hdr0 = shm.hdr0 /\ nSalt' \in Nat
  BY ConnFacts DEF HdrBusy
<1>3. BadHdr \in HdrSet(sc) /\ TRUE \in BOOLEAN
  BY ConnFacts, BadHdrType
<1>4. CASE con[c].op = "read" /\ ~Recovering
  <2>1. Become(c, [q EXCEPT !.pc = "readhdr", !.h1 = BadHdr, !.again = TRUE])
    BY <1>4 DEF HdrBusy, Fail
  <2> HIDE DEF q
  <2> DEFINE r == [q EXCEPT !.pc = "readhdr", !.h1 = BadHdr, !.again = TRUE]
  <2>2. /\ "readhdr" \in PcSet
    BY DEF PcSet
  <2>3. r \in ConSet(sc)
    BY <1>1, <1>3, <2>2, Zenon DEF ConSet
  <2>4. /\ r.pc = "readhdr" /\ r.op = q.op /\ r.then = q.then /\ r.hdr = q.hdr
        /\ r.readLock = q.readLock /\ r.excl = q.excl /\ r.writeLock = q.writeLock
        /\ r.mxI = q.mxI /\ r.mode = q.mode /\ r.i = q.i
    BY <1>1 DEF ConSet
  <2>5. Become(c, r)
    BY <2>1 DEF HdrBusy, q
  <2> HIDE DEF r
  <2>6. Good(sc, r, shm.hdr0, NextVer)
    BY <1>1, <1>2, <2>3, <2>4 DEF Good, Ctl, Held, Sees, Writer
  <2>7. /\ r.readLock \in {con[c].readLock, -1} /\ r.excl \subseteq con[c].excl
        /\ r.writeLock = con[c].writeLock \/ r.writeLock = FALSE
    BY <2>4 DEF q
  <2> QED BY <1>2, <2>3, <2>5, <2>6, <2>7, PrivateStep
<1>5. CASE ~(con[c].op = "read" /\ ~Recovering)
  <2>1. Become(c, Resting("idle", con[c].hdr, con[c].nCkpt))
    BY <1>5 DEF HdrBusy, Fail, Idle
  <2>2. con[c].hdr \in HdrSet(sc) /\ con[c].nCkpt \in Nat
    BY ConnTypes
  <2> QED BY <2>1, <2>2, <1>2, RestingStep
<1> QED BY <1>4, <1>5

\* Protocol preserves the invariant.
LEMMA ProtocolStep ==
  ASSUME IInv, sc' = sc, NEW c \in Conn, Protocol(c)
  PROVE  IInv'
<1>1. con[c].hdr \in HdrSet(sc) /\ con[c].nCkpt \in Nat
  BY ConnTypes
<1>2. /\ Become(c, Resting("idle", con[c].hdr, con[c].nCkpt))
      /\ UNCHANGED <<shm, wal, db, head>> /\ nSalt' \in Nat
  BY ConnFacts DEF Protocol, Idle
<1> QED BY <1>1, <1>2, RestingStep

\* EndRead preserves the invariant.
LEMMA EndReadStep ==
  ASSUME IInv, sc' = sc, NEW c \in Conn, EndRead(c)
  PROVE  IInv'
<1>1. con[c].hdr \in HdrSet(sc) /\ con[c].nCkpt \in Nat
  BY ConnTypes
<1>2. /\ Become(c, Resting("idle", con[c].hdr, con[c].nCkpt))
      /\ UNCHANGED <<shm, wal, db, head>> /\ nSalt' \in Nat
  BY ConnFacts DEF EndRead, Idle
<1> QED BY <1>1, <1>2, RestingStep

\* CkptDone preserves the invariant.
LEMMA CkptDoneStep ==
  ASSUME IInv, sc' = sc, NEW c \in Conn, CkptDone(c)
  PROVE  IInv'
<1>1. con[c].hdr \in HdrSet(sc) /\ con[c].nCkpt \in Nat /\ BadHdr \in HdrSet(sc)
  BY ConnTypes, ConnFacts, BadHdrType
<1>2. PICK h \in HdrSet(sc) : Become(c, Resting("idle", h, con[c].nCkpt))
  <2>1. CASE con[c].changed
    BY <1>1, <2>1 DEF CkptDone
  <2>2. CASE ~con[c].changed
    BY <1>1, <2>2 DEF CkptDone, Idle
  <2> QED BY <2>1, <2>2
<1>3. UNCHANGED <<shm, wal, db, head>> /\ nSalt' \in Nat
  BY ConnFacts DEF CkptDone, ghosts
<1> QED BY <1>1, <1>2, <1>3, RestingStep

\* Die preserves the invariant.
LEMMA DieStep ==
  ASSUME IInv, sc' = sc, NEW c \in Conn, Die(c)
  PROVE  IInv'
<1>1. BadHdr \in HdrSet(sc) /\ 0 \in Nat
  BY ConnFacts, BadHdrType
<1>2. /\ Become(c, Resting("closed", BadHdr, 0))
      /\ UNCHANGED <<shm, wal, db, head>> /\ nSalt' \in Nat
  BY ConnFacts DEF Die, Closed
<1> QED BY <1>1, <1>2, RestingStep

\* Check0 preserves the invariant.
LEMMA Check0Step ==
  ASSUME IInv, sc' = sc, NEW c \in Conn, Check0(c)
  PROVE  IInv'
<1>1. con[c].pc = "check0" /\ UNCHANGED <<shm, wal, db, head>> /\ nSalt' \in Nat
  BY ConnFacts DEF Check0
<1>2. CASE shm.hdr0 = con[c].hdr
  <2>1. con[c].op = "read"
    BY <1>1, ConnFacts, ConnTypes, GoodFields DEF Ctl
  <2> QED BY <1>1, <1>2, <2>1, OpenSnapshotStep DEF Check0
<1>3. CASE shm.hdr0 # con[c].hdr
  BY <1>1, <1>3, RetryStep DEF Check0
<1> QED BY <1>2, <1>3

\* CheckMark preserves the invariant.
LEMMA CheckMarkStep ==
  ASSUME IInv, sc' = sc, NEW c \in Conn, CheckMark(c)
  PROVE  IInv'
<1> DEFINE q == con[c]
<1>1. q \in ConSet(sc) /\ Ctl(q) /\ Held(sc, q) /\ Sees(sc, q, shm.hdr0, NextVer)
  BY ConnFacts, GoodFields
<1>2. /\ q.pc = "checkmark" /\ UNCHANGED <<shm, wal, db, head>>
      /\ shm' \in ShmSet(sc) /\ shm'.hdr0 = shm.hdr0 /\ nSalt' \in Nat
  BY ConnFacts DEF CheckMark
<1>3. CASE MarkStale(c)
  BY <1>2, <1>3, RetryStep DEF CheckMark
<1>4. CASE ~MarkStale(c) /\ q.op = "read"
  <2>1. shm.hdr0 = con[c].hdr /\ OpenSnapshot(c, "reading")
    BY <1>4 DEF CheckMark, MarkStale
  <2> QED BY <1>2, <1>4, <2>1, OpenSnapshotStep
<1>5. CASE ~MarkStale(c) /\ q.op # "read"
  <2>1. Become(c, [q EXCEPT !.pc = "append", !.op = "none", !.mxI = 0, !.mark = 0])
    BY <1>5 DEF CheckMark
  <2>2. /\ q.op \in {"none", "read", "ckpt", "rewal"} /\ q.mxI \in 0..sc.nReader-1
        /\ q.then \in {"none", "commit", "recover", "restart", "truncate"}
        /\ sc.nReader \in Nat
    BY ConnTypes
  <2>3. 0 \in 0..sc.nReader-1 /\ 0 \in 0..sc.maxFrame
    BY ConnTypes
  <2> HIDE DEF q
  <2> DEFINE r == [q EXCEPT !.pc = "append", !.op = "none", !.mxI = 0, !.mark = 0]
  <2>4. /\ "append" \in PcSet /\ "none" \in OpSet
    BY DEF OpSet, PcSet
  <2>5. r \in ConSet(sc)
    BY <1>1, <2>3, <2>4, Zenon DEF ConSet
  <2>6. /\ r.pc = "append" /\ r.op = "none" /\ r.then = q.then /\ r.hdr = q.hdr
        /\ r.readLock = q.readLock /\ r.excl = q.excl /\ r.writeLock = q.writeLock
        /\ r.mxI = 0 /\ r.mode = q.mode /\ r.i = q.i
    BY <1>1 DEF ConSet
  <2>7. Become(c, r)
    BY <2>1 DEF CheckMark, q
  <2> HIDE DEF r
  <2>8. Good(sc, r, shm.hdr0, NextVer)
    BY <1>1, <1>2, <1>5, <2>2, <2>5, <2>6 DEF Good, Ctl, Held, Sees, Writer
  <2>9. /\ r.readLock \in {con[c].readLock, -1} /\ r.excl \subseteq con[c].excl
        /\ r.writeLock = con[c].writeLock \/ r.writeLock = FALSE
    BY <2>6 DEF q
  <2> QED BY <1>2, <2>5, <2>7, <2>8, <2>9, PrivateStep
<1> QED BY <1>3, <1>4, <1>5

\* TryRead0 preserves the invariant.
LEMMA TryRead0Step ==
  ASSUME IInv, sc' = sc, NEW c \in Conn, TryRead0(c)
  PROVE  IInv'
<1> DEFINE q == con[c]
<1>1. q \in ConSet(sc) /\ Ctl(q) /\ Held(sc, q) /\ Sees(sc, q, shm.hdr0, NextVer)
  BY ConnFacts, GoodFields
<1>2. /\ q.pc = "tryread"
      /\ shm' \in ShmSet(sc) /\ shm'.hdr0 = shm.hdr0
      /\ UNCHANGED <<wal, db, head>> /\ nSalt' \in Nat
  BY ConnFacts DEF TryRead0, ghosts
<1>3. q.op \in {"none", "read", "ckpt", "rewal"} /\ q.then \in {"none", "commit", "recover", "restart", "truncate"}
  BY ConnTypes
<1>4. CASE shm.nBackfill = q.hdr.mx /\ SharedOk(c, 0)
  <2>1. 0 \in -1..sc.nReader-1
    BY ConnTypes
  <2>2. Become(c, [q EXCEPT !.pc = "check0", !.readLock = 0])
    BY <1>4 DEF TryRead0
  <2> HIDE DEF q
  <2> DEFINE r == [q EXCEPT !.pc = "check0", !.readLock = 0]
  <2>3. /\ "check0" \in PcSet
    BY DEF PcSet
  <2>4. r \in ConSet(sc)
    BY <1>1, <2>1, <2>3, Zenon DEF ConSet
  <2>5. /\ r.pc = "check0" /\ r.op = q.op /\ r.then = q.then /\ r.hdr = q.hdr
        /\ r.readLock = 0 /\ r.excl = q.excl /\ r.writeLock = q.writeLock /\ r.mxI = q.mxI
        /\ r.mode = q.mode /\ r.i = q.i
    BY <1>1 DEF ConSet
  <2>6. Become(c, r)
    BY <2>2 DEF TryRead0, q
  <2> HIDE DEF r
  <2>7. Good(sc, r, shm.hdr0, NextVer)
    BY <1>1, <1>2, <1>3, <2>4, <2>5 DEF Good, Ctl, Held, Sees, Writer
  <2>8. \A d \in Conn \ {c} : Compatible(r, con[d])
    <3> SUFFICES ASSUME NEW d \in Conn \ {c} PROVE Compatible(r, con[d])
      OBVIOUS
    <3>1. Compatible(q, con[d]) /\ -1 \notin con[d].excl
      BY OtherFacts DEF q
    <3>2. 0 \notin con[d].excl
      BY <1>4 DEF SharedOk
    <3> QED BY <3>1, <3>2, <1>2, <1>3, <2>5 DEF Compatible
  <2> QED BY <1>2, <2>4, <2>6, <2>7, <2>8, QuietStep
<1>5. CASE ~(shm.nBackfill = q.hdr.mx /\ SharedOk(c, 0))
  <2>1. Become(c, [q EXCEPT !.pc = "mark"])
    BY <1>5 DEF TryRead0
  <2> HIDE DEF q
  <2> DEFINE r == [q EXCEPT !.pc = "mark"]
  <2>2. /\ "mark" \in PcSet
    BY DEF PcSet
  <2>3. r \in ConSet(sc)
    BY <1>1, <2>2, Zenon DEF ConSet
  <2>4. /\ r.pc = "mark" /\ r.op = q.op /\ r.then = q.then /\ r.hdr = q.hdr
        /\ r.readLock = q.readLock /\ r.excl = q.excl /\ r.writeLock = q.writeLock
        /\ r.mxI = q.mxI /\ r.mode = q.mode /\ r.i = q.i
    BY <1>1 DEF ConSet
  <2>5. Become(c, r)
    BY <2>1 DEF TryRead0, q
  <2> HIDE DEF r
  <2>6. Good(sc, r, shm.hdr0, NextVer)
    BY <1>1, <1>2, <1>3, <2>3, <2>4 DEF Good, Ctl, Held, Sees, Writer
  <2>7. /\ r.readLock \in {con[c].readLock, -1} /\ r.excl \subseteq con[c].excl
        /\ r.writeLock = con[c].writeLock \/ r.writeLock = FALSE
    BY <2>4 DEF q
  <2> QED BY <1>2, <2>3, <2>5, <2>6, <2>7, PrivateStep
<1> QED BY <1>4, <1>5

\* LockMark preserves the invariant.
LEMMA LockMarkStep ==
  ASSUME IInv, sc' = sc, NEW c \in Conn, LockMark(c)
  PROVE  IInv'
<1> DEFINE q == con[c]
<1>1. q \in ConSet(sc) /\ Ctl(q) /\ Held(sc, q) /\ Sees(sc, q, shm.hdr0, NextVer)
  BY ConnFacts, GoodFields
<1>2. /\ q.pc = "lockmark"
      /\ shm' \in ShmSet(sc) /\ shm'.hdr0 = shm.hdr0
      /\ UNCHANGED <<wal, db, head>> /\ nSalt' \in Nat
  BY ConnFacts DEF LockMark, ghosts
<1>3. /\ q.op \in {"none", "read", "ckpt", "rewal"} /\ q.then \in {"none", "commit", "recover", "restart", "truncate"}
      /\ q.mxI \in 0..sc.nReader-1 /\ sc.nReader \in Nat
  BY ConnTypes
<1>4. CASE SharedOk(c, q.mxI)
  <2>1. q.mxI \in -1..sc.nReader-1 /\ shm.nBackfill + 1 \in 1..sc.maxFrame+1
    <3>1. shm.nBackfill \in 0..sc.maxFrame /\ sc.maxFrame \in Nat
      BY ConnFacts, ConnTypes, ShmFields
    <3> QED BY <1>3, <3>1
  <2>2. Become(c, [q EXCEPT !.pc = "checkmark", !.readLock = q.mxI,
                     !.minFrame = shm.nBackfill + 1])
    BY <1>4 DEF LockMark
  <2>3. ASSUME NEW d \in Conn \ {c} PROVE q.mxI \notin con[d].excl
    BY <1>4 DEF SharedOk
  <2> HIDE DEF q
  <2> DEFINE r == [q EXCEPT !.pc = "checkmark", !.readLock = q.mxI,
                            !.minFrame = shm.nBackfill + 1]
  <2>4. /\ "checkmark" \in PcSet
    BY DEF PcSet
  <2>5. r \in ConSet(sc)
    BY <1>1, <2>1, <2>4, Zenon DEF ConSet
  <2>6. /\ r.pc = "checkmark" /\ r.op = q.op /\ r.then = q.then /\ r.hdr = q.hdr
        /\ r.readLock = q.mxI /\ r.excl = q.excl /\ r.writeLock = q.writeLock
        /\ r.mxI = q.mxI /\ r.mode = q.mode /\ r.i = q.i
    BY <1>1 DEF ConSet
  <2>7. Become(c, r)
    BY <2>2 DEF LockMark, q
  <2> HIDE DEF r
  <2>8. Good(sc, r, shm.hdr0, NextVer)
    BY <1>1, <1>2, <1>3, <2>5, <2>6 DEF Good, Ctl, Held, Sees, Writer
  <2>9. \A d \in Conn \ {c} : Compatible(r, con[d])
    <3> SUFFICES ASSUME NEW d \in Conn \ {c} PROVE Compatible(r, con[d])
      OBVIOUS
    <3>1. Compatible(q, con[d]) /\ -1 \notin con[d].excl
      BY OtherFacts DEF q
    <3>2. q.mxI \notin con[d].excl
      BY <2>3
    <3> QED BY <3>1, <3>2, <1>2, <1>3, <2>6 DEF Compatible
  <2> QED BY <1>2, <2>5, <2>7, <2>8, <2>9, QuietStep
<1>5. CASE ~SharedOk(c, q.mxI)
  <2>1. Become(c, Retry(con[c])) /\ UNCHANGED <<shm, wal, db, head>>
    BY <1>5 DEF LockMark, ghosts
  <2> QED BY <1>2, <2>1, RetryStep
<1> QED BY <1>4, <1>5

\* BeginWrite preserves the invariant.
LEMMA BeginWriteStep ==
  ASSUME IInv, sc' = sc, NEW c \in Conn, BeginWrite(c)
  PROVE  IInv'
<1> DEFINE q == con[c]
<1>1. q \in ConSet(sc) /\ Ctl(q) /\ Held(sc, q) /\ Sees(sc, q, shm.hdr0, NextVer)
  BY ConnFacts, GoodFields
<1>2. /\ q.pc = "reading"
      /\ shm' \in ShmSet(sc) /\ shm'.hdr0 = shm.hdr0
      /\ UNCHANGED <<wal, db, head>> /\ nSalt' \in Nat
  BY ConnFacts DEF BeginWrite, ghosts
<1>3. /\ q.op \in {"none", "read", "ckpt", "rewal"} /\ q.then \in {"none", "commit", "recover", "restart", "truncate"}
      /\ q.hdr = shm.hdr0 /\ NextVer <= sc.maxTxn
      /\ q.hdr.mx + sc.pagesPerTxn <= sc.maxFrame
  BY ConnTypes DEF BeginWrite, SnapshotCurrent, MaxFrame
<1>4. ASSUME NEW d \in Conn \ {c} PROVE con[d].writeLock = FALSE
  BY OtherFacts DEF BeginWrite, WriteFree
<1>5. TRUE \in BOOLEAN
  OBVIOUS
<1> HIDE DEF q
<1> DEFINE r == [q EXCEPT !.pc = "writing", !.writeLock = TRUE]
<1>6. /\ "writing" \in PcSet
  BY DEF PcSet
<1>7. r \in ConSet(sc)
  BY <1>1, <1>5, <1>6, Zenon DEF ConSet
<1>8. /\ r.pc = "writing" /\ r.op = q.op /\ r.then = q.then /\ r.hdr = q.hdr
      /\ r.readLock = q.readLock /\ r.excl = q.excl /\ r.writeLock = TRUE /\ r.mxI = q.mxI
      /\ r.mode = q.mode /\ r.i = q.i
  BY <1>1 DEF ConSet
<1>9. Become(c, r)
  BY DEF BeginWrite, q
<1> HIDE DEF r
<1>10. Good(sc, r, shm.hdr0, NextVer)
  BY <1>1, <1>2, <1>3, <1>7, <1>8 DEF Good, Ctl, Held, Sees, Writer
<1>11. \A d \in Conn \ {c} : Compatible(r, con[d])
  <2> SUFFICES ASSUME NEW d \in Conn \ {c} PROVE Compatible(r, con[d])
    OBVIOUS
  <2>1. Compatible(q, con[d]) /\ -1 \notin con[d].excl
    BY OtherFacts DEF q
  <2>2. con[d].writeLock = FALSE
    BY <1>4
  <2> QED BY <2>1, <2>2, <1>2, <1>3, <1>8 DEF Compatible
<1> QED BY <1>2, <1>7, <1>9, <1>10, <1>11, QuietStep

\* WriteHdr1 preserves the invariant.
LEMMA WriteHdr1Step ==
  ASSUME IInv, sc' = sc, NEW c \in Conn, WriteHdr1(c)
  PROVE  IInv'
<1> DEFINE q == con[c]
<1>1. q \in ConSet(sc) /\ Ctl(q) /\ Held(sc, q) /\ Sees(sc, q, shm.hdr0, NextVer)
  BY ConnFacts, GoodFields
<1>0. shm' \in ShmSet(sc) /\ shm'.hdr0 = shm.hdr0
  <2>1. shm' = [shm EXCEPT !.hdr1 = con[c].hdr]
    BY DEF WriteHdr1
  <2>2. shm \in ShmSet(sc) /\ con[c].hdr \in HdrSet(sc)
    BY ConnFacts, ConnTypes
  <2> QED BY <2>1, <2>2 DEF ShmSet
<1>2. /\ q.pc = "write1"
      /\ shm' \in ShmSet(sc) /\ shm'.hdr0 = shm.hdr0
      /\ UNCHANGED <<wal, db, head>> /\ nSalt' \in Nat
  BY <1>0, ConnFacts DEF WriteHdr1, ghosts
<1> HIDE DEF q
<1> DEFINE r == [q EXCEPT !.pc = "write0"]
<1>3. /\ "write0" \in PcSet
  BY DEF PcSet
<1>4. r \in ConSet(sc)
  BY <1>1, <1>3, Zenon DEF ConSet
<1>5. /\ r.pc = "write0" /\ r.op = q.op /\ r.then = q.then /\ r.hdr = q.hdr
      /\ r.readLock = q.readLock /\ r.excl = q.excl /\ r.writeLock = q.writeLock
      /\ r.mxI = q.mxI /\ r.mode = q.mode /\ r.i = q.i
  BY <1>1 DEF ConSet
<1>6. Become(c, r)
  BY DEF WriteHdr1, q, Goto
<1> HIDE DEF r
<1>7. Good(sc, r, shm.hdr0, NextVer)
  BY <1>1, <1>2, <1>4, <1>5 DEF Good, Ctl, Held, Sees, Writer
<1>8. /\ r.readLock \in {con[c].readLock, -1} /\ r.excl \subseteq con[c].excl
      /\ r.writeLock = con[c].writeLock \/ r.writeLock = FALSE
  BY <1>5 DEF q
<1> QED BY <1>2, <1>4, <1>6, <1>7, <1>8, PrivateStep

\* SelectMark preserves the invariant.
LEMMA SelectMarkStep ==
  ASSUME IInv, sc' = sc, NEW c \in Conn, SelectMark(c)
  PROVE  IInv'
<1> DEFINE q == con[c]
<1>1. q \in ConSet(sc) /\ Ctl(q) /\ Held(sc, q) /\ Sees(sc, q, shm.hdr0, NextVer)
  BY ConnFacts, GoodFields
<1> DEFINE mx == con[c].hdr.mx
           fit == {i \in Mark : MarkFits(c, i)}
           best == Max({0} \cup {shm.aReadMark[i] : i \in fit})
           last == Max({0} \cup {i \in fit : shm.aReadMark[i] = best})
           free == {i \in Mark : ExclOk(c, {i})}
           raise == (best < mx \/ last = 0) /\ free # {}
           slot == IF raise THEN Min(free) ELSE last
           mark == IF raise THEN mx ELSE best
<1>2. /\ con[c].pc = "mark" /\ UNCHANGED <<wal, db, head>> /\ nSalt' \in Nat
      /\ shm' = IF raise THEN [shm EXCEPT !.aReadMark[slot] = mx] ELSE shm
      /\ Become(c, IF slot = 0 THEN Retry(con[c])
                   ELSE [con[c] EXCEPT !.pc = "lockmark", !.mxI = slot, !.mark = mark])
  BY ConnFacts DEF SelectMark, ghosts
<1>3. /\ sc.nReader \in Nat /\ sc.nReader >= 2 /\ sc.maxFrame \in Nat /\ mx \in 0..sc.maxFrame
      /\ shm \in ShmSet(sc) /\ shm.aReadMark \in [1..sc.nReader-1 -> 0..sc.maxFrame+1]
      /\ q.op \in {"none", "read", "ckpt", "rewal"} /\ q.then \in {"none", "commit", "recover", "restart", "truncate"}
  BY ConnTypes, ConnFacts, ShmFields
<1>4. /\ best \in 0..mx /\ last \in 0..sc.nReader-1
      /\ free # {} => Min(free) \in 1..sc.nReader-1
  <2>1. fit \in SUBSET (1..sc.nReader-1) /\ \A i \in fit : shm.aReadMark[i] <= mx
    BY DEF Mark, NReader, MarkFits
  <2>2. free \in SUBSET (0..sc.nReader-1) /\ free \in SUBSET (1..sc.nReader-1)
    BY DEF Mark, NReader
  <2> HIDE DEF mx, fit, free
  <2>3. best \in 0..mx
    <3> DEFINE S == {0} \cup {shm.aReadMark[i] : i \in fit}
    <3>3. \A i \in fit : shm.aReadMark[i] \in 0..mx
      BY <1>3, <2>1
    <3>4. \A x \in S : x \in 0..mx
      BY <1>3, <3>3
    <3>5. S # {}
      OBVIOUS
    <3> HIDE DEF S
    <3>1. S \in SUBSET (0..sc.maxFrame) /\ S # {} /\ \A x \in S : x \in 0..mx
      BY <1>3, <3>4, <3>5
    <3> HIDE DEF S
    <3>2. Max(S) \in S
      BY <3>1, <1>3, MaxFacts, Zenon
    <3> QED BY <3>1, <3>2 DEF S, best
  <2> HIDE DEF best
  <2>4. last \in 0..sc.nReader-1
    <3> DEFINE S == {0} \cup {i \in fit : shm.aReadMark[i] = best}
    <3>3. S \subseteq {0} \cup fit /\ S # {}
      OBVIOUS
    <3> HIDE DEF S
    <3>1. S \in SUBSET (0..sc.nReader-1) /\ S # {} /\ sc.nReader-1 \in Nat
      BY <1>3, <2>1, <3>3
    <3> HIDE DEF S
    <3>2. Max(S) \in S
      BY <3>1, MaxFacts, Zenon
    <3> QED BY <3>1, <3>2 DEF S, last
  <2>6. sc.nReader-1 \in Nat
    BY <1>3
  <2>5. ASSUME free # {} PROVE Min(free) \in 1..sc.nReader-1
    <3>1. Min(free) \in free
      BY <2>6, <2>2, <2>5, MinFacts, Zenon
    <3> QED BY <3>1, <2>2
  <2> QED BY <2>3, <2>4, <2>5
<1> HIDE DEF mx, fit, best, last, free
<1>5. /\ slot \in 0..sc.nReader-1 /\ mark \in 0..sc.maxFrame
      /\ raise => slot \in 1..sc.nReader-1
  BY <1>3, <1>4
<1>6. shm' \in ShmSet(sc) /\ shm'.hdr0 = shm.hdr0
  <2>1. CASE raise
    <3> DEFINE a == [shm.aReadMark EXCEPT ![slot] = mx]
    <3>1. a \in [1..sc.nReader-1 -> 0..sc.maxFrame+1]
      BY <2>1, <1>3, <1>5
    <3>2. shm' = [shm EXCEPT !.aReadMark = a]
      BY <2>1, <1>2
    <3> HIDE DEF a
    <3> QED BY <3>1, <3>2, <1>3 DEF ShmSet
  <2>2. CASE ~raise
    BY <2>2, <1>2, <1>3
  <2> QED BY <2>1, <2>2
<1>7. CASE slot = 0
  <2>1. UNCHANGED <<shm, wal, db, head>> /\ Become(c, Retry(con[c]))
    BY <1>2, <1>5, <1>7
  <2> QED BY <2>1, <1>2, RetryStep
<1>8. CASE slot # 0
  <2>1. Become(c, [q EXCEPT !.pc = "lockmark", !.mxI = slot, !.mark = mark])
    BY <1>2, <1>8
  <2>2. q.pc = "mark"
    BY <1>2
  <2> HIDE DEF q, slot, mark
  <2> DEFINE r == [q EXCEPT !.pc = "lockmark", !.mxI = slot, !.mark = mark]
  <2>3. /\ "lockmark" \in PcSet
    BY DEF PcSet
  <2>4. r \in ConSet(sc)
    BY <1>1, <1>5, <2>3, Zenon DEF ConSet
  <2>5. /\ r.pc = "lockmark" /\ r.op = q.op /\ r.then = q.then /\ r.hdr = q.hdr
        /\ r.readLock = q.readLock /\ r.excl = q.excl /\ r.writeLock = q.writeLock
        /\ r.mxI = slot /\ r.mode = q.mode /\ r.i = q.i
    BY <1>1 DEF ConSet
  <2>6. Become(c, r)
    BY <2>1 DEF SelectMark, q
  <2> HIDE DEF r
  <2>7. Good(sc, r, shm.hdr0, NextVer)
    BY <1>1, <1>2, <1>3, <1>8, <2>2, <2>4, <2>5 DEF Good, Ctl, Held, Sees, Writer
  <2>8. /\ r.readLock \in {con[c].readLock, -1} /\ r.excl \subseteq con[c].excl
        /\ r.writeLock = con[c].writeLock \/ r.writeLock = FALSE
    BY <2>5 DEF q
  <2> QED BY <1>2, <1>6, <2>4, <2>6, <2>7, <2>8, PrivateStep
<1> QED BY <1>7, <1>8

\* walRestartHdr on a connection's own header.
LEMMA RestartedFacts ==
  ASSUME NEW s \in Scenarios, NEW q \in ConSet(s), nSalt \in Nat, NEW r, r = RestartedHdr(q)
  PROVE  /\ r \in ConSet(s) /\ r.hdr.mx = 0 /\ r.hdr \in HdrSet(s) /\ r.pc = q.pc
         /\ r.op = q.op /\ r.then = q.then /\ r.readLock = q.readLock
         /\ r.excl = q.excl /\ r.writeLock = q.writeLock /\ r.mxI = q.mxI
         /\ r.mode = q.mode /\ r.i = q.i
<1> DEFINE h == [q.hdr EXCEPT !.mx = 0, !.salt = nSalt + 1]
<1>1. q.hdr \in HdrSet(s) /\ q.nCkpt + 1 \in Nat /\ nSalt + 1 \in Nat /\ 0 \in 0..s.maxFrame
  BY ConFields, ScFacts
<1>2. h \in HdrSet(s)
  BY <1>1, Zenon DEF HdrSet
<1>3. h.mx = 0
  BY <1>1 DEF HdrSet
<1>4. r = [q EXCEPT !.hdr = h, !.nCkpt = q.nCkpt + 1]
  BY DEF RestartedHdr
<1> HIDE DEF h
<1>5. r \in ConSet(s)
  <2>1. [q EXCEPT !.hdr = h, !.nCkpt = q.nCkpt + 1] \in ConSet(s)
    BY <1>1, <1>2, Zenon DEF ConSet
  <2> QED BY <2>1, <1>4
<1>6. r.hdr = h
  BY <1>4 DEF ConSet
<1> QED BY <1>2, <1>3, <1>4, <1>5, <1>6 DEF ConSet

\* RestartLog preserves the invariant.
LEMMA RestartLogStep ==
  ASSUME IInv, sc' = sc, NEW c \in Conn, RestartLog(c)
  PROVE  IInv'
<1> DEFINE q == con[c]
<1>1. q \in ConSet(sc) /\ Ctl(q) /\ Held(sc, q) /\ Sees(sc, q, shm.hdr0, NextVer)
  BY ConnFacts, GoodFields
<1>2. /\ q.pc = "writing" /\ UNCHANGED <<wal, db, head>>
      /\ shm' \in ShmSet(sc) /\ shm'.hdr0 = shm.hdr0 /\ nSalt' \in Nat
  BY ConnFacts DEF RestartLog, ghosts
<1>3. /\ q.op \in {"none", "read", "ckpt", "rewal"} /\ q.then \in {"none", "commit", "recover", "restart", "truncate"}
      /\ q.readLock \in -1..sc.nReader-1 /\ sc.nReader \in Nat
      /\ q.hdr.mx \in Nat /\ sc.maxFrame \in Nat /\ sc.pagesPerTxn \in Nat
  BY ConnTypes, ConnFacts, ScFacts
<1> DEFINE restart == q.readLock = 0 /\ shm.nBackfill > 0 /\ LogUnused(c)
<1>4. CASE restart
  <2> DEFINE r0 == RestartedHdr(con[c])
  <2>1. Become(c, [r0 EXCEPT !.pc = "write1", !.then = "restart", !.excl = Mark])
    BY <1>4 DEF RestartLog
  <2>2. /\ r0 \in ConSet(sc) /\ r0.hdr.mx = 0 /\ r0.pc = q.pc /\ r0.op = q.op
        /\ r0.then = q.then /\ r0.readLock = q.readLock /\ r0.excl = q.excl
        /\ r0.writeLock = q.writeLock /\ r0.mxI = q.mxI /\ r0.mode = q.mode /\ r0.i = q.i
    BY <1>1, ConnFacts, RestartedFacts
  <2>3. Mark \in SUBSET (0..sc.nReader-1) /\ Mark = 1..sc.nReader-1
    BY <1>3 DEF Mark, NReader
  <2>4. q.readLock = 0
    BY <1>4
  <2>5. r0 \in ConSet(sc)
    BY <2>2
  <2> HIDE DEF q, r0
  <2> DEFINE r == [r0 EXCEPT !.pc = "write1", !.then = "restart", !.excl = Mark]
  <2>6. /\ "write1" \in PcSet /\ "restart" \in ThenSet
    BY DEF PcSet, ThenSet
  <2>7. r \in ConSet(sc)
    BY <2>5, <2>3, <2>6, Zenon DEF ConSet
  <2>8. /\ r.pc = "write1" /\ r.op = r0.op /\ r.then = "restart" /\ r.hdr = r0.hdr
        /\ r.readLock = r0.readLock /\ r.excl = Mark /\ r.writeLock = r0.writeLock
        /\ r.mxI = r0.mxI /\ r.mode = r0.mode /\ r.i = r0.i
    BY <2>5 DEF ConSet
  <2>9. Become(c, r)
    BY <2>1 DEF RestartLog, q
  <2> HIDE DEF r
  <2>10. Good(sc, r, shm.hdr0, NextVer)
    BY <1>1, <1>2, <1>3, <2>2, <2>3, <2>4, <2>7, <2>8 DEF Good, Ctl, Held, Sees, Writer
  <2>11. \A d \in Conn \ {c} : Compatible(r, con[d])
    <3> SUFFICES ASSUME NEW d \in Conn \ {c} PROVE Compatible(r, con[d])
      OBVIOUS
    <3>1. Compatible(q, con[d]) /\ -1 \notin con[d].excl
      BY OtherFacts DEF q
    <3>2. con[d].readLock \notin Mark /\ con[d].excl \cap Mark = {}
      BY <1>4 DEF LogUnused, ExclOk
    <3> QED BY <3>1, <3>2, <1>2, <1>3, <2>2, <2>3, <2>4, <2>8 DEF Compatible
  <2> QED BY <1>2, <2>7, <2>9, <2>10, <2>11, QuietStep
<1>5. CASE ~restart /\ q.readLock = 0
  <2>1. Become(c, [q EXCEPT !.pc = "mark", !.op = "rewal", !.readLock = None])
    BY <1>5 DEF RestartLog
  <2>2. None = -1 /\ None \in -1..sc.nReader-1
    BY <1>3 DEF None
  <2> HIDE DEF q, restart
  <2> DEFINE r == [q EXCEPT !.pc = "mark", !.op = "rewal", !.readLock = None]
  <2>3. /\ "mark" \in PcSet /\ "rewal" \in OpSet
    BY DEF OpSet, PcSet
  <2>4. r \in ConSet(sc)
    BY <1>1, <2>2, <2>3, Zenon DEF ConSet
  <2>5. /\ r.pc = "mark" /\ r.op = "rewal" /\ r.then = q.then /\ r.hdr = q.hdr
        /\ r.readLock = None /\ r.excl = q.excl /\ r.writeLock = q.writeLock
        /\ r.mxI = q.mxI /\ r.mode = q.mode /\ r.i = q.i
    BY <1>1 DEF ConSet
  <2>6. Become(c, r)
    BY <2>1 DEF RestartLog, q
  <2> HIDE DEF r
  <2>7. Good(sc, r, shm.hdr0, NextVer)
    BY <1>1, <1>2, <1>3, <1>5, <2>2, <2>4, <2>5 DEF Good, Ctl, Held, Sees, Writer
  <2>8. /\ r.readLock \in {con[c].readLock, -1} /\ r.excl \subseteq con[c].excl
        /\ r.writeLock = con[c].writeLock \/ r.writeLock = FALSE
    BY <2>2, <2>5 DEF q
  <2> QED BY <1>2, <2>4, <2>6, <2>7, <2>8, PrivateStep
<1>6. CASE ~restart /\ q.readLock # 0
  <2>1. Become(c, [q EXCEPT !.pc = "append"])
    BY <1>6 DEF RestartLog
  <2> HIDE DEF q, restart
  <2> DEFINE r == [q EXCEPT !.pc = "append"]
  <2>2. /\ "append" \in PcSet
    BY DEF PcSet
  <2>3. r \in ConSet(sc)
    BY <1>1, <2>2, Zenon DEF ConSet
  <2>4. /\ r.pc = "append" /\ r.op = q.op /\ r.then = q.then /\ r.hdr = q.hdr
        /\ r.readLock = q.readLock /\ r.excl = q.excl /\ r.writeLock = q.writeLock
        /\ r.mxI = q.mxI /\ r.mode = q.mode /\ r.i = q.i
    BY <1>1 DEF ConSet
  <2>5. Become(c, r)
    BY <2>1 DEF RestartLog, q
  <2> HIDE DEF r
  <2>6. Good(sc, r, shm.hdr0, NextVer)
    BY <1>1, <1>2, <1>3, <1>6, <2>3, <2>4 DEF Good, Ctl, Held, Sees, Writer
  <2>7. /\ r.readLock \in {con[c].readLock, -1} /\ r.excl \subseteq con[c].excl
        /\ r.writeLock = con[c].writeLock \/ r.writeLock = FALSE
    BY <2>4 DEF q
  <2> QED BY <1>2, <2>3, <2>5, <2>6, <2>7, PrivateStep
<1> QED BY <1>4, <1>5, <1>6

\* The checkpoint information of a restarted log.
LEMMA RestartInfoFacts ==
  ASSUME IInv, NEW c \in Conn, RestartInfo
  PROVE  shm' \in ShmSet(sc) /\ shm'.hdr0 = shm.hdr0
<1> DEFINE a == [i \in Mark |-> IF i = 1 THEN 0 ELSE NOT_USED]
<1>1. shm \in ShmSet(sc) /\ sc.maxFrame \in Nat /\ sc.nReader \in Nat
  BY ConnFacts, ConnTypes
<1>2. a \in [1..sc.nReader-1 -> 0..sc.maxFrame+1] /\ 0 \in 0..sc.maxFrame
  BY <1>1 DEF Mark, NReader, NOT_USED, MaxFrame
<1>3. shm' = [shm EXCEPT !.nBackfill = 0, !.aReadMark = a]
  BY DEF RestartInfo
<1> HIDE DEF a
<1> QED BY <1>1, <1>2, <1>3 DEF ShmSet

\* EndRestart preserves the invariant.
LEMMA EndRestartStep ==
  ASSUME IInv, sc' = sc, NEW c \in Conn, EndRestart(c)
  PROVE  IInv'
<1> DEFINE q == con[c]
<1>1. q \in ConSet(sc) /\ Ctl(q) /\ Held(sc, q) /\ Sees(sc, q, shm.hdr0, NextVer)
  BY ConnFacts, GoodFields
<1>2. /\ q.pc = "restart" /\ UNCHANGED <<wal, db, head>> /\ nSalt' \in Nat
      /\ shm' \in ShmSet(sc) /\ shm'.hdr0 = shm.hdr0
  BY ConnFacts, RestartInfoFacts DEF EndRestart, ghosts
<1>3. /\ q.op \in {"none", "read", "ckpt", "rewal"} /\ q.then \in {"none", "commit", "recover", "restart", "truncate"}
      /\ None = -1 /\ None \in -1..sc.nReader-1
  BY ConnTypes DEF None
<1>4. {} \in SUBSET (0..sc.nReader-1)
  OBVIOUS
<1> HIDE DEF q
<1> DEFINE r == [q EXCEPT !.pc = "mark", !.op = "rewal", !.then = "none",
                          !.readLock = None, !.excl = {}]
<1>5. /\ "mark" \in PcSet /\ "rewal" \in OpSet /\ "none" \in ThenSet
  BY DEF OpSet, PcSet, ThenSet
<1>6. r \in ConSet(sc)
  BY <1>1, <1>3, <1>4, <1>5, Zenon DEF ConSet
<1>7. /\ r.pc = "mark" /\ r.op = "rewal" /\ r.then = "none" /\ r.hdr = q.hdr
      /\ r.readLock = None /\ r.excl = {} /\ r.writeLock = q.writeLock /\ r.mxI = q.mxI
      /\ r.mode = q.mode /\ r.i = q.i
  BY <1>1 DEF ConSet
<1>8. Become(c, r)
  BY DEF EndRestart, q
<1> HIDE DEF r
<1>9. Good(sc, r, shm.hdr0, NextVer)
  BY <1>1, <1>2, <1>3, <1>6, <1>7 DEF Good, Ctl, Held, Sees, Writer
<1>10. /\ r.readLock \in {con[c].readLock, -1} /\ r.excl \subseteq con[c].excl
       /\ r.writeLock = con[c].writeLock \/ r.writeLock = FALSE
  BY <1>3, <1>7 DEF q
<1> QED BY <1>2, <1>6, <1>8, <1>9, <1>10, PrivateStep

\* WriteHdr0 preserves the invariant.
LEMMA WriteHdr0Step ==
  ASSUME IInv, sc' = sc, NEW c \in Conn, WriteHdr0(c)
  PROVE  IInv'
<1> DEFINE q == con[c]
<1>1. q \in ConSet(sc) /\ Ctl(q) /\ Held(sc, q) /\ Sees(sc, q, shm.hdr0, NextVer)
  BY ConnFacts, GoodFields
<1>2. /\ q.pc = "write0" /\ UNCHANGED <<wal, db>> /\ nSalt' \in Nat
      /\ shm' = [shm EXCEPT !.hdr0 = q.hdr]
      /\ Become(c, [q EXCEPT !.pc = q.then])
      /\ head' = IF q.then \in {"commit", "recover"} /\ q.hdr.mx > 0 THEN q.hdr.ck ELSE head
  BY ConnFacts DEF WriteHdr0, Goto
<1>3. /\ q.op \in {"none", "read", "ckpt", "rewal"} /\ q.then \in {"none", "commit", "recover", "restart", "truncate"}
      /\ q.hdr \in HdrSet(sc) /\ sc \in Scenarios /\ shm \in ShmSet(sc)
      /\ head \in 0..sc.maxTxn /\ q.hdr.mx \in Int /\ shm.hdr0.mx \in Int
  BY ConnFacts, ConnTypes
<1>4. shm' \in ShmSet(sc) /\ shm'.hdr0 = q.hdr
  BY <1>2, <1>3 DEF ShmSet
<1>5. head' \in 0..sc.maxTxn
  BY <1>2, <1>3, HdrFields
<1>6. q.then = "restart" => NextVer' = NextVer
  BY <1>2 DEF NextVer, MaxFrame
<1>7. wal' \in WalSet(sc) /\ db' \in [Page -> 0..sc.maxTxn]
  BY <1>2, ConnFacts
<1>8. q.then \in PcSet
  BY <1>1, <1>2, <1>3 DEF Ctl, PcSet
<1>9. q.writeLock = TRUE
  BY <1>1, <1>2 DEF Ctl, Held
<1>10. ASSUME NEW d \in Conn \ {c} PROVE Sees(sc, con[d], q.hdr, NextVer')
  <2> DEFINE p == con[d]
  <2>1. Held(sc, p) /\ Sees(sc, p, shm.hdr0, NextVer) /\ Compatible(q, p)
    BY ConnFacts, GoodFields, OtherFacts
  <2>2. p.readLock \in -1..sc.nReader-1 /\ p.hdr.mx \in Int /\ sc.nReader \in Nat
    BY ConnTypes
  <2> HIDE DEF p
  <2>3. ASSUME p.pc = "reading", p.readLock # 0 PROVE p.hdr.mx <= q.hdr.mx
    <3>1. CASE q.then = "commit"
      BY <3>1, <2>1, <2>2, <2>3, <1>1, <1>3 DEF Sees
    <3>2. CASE q.then # "commit"
      <4>1. 1..sc.nReader-1 \subseteq q.excl
        BY <3>2, <1>1, <1>2, <1>3, <2>2 DEF Held, Ctl
      <4>2. p.readLock \in 1..sc.nReader-1
        BY <2>1, <2>2, <2>3 DEF Held
      <4> QED BY <4>1, <4>2, <2>1 DEF Compatible
    <3> QED BY <3>1, <3>2
  <2> QED BY <2>3, <1>9, OtherSees DEF p
<1> HIDE DEF q
<1> DEFINE r == [q EXCEPT !.pc = q.then]
<1>11. r \in ConSet(sc)
  BY <1>1, <1>8, Zenon DEF ConSet
<1>12. /\ r.pc = q.then /\ r.op = q.op /\ r.then = q.then /\ r.hdr = q.hdr
       /\ r.readLock = q.readLock /\ r.excl = q.excl /\ r.writeLock = q.writeLock
       /\ r.mxI = q.mxI /\ r.mode = q.mode /\ r.i = q.i
  BY <1>1 DEF ConSet
<1>13. Become(c, r)
  BY <1>2
<1> HIDE DEF r
<1>14. Good(sc, r, shm'.hdr0, NextVer')
  <2>1. Ctl(r) /\ Held(sc, r)
    BY <1>1, <1>2, <1>3, <1>12 DEF Ctl, Held, Writer
  <2>2. Sees(sc, r, q.hdr, NextVer')
    BY <1>1, <1>2, <1>3, <1>6, <1>12 DEF Ctl, Sees, Writer
  <2> QED BY <2>1, <2>2, <1>4, <1>11 DEF Good
<1>15. \A d \in Conn \ {c} : Compatible(r, con[d])
  <2> SUFFICES ASSUME NEW d \in Conn \ {c} PROVE Compatible(r, con[d])
    OBVIOUS
  <2>1. Compatible(q, con[d])
    BY OtherFacts DEF q
  <2> QED BY <2>1, <1>12 DEF Compatible
<1>16. \A d \in Conn \ {c} : Sees(sc, con[d], shm'.hdr0, NextVer')
  BY <1>4, <1>10
<1> QED BY <1>2, <1>4, <1>5, <1>7, <1>11, <1>13, <1>14, <1>15, <1>16, StepFacts

\* EndRecover preserves the invariant.
LEMMA EndRecoverStep ==
  ASSUME IInv, sc' = sc, NEW c \in Conn, EndRecover(c)
  PROVE  IInv'
<1> DEFINE q == con[c]
<1>1. q \in ConSet(sc) /\ Ctl(q) /\ Held(sc, q) /\ Sees(sc, q, shm.hdr0, NextVer)
  BY ConnFacts, GoodFields
<1> DEFINE a == [i \in Mark |-> IF i = 1 /\ con[c].hdr.mx > 0 THEN con[c].hdr.mx
                                ELSE NOT_USED]
<1>2. /\ q.pc = "recover" /\ UNCHANGED <<wal, db, head>> /\ nSalt' \in Nat
      /\ shm' \in ShmSet(sc) /\ shm'.hdr0 = shm.hdr0
  <2>1. /\ shm \in ShmSet(sc) /\ sc.maxFrame \in Nat /\ sc.nReader \in Nat
        /\ con[c].hdr.mx \in 0..sc.maxFrame
    BY ConnFacts, ConnTypes
  <2>2. a \in [1..sc.nReader-1 -> 0..sc.maxFrame+1] /\ 0 \in 0..sc.maxFrame
    BY <2>1 DEF Mark, NReader, NOT_USED, MaxFrame
  <2>3. shm' = [shm EXCEPT !.nBackfill = 0, !.aReadMark = a]
    BY DEF EndRecover
  <2> HIDE DEF a
  <2>4. shm' \in ShmSet(sc) /\ shm'.hdr0 = shm.hdr0
    BY <2>1, <2>2, <2>3 DEF ShmSet
  <2> QED BY <2>4, ConnFacts DEF EndRecover, ghosts
<1>3. q.op \in {"none", "read", "ckpt", "rewal"} /\ q.then \in {"none", "commit", "recover", "restart", "truncate"}
  BY ConnTypes
<1>4. AfterHdr(q.op) \in PcSet /\ FALSE \in BOOLEAN /\ {} \in SUBSET (0..sc.nReader-1)
  BY DEF AfterHdr, PcSet
<1> HIDE DEF q
<1> DEFINE r == [q EXCEPT !.pc = AfterHdr(q.op), !.then = "none", !.writeLock = FALSE,
                          !.excl = {}]
<1>5. /\ "none" \in ThenSet
  BY DEF ThenSet
<1>6. r \in ConSet(sc)
  BY <1>1, <1>4, <1>5, Zenon DEF ConSet
<1>7. /\ r.pc = AfterHdr(q.op) /\ r.op = q.op /\ r.then = "none" /\ r.hdr = q.hdr
      /\ r.readLock = q.readLock /\ r.excl = {} /\ r.writeLock = FALSE /\ r.mxI = q.mxI
      /\ r.mode = q.mode /\ r.i = q.i
  BY <1>1 DEF ConSet
<1>8. Become(c, r)
  BY DEF EndRecover, q
<1> HIDE DEF r
<1>9. Good(sc, r, shm.hdr0, NextVer)
  BY <1>1, <1>2, <1>3, <1>6, <1>7 DEF Good, Ctl, Held, Sees, Writer, AfterHdr
<1>10. /\ r.readLock \in {con[c].readLock, -1} /\ r.excl \subseteq con[c].excl
       /\ r.writeLock = con[c].writeLock \/ r.writeLock = FALSE
  BY <1>7 DEF q
<1> QED BY <1>2, <1>6, <1>8, <1>9, <1>10, PrivateStep

\* The last commit that recovery finds.
LEMMA RecoveredFacts ==
  ASSUME IInv, NEW c \in Conn
  PROVE  RecoveredMx \in 0..sc.maxFrame
<1> DEFINE S == {0} \cup {i \in ValidFrames : wal.f[i].commit}
<1>1. sc.maxFrame \in Nat
  BY ConnTypes
<1>2. ValidFrames \in SUBSET (1..sc.maxFrame)
  BY DEF ValidFrames, MaxFrame
<1>3. S \in SUBSET (0..sc.maxFrame) /\ S # {}
  <2>1. S \subseteq {0} \cup ValidFrames /\ S # {}
    OBVIOUS
  <2> HIDE DEF S
  <2> QED BY <2>1, <1>1, <1>2
<1>4. RecoveredMx = Max(S)
  BY DEF RecoveredMx
<1> HIDE DEF S
<1>5. Max(S) \in S
  BY <1>1, <1>3, MaxFacts, Zenon
<1> QED BY <1>3, <1>4, <1>5

\* The fields of a frame.
LEMMA FrameFields ==
  ASSUME NEW s, NEW w \in WalSet(s), NEW i \in 1..s.maxFrame
  PROVE  w.f[i].ver \in 0..s.maxTxn /\ w.f[i].pg \in 0..MaxPage /\ w.nCkpt \in Nat
         /\ w.salt \in Nat /\ w.f \in [1..s.maxFrame -> FrameSet(s)]
<1>1. w.f \in [1..s.maxFrame -> FrameSet(s)] /\ w.nCkpt \in Nat /\ w.salt \in Nat
  BY DEF WalSet
<1>2. w.f[i] \in FrameSet(s)
  BY <1>1
<1> QED BY <1>1, <1>2 DEF FrameSet

\* StartRecover preserves the invariant.
LEMMA StartRecoverStep ==
  ASSUME IInv, sc' = sc, NEW c \in Conn, StartRecover(c)
  PROVE  IInv'
<1> DEFINE q == con[c]
<1>1. q \in ConSet(sc) /\ Ctl(q) /\ Held(sc, q) /\ Sees(sc, q, shm.hdr0, NextVer)
  BY ConnFacts, GoodFields
<1> DEFINE mx == RecoveredMx
           ck == IF mx = 0 THEN 0 ELSE wal.f[mx].ver
           h == [isInit |-> TRUE, mx |-> mx, salt |-> wal.salt, iChange |-> 0, ck |-> ck]
           n == IF wal = NoLog THEN q.nCkpt ELSE wal.nCkpt
           a == [i \in 1..MaxFrame |-> IF i \in ValidFrames THEN wal.f[i].pg ELSE 0]
<1>0. /\ sc \in Scenarios /\ shm \in ShmSet(sc) /\ wal \in WalSet(sc)
      /\ sc.maxFrame \in Nat /\ sc.maxTxn \in Nat /\ MaxPage \in Nat
      /\ sc.nReader \in Nat /\ q.nCkpt \in Nat
  BY ConnFacts, ConnTypes, ScFacts
<1>2. /\ q.pc = "badhdr" /\ UNCHANGED <<wal, db, head>> /\ nSalt' \in Nat
      /\ shm' \in ShmSet(sc) /\ shm'.hdr0 = shm.hdr0
  <2>1. a \in [1..sc.maxFrame -> 0..MaxPage]
    BY <1>0, FrameFields DEF MaxFrame
  <2>2. shm' = [shm EXCEPT !.aPgno = a]
    BY DEF StartRecover
  <2> HIDE DEF a
  <2>3. shm' \in ShmSet(sc) /\ shm'.hdr0 = shm.hdr0
    BY <1>0, <2>1, <2>2 DEF ShmSet
  <2> QED BY <2>3, ConnFacts DEF StartRecover, ghosts
<1>3. q.op \in {"none", "read", "ckpt", "rewal"} /\ q.then \in {"none", "commit", "recover", "restart", "truncate"}
  BY ConnTypes
<1>4. h \in HdrSet(sc)
  <2>1. mx \in 0..sc.maxFrame
    BY RecoveredFacts
  <2>2. ck \in 0..sc.maxTxn
    BY <1>0, <2>1, FrameFields
  <2>3. TRUE \in BOOLEAN /\ wal.salt \in Nat /\ 0 \in Nat
    BY <1>0 DEF WalSet
  <2> HIDE DEF mx, ck
  <2> QED BY <2>1, <2>2, <2>3, Zenon DEF HdrSet
<1>5. n \in Nat /\ TRUE \in BOOLEAN /\ 0..sc.nReader-1 \in SUBSET (0..sc.nReader-1)
  BY <1>0 DEF WalSet
<1>6. Become(c, [q EXCEPT !.pc = "write1", !.then = "recover", !.hdr = h, !.nCkpt = n,
                   !.changed = TRUE, !.writeLock = TRUE, !.excl = 0..sc.nReader-1])
  BY DEF StartRecover, NReader
<1>7. ASSUME NEW d \in Conn \ {c}
      PROVE  /\ con[d].writeLock = FALSE /\ con[d].readLock \notin 0..sc.nReader-1
             /\ con[d].excl \cap (0..sc.nReader-1) = {}
  <2>1. con[d].writeLock = FALSE
    BY OtherFacts DEF StartRecover, WriteFree
  <2> QED BY <2>1 DEF StartRecover, OthersOut, ExclOk, NReader
<1>8. q.writeLock # TRUE
  BY DEF StartRecover, WriteFree
<1> HIDE DEF q, h, n
<1> DEFINE r == [q EXCEPT !.pc = "write1", !.then = "recover", !.hdr = h, !.nCkpt = n,
                          !.changed = TRUE, !.writeLock = TRUE, !.excl = 0..sc.nReader-1]
<1>9. /\ "write1" \in PcSet /\ "recover" \in ThenSet
  BY DEF PcSet, ThenSet
<1>10. r \in ConSet(sc)
  BY <1>1, <1>4, <1>5, <1>9, Zenon DEF ConSet
<1>11. /\ r.pc = "write1" /\ r.op = q.op /\ r.then = "recover" /\ r.hdr = h
       /\ r.readLock = q.readLock /\ r.excl = 0..sc.nReader-1 /\ r.writeLock = TRUE
       /\ r.mxI = q.mxI /\ r.mode = q.mode /\ r.i = q.i
  BY <1>1 DEF ConSet
<1>12. Become(c, r)
  BY <1>6 DEF StartRecover, q
<1> HIDE DEF r
<1>13. Good(sc, r, shm.hdr0, NextVer)
  BY <1>1, <1>2, <1>3, <1>8, <1>10, <1>11 DEF Good, Ctl, Held, Sees, Writer
<1>14. \A d \in Conn \ {c} : Compatible(r, con[d])
  <2> SUFFICES ASSUME NEW d \in Conn \ {c} PROVE Compatible(r, con[d])
    OBVIOUS
  <2>1. Compatible(q, con[d]) /\ -1 \notin con[d].excl
    BY OtherFacts DEF q
  <2>2. /\ con[d].writeLock = FALSE /\ con[d].readLock \notin 0..sc.nReader-1
         /\ con[d].excl \cap (0..sc.nReader-1) = {}
    BY <1>7
  <2> QED BY <2>1, <2>2, <1>2, <1>3, <1>8, <1>11 DEF Compatible
<1> QED BY <1>2, <1>10, <1>12, <1>13, <1>14, QuietStep

\* StartCkpt preserves the invariant.
LEMMA StartCkptStep ==
  ASSUME IInv, sc' = sc, NEW c \in Conn, NEW m \in sc.modes, StartCkpt(c, m)
  PROVE  IInv'
<1> DEFINE q == con[c]
<1>1. q \in ConSet(sc) /\ Ctl(q) /\ Held(sc, q) /\ Sees(sc, q, shm.hdr0, NextVer)
  BY ConnFacts, GoodFields
<1>2. /\ q.pc = "idle" /\ UNCHANGED <<wal, db, head>> /\ nSalt' \in Nat
      /\ shm' \in ShmSet(sc) /\ shm'.hdr0 = shm.hdr0
  BY ConnFacts DEF StartCkpt, ghosts
<1>3. /\ q.op \in {"none", "read", "ckpt", "rewal"} /\ q.then \in {"none", "commit", "recover", "restart", "truncate"}
      /\ m \in ModeSet /\ "PASSIVE" \in ModeSet
      /\ TRUE \in BOOLEAN /\ FALSE \in BOOLEAN
  BY ConnTypes, ConnFacts, ScFacts DEF ModeSet
<1>4. CASE m # "PASSIVE" /\ WriteFree
  <2>1. Become(c, [q EXCEPT !.pc = "readhdr", !.op = "ckpt", !.ckptLock = TRUE,
                     !.writeLock = TRUE, !.mode = m])
    BY <1>4 DEF StartCkpt
  <2>2. ASSUME NEW d \in Conn \ {c} PROVE con[d].writeLock = FALSE
    BY <1>4, OtherFacts DEF WriteFree
  <2> HIDE DEF q
  <2> DEFINE r == [q EXCEPT !.pc = "readhdr", !.op = "ckpt", !.ckptLock = TRUE,
                            !.writeLock = TRUE, !.mode = m]
  <2>3. /\ "readhdr" \in PcSet /\ "ckpt" \in OpSet
    BY DEF OpSet, PcSet
  <2>4. r \in ConSet(sc)
    BY <1>1, <1>3, <2>3, Zenon DEF ConSet
  <2>5. /\ r.pc = "readhdr" /\ r.op = "ckpt" /\ r.then = q.then /\ r.hdr = q.hdr
        /\ r.readLock = q.readLock /\ r.excl = q.excl /\ r.writeLock = TRUE /\ r.mxI = q.mxI
        /\ r.mode = m /\ r.i = q.i
    BY <1>1 DEF ConSet
  <2>6. Become(c, r)
    BY <2>1 DEF StartCkpt, q
  <2> HIDE DEF r
  <2>7. Good(sc, r, shm.hdr0, NextVer)
    BY <1>1, <1>2, <1>3, <2>4, <2>5 DEF Good, Ctl, Held, Sees, Writer
  <2>8. \A d \in Conn \ {c} : Compatible(r, con[d])
    <3> SUFFICES ASSUME NEW d \in Conn \ {c} PROVE Compatible(r, con[d])
      OBVIOUS
    <3>1. Compatible(q, con[d]) /\ -1 \notin con[d].excl
      BY OtherFacts DEF q
    <3>2. con[d].writeLock = FALSE
      BY <2>2
    <3> QED BY <3>1, <3>2, <1>2, <1>3, <2>5 DEF Compatible
  <2> QED BY <1>2, <2>4, <2>6, <2>7, <2>8, QuietStep
<1>5. CASE ~(m # "PASSIVE" /\ WriteFree)
  <2>1. Become(c, [q EXCEPT !.pc = "readhdr", !.op = "ckpt", !.ckptLock = TRUE,
                     !.writeLock = FALSE, !.mode = "PASSIVE"])
    BY <1>5 DEF StartCkpt
  <2> HIDE DEF q
  <2> DEFINE r == [q EXCEPT !.pc = "readhdr", !.op = "ckpt", !.ckptLock = TRUE,
                            !.writeLock = FALSE, !.mode = "PASSIVE"]
  <2>2. /\ "readhdr" \in PcSet /\ "ckpt" \in OpSet /\ "PASSIVE" \in ModeSet
    BY DEF ModeSet, OpSet, PcSet
  <2>3. r \in ConSet(sc)
    BY <1>1, <1>3, <2>2, Zenon DEF ConSet
  <2>4. /\ r.pc = "readhdr" /\ r.op = "ckpt" /\ r.then = q.then /\ r.hdr = q.hdr
        /\ r.readLock = q.readLock /\ r.excl = q.excl /\ r.writeLock = FALSE
        /\ r.mxI = q.mxI /\ r.mode = "PASSIVE" /\ r.i = q.i
    BY <1>1 DEF ConSet
  <2>5. Become(c, r)
    BY <2>1 DEF StartCkpt, q
  <2> HIDE DEF r
  <2>6. Good(sc, r, shm.hdr0, NextVer)
    BY <1>1, <1>2, <1>3, <2>3, <2>4 DEF Good, Ctl, Held, Sees, Writer
  <2>7. /\ r.readLock \in {con[c].readLock, -1} /\ r.excl \subseteq con[c].excl
        /\ r.writeLock = con[c].writeLock \/ r.writeLock = FALSE
    BY <2>4 DEF q
  <2> QED BY <1>2, <2>3, <2>5, <2>6, <2>7, PrivateStep
<1> QED BY <1>4, <1>5

\* walIteratorInit names frames of the log.
LEMMA IteratorFacts ==
  ASSUME NEW s \in Scenarios, NEW a \in [1..s.maxFrame -> 0..MaxPage], NEW mx \in 0..s.maxFrame
  PROVE  Iterator(a, mx) \in SUBSET (Page \X (1..s.maxFrame))
<1>1. s.maxFrame \in Nat /\ MaxPage \in Nat
  BY ScFacts
<1>2. ASSUME NEW p \in {a[i] : i \in 1..mx} \ {0}
      PROVE  <<p, Max({i \in 1..mx : a[i] = p})>> \in Page \X (1..s.maxFrame)
  <2> DEFINE S == {i \in 1..mx : a[i] = p}
  <2>1. PICK i \in 1..mx : p = a[i] /\ p # 0
    OBVIOUS
  <2>2. p \in Page
    BY <1>1, <2>1 DEF Page
  <2>3. S # {} /\ S \subseteq 1..mx
    BY <2>1
  <2> HIDE DEF S
  <2>4. S \in SUBSET (0..s.maxFrame) /\ S \subseteq 1..s.maxFrame
    BY <1>1, <2>3
  <2>5. Max(S) \in S
    BY <1>1, <2>3, <2>4, MaxFacts, Zenon
  <2>6. Max(S) \in 1..s.maxFrame
    BY <2>4, <2>5
  <2> QED BY <2>2, <2>6 DEF S
<1> QED BY <1>2 DEF Iterator

\* CkptInit preserves the invariant.
LEMMA CkptInitStep ==
  ASSUME IInv, sc' = sc, NEW c \in Conn, CkptInit(c)
  PROVE  IInv'
<1> DEFINE q == con[c]
<1>1. q \in ConSet(sc) /\ Ctl(q) /\ Held(sc, q) /\ Sees(sc, q, shm.hdr0, NextVer)
  BY ConnFacts, GoodFields
<1>2. /\ q.pc = "ckinit" /\ UNCHANGED <<wal, db, head>> /\ nSalt' \in Nat
      /\ shm' \in ShmSet(sc) /\ shm'.hdr0 = shm.hdr0
  BY ConnFacts DEF CkptInit, ghosts
<1>3. q.op \in {"none", "read", "ckpt", "rewal"} /\ q.then \in {"none", "commit", "recover", "restart", "truncate"}
  BY ConnTypes
<1>4. CASE shm.nBackfill < q.hdr.mx
  <2> DEFINE t == Iterator(shm.aPgno, q.hdr.mx)
  <2>1. Become(c, [q EXCEPT !.pc = "readmark", !.mxSafe = q.hdr.mx, !.i = 1, !.todo = t])
    BY <1>4 DEF CkptInit
  <2>2. q.hdr.mx \in 0..sc.maxFrame /\ 1 \in 1..sc.nReader
    BY ConnTypes
  <2>3. t \in SUBSET (Page \X (1..sc.maxFrame))
    BY <2>2, ConnFacts, ShmFields, IteratorFacts
  <2> HIDE DEF q, t
  <2> DEFINE r == [q EXCEPT !.pc = "readmark", !.mxSafe = q.hdr.mx, !.i = 1, !.todo = t]
  <2>4. /\ "readmark" \in PcSet
    BY DEF PcSet
  <2>5. r \in ConSet(sc)
    BY <1>1, <2>2, <2>3, <2>4, Zenon DEF ConSet
  <2>6. /\ r.pc = "readmark" /\ r.op = q.op /\ r.then = q.then /\ r.hdr = q.hdr
        /\ r.readLock = q.readLock /\ r.excl = q.excl /\ r.writeLock = q.writeLock
        /\ r.mxI = q.mxI /\ r.mode = q.mode /\ r.i = 1
    BY <1>1 DEF ConSet
  <2>7. Become(c, r)
    BY <2>1 DEF CkptInit, q
  <2> HIDE DEF r
  <2>8. Good(sc, r, shm.hdr0, NextVer)
    BY <1>1, <1>2, <1>3, <2>5, <2>6 DEF Good, Ctl, Held, Sees, Writer
  <2>9. /\ r.readLock \in {con[c].readLock, -1} /\ r.excl \subseteq con[c].excl
        /\ r.writeLock = con[c].writeLock \/ r.writeLock = FALSE
    BY <2>6 DEF q
  <2> QED BY <1>2, <2>5, <2>7, <2>8, <2>9, PrivateStep
<1>5. CASE ~(shm.nBackfill < q.hdr.mx)
  <2>1. Become(c, [q EXCEPT !.pc = "ckend"])
    BY <1>5 DEF CkptInit
  <2> HIDE DEF q
  <2> DEFINE r == [q EXCEPT !.pc = "ckend"]
  <2>2. /\ "ckend" \in PcSet
    BY DEF PcSet
  <2>3. r \in ConSet(sc)
    BY <1>1, <2>2, Zenon DEF ConSet
  <2>4. /\ r.pc = "ckend" /\ r.op = q.op /\ r.then = q.then /\ r.hdr = q.hdr
        /\ r.readLock = q.readLock /\ r.excl = q.excl /\ r.writeLock = q.writeLock
        /\ r.mxI = q.mxI /\ r.mode = q.mode /\ r.i = q.i
    BY <1>1 DEF ConSet
  <2>5. Become(c, r)
    BY <2>1 DEF CkptInit, q
  <2> HIDE DEF r
  <2>6. Good(sc, r, shm.hdr0, NextVer)
    BY <1>1, <1>2, <1>3, <2>3, <2>4 DEF Good, Ctl, Held, Sees, Writer
  <2>7. /\ r.readLock \in {con[c].readLock, -1} /\ r.excl \subseteq con[c].excl
        /\ r.writeLock = con[c].writeLock \/ r.writeLock = FALSE
    BY <2>4 DEF q
  <2> QED BY <1>2, <2>3, <2>5, <2>6, <2>7, PrivateStep
<1> QED BY <1>4, <1>5

\* CkptReadMark preserves the invariant.
LEMMA CkptReadMarkStep ==
  ASSUME IInv, sc' = sc, NEW c \in Conn, CkptReadMark(c)
  PROVE  IInv'
<1> DEFINE q == con[c]
<1>1. q \in ConSet(sc) /\ Ctl(q) /\ Held(sc, q) /\ Sees(sc, q, shm.hdr0, NextVer)
  BY ConnFacts, GoodFields
<1>2. /\ q.pc = "readmark" /\ UNCHANGED <<wal, db, head>> /\ nSalt' \in Nat
      /\ shm' \in ShmSet(sc) /\ shm'.hdr0 = shm.hdr0
  BY ConnFacts DEF CkptReadMark, ghosts
<1>3. q.op \in {"none", "read", "ckpt", "rewal"} /\ q.then \in {"none", "commit", "recover", "restart", "truncate"}
  BY ConnTypes
<1>4. /\ q.i \in 1..sc.nReader /\ sc.nReader \in Nat /\ sc.nReader >= 2 /\ sc.maxFrame \in Nat
      /\ q.mxSafe \in 0..sc.maxFrame
      /\ shm.aReadMark \in [1..sc.nReader-1 -> 0..sc.maxFrame+1]
  BY <1>1, ConFields, ConnTypes, ConnFacts, ShmFields
<1>5. CASE q.i = NReader
  <2>1. Become(c, [q EXCEPT !.pc = "lock0", !.i = 1])
    BY <1>5 DEF CkptReadMark
  <2>2. 1 \in 1..sc.nReader
    BY <1>4
  <2> HIDE DEF q
  <2> DEFINE r == [q EXCEPT !.pc = "lock0", !.i = 1]
  <2>3. /\ "lock0" \in PcSet
    BY DEF PcSet
  <2>4. r \in ConSet(sc)
    BY <1>1, <2>2, <2>3, Zenon DEF ConSet
  <2>5. /\ r.pc = "lock0" /\ r.op = q.op /\ r.then = q.then /\ r.hdr = q.hdr
        /\ r.readLock = q.readLock /\ r.excl = q.excl /\ r.writeLock = q.writeLock
        /\ r.mxI = q.mxI /\ r.mode = q.mode /\ r.i = 1
    BY <1>1 DEF ConSet
  <2>6. Become(c, r)
    BY <2>1 DEF CkptReadMark, q
  <2> HIDE DEF r
  <2>7. Good(sc, r, shm.hdr0, NextVer)
    BY <1>1, <1>2, <1>3, <2>4, <2>5 DEF Good, Ctl, Held, Sees, Writer
  <2>8. /\ r.readLock \in {con[c].readLock, -1} /\ r.excl \subseteq con[c].excl
        /\ r.writeLock = con[c].writeLock \/ r.writeLock = FALSE
    BY <2>5 DEF q
  <2> QED BY <1>2, <2>4, <2>6, <2>7, <2>8, PrivateStep
<1>6. CASE q.i # NReader /\ q.mxSafe > shm.aReadMark[q.i]
  <2> DEFINE y == shm.aReadMark[q.i]
  <2>1. Become(c, [q EXCEPT !.pc = "trymark", !.y = y])
    BY <1>6 DEF CkptReadMark
  <2>2. q.i \in 1..sc.nReader-1 /\ q.i # sc.nReader
    BY <1>4, <1>6 DEF NReader
  <2>3. y \in 0..sc.maxFrame
    <3>1. y \in 0..sc.maxFrame+1 /\ q.mxSafe > y
      BY <1>4, <1>6, <2>2
    <3>2. q.mxSafe \in 0..sc.maxFrame /\ sc.maxFrame \in Nat
      BY <1>4
    <3> HIDE DEF q, y
    <3> QED BY <3>1, <3>2
  <2> HIDE DEF q, y
  <2> DEFINE r == [q EXCEPT !.pc = "trymark", !.y = y]
  <2>4. /\ "trymark" \in PcSet
    BY DEF PcSet
  <2>5. r \in ConSet(sc)
    BY <1>1, <2>3, <2>4, Zenon DEF ConSet
  <2>6. /\ r.pc = "trymark" /\ r.op = q.op /\ r.then = q.then /\ r.hdr = q.hdr
        /\ r.readLock = q.readLock /\ r.excl = q.excl /\ r.writeLock = q.writeLock
        /\ r.mxI = q.mxI /\ r.mode = q.mode /\ r.i = q.i
    BY <1>1 DEF ConSet
  <2>7. Become(c, r)
    BY <2>1 DEF CkptReadMark, q
  <2> HIDE DEF r
  <2>8. Good(sc, r, shm.hdr0, NextVer)
    BY <1>1, <1>2, <1>3, <2>2, <2>5, <2>6 DEF Good, Ctl, Held, Sees, Writer
  <2>9. /\ r.readLock \in {con[c].readLock, -1} /\ r.excl \subseteq con[c].excl
        /\ r.writeLock = con[c].writeLock \/ r.writeLock = FALSE
    BY <2>6 DEF q
  <2> QED BY <1>2, <2>5, <2>7, <2>8, <2>9, PrivateStep
<1>7. CASE q.i # NReader /\ ~(q.mxSafe > shm.aReadMark[q.i])
  <2>1. Become(c, [q EXCEPT !.i = q.i + 1])
    BY <1>7 DEF CkptReadMark
  <2>2. q.i + 1 \in 1..sc.nReader
    BY <1>4, <1>7 DEF NReader
  <2> HIDE DEF q
  <2> DEFINE r == [q EXCEPT !.i = q.i + 1]
  <2>4. r \in ConSet(sc)
    BY <1>1, <2>2, Zenon DEF ConSet
  <2>5. /\ r.pc = q.pc /\ r.op = q.op /\ r.then = q.then /\ r.hdr = q.hdr
        /\ r.readLock = q.readLock /\ r.excl = q.excl /\ r.writeLock = q.writeLock
        /\ r.mxI = q.mxI /\ r.mode = q.mode /\ r.i = q.i + 1
    BY <1>1 DEF ConSet
  <2>6. Become(c, r)
    BY <2>1 DEF CkptReadMark, q
  <2> HIDE DEF r
  <2>7. Good(sc, r, shm.hdr0, NextVer)
    BY <1>1, <1>2, <1>3, <2>4, <2>5 DEF Good, Ctl, Held, Sees, Writer
  <2>8. /\ r.readLock \in {con[c].readLock, -1} /\ r.excl \subseteq con[c].excl
        /\ r.writeLock = con[c].writeLock \/ r.writeLock = FALSE
    BY <2>5 DEF q
  <2> QED BY <1>2, <2>4, <2>6, <2>7, <2>8, PrivateStep
<1> QED BY <1>5, <1>6, <1>7

\* CkptTryMark preserves the invariant.
LEMMA CkptTryMarkStep ==
  ASSUME IInv, sc' = sc, NEW c \in Conn, CkptTryMark(c)
  PROVE  IInv'
<1> DEFINE q == con[c]
<1>1. q \in ConSet(sc) /\ Ctl(q) /\ Held(sc, q) /\ Sees(sc, q, shm.hdr0, NextVer)
  BY ConnFacts, GoodFields
<1> DEFINE free == ExclOk(c, {q.i})
           a == [shm.aReadMark EXCEPT ![q.i] = IF q.i = 1 THEN q.mxSafe ELSE NOT_USED]
<1>0. /\ q.pc = "trymark" /\ UNCHANGED <<wal, db, head>> /\ nSalt' \in Nat
  BY ConnFacts DEF CkptTryMark, ghosts
<1>3. /\ q.op \in {"none", "read", "ckpt", "rewal"} /\ q.then \in {"none", "commit", "recover", "restart", "truncate"}
      /\ q.i \in 1..sc.nReader-1 /\ sc.nReader \in Nat /\ sc.maxFrame \in Nat
      /\ q.mxSafe \in 0..sc.maxFrame /\ shm \in ShmSet(sc)
      /\ shm.aReadMark \in [1..sc.nReader-1 -> 0..sc.maxFrame+1] /\ q.y \in 0..sc.maxFrame
  <2>1. /\ q.i \in 1..sc.nReader /\ sc.nReader \in Nat /\ sc.maxFrame \in Nat
        /\ q.mxSafe \in 0..sc.maxFrame /\ q.y \in 0..sc.maxFrame
    BY <1>1, ConFields, ConnTypes
  <2>2. q.i # sc.nReader
    BY <1>0, <1>1 DEF Held
  <2> QED BY <2>1, <2>2, ConnTypes, ConnFacts, ShmFields
<1>2. q.pc = "trymark" /\ shm' \in ShmSet(sc) /\ shm'.hdr0 = shm.hdr0
      /\ UNCHANGED <<wal, db, head>> /\ nSalt' \in Nat
  <2>1. CASE free
    <3>1. a \in [1..sc.nReader-1 -> 0..sc.maxFrame+1]
      BY <1>3 DEF NOT_USED, MaxFrame
    <3>2. shm' = [shm EXCEPT !.aReadMark = a]
      <4>1. [q EXCEPT !.pc = "readmark", !.i = q.i + 1, !.y = 0].mxSafe = q.mxSafe
        BY <1>1 DEF ConSet
      <4> QED BY <2>1, <4>1 DEF CkptTryMark
    <3> HIDE DEF a
    <3>3. shm' \in ShmSet(sc) /\ shm'.hdr0 = shm.hdr0
      BY <3>1, <3>2, <1>3 DEF ShmSet
    <3> QED BY <3>3, <1>0
  <2>2. CASE ~free
    BY <2>2, <1>0, <1>3 DEF CkptTryMark
  <2> QED BY <2>1, <2>2
<1> DEFINE r0 == [q EXCEPT !.pc = "readmark", !.i = q.i + 1, !.y = 0]
<1>4. q.i + 1 \in 1..sc.nReader /\ 0 \in 0..sc.maxFrame /\ "readmark" \in PcSet
  BY <1>3 DEF PcSet
<1>5. Become(c, IF free THEN r0 ELSE [r0 EXCEPT !.mxSafe = q.y])
  BY DEF CkptTryMark, LimitedTo
<1> HIDE DEF q
<1>6. r0 \in ConSet(sc)
  BY <1>1, <1>4, Zenon DEF ConSet
<1>7. /\ r0.pc = "readmark" /\ r0.op = q.op /\ r0.then = q.then /\ r0.hdr = q.hdr
      /\ r0.readLock = q.readLock /\ r0.excl = q.excl /\ r0.writeLock = q.writeLock
      /\ r0.mxI = q.mxI /\ r0.mode = q.mode /\ r0.i = q.i + 1
  BY <1>1 DEF ConSet
<1> HIDE DEF r0
<1> DEFINE r == IF free THEN r0 ELSE [r0 EXCEPT !.mxSafe = q.y]
<1>8. r \in ConSet(sc)
  <2>1. [r0 EXCEPT !.mxSafe = q.y] \in ConSet(sc)
    <3>1. q.y \in 0..sc.maxFrame
      BY <1>3
    <3> QED BY <1>6, <3>1, Zenon DEF ConSet
  <2> QED BY <2>1, <1>6
<1>9. /\ r.pc = r0.pc /\ r.op = r0.op /\ r.then = r0.then /\ r.hdr = r0.hdr
      /\ r.readLock = r0.readLock /\ r.excl = r0.excl /\ r.writeLock = r0.writeLock
      /\ r.mxI = r0.mxI /\ r.mode = r0.mode /\ r.i = r0.i
  <2>1. CASE free
    BY <2>1
  <2>2. CASE ~free
    BY <2>2, <1>6 DEF ConSet
  <2> QED BY <2>1, <2>2
<1>10. Become(c, r)
  BY <1>5
<1> HIDE DEF r
<1>11. Good(sc, r, shm.hdr0, NextVer)
  BY <1>1, <1>2, <1>3, <1>7, <1>8, <1>9 DEF Good, Ctl, Held, Sees, Writer
<1>12. /\ r.readLock \in {con[c].readLock, -1} /\ r.excl \subseteq con[c].excl
       /\ r.writeLock = con[c].writeLock \/ r.writeLock = FALSE
  BY <1>7, <1>9 DEF q
<1> QED BY <1>2, <1>8, <1>10, <1>11, <1>12, PrivateStep

\* CkptLock0 preserves the invariant.
LEMMA CkptLock0Step ==
  ASSUME IInv, sc' = sc, NEW c \in Conn, CkptLock0(c)
  PROVE  IInv'
<1> DEFINE q == con[c]
<1>1. q \in ConSet(sc) /\ Ctl(q) /\ Held(sc, q) /\ Sees(sc, q, shm.hdr0, NextVer)
  BY ConnFacts, GoodFields
<1>2. /\ q.pc = "lock0" /\ UNCHANGED <<wal, db, head>> /\ nSalt' \in Nat
      /\ shm' \in ShmSet(sc) /\ shm'.hdr0 = shm.hdr0
  BY ConnFacts DEF CkptLock0, ghosts
<1>3. q.op \in {"none", "read", "ckpt", "rewal"} /\ q.then \in {"none", "commit", "recover", "restart", "truncate"}
  BY ConnTypes
<1>4. CASE shm.nBackfill < q.mxSafe /\ ExclOk(c, {0})
  <2>1. Become(c, [q EXCEPT !.pc = "copy", !.excl = {0}, !.lo = shm.nBackfill])
    BY <1>4 DEF CkptLock0
  <2>2. {0} \in SUBSET (0..sc.nReader-1) /\ shm.nBackfill \in 0..sc.maxFrame
    BY ConnTypes, ConnFacts, ShmFields
  <2> HIDE DEF q
  <2> DEFINE r == [q EXCEPT !.pc = "copy", !.excl = {0}, !.lo = shm.nBackfill]
  <2>3. /\ "copy" \in PcSet
    BY DEF PcSet
  <2>4. r \in ConSet(sc)
    BY <1>1, <2>2, <2>3, Zenon DEF ConSet
  <2>5. /\ r.pc = "copy" /\ r.op = q.op /\ r.then = q.then /\ r.hdr = q.hdr
        /\ r.readLock = q.readLock /\ r.excl = {0} /\ r.writeLock = q.writeLock
        /\ r.mxI = q.mxI /\ r.mode = q.mode /\ r.i = q.i
    BY <1>1 DEF ConSet
  <2>6. Become(c, r)
    BY <2>1 DEF CkptLock0, q
  <2> HIDE DEF r
  <2>7. Good(sc, r, shm.hdr0, NextVer)
    BY <1>1, <1>2, <1>3, <2>4, <2>5 DEF Good, Ctl, Held, Sees, Writer
  <2>8. \A d \in Conn \ {c} : Compatible(r, con[d])
    <3> SUFFICES ASSUME NEW d \in Conn \ {c} PROVE Compatible(r, con[d])
      OBVIOUS
    <3>1. Compatible(q, con[d]) /\ -1 \notin con[d].excl
      BY OtherFacts DEF q
    <3>2. con[d].readLock \notin {0} /\ con[d].excl \cap {0} = {}
      BY <1>4 DEF ExclOk
    <3> QED BY <3>1, <3>2, <1>2, <1>3, <2>5 DEF Compatible
  <2> QED BY <1>2, <2>4, <2>6, <2>7, <2>8, QuietStep
<1>5. CASE ~(shm.nBackfill < q.mxSafe /\ ExclOk(c, {0}))
  <2>1. Become(c, [q EXCEPT !.pc = "ckend", !.todo = {}])
    BY <1>5 DEF CkptLock0
  <2> HIDE DEF q
  <2> DEFINE r == [q EXCEPT !.pc = "ckend", !.todo = {}]
  <2>2. /\ "ckend" \in PcSet
    BY DEF PcSet
  <2>3. r \in ConSet(sc)
    BY <1>1, <2>2, Zenon DEF ConSet
  <2>4. /\ r.pc = "ckend" /\ r.op = q.op /\ r.then = q.then /\ r.hdr = q.hdr
        /\ r.readLock = q.readLock /\ r.excl = q.excl /\ r.writeLock = q.writeLock
        /\ r.mxI = q.mxI /\ r.mode = q.mode /\ r.i = q.i
    BY <1>1 DEF ConSet
  <2>5. Become(c, r)
    BY <2>1 DEF CkptLock0, q
  <2> HIDE DEF r
  <2>6. Good(sc, r, shm.hdr0, NextVer)
    BY <1>1, <1>2, <1>3, <2>3, <2>4 DEF Good, Ctl, Held, Sees, Writer
  <2>7. /\ r.readLock \in {con[c].readLock, -1} /\ r.excl \subseteq con[c].excl
        /\ r.writeLock = con[c].writeLock \/ r.writeLock = FALSE
    BY <2>4 DEF q
  <2> QED BY <1>2, <2>3, <2>5, <2>6, <2>7, PrivateStep
<1> QED BY <1>4, <1>5

\* CkptCopied preserves the invariant.
LEMMA CkptCopiedStep ==
  ASSUME IInv, sc' = sc, NEW c \in Conn, CkptCopied(c)
  PROVE  IInv'
<1> DEFINE q == con[c]
<1>1. q \in ConSet(sc) /\ Ctl(q) /\ Held(sc, q) /\ Sees(sc, q, shm.hdr0, NextVer)
  BY ConnFacts, GoodFields
<1>2. /\ q.pc = "copy" /\ UNCHANGED <<wal, db, head>> /\ nSalt' \in Nat
      /\ shm' \in ShmSet(sc) /\ shm'.hdr0 = shm.hdr0
  <2>1. shm \in ShmSet(sc) /\ q.mxSafe \in 0..sc.maxFrame
    BY <1>1, ConFields, ConnFacts
  <2>2. shm' = [shm EXCEPT !.nBackfill = q.mxSafe]
    BY DEF CkptCopied
  <2>3. shm' \in ShmSet(sc) /\ shm'.hdr0 = shm.hdr0
    BY <2>1, <2>2 DEF ShmSet
  <2> QED BY <2>3, ConnFacts DEF CkptCopied, ghosts
<1>3. q.op \in {"none", "read", "ckpt", "rewal"} /\ q.then \in {"none", "commit", "recover", "restart", "truncate"}
  BY ConnTypes
<1>4. {} \in SUBSET (0..sc.nReader-1)
  OBVIOUS
<1> HIDE DEF q
<1> DEFINE r == [q EXCEPT !.pc = "ckend", !.excl = {}]
<1>5. /\ "ckend" \in PcSet
  BY DEF PcSet
<1>6. r \in ConSet(sc)
  BY <1>1, <1>4, <1>5, Zenon DEF ConSet
<1>7. /\ r.pc = "ckend" /\ r.op = q.op /\ r.then = q.then /\ r.hdr = q.hdr
      /\ r.readLock = q.readLock /\ r.excl = {} /\ r.writeLock = q.writeLock
      /\ r.mxI = q.mxI /\ r.mode = q.mode /\ r.i = q.i
  BY <1>1 DEF ConSet
<1>8. Become(c, r)
  BY DEF CkptCopied, q
<1> HIDE DEF r
<1>9. Good(sc, r, shm.hdr0, NextVer)
  BY <1>1, <1>2, <1>3, <1>6, <1>7 DEF Good, Ctl, Held, Sees, Writer
<1>10. /\ r.readLock \in {con[c].readLock, -1} /\ r.excl \subseteq con[c].excl
       /\ r.writeLock = con[c].writeLock \/ r.writeLock = FALSE
  BY <1>7 DEF q
<1> QED BY <1>2, <1>6, <1>8, <1>9, <1>10, PrivateStep

\* CkptEnd preserves the invariant.
LEMMA CkptEndStep ==
  ASSUME IInv, sc' = sc, NEW c \in Conn, CkptEnd(c)
  PROVE  IInv'
<1> DEFINE q == con[c]
<1>1. q \in ConSet(sc) /\ Ctl(q) /\ Held(sc, q) /\ Sees(sc, q, shm.hdr0, NextVer)
  BY ConnFacts, GoodFields
<1>2. /\ q.pc = "ckend" /\ UNCHANGED <<wal, db, head>> /\ nSalt' \in Nat
      /\ shm' \in ShmSet(sc) /\ shm'.hdr0 = shm.hdr0
  BY ConnFacts DEF CkptEnd, ghosts
<1>3. q.op \in {"none", "read", "ckpt", "rewal"} /\ q.then \in {"none", "commit", "recover", "restart", "truncate"}
  BY ConnTypes
<1> DEFINE reset == q.mode = "TRUNCATE" /\ AllBackfilled(c) /\ LogUnused(c)
<1>4. CASE reset
  <2> DEFINE r0 == RestartedHdr(con[c])
  <2>1. Become(c, [r0 EXCEPT !.pc = "write1", !.then = "truncate", !.excl = Mark])
    BY <1>4 DEF CkptEnd
  <2>2. /\ r0 \in ConSet(sc) /\ r0.hdr.mx = 0 /\ r0.pc = q.pc /\ r0.op = q.op
        /\ r0.then = q.then /\ r0.readLock = q.readLock /\ r0.excl = q.excl
        /\ r0.writeLock = q.writeLock /\ r0.mxI = q.mxI /\ r0.mode = q.mode /\ r0.i = q.i
    BY <1>1, ConnFacts, RestartedFacts
  <2>3. Mark \in SUBSET (0..sc.nReader-1) /\ Mark = 1..sc.nReader-1
    BY ConnTypes DEF Mark, NReader
  <2>4. q.mode = "TRUNCATE"
    BY <1>4
  <2>5. r0 \in ConSet(sc)
    BY <2>2
  <2> HIDE DEF q, r0
  <2> DEFINE r == [r0 EXCEPT !.pc = "write1", !.then = "truncate", !.excl = Mark]
  <2>6. /\ "write1" \in PcSet /\ "truncate" \in ThenSet
    BY DEF PcSet, ThenSet
  <2>7. r \in ConSet(sc)
    BY <2>5, <2>3, <2>6, Zenon DEF ConSet
  <2>8. /\ r.pc = "write1" /\ r.op = r0.op /\ r.then = "truncate" /\ r.hdr = r0.hdr
        /\ r.readLock = r0.readLock /\ r.excl = Mark /\ r.writeLock = r0.writeLock
        /\ r.mxI = r0.mxI /\ r.mode = r0.mode /\ r.i = r0.i
    BY <2>5 DEF ConSet
  <2>9. Become(c, r)
    BY <2>1 DEF CkptEnd, q
  <2> HIDE DEF r
  <2>10. Good(sc, r, shm.hdr0, NextVer)
    BY <1>1, <1>2, <1>3, <2>2, <2>3, <2>4, <2>7, <2>8 DEF Good, Ctl, Held, Sees, Writer
  <2>11. \A d \in Conn \ {c} : Compatible(r, con[d])
    <3> SUFFICES ASSUME NEW d \in Conn \ {c} PROVE Compatible(r, con[d])
      OBVIOUS
    <3>1. Compatible(q, con[d]) /\ -1 \notin con[d].excl
      BY OtherFacts DEF q
    <3>2. con[d].readLock \notin Mark /\ con[d].excl \cap Mark = {}
      BY <1>4 DEF LogUnused, ExclOk
    <3> QED BY <3>1, <3>2, <1>2, <1>3, <2>2, <2>3, <2>4, <2>8 DEF Compatible
  <2> QED BY <1>2, <2>7, <2>9, <2>10, <2>11, QuietStep
<1>5. CASE ~reset
  <2>1. Become(c, [q EXCEPT !.pc = "ckdone"])
    BY <1>5 DEF CkptEnd
  <2> HIDE DEF q, reset
  <2> DEFINE r == [q EXCEPT !.pc = "ckdone"]
  <2>2. /\ "ckdone" \in PcSet
    BY DEF PcSet
  <2>3. r \in ConSet(sc)
    BY <1>1, <2>2, Zenon DEF ConSet
  <2>4. /\ r.pc = "ckdone" /\ r.op = q.op /\ r.then = q.then /\ r.hdr = q.hdr
        /\ r.readLock = q.readLock /\ r.excl = q.excl /\ r.writeLock = q.writeLock
        /\ r.mxI = q.mxI /\ r.mode = q.mode /\ r.i = q.i
    BY <1>1 DEF ConSet
  <2>5. Become(c, r)
    BY <2>1 DEF CkptEnd, q
  <2> HIDE DEF r
  <2>6. Good(sc, r, shm.hdr0, NextVer)
    BY <1>1, <1>2, <1>3, <2>3, <2>4 DEF Good, Ctl, Held, Sees, Writer
  <2>7. /\ r.readLock \in {con[c].readLock, -1} /\ r.excl \subseteq con[c].excl
        /\ r.writeLock = con[c].writeLock \/ r.writeLock = FALSE
    BY <2>4 DEF q
  <2> QED BY <1>2, <2>3, <2>5, <2>6, <2>7, PrivateStep
<1> QED BY <1>4, <1>5

\* CkptCopy preserves the invariant.
LEMMA CkptCopyStep ==
  ASSUME IInv, sc' = sc, NEW c \in Conn, CkptCopy(c)
  PROVE  IInv'
<1> DEFINE q == con[c]
<1>1. q \in ConSet(sc) /\ Ctl(q) /\ Held(sc, q) /\ Sees(sc, q, shm.hdr0, NextVer)
  BY ConnFacts, GoodFields
<1>2. PICK t \in con[c].todo :
        /\ db' = IF IteratorTakes(c, t) /\ con[c].lo < t[2] /\ t[2] <= con[c].mxSafe
                 THEN [db EXCEPT ![shm.aPgno[t[2]]] = wal.f[t[2]].ver] ELSE db
        /\ Become(c, [con[c] EXCEPT !.todo = @ \ {t},
                        !.prior = IF IteratorTakes(c, t) THEN shm.aPgno[t[2]] ELSE @])
  BY DEF CkptCopy
<1>3. /\ q.pc = "copy" /\ UNCHANGED <<shm, wal, head>> /\ nSalt' \in Nat
  BY ConnFacts DEF CkptCopy, ghosts
<1> DEFINE pg == shm.aPgno[t[2]]
           td == q.todo \ {t}
           pr == IF IteratorTakes(c, t) THEN pg ELSE q.prior
<1>4. /\ sc \in Scenarios /\ shm \in ShmSet(sc) /\ wal \in WalSet(sc)
      /\ db \in [Page -> 0..sc.maxTxn] /\ head \in 0..sc.maxTxn
      /\ q.todo \in SUBSET (Page \X (1..sc.maxFrame)) /\ q.prior \in 0..MaxPage
      /\ MaxPage \in Nat
  BY <1>1, ConnFacts, ConFields, ScFacts
<1>5. t[2] \in 1..sc.maxFrame
  BY <1>4
<1>6. pg \in 0..MaxPage /\ wal.f[t[2]].ver \in 0..sc.maxTxn
  BY <1>4, <1>5, ShmFields, FrameFields
<1>7. db' \in [Page -> 0..sc.maxTxn]
  <2>1. IteratorTakes(c, t) => pg \in Page
    BY <1>4, <1>6 DEF IteratorTakes, Page
  <2> HIDE DEF pg
  <2>2. db' = IF IteratorTakes(c, t) /\ con[c].lo < t[2] /\ t[2] <= con[c].mxSafe
              THEN [db EXCEPT ![pg] = wal.f[t[2]].ver] ELSE db
    BY <1>2 DEF pg
  <2> QED BY <2>1, <2>2, <1>4, <1>6
<1>8. td \in SUBSET (Page \X (1..sc.maxFrame)) /\ pr \in 0..MaxPage
  BY <1>4, <1>6
<1>9. Become(c, [q EXCEPT !.todo = td, !.prior = pr])
  BY <1>2
<1>10. NextVer' = NextVer /\ shm'.hdr0 = shm.hdr0
  BY <1>3 DEF NextVer, MaxFrame
<1>11. shm' \in ShmSet(sc) /\ wal' \in WalSet(sc) /\ head' \in 0..sc.maxTxn
  BY <1>3, <1>4
<1> HIDE DEF q, td, pr
<1> DEFINE r == [q EXCEPT !.todo = td, !.prior = pr]
<1>12. r \in ConSet(sc)
  BY <1>1, <1>8, Zenon DEF ConSet
<1>13. /\ r.pc = q.pc /\ r.op = q.op /\ r.then = q.then /\ r.hdr = q.hdr
       /\ r.readLock = q.readLock /\ r.excl = q.excl /\ r.writeLock = q.writeLock
       /\ r.mxI = q.mxI /\ r.mode = q.mode /\ r.i = q.i
  BY <1>1 DEF ConSet
<1>14. Become(c, r)
  BY <1>9
<1> HIDE DEF r
<1>15. Good(sc, r, shm'.hdr0, NextVer')
  BY <1>1, <1>10, <1>12, <1>13 DEF Good, Ctl, Held, Sees, Writer
<1>16. \A d \in Conn \ {c} : Compatible(r, con[d])
  <2> SUFFICES ASSUME NEW d \in Conn \ {c} PROVE Compatible(r, con[d])
    OBVIOUS
  <2>1. Compatible(q, con[d])
    BY OtherFacts DEF q
  <2> QED BY <2>1, <1>13 DEF Compatible
<1>17. \A d \in Conn \ {c} : Sees(sc, con[d], shm'.hdr0, NextVer')
  BY <1>10, ConnFacts, GoodFields
<1> QED BY <1>3, <1>7, <1>11, <1>12, <1>14, <1>15, <1>16, <1>17, StepFacts

\* A truncated log is a log.
LEMMA NoLogType ==
  ASSUME sc \in Scenarios
  PROVE  NoLog \in WalSet(sc)
<1>1. 0 \in 0..MaxPage /\ 0 \in 0..sc.maxTxn /\ 0 \in Nat /\ FALSE \in BOOLEAN
  BY ScFacts
<1>2. NoFrame \in FrameSet(sc)
  BY <1>1, Zenon DEF NoFrame, FrameSet
<1> QED BY <1>1, <1>2 DEF NoLog, WalSet, MaxFrame

\* CkptTruncate preserves the invariant.
LEMMA CkptTruncateStep ==
  ASSUME IInv, sc' = sc, NEW c \in Conn, CkptTruncate(c)
  PROVE  IInv'
<1> DEFINE q == con[c]
<1>1. q \in ConSet(sc) /\ Ctl(q) /\ Held(sc, q) /\ Sees(sc, q, shm.hdr0, NextVer)
  BY ConnFacts, GoodFields
<1>2. /\ q.pc = "truncate" /\ UNCHANGED <<db, head>> /\ nSalt' \in Nat
      /\ shm' \in ShmSet(sc) /\ shm'.hdr0 = shm.hdr0 /\ wal' = NoLog
      /\ Become(c, [q EXCEPT !.pc = "ckdone", !.then = "none", !.excl = {}])
  BY ConnFacts, RestartInfoFacts DEF CkptTruncate, ghosts
<1>3. q.op \in {"none", "read", "ckpt", "rewal"} /\ q.then \in {"none", "commit", "recover", "restart", "truncate"}
  BY ConnTypes
<1>4. wal' \in WalSet(sc) /\ db' \in [Page -> 0..sc.maxTxn] /\ head' \in 0..sc.maxTxn
  BY <1>2, NoLogType, ConnFacts
<1>5. q.writeLock = TRUE
  BY <1>1, <1>2 DEF Ctl, Held
<1>6. ASSUME NEW d \in Conn \ {c} PROVE Sees(sc, con[d], shm.hdr0, NextVer')
  <2>1. Sees(sc, con[d], shm.hdr0, NextVer)
    BY ConnFacts, GoodFields
  <2>2. con[d].pc = "reading" /\ con[d].readLock # 0 => con[d].hdr.mx <= shm.hdr0.mx
    BY <2>1 DEF Sees
  <2> QED BY <2>2, <1>5, OtherSees
<1>7. {} \in SUBSET (0..sc.nReader-1) /\ "ckdone" \in PcSet /\ "none" \in ThenSet
  BY DEF PcSet, ThenSet
<1> HIDE DEF q
<1> DEFINE r == [q EXCEPT !.pc = "ckdone", !.then = "none", !.excl = {}]
<1>8. r \in ConSet(sc)
  BY <1>1, <1>7, Zenon DEF ConSet
<1>9. /\ r.pc = "ckdone" /\ r.op = q.op /\ r.then = "none" /\ r.hdr = q.hdr
      /\ r.readLock = q.readLock /\ r.excl = {} /\ r.writeLock = q.writeLock
      /\ r.mxI = q.mxI /\ r.mode = q.mode /\ r.i = q.i
  BY <1>1 DEF ConSet
<1>10. Become(c, r)
  BY <1>2
<1> HIDE DEF r
<1>11. Good(sc, r, shm'.hdr0, NextVer')
  BY <1>1, <1>2, <1>3, <1>8, <1>9 DEF Good, Ctl, Held, Sees, Writer
<1>12. \A d \in Conn \ {c} : Compatible(r, con[d])
  <2> SUFFICES ASSUME NEW d \in Conn \ {c} PROVE Compatible(r, con[d])
    OBVIOUS
  <2>1. Compatible(q, con[d])
    BY OtherFacts DEF q
  <2> QED BY <2>1, <1>9 DEF Compatible
<1>13. \A d \in Conn \ {c} : Sees(sc, con[d], shm'.hdr0, NextVer')
  BY <1>2, <1>6
<1> QED BY <1>2, <1>4, <1>8, <1>10, <1>11, <1>12, <1>13, StepFacts

\* The log has room for the pages of one transaction.
LEMMA RoomFacts ==
  ASSUME NEW m \in Nat, NEW f \in Nat, NEW p \in Nat, NEW n \in 1..p, m + p <= f
  PROVE  m + n \in 0..f
OBVIOUS

\* The number of the next transaction.
LEMMA NextVerFacts ==
  ASSUME IInv, NEW c \in Conn
  PROVE  NextVer \in Nat
<1> DEFINE S == {head} \cup {wal.f[i].ver : i \in 1..MaxFrame}
<1>1. sc \in Scenarios /\ wal \in WalSet(sc) /\ head \in 0..sc.maxTxn /\ sc.maxTxn \in Nat
  BY ConnFacts, ScFacts
<1>2. \A i \in 1..MaxFrame : wal.f[i].ver \in 0..sc.maxTxn
  BY <1>1, FrameFields DEF MaxFrame
<1>3. S \in SUBSET (0..sc.maxTxn) /\ S # {}
  BY <1>1, <1>2
<1>4. NextVer = 1 + Max(S)
  BY DEF NextVer
<1> HIDE DEF S
<1>5. Max(S) \in S
  BY <1>1, <1>3, MaxFacts, Zenon
<1>6. \A x \in S : x \in Nat
  BY <1>1, <1>3
<1>7. Max(S) \in Nat
  BY <1>5, <1>6, Zenon
<1> QED BY <1>4, <1>7

\* The frames and the table entries a transaction adds.
LEMMA FramesType ==
  ASSUME NEW s \in Scenarios, sc = s, NEW f \in [1..s.maxFrame -> FrameSet(s)],
         NEW h \in HdrSet(s), NEW n \in Nat, NEW pages \in [1..n -> Page],
         NEW v \in 0..s.maxTxn
  PROVE  FramesOf(f, h, pages, v) \in [1..s.maxFrame -> FrameSet(s)]
<1>1. h.mx \in Nat /\ h.salt \in Nat /\ h.ck \in 0..s.maxTxn /\ 0 \in 0..s.maxTxn
  BY HdrFields, ScFacts
<1>2. ASSUME NEW i \in 1..s.maxFrame, i - h.mx \in DOMAIN pages
      PROVE  [pg |-> pages[i - h.mx], ver |-> v, commit |-> i - h.mx = Len(pages),
              salt |-> h.salt,
              prev |-> IF i = 1 THEN 0 ELSE IF i = h.mx + 1 THEN h.ck ELSE v] \in FrameSet(s)
  <2> DEFINE p == IF i = 1 THEN 0 ELSE IF i = h.mx + 1 THEN h.ck ELSE v
             k == i - h.mx = Len(pages)
  <2>1. p \in 0..s.maxTxn
    BY <1>1
  <2>2. pages[i - h.mx] \in 0..MaxPage
    BY <1>2, ScFacts DEF Page
  <2>3. k \in BOOLEAN
    OBVIOUS
  <2> HIDE DEF p, k
  <2>4. [pg |-> pages[i - h.mx], ver |-> v, commit |-> k, salt |-> h.salt, prev |-> p]
          \in FrameSet(s)
    BY <1>1, <2>1, <2>2, <2>3, Zenon DEF FrameSet
  <2> QED BY <2>4 DEF p, k
<1> QED BY <1>2 DEF FramesOf, MaxFrame

\* The page index after walIndexAppend is a page index.
LEMMA IndexType ==
  ASSUME NEW s \in Scenarios, sc = s, NEW a \in [1..s.maxFrame -> 0..MaxPage],
         NEW mx \in Nat, NEW n \in Nat, NEW pages \in [1..n -> Page]
  PROVE  IndexAppend(a, mx, pages) \in [1..s.maxFrame -> 0..MaxPage]
<1> DEFINE z == [i \in 1..MaxFrame |-> IF i <= mx THEN a[i] ELSE 0]
           base == IF mx = 0 \/ a[mx + 1] # 0 THEN z ELSE a
<1>1. MaxPage \in Nat /\ \A i \in DOMAIN pages : pages[i] \in 0..MaxPage
  BY ScFacts DEF Page
<1>2. base \in [1..s.maxFrame -> 0..MaxPage]
  BY <1>1 DEF MaxFrame
<1> HIDE DEF base
<1>3. [i \in 1..MaxFrame |-> IF i - mx \in DOMAIN pages THEN pages[i - mx] ELSE base[i]]
        \in [1..s.maxFrame -> 0..MaxPage]
  BY <1>1, <1>2 DEF MaxFrame
<1> QED BY <1>3 DEF IndexAppend, base

\* AppendFrames preserves the invariant.
LEMMA AppendFramesStep ==
  ASSUME IInv, sc' = sc, NEW c \in Conn, NEW pages \in PageLists, AppendFrames(c, pages)
  PROVE  IInv'
<1> DEFINE q == con[c]
<1>1. q \in ConSet(sc) /\ Ctl(q) /\ Held(sc, q) /\ Sees(sc, q, shm.hdr0, NextVer)
  BY ConnFacts, GoodFields
<1> DEFINE first == q.hdr.mx = 0
           draw == first /\ q.nCkpt = 0
           v == NextVer
           sl == IF draw THEN nSalt + 1 ELSE q.hdr.salt
           h == [q.hdr EXCEPT !.salt = sl]
           g == [h EXCEPT !.mx = h.mx + Len(pages), !.iChange = h.iChange + 1, !.ck = v]
           ws == IF first THEN h.salt ELSE wal.salt
           wn == IF first THEN q.nCkpt ELSE wal.nCkpt
           f == FramesOf(wal.f, h, pages, v)
           a == IndexAppend(shm.aPgno, h.mx, pages)
<1>2. /\ q.pc = "append" /\ UNCHANGED <<db, head>>
      /\ nSalt' = IF draw THEN nSalt + 1 ELSE nSalt
      /\ wal' = [wal EXCEPT !.salt = ws, !.nCkpt = wn, !.f = f]
      /\ shm' = [shm EXCEPT !.aPgno = a]
      /\ Become(c, [q EXCEPT !.pc = "write1", !.then = "commit", !.hdr = g])
  BY DEF AppendFrames
<1>3. /\ q.op \in {"none", "read", "ckpt", "rewal"} /\ q.then \in {"none", "commit", "recover", "restart", "truncate"}
      /\ sc \in Scenarios /\ shm \in ShmSet(sc) /\ wal \in WalSet(sc) /\ nSalt \in Nat
      /\ db \in [Page -> 0..sc.maxTxn] /\ head \in 0..sc.maxTxn
      /\ q.hdr \in HdrSet(sc) /\ q.hdr.mx \in 0..sc.maxFrame /\ q.nCkpt \in Nat
      /\ sc.maxFrame \in Nat /\ sc.maxTxn \in Nat /\ sc.pagesPerTxn \in Nat
      /\ shm.hdr0.mx \in 0..sc.maxFrame
  BY ConnFacts, ConnTypes, ScFacts
<1>4. v \in 0..sc.maxTxn /\ q.hdr.mx + sc.pagesPerTxn <= sc.maxFrame
  BY <1>1, <1>2, <1>3, NextVerFacts DEF Sees, Writer
<1>5. PICK n \in 1..sc.pagesPerTxn : pages \in [1..n -> Page]
  BY DEF PageLists
<1>6. n \in Nat /\ Len(pages) = n
  BY <1>3, <1>5
<1>7. h \in HdrSet(sc) /\ h.mx = q.hdr.mx /\ h.iChange \in Nat /\ h.salt \in Nat
  <2>1. sl \in Nat
    BY <1>3, HdrFields
  <2> HIDE DEF sl
  <2>2. h \in HdrSet(sc)
    BY <1>3, <2>1, Zenon DEF HdrSet
  <2>3. h.mx = q.hdr.mx
    BY <1>3 DEF HdrSet
  <2> HIDE DEF h
  <2> QED BY <2>2, <2>3, HdrFields
<1> HIDE DEF h
<1>8. g \in HdrSet(sc) /\ g.mx = q.hdr.mx + n
  <2>1. h.mx + Len(pages) \in 0..sc.maxFrame /\ h.iChange + 1 \in Nat
    <3>1. q.hdr.mx + n \in 0..sc.maxFrame
      <4>1. q.hdr.mx \in Nat /\ sc.maxFrame \in Nat /\ sc.pagesPerTxn \in Nat
        BY <1>3
      <4>2. q.hdr.mx + sc.pagesPerTxn <= sc.maxFrame
        BY <1>4
      <4> HIDE DEF q
      <4> QED BY <4>1, <4>2, RoomFacts, Zenon
    <3> QED BY <3>1, <1>6, <1>7
  <2>2. g \in HdrSet(sc)
    <3> HIDE DEF v
    <3> QED BY <1>4, <1>7, <2>1, Zenon DEF HdrSet
  <2>3. g.mx = h.mx + Len(pages)
    BY <1>7 DEF HdrSet
  <2> QED BY <2>2, <2>3, <1>6, <1>7
<1>9. wal' \in WalSet(sc)
  <2>1. wal.f \in [1..sc.maxFrame -> FrameSet(sc)] /\ wal.salt \in Nat /\ wal.nCkpt \in Nat
    BY <1>3 DEF WalSet
  <2>2. f \in [1..sc.maxFrame -> FrameSet(sc)]
    BY <2>1, <1>3, <1>4, <1>5, <1>6, <1>7, FramesType
  <2>3. ws \in Nat /\ wn \in Nat
    BY <1>3, <1>7, <2>1
  <2> HIDE DEF f, ws, wn
  <2> QED BY <1>2, <1>3, <2>2, <2>3 DEF WalSet
<1>10. shm' \in ShmSet(sc) /\ shm'.hdr0 = shm.hdr0
  <2>1. a \in [1..sc.maxFrame -> 0..MaxPage]
    <3>1. h.mx \in Nat /\ shm.aPgno \in [1..sc.maxFrame -> 0..MaxPage]
      BY <1>3, <1>7, ShmFields
    <3> QED BY <3>1, <1>3, <1>5, <1>6, IndexType
  <2> HIDE DEF a
  <2> QED BY <1>2, <1>3, <2>1 DEF ShmSet
<1>11. /\ nSalt' \in Nat /\ db' \in [Page -> 0..sc.maxTxn] /\ head' \in 0..sc.maxTxn
       /\ "write1" \in PcSet /\ "commit" \in ThenSet
  BY <1>2, <1>3 DEF PcSet, ThenSet
<1>12. q.writeLock = TRUE /\ q.hdr = shm.hdr0
  BY <1>1, <1>2 DEF Held, Sees, Writer
<1>13. ASSUME NEW d \in Conn \ {c} PROVE Sees(sc, con[d], shm.hdr0, NextVer')
  <2>1. Sees(sc, con[d], shm.hdr0, NextVer)
    BY ConnFacts, GoodFields
  <2>2. con[d].pc = "reading" /\ con[d].readLock # 0 => con[d].hdr.mx <= shm.hdr0.mx
    BY <2>1 DEF Sees
  <2> QED BY <2>2, <1>12, OtherSees
<1> HIDE DEF q, g
<1> DEFINE r == [q EXCEPT !.pc = "write1", !.then = "commit", !.hdr = g]
<1>14. r \in ConSet(sc)
  BY <1>1, <1>8, <1>11, Zenon DEF ConSet
<1>15. /\ r.pc = "write1" /\ r.op = q.op /\ r.then = "commit" /\ r.hdr = g
       /\ r.readLock = q.readLock /\ r.excl = q.excl /\ r.writeLock = q.writeLock
       /\ r.mxI = q.mxI /\ r.mode = q.mode /\ r.i = q.i
  BY <1>1 DEF ConSet
<1>16. Become(c, r)
  BY <1>2
<1> HIDE DEF r
<1>17. Good(sc, r, shm'.hdr0, NextVer')
  <2>1. Ctl(r) /\ Held(sc, r)
    BY <1>1, <1>2, <1>3, <1>15 DEF Ctl, Held, Writer
  <2>2. shm.hdr0.mx <= r.hdr.mx
    BY <1>3, <1>6, <1>8, <1>12, <1>15
  <2>3. Sees(sc, r, shm.hdr0, NextVer')
    BY <1>1, <1>2, <1>3, <1>15, <2>2 DEF Ctl, Sees, Writer
  <2> QED BY <2>1, <2>3, <1>10, <1>14 DEF Good
<1>18. \A d \in Conn \ {c} : Compatible(r, con[d])
  <2> SUFFICES ASSUME NEW d \in Conn \ {c} PROVE Compatible(r, con[d])
    OBVIOUS
  <2>1. Compatible(q, con[d])
    BY OtherFacts DEF q
  <2> QED BY <2>1, <1>15 DEF Compatible
<1>19. \A d \in Conn \ {c} : Sees(sc, con[d], shm'.hdr0, NextVer')
  BY <1>10, <1>13
<1> QED BY <1>9, <1>10, <1>11, <1>14, <1>16, <1>17, <1>18, <1>19, StepFacts

\* A cleared wal-index is a wal-index.
LEMMA FreshShmType ==
  ASSUME sc \in Scenarios
  PROVE  FreshShm \in ShmSet(sc)
<1>1. BadHdr \in HdrSet(sc)
  BY BadHdrType
<1>2. /\ 0 \in 0..sc.maxFrame
      /\ [i \in Mark |-> 0] \in [1..sc.nReader-1 -> 0..sc.maxFrame+1]
      /\ [i \in 1..MaxFrame |-> 0] \in [1..sc.maxFrame -> 0..MaxPage]
  BY ScFacts DEF Mark, NReader, MaxFrame
<1> QED BY <1>1, <1>2, Zenon DEF FreshShm, ShmSet

\* A closed connection keeps no lock.
LEMMA ClosedFacts ==
  ASSUME NEW s \in Scenarios
  PROVE  AtRest(s, Closed, "closed")
<1>1. BadHdr \in HdrSet(s) /\ 0 \in Nat
  BY BadHdrType
<1> QED BY <1>1, RestingFacts DEF Closed

\* Open preserves the invariant.
LEMMA OpenStep ==
  ASSUME IInv, sc' = sc, NEW c \in Conn, Open(c)
  PROVE  IInv'
<1> DEFINE r0 == Closed
           all == \A d \in Conn : con[d].pc = "closed"
<1>1. /\ Become(c, [r0 EXCEPT !.pc = "readhdr", !.op = "read"])
      /\ shm' = IF all THEN FreshShm ELSE shm
      /\ UNCHANGED <<wal, db, head>> /\ nSalt' \in Nat
  BY ConnFacts DEF Open
<1>2. /\ r0 \in ConSet(sc) /\ r0.then = "none" /\ r0.readLock = -1 /\ r0.excl = {}
      /\ r0.writeLock = FALSE /\ r0.mode = "PASSIVE"
  <2>1. AtRest(sc, r0, "closed")
    BY ConnFacts, ClosedFacts
  <2> HIDE DEF r0
  <2> QED BY <2>1 DEF AtRest
<1>3. shm' \in ShmSet(sc) /\ wal' \in WalSet(sc) /\ db' \in [Page -> 0..sc.maxTxn]
      /\ head' \in 0..sc.maxTxn
  BY <1>1, ConnFacts, FreshShmType
<1>4. NextVer' = NextVer
  BY <1>1 DEF NextVer, MaxFrame
<1>5. ASSUME NEW d \in Conn \ {c} PROVE Sees(sc, con[d], shm'.hdr0, NextVer')
  <2>1. Ctl(con[d]) /\ Sees(sc, con[d], shm.hdr0, NextVer)
    BY ConnFacts, GoodFields
  <2>2. CASE all
    <3>1. con[d].pc = "closed"
      BY <2>2
    <3> QED BY <2>1, <3>1 DEF Ctl, Sees, Writer
  <2>3. CASE ~all
    BY <2>1, <2>3, <1>1, <1>4
  <2> QED BY <2>2, <2>3
<1>6. "readhdr" \in PcSet /\ "read" \in OpSet /\ r0 \in ConSet(sc)
  BY <1>2 DEF PcSet, OpSet
<1> HIDE DEF r0
<1> DEFINE r == [r0 EXCEPT !.pc = "readhdr", !.op = "read"]
<1>7. r \in ConSet(sc)
  BY <1>6, Zenon DEF ConSet
<1>8. /\ r.pc = "readhdr" /\ r.op = "read" /\ r.then = "none" /\ r.readLock = -1
      /\ r.excl = {} /\ r.writeLock = FALSE /\ r.mode = "PASSIVE"
  BY <1>2, <1>6 DEF ConSet
<1>9. Become(c, r)
  BY <1>1
<1> HIDE DEF r
<1>10. Good(sc, r, shm'.hdr0, NextVer')
  BY <1>7, <1>8 DEF Good, Ctl, Held, Sees, Writer
<1>11. \A d \in Conn \ {c} : Compatible(r, con[d])
  BY <1>8, OtherFacts DEF Compatible
<1>12. \A d \in Conn \ {c} : Sees(sc, con[d], shm'.hdr0, NextVer')
  BY <1>5
<1> QED BY <1>1, <1>3, <1>7, <1>9, <1>10, <1>11, <1>12, StepFacts

\* The invariant holds at the start.
LEMMA InitInv ==
  ASSUME Init
  PROVE  IInv
<1>1. sc \in Scenarios /\ shm = FreshShm /\ wal = NoLog /\ db = [p \in Page |-> 0]
      /\ con = [c \in Conn |-> Closed] /\ head = 0 /\ nSalt = 0
  BY DEF Init
<1>2. 0 \in 0..sc.maxTxn /\ 0 \in Nat
  BY <1>1, ScFacts
<1> DEFINE r == Closed
<1>3. /\ r \in ConSet(sc) /\ r.pc = "closed" /\ r.op = "none" /\ r.then = "none"
      /\ r.readLock = -1 /\ r.excl = {} /\ r.writeLock = FALSE /\ r.mode = "PASSIVE"
  <2>1. AtRest(sc, r, "closed")
    BY <1>1, ClosedFacts
  <2> HIDE DEF r
  <2> QED BY <2>1 DEF AtRest
<1> HIDE DEF r
<1>4. \A c \in Conn : con[c] = r
  BY <1>1 DEF r
<1>5. TypeInv
  <2>1. con \in [Conn -> ConSet(sc)]
    BY <1>1, <1>3 DEF r
  <2> QED BY <2>1, <1>1, <1>2, FreshShmType, NoLogType DEF TypeInv
<1>6. ConnInv
  BY <1>3, <1>4 DEF ConnInv, Ctl, Held, Sees, Writer
<1>7. LockInv
  BY <1>3, <1>4 DEF LockInv, Compatible
<1> QED BY <1>5, <1>6, <1>7 DEF IInv

\* The invariant depends on the variables only.
LEMMA StutterInv ==
  ASSUME IInv, UNCHANGED vars
  PROVE  IInv'
BY DEF vars, IInv, TypeInv, ConnInv, LockInv, NextVer, MaxFrame

\* Every step preserves the invariant.
LEMMA NextInv ==
  ASSUME IInv, [Next]_vars
  PROVE  IInv'
<1>1. CASE UNCHANGED vars
  BY <1>1, StutterInv
<1>2. CASE Next
  <2>1. sc' = sc
    BY <1>2 DEF Next
  <2>2. PICK c \in Conn : Open(c) \/ Die(c) \/ Step(c)
    BY <1>2 DEF Next
  <2>3. CASE Open(c)
    BY <2>1, <2>3, OpenStep
  <2>4. CASE Die(c)
    BY <2>1, <2>4, DieStep
  <2>5. CASE BeginRead(c)
    BY <2>1, <2>5, BeginReadStep
  <2>6. CASE ReadHdr0(c)
    BY <2>1, <2>6, ReadHdr0Step
  <2>7. CASE ReadHdr1(c)
    BY <2>1, <2>7, ReadHdr1Step
  <2>8. CASE HdrRetryOk(c)
    BY <2>1, <2>8, HdrRetryOkStep
  <2>9. CASE HdrBusy(c)
    BY <2>1, <2>9, HdrBusyStep
  <2>10. CASE Protocol(c)
    BY <2>1, <2>10, ProtocolStep
  <2>11. CASE StartRecover(c)
    BY <2>1, <2>11, StartRecoverStep
  <2>12. CASE WriteHdr1(c)
    BY <2>1, <2>12, WriteHdr1Step
  <2>13. CASE WriteHdr0(c)
    BY <2>1, <2>13, WriteHdr0Step
  <2>14. CASE EndRecover(c)
    BY <2>1, <2>14, EndRecoverStep
  <2>15. CASE TryRead0(c)
    BY <2>1, <2>15, TryRead0Step
  <2>16. CASE Check0(c)
    BY <2>1, <2>16, Check0Step
  <2>17. CASE SelectMark(c)
    BY <2>1, <2>17, SelectMarkStep
  <2>18. CASE LockMark(c)
    BY <2>1, <2>18, LockMarkStep
  <2>19. CASE CheckMark(c)
    BY <2>1, <2>19, CheckMarkStep
  <2>20. CASE EndRead(c)
    BY <2>1, <2>20, EndReadStep
  <2>21. CASE BeginWrite(c)
    BY <2>1, <2>21, BeginWriteStep
  <2>22. CASE Rollback(c)
    BY <2>1, <2>22, RollbackStep
  <2>23. CASE RestartLog(c)
    BY <2>1, <2>23, RestartLogStep
  <2>24. CASE EndRestart(c)
    BY <2>1, <2>24, EndRestartStep
  <2>25. CASE EndCommit(c)
    BY <2>1, <2>25, EndCommitStep
  <2>26. CASE CkptInit(c)
    BY <2>1, <2>26, CkptInitStep
  <2>27. CASE CkptReadMark(c)
    BY <2>1, <2>27, CkptReadMarkStep
  <2>28. CASE CkptTryMark(c)
    BY <2>1, <2>28, CkptTryMarkStep
  <2>29. CASE CkptLock0(c)
    BY <2>1, <2>29, CkptLock0Step
  <2>30. CASE CkptCopy(c)
    BY <2>1, <2>30, CkptCopyStep
  <2>31. CASE CkptInterrupt(c)
    BY <2>1, <2>31, CkptInterruptStep
  <2>32. CASE CkptCopied(c)
    BY <2>1, <2>32, CkptCopiedStep
  <2>33. CASE CkptEnd(c)
    BY <2>1, <2>33, CkptEndStep
  <2>34. CASE CkptTruncate(c)
    BY <2>1, <2>34, CkptTruncateStep
  <2>35. CASE CkptDone(c)
    BY <2>1, <2>35, CkptDoneStep
  <2>36. CASE \E pages \in PageLists : AppendFrames(c, pages)
    BY <2>1, <2>36, AppendFramesStep
  <2>37. CASE \E m \in sc.modes : StartCkpt(c, m)
    BY <2>1, <2>37, StartCkptStep
  <2> QED BY <2>2, <2>3, <2>4, <2>5, <2>6, <2>7, <2>8, <2>9, <2>10, <2>11, <2>12, <2>13,
             <2>14, <2>15, <2>16, <2>17, <2>18, <2>19, <2>20, <2>21, <2>22, <2>23, <2>24,
             <2>25, <2>26, <2>27, <2>28, <2>29, <2>30, <2>31, <2>32, <2>33, <2>34, <2>35,
             <2>36, <2>37 DEF Step
<1> QED BY <1>1, <1>2

-----------------------------------------------------------------------------
(* What a step does to the frames, the table and the database file *)

LogKept == wal' = wal /\ db' = db /\ shm'.aPgno = shm.aPgno

\* Every step is a step of one connection.
LEMMA OneMoves ==
  ASSUME NEW d \in Conn, Open(d) \/ Die(d) \/ Step(d)
  PROVE  \E r : Become(d, r)
<1>1. CASE Open(d)
  BY <1>1 DEF Open
<1>2. CASE Die(d)
  BY <1>2 DEF Die
<1>3. CASE BeginRead(d)
  BY <1>3 DEF BeginRead
<1>4. CASE ReadHdr0(d)
  BY <1>4 DEF ReadHdr0
<1>5. CASE ReadHdr1(d)
  BY <1>5 DEF ReadHdr1
<1>6. CASE HdrRetryOk(d)
  BY <1>6 DEF HdrRetryOk
<1>7. CASE HdrBusy(d)
  BY <1>7 DEF HdrBusy, Fail
<1>8. CASE Protocol(d)
  BY <1>8 DEF Protocol
<1>9. CASE StartRecover(d)
  BY <1>9 DEF StartRecover
<1>10. CASE WriteHdr1(d)
  BY <1>10 DEF WriteHdr1, Goto
<1>11. CASE WriteHdr0(d)
  BY <1>11 DEF WriteHdr0, Goto
<1>12. CASE EndRecover(d)
  BY <1>12 DEF EndRecover
<1>13. CASE TryRead0(d)
  BY <1>13 DEF TryRead0
<1>14. CASE Check0(d)
  BY <1>14 DEF Check0, OpenSnapshot
<1>15. CASE SelectMark(d)
  BY <1>15 DEF SelectMark
<1>16. CASE LockMark(d)
  BY <1>16 DEF LockMark
<1>17. CASE CheckMark(d)
  BY <1>17 DEF CheckMark, OpenSnapshot
<1>18. CASE EndRead(d)
  BY <1>18 DEF EndRead
<1>19. CASE BeginWrite(d)
  BY <1>19 DEF BeginWrite
<1>20. CASE Rollback(d)
  BY <1>20 DEF Rollback
<1>21. CASE RestartLog(d)
  BY <1>21 DEF RestartLog
<1>22. CASE EndRestart(d)
  BY <1>22 DEF EndRestart
<1>23. CASE EndCommit(d)
  BY <1>23 DEF EndCommit
<1>24. CASE CkptInit(d)
  BY <1>24 DEF CkptInit
<1>25. CASE CkptReadMark(d)
  BY <1>25 DEF CkptReadMark
<1>26. CASE CkptTryMark(d)
  BY <1>26 DEF CkptTryMark
<1>27. CASE CkptLock0(d)
  BY <1>27 DEF CkptLock0
<1>28. CASE CkptCopy(d)
  BY <1>28 DEF CkptCopy
<1>29. CASE CkptInterrupt(d)
  BY <1>29 DEF CkptInterrupt
<1>30. CASE CkptCopied(d)
  BY <1>30 DEF CkptCopied
<1>31. CASE CkptEnd(d)
  BY <1>31 DEF CkptEnd
<1>32. CASE CkptTruncate(d)
  BY <1>32 DEF CkptTruncate
<1>33. CASE CkptDone(d)
  BY <1>33 DEF CkptDone
<1>34. CASE \E pages \in PageLists : AppendFrames(d, pages)
  BY <1>34 DEF AppendFrames
<1>35. CASE \E m \in sc.modes : StartCkpt(d, m)
  BY <1>35 DEF StartCkpt
<1> QED BY <1>1, <1>2, <1>3, <1>4, <1>5, <1>6, <1>7, <1>8, <1>9, <1>10, <1>11, <1>12,
           <1>13, <1>14, <1>15, <1>16, <1>17, <1>18, <1>19, <1>20, <1>21, <1>22, <1>23,
           <1>24, <1>25, <1>26, <1>27, <1>28, <1>29, <1>30, <1>31, <1>32, <1>33, <1>34,
           <1>35 DEF Step

\* All steps but those of recovery, of a writer and of a checkpoint that copies
\* or truncates leave the frames, the table and the file alone.
LEMMA LogKeptStep ==
  ASSUME IInv, NEW d \in Conn, Die(d) \/ Step(d), ~StartRecover(d), ~CkptCopy(d),
         ~CkptTruncate(d), \A pages \in PageLists : ~AppendFrames(d, pages)
  PROVE  LogKept
<1>0. shm \in ShmSet(sc)
  BY ConnFacts
<1>1. CASE Die(d)
  BY <1>1 DEF Die, LogKept, ghosts
<1>2. CASE BeginRead(d)
  BY <1>2 DEF BeginRead, LogKept, ghosts
<1>3. CASE ReadHdr0(d)
  BY <1>3 DEF ReadHdr0, LogKept, ghosts
<1>4. CASE ReadHdr1(d)
  BY <1>4 DEF ReadHdr1, LogKept, ghosts
<1>5. CASE HdrRetryOk(d)
  BY <1>5 DEF HdrRetryOk, LogKept, ghosts
<1>6. CASE HdrBusy(d)
  BY <1>6 DEF HdrBusy, LogKept, ghosts
<1>7. CASE Protocol(d)
  BY <1>7 DEF Protocol, LogKept, ghosts
<1>8. CASE WriteHdr1(d)
  BY <1>0, <1>8 DEF WriteHdr1, LogKept, ghosts, ShmSet
<1>9. CASE WriteHdr0(d)
  BY <1>0, <1>9 DEF WriteHdr0, LogKept, ghosts, ShmSet
<1>10. CASE EndRecover(d)
  BY <1>0, <1>10 DEF EndRecover, LogKept, ghosts, ShmSet
<1>11. CASE TryRead0(d)
  BY <1>11 DEF TryRead0, LogKept, ghosts
<1>12. CASE Check0(d)
  BY <1>12 DEF Check0, LogKept, ghosts
<1>13. CASE SelectMark(d)
  BY <1>0, <1>13 DEF SelectMark, LogKept, ghosts, ShmSet
<1>14. CASE LockMark(d)
  BY <1>14 DEF LockMark, LogKept, ghosts
<1>15. CASE CheckMark(d)
  BY <1>15 DEF CheckMark, LogKept, ghosts
<1>16. CASE EndRead(d)
  BY <1>16 DEF EndRead, LogKept, ghosts
<1>17. CASE BeginWrite(d)
  BY <1>17 DEF BeginWrite, LogKept, ghosts
<1>18. CASE Rollback(d)
  BY <1>18 DEF Rollback, LogKept, ghosts
<1>19. CASE RestartLog(d)
  BY <1>19 DEF RestartLog, LogKept, ghosts
<1>20. CASE EndRestart(d)
  BY <1>0, <1>20 DEF EndRestart, RestartInfo, LogKept, ghosts, ShmSet
<1>21. CASE EndCommit(d)
  BY <1>21 DEF EndCommit, LogKept, ghosts
<1>22. CASE CkptInit(d)
  BY <1>22 DEF CkptInit, LogKept, ghosts
<1>23. CASE CkptReadMark(d)
  BY <1>23 DEF CkptReadMark, LogKept, ghosts
<1>24. CASE CkptTryMark(d)
  BY <1>0, <1>24 DEF CkptTryMark, LogKept, ghosts, ShmSet
<1>25. CASE CkptLock0(d)
  BY <1>25 DEF CkptLock0, LogKept, ghosts
<1>26. CASE CkptInterrupt(d)
  BY <1>26 DEF CkptInterrupt, LogKept, ghosts
<1>27. CASE CkptCopied(d)
  BY <1>0, <1>27 DEF CkptCopied, LogKept, ghosts, ShmSet
<1>28. CASE CkptEnd(d)
  BY <1>28 DEF CkptEnd, LogKept, ghosts
<1>29. CASE CkptDone(d)
  BY <1>29 DEF CkptDone, LogKept, ghosts
<1>30. CASE \E m \in sc.modes : StartCkpt(d, m)
  BY <1>30 DEF StartCkpt, LogKept, ghosts
<1> QED BY <1>1, <1>2, <1>3, <1>4, <1>5, <1>6, <1>7, <1>8, <1>9, <1>10, <1>11, <1>12,
           <1>13, <1>14, <1>15, <1>16, <1>17, <1>18, <1>19, <1>20, <1>21, <1>22, <1>23,
           <1>24, <1>25, <1>26, <1>27, <1>28, <1>29, <1>30 DEF Step

\* What a reader of the log or of the bare file depends on.
LEMMA SeenSame ==
  ASSUME IInv, NEW c \in Conn, NEW p \in Page, con[c].readLock = 0 \/ InLog(c, p),
         con'[c].readLock = con[c].readLock, con'[c].minFrame = con[c].minFrame,
         con'[c].hdr.mx = con[c].hdr.mx, con[c].readLock = 0 => db' = db,
         con[c].readLock # 0 =>
           \A i \in 1..con[c].hdr.mx : shm'.aPgno[i] = shm.aPgno[i] /\ wal'.f[i] = wal.f[i]
  PROVE  PageSeen(c, p)' = PageSeen(c, p)
<1>1. con[c].minFrame \in Nat /\ con[c].minFrame >= 1 /\ con[c].hdr.mx \in Nat
  <2>1. con[c].minFrame \in 1..sc.maxFrame+1 /\ sc.maxFrame \in Nat
    BY ConnFacts, GoodFields, ConFields, ConnTypes
  <2>2. con[c].hdr.mx \in 0..sc.maxFrame
    BY ConnTypes
  <2> QED BY <2>1, <2>2
<1>2. CASE con[c].readLock = 0
  BY <1>2 DEF PageSeen, InLog
<1>3. CASE con[c].readLock # 0
  <2> DEFINE S == FramesSeen(c, p)
             mx == con[c].hdr.mx
  <2>1. InLog(c, p)
    BY <1>3
  <2>2. S # {}
    BY <2>1 DEF InLog
  <2>3. S \subseteq 1..mx /\ S \in SUBSET (0..mx)
    BY <1>1 DEF FramesSeen
  <2>4. Max(S) \in S
    <3> HIDE DEF S, mx
    <3>1. mx \in Nat
      BY <1>1 DEF mx
    <3> QED BY <3>1, <2>2, <2>3, MaxFacts, Zenon
  <2>5. FramesSeen(c, p)' = S
    BY <1>1, <1>3 DEF FramesSeen
  <2>6. InLog(c, p)'
    BY <2>1, <2>5 DEF InLog
  <2> HIDE DEF S
  <2>7. PageSeen(c, p) = wal.f[Max(S)].ver
    BY <2>1 DEF PageSeen, S
  <2>8. PageSeen(c, p)' = wal'.f[Max(S)].ver
    BY <2>5, <2>6 DEF PageSeen
  <2>9. wal'.f[Max(S)] = wal.f[Max(S)]
    BY <2>3, <2>4, <1>3
  <2> QED BY <2>7, <2>8, <2>9
<1> QED BY <1>2, <1>3

\* No other connection changes what an open transaction reads.
LEMMA OtherStable ==
  ASSUME IInv, sc' = sc, NEW c \in Conn, NEW p \in Page, InSnapshot(c),
         con[c].readLock = 0 \/ InLog(c, p), NEW d \in Conn \ {c}, Open(d) \/ Die(d) \/ Step(d)
  PROVE  PageSeen(c, p)' = PageSeen(c, p)
<1> DEFINE q == con[c]
<1>1. q \in ConSet(sc) /\ Ctl(q) /\ Held(sc, q) /\ Sees(sc, q, shm.hdr0, NextVer)
  BY ConnFacts, GoodFields
<1>2. /\ q.readLock \in 0..sc.nReader-1 /\ sc.nReader \in Nat /\ sc.maxFrame \in Nat
      /\ q.hdr.mx \in 0..sc.maxFrame /\ shm.hdr0.mx \in 0..sc.maxFrame
      /\ shm \in ShmSet(sc) /\ wal \in WalSet(sc)
  <2>1. q.readLock \in -1..sc.nReader-1 /\ sc.nReader \in Nat
    BY ConnTypes
  <2>2. q.readLock # -1
    BY <1>1 DEF Held, InSnapshot
  <2> QED BY <2>1, <2>2, ConnTypes, ConnFacts
<1>3. con'[c] = con[c]
  <2>1. PICK r : Become(d, r)
    BY OneMoves
  <2> QED BY <2>1 DEF Become, IInv, TypeInv
<1>4. Compatible(q, con[d]) /\ Ctl(con[d]) /\ Held(sc, con[d])
      /\ Sees(sc, con[d], shm.hdr0, NextVer)
  BY OtherFacts, ConnFacts, GoodFields
<1>5. CASE Open(d)
  <2>1. con[c].pc # "closed"
    BY DEF InSnapshot
  <2>2. UNCHANGED <<shm, wal, db>>
    BY <2>1, <1>5 DEF Open
  <2> QED BY <2>2, <1>3, SeenSame
<1>6. CASE StartRecover(d)
  <2>1. ExclOk(d, 0..sc.nReader-1)
    BY <1>6 DEF StartRecover, OthersOut, NReader
  <2>2. q.readLock \notin 0..sc.nReader-1
    BY <2>1 DEF ExclOk
  <2> QED BY <2>2, <1>2
<1>7. CASE CkptCopy(d)
  <2>1. con[d].pc = "copy" /\ UNCHANGED <<shm, wal>>
    BY <1>7 DEF CkptCopy
  <2>2. con[d].then = "none" \/ con[d].then # "none"
    OBVIOUS
  <2>3. 0 \in con[d].excl
    BY <1>4, <2>1 DEF Ctl, Held
  <2>4. q.readLock # 0
    BY <2>3, <1>4 DEF Compatible
  <2> QED BY <2>1, <2>4, <1>3, SeenSame
<1>8. CASE CkptTruncate(d)
  <2>1. con[d].pc = "truncate" /\ db' = db
    BY <1>8 DEF CkptTruncate
  <2>2. con[d].excl = 1..sc.nReader-1
    BY <1>4, <2>1 DEF Ctl, Held
  <2>3. q.readLock = 0
    BY <2>2, <1>2, <1>4 DEF Compatible
  <2> QED BY <2>1, <2>3, <1>3, SeenSame
<1>9. ASSUME NEW pages \in PageLists, AppendFrames(d, pages)
      PROVE  PageSeen(c, p)' = PageSeen(c, p)
  <2> DEFINE s == IF con[d].hdr.mx = 0 /\ con[d].nCkpt = 0 THEN nSalt + 1 ELSE con[d].hdr.salt
             h == [con[d].hdr EXCEPT !.salt = s]
             f == FramesOf(wal.f, h, pages, NextVer)
             a == IndexAppend(shm.aPgno, h.mx, pages)
  <2>1. /\ con[d].pc = "append" /\ db' = db
        /\ \E ws, wn : wal' = [wal EXCEPT !.salt = ws, !.nCkpt = wn, !.f = f]
        /\ shm' = [shm EXCEPT !.aPgno = a]
    BY <1>9 DEF AppendFrames
  <2>2. /\ con[d].hdr = shm.hdr0 /\ con[d].hdr \in HdrSet(sc) /\ con[d].writeLock = TRUE
    BY <1>4, <2>1, ConnTypes DEF Sees, Held, Writer
  <2>3. h.mx = shm.hdr0.mx
    BY <2>2 DEF HdrSet
  <2>4. wal'.f = f /\ shm'.aPgno = a
    BY <2>1, <1>2 DEF WalSet, ShmSet
  <2>5. PICK n \in 1..sc.pagesPerTxn : pages \in [1..n -> Page]
    BY DEF PageLists
  <2>6. DOMAIN pages = 1..n /\ n \in Int
    BY <2>5
  <2>7. ASSUME q.readLock # 0 PROVE q.hdr.mx <= h.mx
    <3>1. CASE q.pc = "reading"
      BY <3>1, <2>3, <2>7, <1>1 DEF Sees
    <3>2. CASE q.pc = "writing"
      BY <3>2, <2>3, <1>1, <1>2 DEF Sees
    <3> QED BY <3>1, <3>2 DEF InSnapshot
  <2> HIDE DEF h, q
  <2>8. ASSUME q.readLock # 0, NEW i \in 1..q.hdr.mx
        PROVE  shm'.aPgno[i] = shm.aPgno[i] /\ wal'.f[i] = wal.f[i]
    <3>1. i \in 1..sc.maxFrame /\ i <= h.mx /\ i - h.mx \notin DOMAIN pages /\ h.mx # 0
      BY <2>3, <2>6, <2>7, <2>8, <1>2
    <3>2. f[i] = wal.f[i]
      BY <3>1 DEF FramesOf, MaxFrame
    <3>3. a[i] = shm.aPgno[i]
      BY <3>1 DEF IndexAppend, MaxFrame
    <3> QED BY <3>2, <3>3, <2>4
  <2> QED BY <2>1, <2>8, <1>3, SeenSame DEF q
<1>10. CASE /\ Die(d) \/ Step(d)
            /\ ~StartRecover(d) /\ ~CkptCopy(d) /\ ~CkptTruncate(d)
            /\ \A pages \in PageLists : ~AppendFrames(d, pages)
  <2>1. LogKept
    BY <1>10, LogKeptStep
  <2> QED BY <2>1, <1>3, SeenSame DEF LogKept
<1> QED BY <1>5, <1>6, <1>7, <1>8, <1>9, <1>10

\* A connection whose transaction stays open only takes or gives up the WRITE
\* lock.
LEMMA OwnStable ==
  ASSUME IInv, sc' = sc, NEW c \in Conn, NEW p \in Page, InSnapshot(c), InSnapshot(c)',
         con[c].readLock = 0 \/ InLog(c, p), Open(c) \/ Die(c) \/ Step(c)
  PROVE  PageSeen(c, p)' = PageSeen(c, p)
<1> DEFINE q == con[c]
<1>1. q \in ConSet(sc) /\ Sees(sc, q, shm.hdr0, NextVer)
  BY ConnFacts, GoodFields
<1>2. q.pc \in {"reading", "writing"} /\ con'[c].pc \in {"reading", "writing"}
  BY DEF InSnapshot
<1>3. ASSUME NEW r, Become(c, r) PROVE con'[c] = r
  BY <1>3 DEF Become, IInv, TypeInv
<1>4. CASE BeginWrite(c)
  <2>1. con'[c] = [q EXCEPT !.pc = "writing", !.writeLock = TRUE] /\ UNCHANGED <<shm, wal, db>>
    BY <1>3, <1>4 DEF BeginWrite
  <2> HIDE DEF q
  <2>2. con'[c].readLock = q.readLock /\ con'[c].minFrame = q.minFrame /\ con'[c].hdr = q.hdr
    BY <2>1, <1>1 DEF ConSet
  <2> QED BY <2>1, <2>2, SeenSame DEF q
<1>5. CASE Rollback(c)
  <2>1. /\ con'[c] = [q EXCEPT !.pc = "reading", !.writeLock = FALSE, !.hdr = shm.hdr0]
        /\ q.pc = "writing" /\ UNCHANGED <<shm, wal, db>>
    BY <1>3, <1>5 DEF Rollback
  <2>2. shm.hdr0 = q.hdr
    BY <2>1, <1>1 DEF Sees
  <2> HIDE DEF q
  <2>3. con'[c].readLock = q.readLock /\ con'[c].minFrame = q.minFrame /\ con'[c].hdr = q.hdr
    BY <2>1, <2>2, <1>1 DEF ConSet
  <2> QED BY <2>1, <2>3, SeenSame DEF q
<1>6. ~RestartLog(c)
  <2> SUFFICES ASSUME RestartLog(c) PROVE FALSE
    OBVIOUS
  <2> DEFINE r0 == RestartedHdr(con[c])
  <2>1. \/ con'[c] = [r0 EXCEPT !.pc = "write1", !.then = "restart", !.excl = Mark]
        \/ con'[c] = [q EXCEPT !.pc = "mark", !.op = "rewal", !.readLock = None]
        \/ con'[c] = [q EXCEPT !.pc = "append"]
    BY <1>3 DEF RestartLog
  <2>2. r0 \in ConSet(sc)
    BY <1>1, ConnFacts, RestartedFacts
  <2> HIDE DEF q, r0
  <2>3. con'[c].pc \in {"write1", "mark", "append"}
    BY <2>1, <2>2, <1>1 DEF ConSet
  <2> QED BY <2>3, <1>2
<1>7. ~EndRead(c) /\ ~Die(c)
  <2>1. con'[c] = Resting("idle", con[c].hdr, con[c].nCkpt) => con'[c].pc = "idle"
    BY DEF Resting
  <2>2. con'[c] = Resting("closed", BadHdr, 0) => con'[c].pc = "closed"
    BY DEF Resting
  <2> QED BY <1>2, <1>3, <2>1, <2>2 DEF EndRead, Idle, Die, Closed
<1>8. /\ ~Open(c) /\ \A pages \in PageLists : ~AppendFrames(c, pages)
      /\ \A m \in sc.modes : ~StartCkpt(c, m)
  BY <1>2 DEF Open, AppendFrames, StartCkpt
<1>9. /\ ~BeginRead(c) /\ ~ReadHdr0(c) /\ ~ReadHdr1(c) /\ ~HdrRetryOk(c) /\ ~HdrBusy(c)
      /\ ~Protocol(c) /\ ~StartRecover(c) /\ ~WriteHdr1(c) /\ ~WriteHdr0(c)
      /\ ~EndRecover(c) /\ ~TryRead0(c) /\ ~Check0(c) /\ ~SelectMark(c)
  BY <1>2 DEF BeginRead, ReadHdr0, ReadHdr1, HdrRetryOk, HdrBusy, Protocol, StartRecover, WriteHdr1, WriteHdr0, EndRecover, TryRead0, Check0, SelectMark
<1>10. /\ ~LockMark(c) /\ ~CheckMark(c) /\ ~EndRestart(c) /\ ~EndCommit(c) /\ ~CkptInit(c)
       /\ ~CkptReadMark(c) /\ ~CkptTryMark(c) /\ ~CkptLock0(c) /\ ~CkptCopy(c)
       /\ ~CkptInterrupt(c) /\ ~CkptCopied(c) /\ ~CkptEnd(c) /\ ~CkptTruncate(c)
       /\ ~CkptDone(c)
  BY <1>2 DEF LockMark, CheckMark, EndRestart, EndCommit, CkptInit, CkptReadMark, CkptTryMark, CkptLock0, CkptCopy, CkptInterrupt, CkptCopied, CkptEnd, CkptTruncate, CkptDone
<1> QED BY <1>4, <1>5, <1>6, <1>7, <1>8, <1>9, <1>10 DEF Step

-----------------------------------------------------------------------------
(* Theorems *)

\* IInv holds in every state of every scenario: the locks exclude each other,
\* a writer works on the published header, and no reader sees beyond it.
THEOREM WalIndexInvariant == Spec => []IInv
<1>1. Init => IInv
  BY InitInv
<1>2. IInv /\ [Next]_vars => IInv'
  BY NextInv
<1> QED BY <1>1, <1>2, PTL DEF Spec

\* The invariant implies the types.
LEMMA TypeFacts ==
  ASSUME IInv
  PROVE  TypeOK
<1>1. /\ sc \in Scenarios /\ shm \in ShmSet(sc) /\ db \in [Page -> 0..sc.maxTxn]
      /\ head \in 0..sc.maxTxn
  BY DEF IInv, TypeInv
<1>2. /\ shm.nBackfill \in 0..MaxFrame /\ shm.aReadMark \in [Mark -> 0..NOT_USED]
      /\ shm.aPgno \in [1..MaxFrame -> 0..MaxPage]
  BY <1>1, ShmFields DEF MaxFrame, Mark, NReader, NOT_USED
<1>3. ASSUME NEW c \in Conn
      PROVE  /\ con[c].readLock \in None..NReader-1 /\ con[c].excl \subseteq 0..NReader-1
             /\ con[c].hdr.mx \in 0..MaxFrame /\ con[c].mark \in 0..MaxFrame
             /\ con[c].minFrame \in 1..MaxFrame+1
  <2>1. con[c] \in ConSet(sc) /\ con[c].hdr.mx \in 0..sc.maxFrame
    BY ConnFacts, GoodFields, ConnTypes
  <2> QED BY <2>1, ConFields DEF None, NReader, MaxFrame
<1> QED BY <1>1, <1>2, <1>3 DEF TypeOK

\* The checkpoint information and the Wal objects keep to their ranges:
\* walTryBeginRead never takes READMARK_NOT_USED for a snapshot.
THEOREM WalIndexTypeOK == Spec => []TypeOK
<1>1. IInv => TypeOK
  BY TypeFacts
<1> QED BY <1>1, WalIndexInvariant, PTL

\* No step changes what an open transaction has found.
LEMMA StableStep ==
  ASSUME IInv, [Next]_vars
  PROVE  [\A c \in Conn, p \in Page :
            InSnapshot(c) /\ InSnapshot(c)' /\ (con[c].readLock = 0 \/ InLog(c, p)) =>
              PageSeen(c, p)' = PageSeen(c, p)]_vars
<1> SUFFICES ASSUME Next, NEW c \in Conn, NEW p \in Page, InSnapshot(c), InSnapshot(c)',
                    con[c].readLock = 0 \/ InLog(c, p)
             PROVE  PageSeen(c, p)' = PageSeen(c, p)
  OBVIOUS
<1>1. PICK d \in Conn : Open(d) \/ Die(d) \/ Step(d)
  BY DEF Next
<1>2. sc' = sc
  BY DEF Next
<1>3. CASE d = c
  BY <1>1, <1>2, <1>3, OwnStable
<1>4. CASE d # c
  BY <1>1, <1>2, <1>4, OtherStable
<1> QED BY <1>3, <1>4

\* While a transaction is open no step of any connection, restart, truncation,
\* checkpoint, recovery or death, changes what it reads from the log, or from
\* the file when it reads the file only.
THEOREM WalIndexSnapshotStable == Spec => SnapshotStable
<1>1. IInv /\ [Next]_vars =>
        [\A c \in Conn, p \in Page :
           InSnapshot(c) /\ InSnapshot(c)' /\ (con[c].readLock = 0 \/ InLog(c, p)) =>
             PageSeen(c, p)' = PageSeen(c, p)]_vars
  BY StableStep
<1> QED BY <1>1, WalIndexInvariant, PTL DEF Spec, SnapshotStable

-----------------------------------------------------------------------------
(* What a checkpoint of a restarted log and a torn restart would break *)

\* A checkpoint copies frames under a header of a log that was restarted since.
StaleCheckpoint == \E c \in Conn : con[c].pc = "copy" /\ con[c].hdr.salt # shm.hdr0.salt

\* The header of a restarted log is published, the old nBackfill stands, and
\* the process that was to reset it is gone.
TornRestart ==
  shm.nBackfill > shm.hdr0.mx /\ \A c \in Conn : con[c].then \notin {"restart", "truncate"}

\* Frame i is the last one of page p among the first m.
Hits(f, p, m, i) == i \in 1..m /\ f[i].pg = p /\ \A j \in 1..m : f[j].pg = p => j <= i
Absent(f, p, m) == \A i \in 1..m : f[i].pg # p

\* The first m frames over the database file d are the image img.
Shows(f, d, m, img) ==
  \A p \in Page : /\ Absent(f, p, m) => d[p] = img[p]
                  /\ \A i \in 1..m : Hits(f, p, m, i) => f[i].ver = img[p]

\* The last frames among the first m that are not beyond n are in the file.
Backed(f, d, m, n) ==
  \A p \in Page : \A i \in 1..m : Hits(f, p, m, i) /\ i <= n => d[p] = f[i].ver

\* The hash table knows the first m frames.
Indexed(x, f, m) == \A i \in 1..m : x[i] = f[i].pg

\* Recovery would accept the first m frames and find a commit there.
Linked(w, j) == /\ w.f[j].pg # 0 /\ w.f[j].salt = w.salt
                /\ w.f[j].prev = IF j = 1 THEN 0 ELSE w.f[j-1].ver
Whole(w, m) == m # 0 => w.f[m].commit = TRUE /\ \A j \in 1..m : Linked(w, j)

\* The transactions and salts recorded are ones there were.
Numbers(f, n) == \A i \in 1..n : f[i].prev <= f[i].ver
HistInv ==
  /\ hist \in [0..sc.maxTxn -> [Page -> 0..sc.maxTxn]]
  /\ snap \in [Conn -> 0..sc.maxTxn] /\ \A c \in Conn : snap[c] <= head
  /\ Numbers(wal.f, sc.maxFrame)
  /\ shm.hdr0.ck <= head /\ shm.hdr0.salt <= nSalt /\ wal.salt <= nSalt

\* The published header h stands for the last transaction, whose image is img.
PubOk(h, x, nb, w, d, hd, img) ==
  IF h.isInit = TRUE
  THEN /\ Shows(w.f, d, h.mx, img) /\ Indexed(x, w.f, h.mx)
       /\ Backed(w.f, d, h.mx, nb) /\ Whole(w, h.mx)
       /\ h.mx # 0 => w.f[h.mx].ver = hd /\ h.ck = hd /\ w.salt = h.salt
  ELSE h.mx = 0 /\ nb = 0
PubInv == PubOk(shm.hdr0, shm.aPgno, shm.nBackfill, wal, db, head, hist[head])

\* A recovery would find the last transaction, or one that was being published.
RecoveredVer == IF RecoveredMx = 0 THEN head ELSE wal.f[RecoveredMx].ver
SurvInv ==
  RecoveredVer >= head /\ Shows(wal.f, db, RecoveredMx, hist[RecoveredVer])

Publishing(r) == r.pc \in {"write1", "write0"}
Working(r) == r.pc \in {"readmark", "trymark", "lock0", "copy"}
Checkpointing(r) == Working(r) \/ r.pc \in {"ckinit", "ckend"}
AtMark(r) == r.pc \in {"readmark", "trymark"}
UsesHdr(r) == Checkpointing(r) \/ r.then # "none" \/
              r.pc \in {"tryread", "check0", "mark", "lockmark", "checkmark", "reading",
                        "writing", "append"}

\* Headers a connection has read are older than what it is about to publish.
Marks(r, n, hd) ==
  /\ r.hdr.salt <= n /\ r.h1.salt <= n /\ r.h1.ck <= hd
  /\ r.then \notin {"commit", "recover"} \/ ~Publishing(r) => r.hdr.ck <= hd
InitOk(r, h) ==
  /\ r.h1.isInit = TRUE => h.isInit = TRUE
  /\ r.hdr.isInit = TRUE /\ r.then # "recover" => h.isInit = TRUE
  /\ UsesHdr(r) => r.hdr.isInit = TRUE
  /\ r.pc = "closed" => r.hdr.isInit = FALSE /\ r.h1.isInit = FALSE
CallLocks(r) ==
  /\ r.op = "ckpt" => r.ckptLock = TRUE /\ r.readLock = -1
  /\ r.pc \in {"closed", "idle", "readhdr", "readhdr1", "badhdr", "tryread", "mark", "lockmark"}
       \/ r.then = "recover" => r.readLock = -1

\* The header a writer is about to publish: a commit and a recovery cover what
\* recovery would find (mx frames), a restart leaves everything to the file.
CommitOk(r, h, x, w, mx, hd) ==
  r.then = "commit" =>
    /\ r.hdr.mx # 0
    /\ Publishing(r) => /\ r.hdr.mx = mx /\ h.mx < mx /\ r.hdr.salt = w.salt
                        /\ r.hdr.ck = w.f[mx].ver /\ r.hdr.ck > hd /\ Indexed(x, w.f, mx)
RecoverOk(r, h, x, w, mx) ==
  r.then = "recover" =>
    /\ r.hdr.mx = mx /\ r.hdr.salt = w.salt /\ Indexed(x, w.f, mx)
    /\ r.hdr.ck = IF mx = 0 THEN 0 ELSE w.f[mx].ver
    /\ r.pc = "recover" => h = r.hdr
InFile(d, img) == \A p \in Page : d[p] = img[p]
RestartOk(r, h, d, img) ==
  r.then \in {"restart", "truncate"} =>
    /\ r.hdr.mx = 0 /\ InFile(d, img)
    /\ Publishing(r) => r.hdr.salt # h.salt
    /\ r.pc = r.then => h = r.hdr

\* What a reader relies on.
ReadOk(r, h, nb, marks) ==
  /\ r.readLock > 0 => r.minFrame <= nb + 1
  /\ r.pc \in {"lockmark", "checkmark"} => r.mark <= r.hdr.mx
  /\ r.readLock > 0 /\ r.pc # "checkmark" => marks[r.readLock] <= r.hdr.mx
  /\ r.readLock = 0 /\ r.pc \in {"check0", "reading", "writing"} /\ r.hdr = h => nb = r.hdr.mx

\* What a checkpoint relies on.
CkptOk(r, h, nb) ==
  /\ r.pc = "readhdr1" /\ r.op = "ckpt" /\ r.h1.salt = h.salt => r.h1.mx <= h.mx
  /\ Checkpointing(r) /\ r.hdr.salt = h.salt => r.hdr.mx <= h.mx
  /\ r.mode = "TRUNCATE" => /\ r.pc = "readhdr1" => r.h1 = h
                            /\ Checkpointing(r) => r.hdr = h
  /\ r.pc \in {"copy", "ckend", "ckdone"} \/ r.then = "truncate" \/ r.prior = 0
  /\ r.pc = "copy" => r.lo = nb /\ nb < r.mxSafe

\* What a checkpoint has in hand while its header is one of the present log.
WorkOk(r, h, f, d) ==
  Working(r) /\ r.hdr.salt = h.salt =>
    /\ r.mxSafe <= r.hdr.mx
    /\ r.pc = "trymark" => r.y < r.mxSafe
    /\ \A t \in r.todo : Hits(f, t[1], r.hdr.mx, t[2]) /\ t[1] > r.prior
    /\ \A p \in Page : \A i \in 1..r.hdr.mx :
         Hits(f, p, r.hdr.mx, i) /\ <<p, i>> \notin r.todo =>
           r.pc = "copy" /\ (r.lo < i /\ i <= r.mxSafe => d[p] = f[i].ver)

One(r, h, x, nb, marks, w, d, hd, img, mx, n) ==
  /\ Marks(r, n, hd) /\ InitOk(r, h) /\ CallLocks(r) /\ CommitOk(r, h, x, w, mx, hd)
  /\ RecoverOk(r, h, x, w, mx) /\ RestartOk(r, h, d, img) /\ ReadOk(r, h, nb, marks)
  /\ CkptOk(r, h, nb) /\ WorkOk(r, h, w.f, d)

\* The salt of a log that is being started is new.
FreshOk(r, q, h) ==
  Publishing(r) /\ r.then # "recover" /\ r.hdr.salt # h.salt =>
    r.hdr.salt # 0 /\ q.hdr.salt # r.hdr.salt /\ q.h1.salt # r.hdr.salt
CkptAlone(r, q) == r.ckptLock = TRUE => q.ckptLock = FALSE /\ q.then # "recover"

\* A checkpoint does not go beyond the header of a reader of the log whose slot
\* it has passed.
Limited(r, q, h) ==
  Working(r) /\ r.hdr.salt = h.salt /\ q.readLock > 0 /\ q.pc # "checkmark" =>
    \/ r.mxSafe <= q.hdr.mx
    \/ AtMark(r) /\ q.readLock > r.i
    \/ AtMark(r) /\ q.readLock = r.i /\ (r.pc = "trymark" => r.y <= q.hdr.mx)
Two(r, q, h) == FreshOk(r, q, h) /\ CkptAlone(r, q) /\ Limited(r, q, h)

\* An open transaction sees the image img.
Found(r, x, p, i) ==
  /\ i \in r.minFrame..r.hdr.mx /\ x[i] = p
  /\ \A j \in r.minFrame..r.hdr.mx : x[j] = p => j <= i
Unlogged(r, x, p) == r.readLock = 0 \/ \A i \in r.minFrame..r.hdr.mx : x[i] # p
Sight(r, x, f, d, img) ==
  \A p \in Page :
    /\ r.readLock # 0 => \A i \in r.minFrame..r.hdr.mx : Found(r, x, p, i) => f[i].ver = img[p]
    /\ Unlogged(r, x, p) => d[p] = img[p]
SnapOk(r, x, f, d, img) == r.pc \in {"reading", "writing"} => Sight(r, x, f, d, img)

OneInv == \A c \in Conn :
  One(con[c], shm.hdr0, shm.aPgno, shm.nBackfill, shm.aReadMark, wal, db, head, hist[head],
      RecoveredMx, nSalt)
TwoInv == \A c, d \in Conn : c # d => Two(con[c], con[d], shm.hdr0)
SnapInv == \A c \in Conn : SnapOk(con[c], shm.aPgno, wal.f, db, hist[snap[c]])
HInv == HistInv /\ PubInv /\ SurvInv /\ OneInv /\ TwoInv /\ SnapInv

-----------------------------------------------------------------------------
(* Steps that leave the log alone *)

\* The shared state, but for the read marks and the second header copy, is what
\* it was.
Calm ==
  /\ sc' = sc /\ wal' = wal /\ db' = db /\ hist' = hist /\ head' = head
  /\ shm'.hdr0 = shm.hdr0 /\ shm'.nBackfill = shm.nBackfill /\ shm'.aPgno = shm.aPgno

\* One with the present shared state, and the part of it that a change of
\* marks and salts can disturb.
OneNow(r) == One(r, shm.hdr0, shm.aPgno, shm.nBackfill, shm.aReadMark, wal, db, head,
                 hist[head], RecoveredMx, nSalt)

\* Only connection c's record changes, to r.
Only(c, r) == con'[c] = r /\ \A d \in Conn \ {c} : con'[d] = con[d]

\* What a calm step of c has to establish.
LEMMA CalmStep ==
  ASSUME IInv, HInv, Calm, NEW c \in Conn, NEW r, Only(c, r), nSalt' \in Nat, nSalt <= nSalt',
         One(r, shm.hdr0, shm.aPgno, shm.nBackfill, shm'.aReadMark, wal, db, head, hist[head],
             RecoveredMx, nSalt'),
         \A d \in Conn \ {c} : con[d].readLock > 0 =>
           shm'.aReadMark[con[d].readLock] = shm.aReadMark[con[d].readLock],
         \A d \in Conn \ {c} : Two(r, con[d], shm.hdr0) /\ Two(con[d], r, shm.hdr0),
         NEW v \in 0..sc.maxTxn, v <= head, snap' = [snap EXCEPT ![c] = v],
         SnapOk(r, shm.aPgno, wal.f, db, hist[v])
  PROVE  HInv'
<1>1. RecoveredMx' = RecoveredMx /\ RecoveredVer' = RecoveredVer
  BY DEF Calm, RecoveredMx, RecoveredVer, ValidFrames, MaxFrame
<1>2. HistInv'
  <2>1. nSalt \in Nat /\ shm.hdr0.salt \in Nat /\ wal.salt \in Nat
    <3>1. shm.hdr0 \in HdrSet(sc) /\ wal \in WalSet(sc) /\ nSalt \in Nat
      BY ShmFields DEF IInv, TypeInv
    <3> QED BY <3>1, HdrFields DEF WalSet
  <2> QED BY <2>1 DEF HInv, HistInv, Calm
<1>3. PubInv' /\ SurvInv'
  BY <1>1 DEF HInv, PubInv, SurvInv, Calm
<1>4. OneInv'
  <2> SUFFICES ASSUME NEW d \in Conn
               PROVE  One(con'[d], shm.hdr0, shm.aPgno, shm.nBackfill, shm'.aReadMark, wal, db,
                          head, hist[head], RecoveredMx, nSalt')
    BY <1>1, Zenon DEF OneInv, Calm
  <2>1. CASE d = c
    BY <2>1, Zenon DEF Only
  <2>2. CASE d # c
    <3>1. con'[d] = con[d]
      BY <2>2 DEF Only
    <3>2. One(con[d], shm.hdr0, shm.aPgno, shm.nBackfill, shm.aReadMark, wal, db, head, hist[head],
              RecoveredMx, nSalt)
      BY Zenon DEF HInv, OneInv
    <3>3. Marks(con[d], nSalt, head) => Marks(con[d], nSalt', head)
      <4>1. con[d].hdr.salt \in Nat /\ con[d].h1.salt \in Nat /\ nSalt \in Nat
        BY ConnTypes, HdrFields DEF IInv, TypeInv
      <4> QED BY <4>1 DEF Marks
    <3>4. ReadOk(con[d], shm.hdr0, shm.nBackfill, shm.aReadMark) =>
            ReadOk(con[d], shm.hdr0, shm.nBackfill, shm'.aReadMark)
      BY <2>2 DEF ReadOk
    <3> QED BY <3>1, <3>2, <3>3, <3>4, Zenon DEF One
  <2> QED BY <2>1, <2>2
<1>5. TwoInv'
  <2> SUFFICES ASSUME NEW d \in Conn, NEW e \in Conn, d # e
               PROVE  Two(con'[d], con'[e], shm.hdr0)
    BY Zenon DEF TwoInv, Calm
  <2>1. CASE d = c
    BY <2>1, Zenon DEF Only
  <2>2. CASE e = c
    BY <2>2, Zenon DEF Only
  <2>3. CASE d # c /\ e # c
    BY <2>3, Zenon DEF Only, HInv, TwoInv
  <2> QED BY <2>1, <2>2, <2>3
<1>6. SnapInv'
  <2> SUFFICES ASSUME NEW d \in Conn
               PROVE  SnapOk(con'[d], shm.aPgno, wal.f, db, hist[snap'[d]])
    BY Zenon DEF SnapInv, Calm
  <2>1. CASE d = c
    <3>1. snap'[d] = v
      BY <2>1 DEF HInv, HistInv
    <3> QED BY <2>1, <3>1, Zenon DEF Only
  <2>2. CASE d # c
    <3>1. snap'[d] = snap[d] /\ con'[d] = con[d]
      BY <2>2 DEF HInv, HistInv, Only
    <3> QED BY <3>1, Zenon DEF HInv, SnapInv
  <2> QED BY <2>1, <2>2
<1> QED BY <1>2, <1>3, <1>4, <1>5, <1>6 DEF HInv

\* The same for a step that opens or ends no snapshot.
LEMMA CalmStep2 ==
  ASSUME IInv, HInv, Calm, NEW c \in Conn, NEW r, Only(c, r), nSalt' \in Nat, nSalt <= nSalt',
         One(r, shm.hdr0, shm.aPgno, shm.nBackfill, shm'.aReadMark, wal, db, head, hist[head],
             RecoveredMx, nSalt'),
         \A d \in Conn \ {c} : con[d].readLock > 0 =>
           shm'.aReadMark[con[d].readLock] = shm.aReadMark[con[d].readLock],
         \A d \in Conn \ {c} : Two(r, con[d], shm.hdr0) /\ Two(con[d], r, shm.hdr0),
         snap' = snap, SnapOk(r, shm.aPgno, wal.f, db, hist[snap[c]])
  PROVE  HInv'
<1>1. snap[c] \in 0..sc.maxTxn /\ snap[c] <= head /\ snap' = [snap EXCEPT ![c] = snap[c]]
  BY DEF HInv, HistInv
<1> QED BY <1>1, CalmStep

\* What the invariants say of one connection.
LEMMA Facts ==
  ASSUME IInv, HInv, NEW c \in Conn
  PROVE  /\ con[c] \in ConSet(sc) /\ Ctl(con[c]) /\ Held(sc, con[c])
         /\ Sees(sc, con[c], shm.hdr0, NextVer)
         /\ OneNow(con[c]) /\ SnapOk(con[c], shm.aPgno, wal.f, db, hist[snap[c]])
         /\ \A d \in Conn \ {c} : Two(con[c], con[d], shm.hdr0) /\ Two(con[d], con[c], shm.hdr0)
<1>1. Good(sc, con[c], shm.hdr0, NextVer)
  BY ConnFacts
<1>2. OneNow(con[c]) /\ SnapOk(con[c], shm.aPgno, wal.f, db, hist[snap[c]])
  BY Zenon DEF HInv, OneInv, SnapInv, OneNow
<1>3. \A d \in Conn \ {c} : Two(con[c], con[d], shm.hdr0) /\ Two(con[d], con[c], shm.hdr0)
  BY Zenon DEF HInv, TwoInv
<1> QED BY <1>1, <1>2, <1>3, GoodFields

\* The numbers among the fields of a connection.
LEMMA Numerals ==
  ASSUME NEW s \in Scenarios, NEW r \in ConSet(s)
  PROVE  /\ r.hdr.mx \in Nat /\ r.hdr.salt \in Nat /\ r.hdr.ck \in Nat /\ r.h1.mx \in Nat
         /\ r.h1.salt \in Nat /\ r.h1.ck \in Nat /\ r.readLock \in -1..s.nReader-1
         /\ r.minFrame \in Nat /\ r.mark \in Nat /\ r.mxSafe \in Nat /\ r.i \in 1..s.nReader
         /\ r.y \in Nat /\ r.prior \in Nat /\ r.lo \in Nat /\ s.nReader \in Nat
BY ConFields, HdrFields, ScFacts

\* A read begins.
LEMMA BeginReadH ==
  ASSUME IInv, HInv, sc' = sc, NEW c \in Conn, BeginRead(c)
  PROVE  HInv'
<1> DEFINE q == con[c]
           r == [q EXCEPT !.pc = "readhdr", !.op = "read"]
<1>1. /\ q \in ConSet(sc) /\ Ctl(q) /\ Held(sc, q) /\ Sees(sc, q, shm.hdr0, NextVer)
      /\ OneNow(q) /\ sc \in Scenarios /\ SnapOk(q, shm.aPgno, wal.f, db, hist[snap[c]])
      /\ \A d \in Conn \ {c} : Two(q, con[d], shm.hdr0) /\ Two(con[d], q, shm.hdr0)
  BY Facts DEF IInv, TypeInv
<1>2. Only(c, r) /\ Calm /\ nSalt' = nSalt /\ nSalt \in Nat /\ shm' = shm /\ snap' = snap
  BY DEF IInv, TypeInv, BeginRead, Become, Only, Calm, ghosts
<1>3. q.pc = "idle"
  BY DEF BeginRead
<1>4. /\ r.pc = "readhdr" /\ r.op = "read" /\ r.then = q.then /\ r.hdr = q.hdr /\ r.h1 = q.h1
      /\ r.readLock = q.readLock /\ r.minFrame = q.minFrame /\ r.mark = q.mark /\ r.mxI = q.mxI
      /\ r.writeLock = q.writeLock /\ r.ckptLock = q.ckptLock /\ r.mode = q.mode
      /\ r.mxSafe = q.mxSafe /\ r.i = q.i /\ r.y = q.y /\ r.todo = q.todo /\ r.prior = q.prior
      /\ r.lo = q.lo
  <2> HIDE DEF q
  <2> QED BY <1>1 DEF ConSet
<1> HIDE DEF q, r
<1>5. OneNow(r)
  BY <1>1, <1>3, <1>4 DEF OneNow, One, Ctl, Held, Marks, InitOk, CallLocks, CommitOk, RecoverOk,
     RestartOk, ReadOk, CkptOk, WorkOk, UsesHdr, Publishing, Checkpointing, Working
<1>6. \A d \in Conn \ {c} : Two(r, con[d], shm.hdr0) /\ Two(con[d], r, shm.hdr0)
  BY <1>1, <1>3, <1>4 DEF OneNow, One, CallLocks, Two, FreshOk, CkptAlone, Limited, Publishing,
     Working, AtMark
<1>7. SnapOk(r, shm.aPgno, wal.f, db, hist[snap[c]])
  BY <1>4 DEF SnapOk
<1> QED
  <2> HIDE DEF HInv, IInv
  <2> QED BY <1>2, <1>5, <1>6, <1>7, CalmStep2 DEF OneNow

\* The first copy of the header is one that was published.
LEMMA ReadHdr0H ==
  ASSUME IInv, HInv, sc' = sc, NEW c \in Conn, ReadHdr0(c)
  PROVE  HInv'
<1> DEFINE q == con[c]
           r == [q EXCEPT !.pc = "readhdr1", !.h1 = shm.hdr0]
<1>1. /\ q \in ConSet(sc) /\ Ctl(q) /\ Held(sc, q) /\ Sees(sc, q, shm.hdr0, NextVer)
      /\ OneNow(q) /\ sc \in Scenarios /\ SnapOk(q, shm.aPgno, wal.f, db, hist[snap[c]])
      /\ \A d \in Conn \ {c} : Two(q, con[d], shm.hdr0) /\ Two(con[d], q, shm.hdr0)
  BY Facts DEF IInv, TypeInv
<1>2. Only(c, r) /\ Calm /\ nSalt' = nSalt /\ nSalt \in Nat /\ shm' = shm /\ snap' = snap
  BY DEF IInv, TypeInv, ReadHdr0, Become, Only, Calm, ghosts
<1>3. q.pc = "readhdr"
  BY DEF ReadHdr0
<1>4. /\ r.pc = "readhdr1" /\ r.h1 = shm.hdr0 /\ r.op = q.op /\ r.then = q.then /\ r.hdr = q.hdr
      /\ r.readLock = q.readLock /\ r.minFrame = q.minFrame /\ r.mark = q.mark /\ r.mxI = q.mxI
      /\ r.writeLock = q.writeLock /\ r.ckptLock = q.ckptLock /\ r.mode = q.mode
      /\ r.mxSafe = q.mxSafe /\ r.i = q.i /\ r.y = q.y /\ r.todo = q.todo /\ r.prior = q.prior
      /\ r.lo = q.lo
  <2> HIDE DEF q
  <2> QED BY <1>1 DEF ConSet
<1> HIDE DEF q, r
<1>8. /\ shm.hdr0.ck <= head /\ shm.hdr0.salt <= nSalt /\ shm.hdr0.mx \in Nat
      /\ shm.hdr0.salt \in Nat
  BY ConnTypes, HdrFields DEF HInv, HistInv
<1>5. OneNow(r)
  BY <1>1, <1>3, <1>4, <1>8 DEF OneNow, One, Ctl, Held, Marks, InitOk, CallLocks, CommitOk, RecoverOk,
     RestartOk, ReadOk, CkptOk, WorkOk, UsesHdr, Publishing, Checkpointing, Working
<1>6. \A d \in Conn \ {c} : Two(r, con[d], shm.hdr0) /\ Two(con[d], r, shm.hdr0)
  BY <1>1, <1>3, <1>4, <1>8 DEF OneNow, One, CallLocks, Two, FreshOk, CkptAlone, Limited, Publishing,
     Working, AtMark
<1>7. SnapOk(r, shm.aPgno, wal.f, db, hist[snap[c]])
  BY <1>4 DEF SnapOk
<1> QED
  <2> HIDE DEF HInv, IInv
  <2> QED BY <1>2, <1>5, <1>6, <1>7, CalmStep2 DEF OneNow

\* A write transaction begins on the snapshot it has.
LEMMA BeginWriteH ==
  ASSUME IInv, HInv, sc' = sc, NEW c \in Conn, BeginWrite(c)
  PROVE  HInv'
<1> DEFINE q == con[c]
           r == [q EXCEPT !.pc = "writing", !.writeLock = TRUE]
<1>1. /\ q \in ConSet(sc) /\ Ctl(q) /\ Held(sc, q) /\ Sees(sc, q, shm.hdr0, NextVer)
      /\ OneNow(q) /\ sc \in Scenarios /\ SnapOk(q, shm.aPgno, wal.f, db, hist[snap[c]])
      /\ \A d \in Conn \ {c} : Two(q, con[d], shm.hdr0) /\ Two(con[d], q, shm.hdr0)
  BY Facts DEF IInv, TypeInv
<1>2. Only(c, r) /\ Calm /\ nSalt' = nSalt /\ nSalt \in Nat /\ shm' = shm /\ snap' = snap
  BY DEF IInv, TypeInv, BeginWrite, Become, Only, Calm, ghosts
<1>3. q.pc = "reading"
  BY DEF BeginWrite
<1>4. /\ r.pc = "writing" /\ r.writeLock = TRUE /\ r.op = q.op /\ r.then = q.then /\ r.hdr = q.hdr
      /\ r.h1 = q.h1 /\ r.readLock = q.readLock /\ r.minFrame = q.minFrame /\ r.mark = q.mark
      /\ r.mxI = q.mxI /\ r.ckptLock = q.ckptLock /\ r.mode = q.mode /\ r.mxSafe = q.mxSafe
      /\ r.i = q.i /\ r.y = q.y /\ r.todo = q.todo /\ r.prior = q.prior /\ r.lo = q.lo
  <2> HIDE DEF q
  <2> QED BY <1>1 DEF ConSet
<1> HIDE DEF q, r
<1>5. OneNow(r)
  BY <1>1, <1>3, <1>4 DEF OneNow, One, Ctl, Held, Marks, InitOk, CallLocks, CommitOk, RecoverOk,
     RestartOk, ReadOk, CkptOk, WorkOk, UsesHdr, Publishing, Checkpointing, Working
<1>6. \A d \in Conn \ {c} : Two(r, con[d], shm.hdr0) /\ Two(con[d], r, shm.hdr0)
  BY <1>1, <1>3, <1>4 DEF OneNow, One, CallLocks, Two, FreshOk, CkptAlone, Limited, Publishing,
     Working, AtMark
<1>7. SnapOk(r, shm.aPgno, wal.f, db, hist[snap[c]])
  BY <1>1, <1>3, <1>4 DEF SnapOk, Sight, Found, Unlogged
<1> QED
  <2> HIDE DEF HInv, IInv
  <2> QED BY <1>2, <1>5, <1>6, <1>7, CalmStep2 DEF OneNow

\* A write transaction is undone: its header is the published one all along.
LEMMA RollbackH ==
  ASSUME IInv, HInv, sc' = sc, NEW c \in Conn, Rollback(c)
  PROVE  HInv'
<1> DEFINE q == con[c]
           r == [q EXCEPT !.pc = "reading", !.writeLock = FALSE,
                         !.hdr = shm.hdr0]
<1>1. /\ q \in ConSet(sc) /\ Ctl(q) /\ Held(sc, q) /\ Sees(sc, q, shm.hdr0, NextVer)
      /\ OneNow(q) /\ sc \in Scenarios /\ SnapOk(q, shm.aPgno, wal.f, db, hist[snap[c]])
      /\ \A d \in Conn \ {c} : Two(q, con[d], shm.hdr0) /\ Two(con[d], q, shm.hdr0)
  BY Facts DEF IInv, TypeInv
<1>2. Only(c, r) /\ Calm /\ nSalt' = nSalt /\ nSalt \in Nat /\ shm' = shm /\ snap' = snap
  BY DEF IInv, TypeInv, Rollback, Become, Only, Calm, ghosts
<1>3. q.pc = "writing"
  BY DEF Rollback
<1>4. /\ r.pc = "reading" /\ r.writeLock = FALSE /\ r.hdr = q.hdr /\ r.op = q.op
      /\ r.then = q.then /\ r.h1 = q.h1 /\ r.readLock = q.readLock /\ r.minFrame = q.minFrame
      /\ r.mark = q.mark /\ r.mxI = q.mxI /\ r.ckptLock = q.ckptLock /\ r.mode = q.mode
      /\ r.mxSafe = q.mxSafe /\ r.i = q.i /\ r.y = q.y /\ r.todo = q.todo /\ r.prior = q.prior
      /\ r.lo = q.lo
  <2>1. shm.hdr0 = q.hdr
    BY <1>1, <1>3 DEF Sees
  <2> HIDE DEF q
  <2> QED BY <1>1, <2>1 DEF ConSet
<1> HIDE DEF q, r
<1>5. OneNow(r)
  BY <1>1, <1>3, <1>4 DEF OneNow, One, Ctl, Held, Marks, InitOk, CallLocks, CommitOk, RecoverOk,
     RestartOk, ReadOk, CkptOk, WorkOk, UsesHdr, Publishing, Checkpointing, Working
<1>6. \A d \in Conn \ {c} : Two(r, con[d], shm.hdr0) /\ Two(con[d], r, shm.hdr0)
  BY <1>1, <1>3, <1>4 DEF OneNow, One, CallLocks, Two, FreshOk, CkptAlone, Limited, Publishing,
     Working, AtMark
<1>7. SnapOk(r, shm.aPgno, wal.f, db, hist[snap[c]])
  BY <1>1, <1>3, <1>4 DEF SnapOk, Sight, Found, Unlogged
<1> QED
  <2> HIDE DEF HInv, IInv
  <2> QED BY <1>2, <1>5, <1>6, <1>7, CalmStep2 DEF OneNow

\* An interrupted copy gives the lock up.
LEMMA CkptInterruptH ==
  ASSUME IInv, HInv, sc' = sc, NEW c \in Conn, CkptInterrupt(c)
  PROVE  HInv'
<1> DEFINE q == con[c]
           r == [q EXCEPT !.pc = "ckdone", !.excl = {}, !.todo = {}]
<1>1. /\ q \in ConSet(sc) /\ Ctl(q) /\ Held(sc, q) /\ Sees(sc, q, shm.hdr0, NextVer)
      /\ OneNow(q) /\ sc \in Scenarios /\ SnapOk(q, shm.aPgno, wal.f, db, hist[snap[c]])
      /\ \A d \in Conn \ {c} : Two(q, con[d], shm.hdr0) /\ Two(con[d], q, shm.hdr0)
  BY Facts DEF IInv, TypeInv
<1>2. Only(c, r) /\ Calm /\ nSalt' = nSalt /\ nSalt \in Nat /\ shm' = shm /\ snap' = snap
  BY DEF IInv, TypeInv, CkptInterrupt, Become, Only, Calm, ghosts
<1>3. q.pc = "copy"
  BY DEF CkptInterrupt
<1>4. /\ r.pc = "ckdone" /\ r.todo = {} /\ r.op = q.op /\ r.then = q.then /\ r.hdr = q.hdr
      /\ r.h1 = q.h1 /\ r.readLock = q.readLock /\ r.minFrame = q.minFrame /\ r.mark = q.mark
      /\ r.mxI = q.mxI /\ r.writeLock = q.writeLock /\ r.ckptLock = q.ckptLock /\ r.mode = q.mode
      /\ r.mxSafe = q.mxSafe /\ r.i = q.i /\ r.y = q.y /\ r.prior = q.prior /\ r.lo = q.lo
  <2> HIDE DEF q
  <2> QED BY <1>1 DEF ConSet
<1> HIDE DEF q, r
<1>5. OneNow(r)
  BY <1>1, <1>3, <1>4 DEF OneNow, One, Ctl, Held, Marks, InitOk, CallLocks, CommitOk, RecoverOk,
     RestartOk, ReadOk, CkptOk, WorkOk, UsesHdr, Publishing, Checkpointing, Working
<1>6. \A d \in Conn \ {c} : Two(r, con[d], shm.hdr0) /\ Two(con[d], r, shm.hdr0)
  BY <1>1, <1>3, <1>4 DEF OneNow, One, CallLocks, Two, FreshOk, CkptAlone, Limited, Publishing,
     Working, AtMark
<1>7. SnapOk(r, shm.aPgno, wal.f, db, hist[snap[c]])
  BY <1>4 DEF SnapOk
<1> QED
  <2> HIDE DEF HInv, IInv
  <2> QED BY <1>2, <1>5, <1>6, <1>7, CalmStep2 DEF OneNow

\* A call ends or a process dies: no lock is kept, and of the headers only one
\* that was in use.
LEMMA RestH ==
  ASSUME IInv, HInv, Calm, NEW c \in Conn, NEW pc \in {"closed", "idle"}, NEW h, NEW n,
         h = BadHdr \/ (pc = "idle" /\ h = con[c].hdr /\ con[c].then = "none"),
         Only(c, Resting(pc, h, n)), nSalt' = nSalt, shm' = shm,
         NEW v \in 0..sc.maxTxn, v <= head, snap' = [snap EXCEPT ![c] = v]
  PROVE  HInv'
<1> DEFINE q == con[c]
           r == Resting(pc, h, n)
<1>1. /\ q \in ConSet(sc) /\ Ctl(q) /\ OneNow(q) /\ sc \in Scenarios
      /\ \A d \in Conn \ {c} : Two(q, con[d], shm.hdr0) /\ Two(con[d], q, shm.hdr0)
  BY Facts DEF IInv, TypeInv
<1>2. /\ Only(c, r) /\ nSalt \in Nat /\ head \in Nat /\ pc \in {"closed", "idle"}
      /\ h = BadHdr \/ (pc = "idle" /\ h = q.hdr /\ q.then = "none")
  BY ScFacts DEF IInv, TypeInv
<1>3. /\ r.pc = pc /\ r.op = "none" /\ r.then = "none" /\ r.hdr = h /\ r.h1 = BadHdr
      /\ r.readLock = -1 /\ r.ckptLock = FALSE /\ r.mode = "PASSIVE" /\ r.prior = 0
  BY DEF Resting, None
<1>4. BadHdr.isInit = FALSE /\ BadHdr.salt = 0 /\ BadHdr.ck = 0 /\ BadHdr.mx = 0
  BY DEF BadHdr
<1> HIDE DEF q, r
<1>5. OneNow(r)
  BY <1>1, <1>2, <1>3, <1>4 DEF OneNow, One, Ctl, Marks, InitOk, CallLocks, CommitOk, RecoverOk,
     RestartOk, ReadOk, CkptOk, WorkOk, UsesHdr, Publishing, Checkpointing, Working
<1>6. \A d \in Conn \ {c} : Two(r, con[d], shm.hdr0) /\ Two(con[d], r, shm.hdr0)
  <2> SUFFICES ASSUME NEW d \in Conn \ {c}
               PROVE  Two(r, con[d], shm.hdr0) /\ Two(con[d], r, shm.hdr0)
    OBVIOUS
  <2>1. Two(q, con[d], shm.hdr0) /\ Two(con[d], q, shm.hdr0)
    BY <1>1
  <2>2. CkptAlone(r, con[d]) /\ CkptAlone(con[d], r) /\ Limited(r, con[d], shm.hdr0)
        /\ Limited(con[d], r, shm.hdr0) /\ FreshOk(r, con[d], shm.hdr0)
    BY <2>1, <1>3 DEF Two, CkptAlone, Limited, FreshOk, Working, Publishing
  <2>3. FreshOk(con[d], r, shm.hdr0)
    BY <2>1, <1>2, <1>3, <1>4 DEF Two, FreshOk
  <2> QED BY <2>2, <2>3 DEF Two
<1>7. SnapOk(r, shm.aPgno, wal.f, db, hist[v])
  BY <1>3 DEF SnapOk
<1> QED
  <2>1. nSalt' \in Nat /\ nSalt <= nSalt' /\ shm'.aReadMark = shm.aReadMark
    BY <1>2
  <2> HIDE DEF HInv, IInv
  <2> QED BY <1>2, <2>1, <1>5, <1>6, <1>7, CalmStep DEF OneNow

\* A connection between calls keeps the header it has.
LEMMA IdleH ==
  ASSUME IInv, HInv, Calm, NEW c \in Conn, con[c].then = "none", Become(c, Idle(c)),
         UNCHANGED <<shm, snap, nSalt>>
  PROVE  HInv'
<1>1. Only(c, Resting("idle", con[c].hdr, con[c].nCkpt))
  BY DEF IInv, TypeInv, Become, Idle, Only
<1>2. snap[c] \in 0..sc.maxTxn /\ snap[c] <= head /\ snap' = [snap EXCEPT ![c] = snap[c]]
  BY DEF HInv, HistInv
<1> QED BY <1>1, <1>2, RestH

\* A process dies.
LEMMA DieH ==
  ASSUME IInv, HInv, sc' = sc, NEW c \in Conn, Die(c)
  PROVE  HInv'
<1>1. Only(c, Resting("closed", BadHdr, 0)) /\ Calm
  BY DEF IInv, TypeInv, Die, Become, Closed, Only, Calm
<1>2. 0 \in 0..sc.maxTxn /\ 0 <= head
  BY ScFacts DEF IInv, TypeInv
<1> QED BY <1>1, <1>2, RestH DEF Die

\* A reader gives up.
LEMMA ProtocolH ==
  ASSUME IInv, HInv, sc' = sc, NEW c \in Conn, Protocol(c)
  PROVE  HInv'
<1>1. Calm /\ con[c].then = "none"
  BY Facts DEF Protocol, Calm, Ctl
<1> QED BY <1>1, IdleH DEF Protocol

\* A read transaction ends.
LEMMA EndReadH ==
  ASSUME IInv, HInv, sc' = sc, NEW c \in Conn, EndRead(c)
  PROVE  HInv'
<1>1. Only(c, Resting("idle", con[c].hdr, con[c].nCkpt)) /\ Calm
  BY DEF IInv, TypeInv, EndRead, Become, Idle, Only, Calm
<1>2. 0 \in 0..sc.maxTxn /\ 0 <= head /\ con[c].then = "none"
  BY ScFacts, Facts DEF IInv, TypeInv, EndRead, Ctl
<1> QED BY <1>1, <1>2, RestH DEF EndRead

\* A checkpoint ends.
LEMMA CkptDoneH ==
  ASSUME IInv, HInv, sc' = sc, NEW c \in Conn, CkptDone(c)
  PROVE  HInv'
<1>1. Calm /\ con[c].then = "none" /\ UNCHANGED <<shm, snap, nSalt>>
  BY Facts DEF CkptDone, Calm, Ctl, ghosts
<1>2. CASE con[c].changed
  <2>1. Only(c, Resting("idle", BadHdr, con[c].nCkpt))
    BY <1>2 DEF IInv, TypeInv, CkptDone, Become, Only
  <2>2. snap[c] \in 0..sc.maxTxn /\ snap[c] <= head /\ snap' = [snap EXCEPT ![c] = snap[c]]
    BY <1>1 DEF HInv, HistInv
  <2> QED BY <1>1, <2>1, <2>2, RestH
<1>3. CASE ~con[c].changed
  BY <1>1, <1>3, IdleH DEF CkptDone
<1> QED BY <1>2, <1>3

\* A connection takes h for its header: one it has read, or the published one.
LEMMA AcceptH ==
  ASSUME IInv, HInv, Calm, NEW c \in Conn, con[c].pc \in {"readhdr1", "badhdr"}, NEW h,
         h.isInit = TRUE, h = shm.hdr0 \/ (h = con[c].h1 /\ con[c].pc = "readhdr1"),
         Become(c, Accept(con[c], h)), UNCHANGED <<shm, snap, nSalt>>
  PROVE  HInv'
<1> DEFINE q == con[c]
           r == Accept(q, h)
<1>1. /\ q \in ConSet(sc) /\ Ctl(q) /\ Held(sc, q) /\ OneNow(q) /\ sc \in Scenarios
      /\ \A d \in Conn \ {c} : Two(q, con[d], shm.hdr0) /\ Two(con[d], q, shm.hdr0)
  BY Facts DEF IInv, TypeInv
<1>2. Only(c, r) /\ nSalt \in Nat
  BY DEF IInv, TypeInv, Become, Only
<1>3. /\ q.pc \in {"readhdr1", "badhdr"} /\ h.isInit = TRUE
      /\ h = shm.hdr0 \/ (h = q.h1 /\ q.pc = "readhdr1")
  OBVIOUS
<1>4. /\ r.pc = (IF q.op = "read" THEN "tryread" ELSE "ckinit") /\ r.op = q.op
      /\ r.then = q.then /\ r.hdr = h /\ r.h1 = BadHdr /\ r.readLock = q.readLock
      /\ r.ckptLock = q.ckptLock /\ r.mode = q.mode /\ r.prior = q.prior
  <2> HIDE DEF q
  <2> QED BY <1>1 DEF ConSet, Accept, AfterHdr
<1>9. q.op \in {"read", "ckpt"} /\ q.then = "none"
  BY <1>1, <1>3, ConnTypes DEF Ctl
<1> HIDE DEF q, r
<1>8. /\ shm.hdr0.ck <= head /\ shm.hdr0.salt <= nSalt /\ BadHdr.isInit = FALSE
      /\ BadHdr.salt = 0 /\ BadHdr.ck = 0 /\ BadHdr.mx = 0 /\ head \in Nat /\ nSalt \in Nat
      /\ shm.hdr0.mx \in Nat /\ shm.hdr0.salt \in Nat
  BY ConnTypes, HdrFields, ScFacts DEF HInv, HistInv, BadHdr, IInv, TypeInv
<1>5. OneNow(r)
  BY <1>1, <1>3, <1>4, <1>8, <1>9 DEF OneNow, One, Ctl, Held, Marks, InitOk, CallLocks, CommitOk, RecoverOk,
     RestartOk, ReadOk, CkptOk, WorkOk, UsesHdr, Publishing, Checkpointing, Working
<1>6. \A d \in Conn \ {c} : Two(r, con[d], shm.hdr0) /\ Two(con[d], r, shm.hdr0)
  BY <1>1, <1>3, <1>4, <1>8, <1>9 DEF OneNow, One, CallLocks, Two, FreshOk, CkptAlone, Limited, Publishing,
     Working, AtMark
<1>7. SnapOk(r, shm.aPgno, wal.f, db, hist[snap[c]])
  BY <1>4 DEF SnapOk
<1> QED
  <2> HIDE DEF HInv, IInv
  <2> QED BY <1>2, <1>5, <1>6, <1>7, CalmStep2 DEF OneNow

\* A connection goes back to a point where it holds no lock of a reader.
LEMMA BackH ==
  ASSUME IInv, HInv, Calm, NEW c \in Conn, NEW r,
         con[c].pc \in {"badhdr", "tryread", "check0", "mark", "lockmark", "checkmark"},
         /\ r.pc \in {"readhdr", "mark"} /\ r.op = con[c].op /\ r.then = con[c].then
         /\ r.hdr = con[c].hdr /\ r.h1 \in {con[c].h1, BadHdr} /\ r.readLock = -1
         /\ r.ckptLock = con[c].ckptLock /\ r.mode = con[c].mode /\ r.prior = con[c].prior,
         r.pc = "mark" => con[c].pc # "badhdr",
         Only(c, r), UNCHANGED <<shm, snap, nSalt>>
  PROVE  HInv'
<1> DEFINE q == con[c]
<1>1. /\ q \in ConSet(sc) /\ Ctl(q) /\ Held(sc, q) /\ OneNow(q) /\ sc \in Scenarios
      /\ \A d \in Conn \ {c} : Two(q, con[d], shm.hdr0) /\ Two(con[d], q, shm.hdr0)
  BY Facts DEF IInv, TypeInv
<1>3. q.pc \in {"badhdr", "tryread", "check0", "mark", "lockmark", "checkmark"}
  OBVIOUS
<1>4. /\ r.pc \in {"readhdr", "mark"} /\ r.op = q.op /\ r.then = q.then
      /\ r.hdr = q.hdr /\ r.h1 \in {q.h1, BadHdr} /\ r.readLock = -1
      /\ r.ckptLock = q.ckptLock /\ r.mode = q.mode /\ r.prior = q.prior
      /\ r.pc = "mark" => q.pc # "badhdr"
  OBVIOUS
<1> HIDE DEF q
<1>8. /\ shm.hdr0.ck <= head /\ shm.hdr0.salt <= nSalt /\ BadHdr.isInit = FALSE
      /\ BadHdr.salt = 0 /\ BadHdr.ck = 0 /\ BadHdr.mx = 0 /\ head \in Nat /\ nSalt \in Nat
      /\ shm.hdr0.mx \in Nat /\ shm.hdr0.salt \in Nat
  BY ConnTypes, HdrFields, ScFacts DEF HInv, HistInv, BadHdr, IInv, TypeInv
<1>5. OneNow(r)
  BY <1>1, <1>3, <1>4, <1>8 DEF OneNow, One, Ctl, Held, Marks, InitOk, CallLocks, CommitOk, RecoverOk,
     RestartOk, ReadOk, CkptOk, WorkOk, UsesHdr, Publishing, Checkpointing, Working
<1>6. \A d \in Conn \ {c} : Two(r, con[d], shm.hdr0) /\ Two(con[d], r, shm.hdr0)
  BY <1>1, <1>3, <1>4, <1>8 DEF OneNow, One, CallLocks, Two, FreshOk, CkptAlone, Limited, Publishing,
     Working, AtMark
<1>7. SnapOk(r, shm.aPgno, wal.f, db, hist[snap[c]])
  BY <1>4 DEF SnapOk
<1> QED
  <2>1. nSalt \in Nat
    BY DEF IInv, TypeInv
  <2> HIDE DEF HInv, IInv
  <2> QED BY <2>1, <1>5, <1>6, <1>7, CalmStep2 DEF OneNow

\* The two copies agree, or they do not.
LEMMA ReadHdr1H ==
  ASSUME IInv, HInv, sc' = sc, NEW c \in Conn, ReadHdr1(c)
  PROVE  HInv'
<1>1. Calm /\ UNCHANGED <<shm, snap, nSalt>> /\ con[c].pc = "readhdr1"
  BY DEF ReadHdr1, Calm, ghosts
<1>2. CASE con[c].h1 = shm.hdr1 /\ con[c].h1.isInit
  <2>1. Become(c, Accept(con[c], con[c].h1)) /\ con[c].h1.isInit = TRUE
    BY <1>2 DEF ReadHdr1
  <2> QED BY <1>1, <2>1, AcceptH
<1>3. CASE ~(con[c].h1 = shm.hdr1 /\ con[c].h1.isInit)
  <2> DEFINE q == con[c]
             r == [q EXCEPT !.pc = "badhdr", !.h1 = BadHdr]
  <2>1. Only(c, r)
    BY <1>3 DEF IInv, TypeInv, ReadHdr1, Become, Only
  <2>2. /\ q \in ConSet(sc) /\ Ctl(q) /\ Held(sc, q) /\ OneNow(q)
        /\ \A d \in Conn \ {c} : Two(q, con[d], shm.hdr0) /\ Two(con[d], q, shm.hdr0)
    BY Facts
  <2>3. /\ r.pc = "badhdr" /\ r.op = q.op /\ r.then = q.then /\ r.hdr = q.hdr /\ r.h1 = BadHdr
        /\ r.readLock = q.readLock /\ r.ckptLock = q.ckptLock /\ r.mode = q.mode
        /\ r.prior = q.prior
    <3> HIDE DEF q
    <3> QED BY <2>2 DEF ConSet
  <2>4. q.pc = "readhdr1"
    BY <1>1
  <2>5. BadHdr.isInit = FALSE /\ BadHdr.salt = 0 /\ BadHdr.ck = 0 /\ head \in Nat /\ nSalt \in Nat
    BY ScFacts DEF BadHdr, IInv, TypeInv
  <2> HIDE DEF q, r
  <2>6. OneNow(r)
    BY <2>2, <2>3, <2>4, <2>5 DEF OneNow, One, Ctl, Held, Marks, InitOk, CallLocks, CommitOk, RecoverOk,
       RestartOk, ReadOk, CkptOk, WorkOk, UsesHdr, Publishing, Checkpointing, Working
  <2>7. \A d \in Conn \ {c} : Two(r, con[d], shm.hdr0) /\ Two(con[d], r, shm.hdr0)
    BY <2>2, <2>3, <2>4, <2>5 DEF OneNow, One, CallLocks, Two, FreshOk, CkptAlone, Limited, Publishing,
       Working, AtMark
  <2>8. SnapOk(r, shm.aPgno, wal.f, db, hist[snap[c]])
    BY <2>3 DEF SnapOk
  <2>9. nSalt' \in Nat /\ nSalt <= nSalt' /\ shm' = shm /\ snap' = snap /\ nSalt' = nSalt
    BY <1>1, <2>5
  <2> HIDE DEF HInv, IInv
  <2> QED BY <1>1, <2>1, <2>6, <2>7, <2>8, <2>9, CalmStep2 DEF OneNow
<1> QED BY <1>2, <1>3

\* The header is good when it is read again under the WRITE lock.
LEMMA HdrRetryOkH ==
  ASSUME IInv, HInv, sc' = sc, NEW c \in Conn, HdrRetryOk(c)
  PROVE  HInv'
<1>1. /\ Calm /\ UNCHANGED <<shm, snap, nSalt>> /\ con[c].pc \in {"readhdr1", "badhdr"}
      /\ Become(c, Accept(con[c], shm.hdr0)) /\ shm.hdr0.isInit = TRUE
  <2>1. shm.hdr0.isInit \in BOOLEAN
    BY ShmFields DEF IInv, TypeInv, HdrSet
  <2> QED BY <2>1 DEF HdrRetryOk, HdrGood, Calm, ghosts
<1> QED BY <1>1, AcceptH

\* The header stays bad and nothing can be done about it now.
LEMMA HdrBusyH ==
  ASSUME IInv, HInv, sc' = sc, NEW c \in Conn, HdrBusy(c)
  PROVE  HInv'
<1>1. /\ Calm /\ UNCHANGED <<shm, snap, nSalt>> /\ con[c].pc = "badhdr"
      /\ con[c] \in ConSet(sc) /\ Ctl(con[c]) /\ con[c].then = "none" /\ OneNow(con[c])
  BY Facts DEF HdrBusy, Calm, ghosts, Ctl
<1>2. CASE con[c].op = "read" /\ ~Recovering
  <2> DEFINE r == [con[c] EXCEPT !.pc = "readhdr", !.h1 = BadHdr, !.again = TRUE]
  <2>1. Only(c, r)
    BY <1>2 DEF IInv, TypeInv, HdrBusy, Fail, Become, Only
  <2>2. /\ r.pc = "readhdr" /\ r.op = con[c].op /\ r.then = con[c].then
        /\ r.hdr = con[c].hdr /\ r.h1 = BadHdr /\ r.readLock = con[c].readLock
        /\ r.ckptLock = con[c].ckptLock /\ r.mode = con[c].mode /\ r.prior = con[c].prior
    BY <1>1 DEF ConSet
  <2>3. con[c].readLock = -1
    BY <1>1 DEF OneNow, One, CallLocks
  <2> HIDE DEF r
  <2> QED BY <1>1, <2>1, <2>2, <2>3, BackH
<1>3. CASE ~(con[c].op = "read" /\ ~Recovering)
  <2>1. Become(c, Idle(c))
    BY <1>3 DEF HdrBusy, Fail
  <2> QED BY <1>1, <2>1, IdleH
<1> QED BY <1>2, <1>3

\* A reader that must try again gives its slot back.
LEMMA RetryH ==
  ASSUME IInv, HInv, Calm, NEW c \in Conn, con[c].pc \in {"check0", "mark", "lockmark", "checkmark"},
         Become(c, Retry(con[c])), UNCHANGED <<shm, snap, nSalt>>
  PROVE  HInv'
<1> DEFINE r == Retry(con[c])
<1>1. con[c] \in ConSet(sc) /\ Only(c, r)
  BY Facts DEF IInv, TypeInv, Become, Only
<1>2. /\ r.pc \in {"readhdr", "mark"} /\ r.op = con[c].op /\ r.then = con[c].then
      /\ r.hdr = con[c].hdr /\ r.h1 = con[c].h1 /\ r.readLock = -1
      /\ r.ckptLock = con[c].ckptLock /\ r.mode = con[c].mode /\ r.prior = con[c].prior
  BY <1>1 DEF ConSet, Retry, None
<1> HIDE DEF r
<1> QED BY <1>1, <1>2, BackH

-----------------------------------------------------------------------------
(* Frames and images *)

\* A page with a frame has a last one.
LEMMA LastHit ==
  ASSUME NEW f, NEW p, NEW m \in Nat, ~Absent(f, p, m)
  PROVE  \E i \in 1..m : Hits(f, p, m, i)
<1> DEFINE S == {i \in 1..m : f[i].pg = p}
<1>1. S # {} /\ S \in SUBSET (0..m)
  BY DEF Absent
<1>2. Max(S) \in S /\ \A j \in S : j <= Max(S)
  <2> HIDE DEF S
  <2> QED BY <1>1, MaxFacts, Zenon
<1>3. Hits(f, p, m, Max(S))
  BY <1>2 DEF Hits
<1> QED BY <1>2, <1>3

\* It is the only one.
LEMMA OneHit ==
  ASSUME NEW f, NEW p, NEW m \in Nat, NEW i \in Nat, NEW j \in Nat, Hits(f, p, m, i),
         Hits(f, p, m, j)
  PROVE  i = j
BY DEF Hits

\* The last frame of a page, seen from a longer prefix of the log.
LEMMA HitsUp ==
  ASSUME NEW f, NEW p, NEW m \in Nat, NEW n \in Nat, n <= m, NEW i \in Nat, Hits(f, p, m, i), i <= n
  PROVE  Hits(f, p, n, i)
BY DEF Hits

\* The last frame of page p among the first m, if any, is not beyond n.
Covered(f, p, m, n) == \A i \in 1..m : Hits(f, p, m, i) => i <= n

\* What is in the file and in the log up to the published header, together, is
\* the image: with everything backfilled, the file alone.
LEMMA FileImage ==
  ASSUME NEW f, NEW d, NEW m \in Nat, NEW n, NEW img, Shows(f, d, m, img), Backed(f, d, m, n),
         NEW p \in Page, Covered(f, p, m, n)
  PROVE  d[p] = img[p]
<1>1. CASE Absent(f, p, m)
  BY <1>1 DEF Shows
<1>2. CASE ~Absent(f, p, m)
  <2>1. PICK i \in 1..m : Hits(f, p, m, i)
    BY <1>2, LastHit
  <2>2. f[i].ver = img[p]
    BY <2>1 DEF Shows
  <2>3. d[p] = f[i].ver
    BY <2>1 DEF Backed, Covered
  <2> QED BY <2>2, <2>3
<1> QED BY <1>1, <1>2

\* A reader on the published header sees the image it stands for.
LEMMA SightNow ==
  ASSUME NEW h, NEW x, NEW nb \in Nat, NEW w, NEW d, NEW hd, NEW img, NEW r,
         PubOk(h, x, nb, w, d, hd, img), h.isInit = TRUE, r.hdr = h, h.mx \in Nat,
         r.minFrame \in Nat, r.minFrame >= 1,
         r.readLock = 0 => nb = h.mx, r.readLock # 0 => r.minFrame <= nb + 1
  PROVE  Sight(r, x, w.f, d, img)
<1> DEFINE m == h.mx
           f == w.f
<1>1. /\ Shows(f, d, m, img) /\ Indexed(x, f, m) /\ Backed(f, d, m, nb) /\ m \in Nat
      /\ r.hdr.mx = m
  BY DEF PubOk
<1> HIDE DEF m, f
<1> SUFFICES ASSUME NEW p \in Page
             PROVE  /\ r.readLock # 0 =>
                         \A i \in r.minFrame..m : Found(r, x, p, i) => f[i].ver = img[p]
                    /\ Unlogged(r, x, p) => d[p] = img[p]
  BY <1>1 DEF Sight, f
<1>2. ASSUME NEW i \in r.minFrame..m, Found(r, x, p, i)
      PROVE  f[i].ver = img[p]
  <2>1. i \in 1..m /\ f[i].pg = p
    BY <1>1, <1>2 DEF Indexed, Found
  <2>2. \A j \in 1..m : f[j].pg = p => j <= i
    BY <1>1, <1>2, <2>1 DEF Indexed, Found
  <2>3. Hits(f, p, m, i)
    BY <2>1, <2>2 DEF Hits
  <2> QED BY <1>1, <2>1, <2>3 DEF Shows
<1>3. ASSUME Unlogged(r, x, p)
      PROVE  d[p] = img[p]
  <2>1. Covered(f, p, m, nb)
    <3> SUFFICES ASSUME NEW i \in 1..m, Hits(f, p, m, i)
                 PROVE  i <= nb
      BY DEF Covered
    <3>1. CASE r.readLock = 0
      BY <1>1, <3>1 DEF m
    <3>2. CASE r.readLock # 0
      <4>1. x[i] = p
        BY <1>1 DEF Indexed, Hits
      <4>2. ~(i \in r.minFrame..m)
        BY <1>1, <1>3, <3>2, <4>1 DEF Unlogged
      <4> QED BY <1>1, <3>2, <4>2
    <3> QED BY <3>1, <3>2
  <2> QED BY <1>1, <2>1, FileImage
<1> QED BY <1>2, <1>3

\* The slot and the mark walTryBeginRead chooses.
LEMMA SelectMarkFacts ==
  ASSUME IInv, NEW c \in Conn, SelectMark(c)
  PROVE  \E slot \in 0..sc.nReader-1, mark \in 0..con[c].hdr.mx, raise \in BOOLEAN :
           /\ raise = TRUE => slot \in 1..sc.nReader-1 /\ ExclOk(c, {slot}) /\ mark = con[c].hdr.mx
           /\ shm' = IF raise = TRUE THEN [shm EXCEPT !.aReadMark[slot] = con[c].hdr.mx] ELSE shm
           /\ Become(c, IF slot = 0 THEN Retry(con[c])
                        ELSE [con[c] EXCEPT !.pc = "lockmark", !.mxI = slot, !.mark = mark])
<1> DEFINE mx == con[c].hdr.mx
           fit == {i \in Mark : MarkFits(c, i)}
           best == Max({0} \cup {shm.aReadMark[i] : i \in fit})
           last == Max({0} \cup {i \in fit : shm.aReadMark[i] = best})
           free == {i \in Mark : ExclOk(c, {i})}
           raise == (best < mx \/ last = 0) /\ free # {}
           slot == IF raise THEN Min(free) ELSE last
           mark == IF raise THEN mx ELSE best
<1>1. /\ shm' = IF raise THEN [shm EXCEPT !.aReadMark[slot] = mx] ELSE shm
      /\ Become(c, IF slot = 0 THEN Retry(con[c])
                   ELSE [con[c] EXCEPT !.pc = "lockmark", !.mxI = slot, !.mark = mark])
  BY DEF SelectMark
<1>2. /\ sc.nReader \in Nat /\ sc.nReader >= 2 /\ sc.maxFrame \in Nat /\ mx \in 0..sc.maxFrame
      /\ shm.aReadMark \in [1..sc.nReader-1 -> 0..sc.maxFrame+1]
  BY ConnTypes, ConnFacts, ShmFields
<1>3. fit \in SUBSET (1..sc.nReader-1) /\ \A i \in fit : shm.aReadMark[i] <= mx
  BY DEF Mark, NReader, MarkFits
<1>4. /\ free \in SUBSET (0..sc.nReader-1) /\ free \in SUBSET (1..sc.nReader-1)
      /\ \A i \in free : ExclOk(c, {i})
  BY DEF Mark, NReader
<1> HIDE DEF mx, fit, free
<1>5. best \in 0..mx
  <2> DEFINE S == {0} \cup {shm.aReadMark[i] : i \in fit}
  <2>1. \A i \in fit : shm.aReadMark[i] \in 0..mx
    BY <1>2, <1>3
  <2>2. \A x \in S : x \in 0..mx
    BY <1>2, <2>1
  <2>3. S # {}
    OBVIOUS
  <2> HIDE DEF S
  <2>4. S \in SUBSET (0..sc.maxFrame) /\ \A x \in S : x \in 0..mx
    BY <1>2, <2>2, <2>3
  <2>5. Max(S) \in S
    BY <2>3, <2>4, <1>2, MaxFacts, Zenon
  <2> QED BY <2>4, <2>5 DEF S, best
<1> HIDE DEF best
<1>6. last \in 0..sc.nReader-1
  <2> DEFINE S == {0} \cup {i \in fit : shm.aReadMark[i] = best}
  <2>1. S \subseteq {0} \cup fit /\ S # {}
    OBVIOUS
  <2> HIDE DEF S
  <2>2. S \in SUBSET (0..sc.nReader-1) /\ S # {} /\ sc.nReader-1 \in Nat
    BY <1>2, <1>3, <2>1
  <2>3. Max(S) \in S
    BY <2>2, MaxFacts, Zenon
  <2> QED BY <2>2, <2>3 DEF S, last
<1>7. ASSUME free # {} PROVE Min(free) \in free
  <2>1. sc.nReader-1 \in Nat
    BY <1>2
  <2> QED BY <2>1, <1>4, <1>7, MinFacts, Zenon
<1> HIDE DEF last
<1>8. /\ slot \in 0..sc.nReader-1 /\ mark \in 0..mx /\ raise \in BOOLEAN
      /\ raise = TRUE => slot \in 1..sc.nReader-1 /\ ExclOk(c, {slot}) /\ mark = mx
  <2>1. raise \in BOOLEAN
    OBVIOUS
  <2>2. CASE raise = TRUE
    <3>1. slot = Min(free) /\ mark = mx /\ free # {}
      BY <2>2
    <3>2. slot \in free
      BY <3>1, <1>7
    <3> QED BY <2>1, <3>1, <3>2, <1>2, <1>4
  <2>3. CASE raise = FALSE
    <3>1. slot = last /\ mark = best
      BY <2>3
    <3> QED BY <2>1, <2>3, <3>1, <1>5, <1>6
  <2> QED BY <2>1, <2>2, <2>3
<1> HIDE DEF slot, mark, raise
<1> QED BY <1>1, <1>8 DEF mx

\* What a checkpoint has in hand does not go beyond the published header.
LEMMA SafeFacts ==
  ASSUME IInv, HInv, NEW d \in Conn
  PROVE  Working(con[d]) /\ con[d].hdr.salt = shm.hdr0.salt => con[d].mxSafe <= shm.hdr0.mx
<1>1. OneNow(con[d]) /\ con[d] \in ConSet(sc) /\ sc \in Scenarios
  BY Facts DEF IInv, TypeInv
<1>2. con[d].mxSafe \in Nat /\ con[d].hdr.mx \in Nat /\ shm.hdr0.mx \in Nat
  BY <1>1, Numerals, ConnTypes
<1> QED BY <1>1, <1>2 DEF OneNow, One, CkptOk, WorkOk, Checkpointing

\* A snapshot is opened on the published header.
LEMMA OpenSnapshotH ==
  ASSUME IInv, HInv, Calm, NEW c \in Conn, con[c].pc \in {"check0", "checkmark"},
         con[c].op = "read", con[c].hdr = shm.hdr0,
         con[c].pc = "checkmark" => shm.aReadMark[con[c].mxI] = con[c].mark,
         OpenSnapshot(c, "reading"), UNCHANGED <<shm, nSalt>>
  PROVE  HInv'
<1> DEFINE q == con[c]
           r == [q EXCEPT !.pc = "reading", !.op = "none", !.changed = FALSE,
                          !.again = FALSE, !.mxI = 0, !.mark = 0]
<1>1. /\ q \in ConSet(sc) /\ Ctl(q) /\ Held(sc, q) /\ OneNow(q) /\ sc \in Scenarios
      /\ \A d \in Conn \ {c} : Two(q, con[d], shm.hdr0) /\ Two(con[d], q, shm.hdr0)
  BY Facts DEF IInv, TypeInv
<1>2. Only(c, r) /\ nSalt \in Nat /\ head \in 0..sc.maxTxn /\ head <= head
      /\ snap' = [snap EXCEPT ![c] = head]
  BY ScFacts DEF IInv, TypeInv, OpenSnapshot, Become, Only
<1>3. /\ q.pc \in {"check0", "checkmark"} /\ q.op = "read" /\ q.hdr = shm.hdr0
      /\ q.pc = "checkmark" => shm.aReadMark[q.mxI] = q.mark
      /\ q.mxI \in 0..sc.nReader-1 /\ sc.nReader \in Nat
  BY ConnTypes
<1>4. /\ r.pc = "reading" /\ r.op = "none" /\ r.then = q.then /\ r.hdr = q.hdr /\ r.h1 = q.h1
      /\ r.readLock = q.readLock /\ r.minFrame = q.minFrame /\ r.ckptLock = q.ckptLock
      /\ r.mode = q.mode /\ r.prior = q.prior /\ r.i = q.i
  <2> HIDE DEF q
  <2> QED BY <1>1 DEF ConSet
<1>8. /\ q.hdr.mx \in Nat /\ q.minFrame \in Nat /\ q.minFrame >= 1 /\ q.readLock \in -1..sc.nReader-1
      /\ shm.nBackfill \in Nat
  <2>1. q.minFrame \in 1..sc.maxFrame+1 /\ sc.maxFrame \in Nat /\ shm.nBackfill \in 0..sc.maxFrame
    BY <1>1, ConFields, ConnTypes, ShmFields DEF IInv, TypeInv
  <2> QED BY <2>1, <1>1, Numerals
<1>9. \A d \in Conn : Working(con[d]) /\ con[d].hdr.salt = shm.hdr0.salt => con[d].mxSafe <= q.hdr.mx
  BY <1>3, SafeFacts
<1> HIDE DEF q, r
<1>5. OneNow(r)
  BY <1>1, <1>3, <1>4, <1>8 DEF OneNow, One, Ctl, Held, Marks, InitOk, CallLocks, CommitOk,
     RecoverOk, RestartOk, ReadOk, CkptOk, WorkOk, UsesHdr, Publishing, Checkpointing, Working
<1>6. \A d \in Conn \ {c} : Two(r, con[d], shm.hdr0) /\ Two(con[d], r, shm.hdr0)
  BY <1>1, <1>3, <1>4, <1>9 DEF OneNow, One, CallLocks, Two, FreshOk, CkptAlone, Limited,
     Publishing, Working, AtMark
<1>7. SnapOk(r, shm.aPgno, wal.f, db, hist[head])
  <2>1. PubOk(shm.hdr0, shm.aPgno, shm.nBackfill, wal, db, head, hist[head])
    BY DEF HInv, PubInv
  <2>2. shm.hdr0.isInit = TRUE
    BY <1>1, <1>3 DEF OneNow, One, InitOk, UsesHdr
  <2>3. /\ r.readLock = 0 => shm.nBackfill = shm.hdr0.mx
        /\ r.readLock # 0 => r.minFrame <= shm.nBackfill + 1
    BY <1>1, <1>3, <1>4, <1>8 DEF OneNow, One, ReadOk, Held
  <2>4. Sight(r, shm.aPgno, wal.f, db, hist[head])
    BY <2>1, <2>2, <2>3, <1>3, <1>4, <1>8, SightNow
  <2> QED BY <2>4 DEF SnapOk
<1> QED
  <2>1. nSalt' \in Nat /\ nSalt <= nSalt' /\ shm'.aReadMark = shm.aReadMark
    BY <1>2
  <2> HIDE DEF HInv, IInv
  <2> QED BY <1>2, <2>1, <1>5, <1>6, <1>7, CalmStep DEF OneNow

\* READ_LOCK(0) is taken, and the header has not changed or has.
LEMMA Check0H ==
  ASSUME IInv, HInv, sc' = sc, NEW c \in Conn, Check0(c)
  PROVE  HInv'
<1>1. Calm /\ UNCHANGED <<shm, nSalt>> /\ con[c].pc = "check0" /\ con[c].op = "read"
  <2>1. Ctl(con[c]) /\ con[c].op \in {"none", "read", "ckpt", "rewal"}
    BY Facts, ConnTypes
  <2> QED BY <2>1 DEF Check0, Calm, Ctl
<1>2. CASE shm.hdr0 = con[c].hdr
  BY <1>1, <1>2, OpenSnapshotH DEF Check0
<1>3. CASE shm.hdr0 # con[c].hdr
  <2>1. Become(c, Retry(con[c])) /\ snap' = snap
    BY <1>3 DEF Check0
  <2> QED BY <1>1, <2>1, RetryH
<1> QED BY <1>2, <1>3

\* The slot is taken, and neither the mark nor the header has changed, or one
\* has.
LEMMA CheckMarkH ==
  ASSUME IInv, HInv, sc' = sc, NEW c \in Conn, CheckMark(c)
  PROVE  HInv'
<1>1. Calm /\ UNCHANGED <<shm, nSalt>> /\ con[c].pc = "checkmark"
  BY DEF CheckMark, Calm
<1>2. CASE MarkStale(c)
  <2>1. Become(c, Retry(con[c])) /\ snap' = snap
    BY <1>2 DEF CheckMark
  <2> QED BY <1>1, <2>1, RetryH
<1>3. CASE ~MarkStale(c) /\ con[c].op = "read"
  <2>1. OpenSnapshot(c, "reading") /\ con[c].hdr = shm.hdr0
        /\ shm.aReadMark[con[c].mxI] = con[c].mark
    BY <1>3 DEF CheckMark, MarkStale
  <2> QED BY <1>1, <1>3, <2>1, OpenSnapshotH
<1>4. CASE ~MarkStale(c) /\ con[c].op # "read"
  <2> DEFINE q == con[c]
             r == [q EXCEPT !.pc = "append", !.op = "none", !.mxI = 0, !.mark = 0]
  <2>1. /\ q \in ConSet(sc) /\ Ctl(q) /\ Held(sc, q) /\ OneNow(q) /\ sc \in Scenarios
        /\ \A d \in Conn \ {c} : Two(q, con[d], shm.hdr0) /\ Two(con[d], q, shm.hdr0)
    BY Facts DEF IInv, TypeInv
  <2>2. Only(c, r) /\ nSalt \in Nat /\ snap' = snap
    BY <1>4 DEF IInv, TypeInv, CheckMark, Become, Only
  <2>3. /\ q.pc = "checkmark" /\ q.hdr = shm.hdr0 /\ shm.aReadMark[q.mxI] = q.mark /\ q.op # "read"
        /\ q.mxI \in 0..sc.nReader-1 /\ sc.nReader \in Nat
        /\ q.op \in {"none", "read", "ckpt", "rewal"}
    BY <1>1, <1>4, ConnTypes DEF MarkStale
  <2>4. /\ r.pc = "append" /\ r.op = "none" /\ r.then = q.then /\ r.hdr = q.hdr /\ r.h1 = q.h1
        /\ r.readLock = q.readLock /\ r.minFrame = q.minFrame /\ r.ckptLock = q.ckptLock
        /\ r.mode = q.mode /\ r.prior = q.prior /\ r.i = q.i
    <3> HIDE DEF q
    <3> QED BY <2>1 DEF ConSet
  <2>5. \A d \in Conn : Working(con[d]) /\ con[d].hdr.salt = shm.hdr0.salt =>
          con[d].mxSafe <= q.hdr.mx
    BY <2>3, SafeFacts
  <2> HIDE DEF q, r
  <2>6. OneNow(r)
    BY <2>1, <2>3, <2>4 DEF OneNow, One, Ctl, Held, Marks, InitOk, CallLocks, CommitOk, RecoverOk,
       RestartOk, ReadOk, CkptOk, WorkOk, UsesHdr, Publishing, Checkpointing, Working
  <2>7. \A d \in Conn \ {c} : Two(r, con[d], shm.hdr0) /\ Two(con[d], r, shm.hdr0)
    BY <2>1, <2>3, <2>4, <2>5 DEF OneNow, One, Two, FreshOk, CkptAlone, Limited, Publishing,
       Working, AtMark
  <2>8. SnapOk(r, shm.aPgno, wal.f, db, hist[snap[c]])
    BY <2>4 DEF SnapOk
  <2>9. nSalt' \in Nat /\ nSalt <= nSalt' /\ shm'.aReadMark = shm.aReadMark /\ nSalt' = nSalt
    BY <1>1, <2>2
  <2> HIDE DEF HInv, IInv
  <2> QED BY <1>1, <2>2, <2>6, <2>7, <2>8, <2>9, CalmStep2 DEF OneNow
<1> QED BY <1>2, <1>3, <1>4

\* READ_LOCK(0), or a look at the marks.
LEMMA TryRead0H ==
  ASSUME IInv, HInv, sc' = sc, NEW c \in Conn, TryRead0(c)
  PROVE  HInv'
<1>1. Calm /\ UNCHANGED <<shm, snap, nSalt>> /\ con[c].pc = "tryread"
  BY DEF TryRead0, Calm, ghosts
<1>2. CASE shm.nBackfill = con[c].hdr.mx /\ SharedOk(c, 0)
  <2> DEFINE q == con[c]
             r == [q EXCEPT !.pc = "check0", !.readLock = 0]
  <2>1. /\ q \in ConSet(sc) /\ Ctl(q) /\ Held(sc, q) /\ OneNow(q) /\ sc \in Scenarios
        /\ Sees(sc, q, shm.hdr0, NextVer)
        /\ \A d \in Conn \ {c} : Two(q, con[d], shm.hdr0) /\ Two(con[d], q, shm.hdr0)
    BY Facts DEF IInv, TypeInv
  <2>2. Only(c, r) /\ nSalt \in Nat
    BY <1>2 DEF IInv, TypeInv, TryRead0, Become, Only
  <2>3. q.pc = "tryread" /\ shm.nBackfill = q.hdr.mx
    BY <1>1, <1>2
  <2>4. /\ r.pc = "check0" /\ r.op = q.op /\ r.then = q.then /\ r.hdr = q.hdr /\ r.h1 = q.h1
        /\ r.readLock = 0 /\ r.ckptLock = q.ckptLock /\ r.mode = q.mode /\ r.prior = q.prior
    <3> HIDE DEF q
    <3> QED BY <2>1 DEF ConSet
  <2> HIDE DEF q, r
  <2>5. OneNow(r)
    BY <2>1, <2>3, <2>4 DEF OneNow, One, Ctl, Held, Marks, InitOk, CallLocks, CommitOk, RecoverOk,
       RestartOk, ReadOk, CkptOk, WorkOk, UsesHdr, Publishing, Checkpointing, Working
  <2>6. \A d \in Conn \ {c} : Two(r, con[d], shm.hdr0) /\ Two(con[d], r, shm.hdr0)
    BY <2>1, <2>3, <2>4 DEF OneNow, One, CallLocks, Two, FreshOk, CkptAlone, Limited, Publishing,
       Working, AtMark
  <2>7. SnapOk(r, shm.aPgno, wal.f, db, hist[snap[c]])
    BY <2>4 DEF SnapOk
  <2>8. nSalt' \in Nat /\ nSalt <= nSalt' /\ shm'.aReadMark = shm.aReadMark /\ nSalt' = nSalt
    BY <1>1, <2>2
  <2> HIDE DEF HInv, IInv
  <2> QED BY <1>1, <2>2, <2>5, <2>6, <2>7, <2>8, CalmStep2 DEF OneNow
<1>3. CASE ~(shm.nBackfill = con[c].hdr.mx /\ SharedOk(c, 0))
  <2> DEFINE r == [con[c] EXCEPT !.pc = "mark"]
  <2>1. con[c] \in ConSet(sc) /\ OneNow(con[c])
    BY Facts
  <2>2. Only(c, r)
    BY <1>3 DEF IInv, TypeInv, TryRead0, Become, Only
  <2>3. /\ r.pc = "mark" /\ r.op = con[c].op /\ r.then = con[c].then /\ r.hdr = con[c].hdr
        /\ r.h1 = con[c].h1 /\ r.readLock = con[c].readLock /\ r.ckptLock = con[c].ckptLock
        /\ r.mode = con[c].mode /\ r.prior = con[c].prior
    BY <2>1 DEF ConSet
  <2>4. con[c].readLock = -1
    BY <1>1, <2>1 DEF OneNow, One, CallLocks
  <2> HIDE DEF r
  <2> QED BY <1>1, <2>2, <2>3, <2>4, BackH
<1> QED BY <1>2, <1>3

\* The slot of the mark is locked, and the checkpoint information read.
LEMMA LockMarkH ==
  ASSUME IInv, HInv, sc' = sc, NEW c \in Conn, LockMark(c)
  PROVE  HInv'
<1>1. Calm /\ UNCHANGED <<shm, snap, nSalt>> /\ con[c].pc = "lockmark"
  BY DEF LockMark, Calm, ghosts
<1>2. CASE SharedOk(c, con[c].mxI)
  <2> DEFINE q == con[c]
             r == [q EXCEPT !.pc = "checkmark", !.readLock = q.mxI,
                            !.minFrame = shm.nBackfill + 1]
  <2>1. /\ q \in ConSet(sc) /\ Ctl(q) /\ Held(sc, q) /\ OneNow(q) /\ sc \in Scenarios
        /\ Sees(sc, q, shm.hdr0, NextVer)
        /\ \A d \in Conn \ {c} : Two(q, con[d], shm.hdr0) /\ Two(con[d], q, shm.hdr0)
    BY Facts DEF IInv, TypeInv
  <2>2. Only(c, r) /\ nSalt \in Nat
    BY <1>2 DEF IInv, TypeInv, LockMark, Become, Only
  <2>3. q.pc = "lockmark" /\ q.mxI \in 0..sc.nReader-1 /\ sc.nReader \in Nat /\ shm.nBackfill \in Nat
    <3>1. shm.nBackfill \in 0..sc.maxFrame /\ sc.maxFrame \in Nat
      BY ShmFields, ConnTypes DEF IInv, TypeInv
    <3> QED BY <1>1, <3>1, ConnTypes
  <2>4. /\ r.pc = "checkmark" /\ r.op = q.op /\ r.then = q.then /\ r.hdr = q.hdr /\ r.h1 = q.h1
        /\ r.readLock = q.mxI /\ r.ckptLock = q.ckptLock /\ r.mode = q.mode /\ r.prior = q.prior
        /\ r.minFrame = shm.nBackfill + 1 /\ r.mark = q.mark
    <3> HIDE DEF q
    <3> QED BY <2>1 DEF ConSet
  <2> HIDE DEF q, r
  <2>5. OneNow(r)
    BY <2>1, <2>3, <2>4 DEF OneNow, One, Ctl, Held, Marks, InitOk, CallLocks, CommitOk, RecoverOk,
       RestartOk, ReadOk, CkptOk, WorkOk, UsesHdr, Publishing, Checkpointing, Working
  <2>6. \A d \in Conn \ {c} : Two(r, con[d], shm.hdr0) /\ Two(con[d], r, shm.hdr0)
    BY <2>1, <2>3, <2>4 DEF OneNow, One, CallLocks, Two, FreshOk, CkptAlone, Limited, Publishing,
       Working, AtMark
  <2>7. SnapOk(r, shm.aPgno, wal.f, db, hist[snap[c]])
    BY <2>4 DEF SnapOk
  <2>8. nSalt' \in Nat /\ nSalt <= nSalt' /\ shm'.aReadMark = shm.aReadMark /\ nSalt' = nSalt
    BY <1>1, <2>2
  <2> HIDE DEF HInv, IInv
  <2> QED BY <1>1, <2>2, <2>5, <2>6, <2>7, <2>8, CalmStep2 DEF OneNow
<1>3. CASE ~SharedOk(c, con[c].mxI)
  <2>1. Become(c, Retry(con[c]))
    BY <1>3 DEF LockMark
  <2> QED BY <1>1, <2>1, RetryH
<1> QED BY <1>2, <1>3

\* A slot is moved up to the snapshot's last frame while nobody uses it.
LEMMA SelectMarkH ==
  ASSUME IInv, HInv, sc' = sc, NEW c \in Conn, SelectMark(c)
  PROVE  HInv'
<1>1. PICK slot \in 0..sc.nReader-1, mark \in 0..con[c].hdr.mx, raise \in BOOLEAN :
        /\ raise = TRUE => slot \in 1..sc.nReader-1 /\ ExclOk(c, {slot}) /\ mark = con[c].hdr.mx
        /\ shm' = IF raise = TRUE THEN [shm EXCEPT !.aReadMark[slot] = con[c].hdr.mx] ELSE shm
        /\ Become(c, IF slot = 0 THEN Retry(con[c])
                     ELSE [con[c] EXCEPT !.pc = "lockmark", !.mxI = slot, !.mark = mark])
  BY SelectMarkFacts
<1>2. Calm /\ UNCHANGED <<snap, nSalt>> /\ con[c].pc = "mark"
  <2>1. shm \in ShmSet(sc)
    BY DEF IInv, TypeInv
  <2> QED BY <1>1, <2>1 DEF SelectMark, Calm, ghosts, ShmSet
<1>3. CASE slot = 0
  <2>1. shm' = shm /\ Become(c, Retry(con[c]))
    BY <1>1, <1>3
  <2> QED BY <1>2, <2>1, RetryH
<1>4. CASE slot # 0
  <2> DEFINE q == con[c]
             r == [q EXCEPT !.pc = "lockmark", !.mxI = slot, !.mark = mark]
  <2>1. /\ q \in ConSet(sc) /\ Ctl(q) /\ Held(sc, q) /\ OneNow(q) /\ sc \in Scenarios
        /\ Sees(sc, q, shm.hdr0, NextVer)
        /\ \A d \in Conn \ {c} : Two(q, con[d], shm.hdr0) /\ Two(con[d], q, shm.hdr0)
    BY Facts DEF IInv, TypeInv
  <2>2. Only(c, r) /\ nSalt \in Nat
    BY <1>1, <1>4 DEF IInv, TypeInv, Become, Only
  <2>3. q.pc = "mark" /\ q.hdr.mx \in Nat /\ mark <= q.hdr.mx
    BY <1>1, <1>2, <2>1, Numerals
  <2>4. /\ r.pc = "lockmark" /\ r.op = q.op /\ r.then = q.then /\ r.hdr = q.hdr /\ r.h1 = q.h1
        /\ r.readLock = q.readLock /\ r.ckptLock = q.ckptLock /\ r.mode = q.mode
        /\ r.prior = q.prior /\ r.mark = mark
    <3> HIDE DEF q
    <3> QED BY <2>1 DEF ConSet
  <2>8. \A d \in Conn \ {c} : con[d].readLock > 0 =>
          shm'.aReadMark[con[d].readLock] = shm.aReadMark[con[d].readLock]
    <3> SUFFICES ASSUME NEW d \in Conn \ {c}, con[d].readLock > 0
                 PROVE  shm'.aReadMark[con[d].readLock] = shm.aReadMark[con[d].readLock]
      OBVIOUS
    <3>1. shm \in ShmSet(sc) /\ shm.aReadMark \in [1..sc.nReader-1 -> 0..sc.maxFrame+1]
      BY ShmFields DEF IInv, TypeInv
    <3>2. raise = TRUE => con[d].readLock # slot
      BY <1>1 DEF ExclOk
    <3>3. con[d].readLock \in 1..sc.nReader-1
      BY ConnTypes
    <3> QED BY <1>1, <3>1, <3>2, <3>3 DEF ShmSet
  <2> HIDE DEF q, r
  <2>5. One(r, shm.hdr0, shm.aPgno, shm.nBackfill, shm'.aReadMark, wal, db, head, hist[head],
            RecoveredMx, nSalt)
    BY <2>1, <2>3, <2>4 DEF OneNow, One, Ctl, Held, Marks, InitOk, CallLocks, CommitOk, RecoverOk,
       RestartOk, ReadOk, CkptOk, WorkOk, UsesHdr, Publishing, Checkpointing, Working
  <2>6. \A d \in Conn \ {c} : Two(r, con[d], shm.hdr0) /\ Two(con[d], r, shm.hdr0)
    BY <2>1, <2>3, <2>4 DEF OneNow, One, CallLocks, Two, FreshOk, CkptAlone, Limited, Publishing,
       Working, AtMark
  <2>7. SnapOk(r, shm.aPgno, wal.f, db, hist[snap[c]])
    BY <2>4 DEF SnapOk
  <2>9. nSalt' \in Nat /\ nSalt <= nSalt' /\ nSalt' = nSalt
    BY <1>2, <2>2
  <2> HIDE DEF HInv, IInv
  <2> QED BY <1>2, <2>2, <2>5, <2>6, <2>7, <2>8, <2>9, CalmStep2
<1> QED BY <1>3, <1>4

\* The second copy of the header is no header yet.
LEMMA WriteHdr1H ==
  ASSUME IInv, HInv, sc' = sc, NEW c \in Conn, WriteHdr1(c)
  PROVE  HInv'
<1> DEFINE q == con[c]
           r == [q EXCEPT !.pc = "write0"]
<1>1. /\ q \in ConSet(sc) /\ Ctl(q) /\ Held(sc, q) /\ Sees(sc, q, shm.hdr0, NextVer)
      /\ OneNow(q) /\ sc \in Scenarios /\ SnapOk(q, shm.aPgno, wal.f, db, hist[snap[c]])
      /\ \A d \in Conn \ {c} : Two(q, con[d], shm.hdr0) /\ Two(con[d], q, shm.hdr0)
  BY Facts DEF IInv, TypeInv
<1>2. Only(c, r) /\ Calm /\ nSalt' = nSalt /\ nSalt \in Nat /\ shm' = [shm EXCEPT !.hdr1 = q.hdr] /\ shm \in ShmSet(sc) /\ snap' = snap
  BY DEF IInv, TypeInv, WriteHdr1, Become, Only, Calm, ghosts, Goto, ShmSet
<1>3. q.pc = "write1"
  BY DEF WriteHdr1
<1>4. /\ r.pc = "write0" /\ r.op = q.op /\ r.then = q.then /\ r.hdr = q.hdr /\ r.h1 = q.h1
      /\ r.readLock = q.readLock /\ r.minFrame = q.minFrame /\ r.mark = q.mark /\ r.mxI = q.mxI
      /\ r.writeLock = q.writeLock /\ r.ckptLock = q.ckptLock /\ r.mode = q.mode
      /\ r.mxSafe = q.mxSafe /\ r.i = q.i /\ r.y = q.y /\ r.todo = q.todo /\ r.prior = q.prior
      /\ r.lo = q.lo
  <2> HIDE DEF q
  <2> QED BY <1>1 DEF ConSet
<1> HIDE DEF q, r
<1>5. OneNow(r)
  BY <1>1, <1>3, <1>4 DEF OneNow, One, Ctl, Held, Marks, InitOk, CallLocks, CommitOk, RecoverOk,
     RestartOk, ReadOk, CkptOk, WorkOk, UsesHdr, Publishing, Checkpointing, Working
<1>6. \A d \in Conn \ {c} : Two(r, con[d], shm.hdr0) /\ Two(con[d], r, shm.hdr0)
  BY <1>1, <1>3, <1>4 DEF OneNow, One, CallLocks, Two, FreshOk, CkptAlone, Limited, Publishing,
     Working, AtMark
<1>7. SnapOk(r, shm.aPgno, wal.f, db, hist[snap[c]])
  BY <1>4 DEF SnapOk
<1> QED
  <2>1. nSalt' \in Nat /\ nSalt <= nSalt' /\ shm'.aReadMark = shm.aReadMark
    BY <1>2 DEF ShmSet
  <2> HIDE DEF HInv, IInv
  <2> QED BY <1>2, <2>1, <1>5, <1>6, <1>7, CalmStep2 DEF OneNow

\* With everything backfilled the database file is the last image.
LEMMA AllInFile ==
  ASSUME NEW h, NEW x, NEW nb \in Nat, NEW w, NEW d, NEW hd, NEW img,
         PubOk(h, x, nb, w, d, hd, img), h.isInit = TRUE, h.mx \in Nat, h.mx <= nb
  PROVE  InFile(d, img)
<1> SUFFICES ASSUME NEW p \in Page
             PROVE  d[p] = img[p]
  BY DEF InFile
<1>1. Shows(w.f, d, h.mx, img) /\ Backed(w.f, d, h.mx, nb)
  BY DEF PubOk
<1>2. Covered(w.f, p, h.mx, nb)
  BY DEF Covered
<1> QED BY <1>1, <1>2, FileImage

\* The new header of a log that is started over, as its owner has it.
Restarting(q, t) == [RestartedHdr(q) EXCEPT !.pc = "write1", !.then = t, !.excl = Mark]

LEMMA RestartingFacts ==
  ASSUME NEW s \in Scenarios, NEW q \in ConSet(s), nSalt \in Nat, NEW t
  PROVE  /\ Restarting(q, t).pc = "write1" /\ Restarting(q, t).then = t
         /\ Restarting(q, t).op = q.op /\ Restarting(q, t).h1 = q.h1
         /\ Restarting(q, t).readLock = q.readLock /\ Restarting(q, t).minFrame = q.minFrame
         /\ Restarting(q, t).ckptLock = q.ckptLock /\ Restarting(q, t).mode = q.mode
         /\ Restarting(q, t).prior = q.prior /\ Restarting(q, t).hdr.mx = 0
         /\ Restarting(q, t).hdr.salt = nSalt + 1 /\ Restarting(q, t).hdr.ck = q.hdr.ck
         /\ Restarting(q, t).hdr.isInit = q.hdr.isInit
<1> DEFINE h == [q.hdr EXCEPT !.mx = 0, !.salt = nSalt + 1]
           r == Restarting(q, t)
<1>1. q.hdr \in HdrSet(s)
  BY ConFields
<1>2. h.mx = 0 /\ h.salt = nSalt + 1 /\ h.ck = q.hdr.ck /\ h.isInit = q.hdr.isInit
  BY <1>1 DEF HdrSet
<1>3. RestartedHdr(q) = [q EXCEPT !.hdr = h, !.nCkpt = q.nCkpt + 1]
  BY DEF RestartedHdr
<1> HIDE DEF h
<1>4. r = [[q EXCEPT !.hdr = h, !.nCkpt = q.nCkpt + 1] EXCEPT !.pc = "write1", !.then = t,
                                                              !.excl = Mark]
  BY <1>3 DEF Restarting
<1> HIDE DEF r
<1>5. /\ r.pc = "write1" /\ r.then = t /\ r.op = q.op /\ r.h1 = q.h1 /\ r.readLock = q.readLock
      /\ r.minFrame = q.minFrame /\ r.ckptLock = q.ckptLock /\ r.mode = q.mode
      /\ r.prior = q.prior /\ r.hdr = h
  BY <1>4 DEF ConSet
<1> QED BY <1>2, <1>5 DEF r

\* The holder of the WRITE lock is the only one that writes headers.
LEMMA OneWriter ==
  ASSUME IInv, NEW c \in Conn, con[c].writeLock = TRUE, NEW d \in Conn \ {c}
  PROVE  con[d].then = "none" /\ ~Publishing(con[d]) /\ con[d].writeLock = FALSE
<1>1. Compatible(con[c], con[d]) /\ con[d].writeLock \in BOOLEAN
  BY OtherFacts
<1>2. Ctl(con[d]) /\ Held(sc, con[d])
  BY ConnFacts, GoodFields
<1> QED BY <1>1, <1>2 DEF Compatible, Ctl, Held, Publishing

\* A log whose frames are all in the database file is started over.
LEMMA StartOverH ==
  ASSUME IInv, HInv, Calm, NEW c \in Conn, NEW t,
         (t = "restart" /\ con[c].pc = "writing") \/ (t = "truncate" /\ con[c].pc = "ckend"),
         con[c].hdr = shm.hdr0, con[c].writeLock = TRUE, shm.nBackfill >= shm.hdr0.mx,
         Become(c, Restarting(con[c], t)), con[c].readLock \in {-1, 0},
         UNCHANGED <<shm, snap>>, nSalt' = nSalt + 1
  PROVE  HInv'
<1> DEFINE q == con[c]
           r == Restarting(q, t)
<1>1. /\ q \in ConSet(sc) /\ Ctl(q) /\ Held(sc, q) /\ OneNow(q) /\ sc \in Scenarios
      /\ \A d \in Conn \ {c} : Two(q, con[d], shm.hdr0) /\ Two(con[d], q, shm.hdr0)
  BY Facts DEF IInv, TypeInv
<1>2. Only(c, r) /\ nSalt \in Nat
  BY DEF IInv, TypeInv, Become, Only
<1>3. /\ (t = "restart" /\ q.pc = "writing") \/ (t = "truncate" /\ q.pc = "ckend")
      /\ q.hdr = shm.hdr0 /\ q.op \in {"none", "read", "ckpt", "rewal"}
  BY ConnTypes
<1>4. /\ r.pc = "write1" /\ r.then = t /\ r.op = q.op /\ r.h1 = q.h1 /\ r.readLock = q.readLock
      /\ r.minFrame = q.minFrame /\ r.ckptLock = q.ckptLock /\ r.mode = q.mode
      /\ r.prior = q.prior /\ r.hdr.mx = 0 /\ r.hdr.salt = nSalt + 1 /\ r.hdr.ck = q.hdr.ck
      /\ r.hdr.isInit = q.hdr.isInit
  BY <1>1, <1>2, RestartingFacts
<1>8. /\ shm.hdr0.salt <= nSalt /\ shm.hdr0.salt \in Nat /\ q.h1.salt \in Nat /\ q.hdr.salt \in Nat
      /\ q.readLock \in -1..sc.nReader-1
  BY <1>1, ConnTypes, HdrFields, Numerals DEF HInv, HistInv
<1>9. \A d \in Conn \ {c} : /\ con[d].then = "none" /\ ~Publishing(con[d])
                            /\ con[d].hdr.salt <= nSalt /\ con[d].h1.salt <= nSalt
                            /\ con[d].hdr.salt \in Nat /\ con[d].h1.salt \in Nat
  <2> SUFFICES ASSUME NEW d \in Conn \ {c}
               PROVE  /\ con[d].then = "none" /\ ~Publishing(con[d])
                      /\ con[d].hdr.salt <= nSalt /\ con[d].h1.salt <= nSalt
                      /\ con[d].hdr.salt \in Nat /\ con[d].h1.salt \in Nat
    OBVIOUS
  <2>1. con[d] \in ConSet(sc) /\ OneNow(con[d])
    BY Facts
  <2>2. con[d].then = "none" /\ ~Publishing(con[d])
    BY OneWriter
  <2>3. con[d].hdr.salt \in Nat /\ con[d].h1.salt \in Nat
    BY <2>1, <1>1, Numerals
  <2> QED BY <2>1, <2>2, <2>3 DEF OneNow, One, Marks
<1>10. q.readLock \in {-1, 0}
  OBVIOUS
<1>11. InFile(db, hist[head])
  <2>1. PubOk(shm.hdr0, shm.aPgno, shm.nBackfill, wal, db, head, hist[head])
    BY DEF HInv, PubInv
  <2>2. shm.hdr0.isInit = TRUE
    BY <1>1, <1>3 DEF OneNow, One, InitOk, UsesHdr, Checkpointing
  <2>3. shm.nBackfill \in Nat /\ shm.hdr0.mx \in Nat /\ shm.hdr0.mx <= shm.nBackfill
    <3>1. shm.nBackfill \in 0..sc.maxFrame /\ sc.maxFrame \in Nat /\ shm.hdr0.mx \in 0..sc.maxFrame
      BY ShmFields, ConnTypes DEF IInv, TypeInv
    <3> QED BY <3>1
  <2> QED BY <2>1, <2>2, <2>3, AllInFile
<1> HIDE DEF q, r
<1>5. One(r, shm.hdr0, shm.aPgno, shm.nBackfill, shm.aReadMark, wal, db, head, hist[head],
          RecoveredMx, nSalt + 1)
  BY <1>1, <1>2, <1>3, <1>4, <1>8, <1>10, <1>11 DEF OneNow, One, Ctl, Held, Marks, InitOk, CallLocks, CommitOk,
     RecoverOk, RestartOk, ReadOk, CkptOk, WorkOk, UsesHdr, Publishing, Checkpointing, Working
<1>6. \A d \in Conn \ {c} : Two(r, con[d], shm.hdr0) /\ Two(con[d], r, shm.hdr0)
  <2> SUFFICES ASSUME NEW d \in Conn \ {c}
               PROVE  Two(r, con[d], shm.hdr0) /\ Two(con[d], r, shm.hdr0)
    OBVIOUS
  <2>1. Two(q, con[d], shm.hdr0) /\ Two(con[d], q, shm.hdr0)
    BY <1>1
  <2>2. FreshOk(r, con[d], shm.hdr0) /\ FreshOk(con[d], r, shm.hdr0)
    BY <1>2, <1>4, <1>9 DEF FreshOk, Publishing
  <2>3. CkptAlone(r, con[d]) /\ CkptAlone(con[d], r)
    BY <2>1, <1>3, <1>4 DEF Two, CkptAlone
  <2>4. Limited(r, con[d], shm.hdr0) /\ Limited(con[d], r, shm.hdr0)
    BY <1>4, <1>10, <1>8 DEF Limited, Working
  <2> QED BY <2>2, <2>3, <2>4 DEF Two
<1>7. SnapOk(r, shm.aPgno, wal.f, db, hist[snap[c]])
  BY <1>4 DEF SnapOk
<1> QED
  <2>1. nSalt' \in Nat /\ nSalt <= nSalt' /\ shm'.aReadMark = shm.aReadMark
    BY <1>2
  <2> HIDE DEF HInv, IInv
  <2> QED BY <1>2, <2>1, <1>5, <1>6, <1>7, CalmStep2

\* The log is started over, or the writer moves to a read mark, or it has one.
LEMMA RestartLogH ==
  ASSUME IInv, HInv, sc' = sc, NEW c \in Conn, RestartLog(c)
  PROVE  HInv'
<1> DEFINE q == con[c]
           restart == q.readLock = 0 /\ shm.nBackfill > 0 /\ LogUnused(c)
<1>1. /\ Calm /\ UNCHANGED <<shm, snap>> /\ q.pc = "writing" /\ nSalt \in Nat
      /\ nSalt' = IF restart THEN nSalt + 1 ELSE nSalt
  BY DEF RestartLog, Calm, ghosts, IInv, TypeInv
<1>2. /\ q \in ConSet(sc) /\ Ctl(q) /\ Held(sc, q) /\ OneNow(q) /\ sc \in Scenarios
      /\ Sees(sc, q, shm.hdr0, NextVer)
      /\ \A d \in Conn \ {c} : Two(q, con[d], shm.hdr0) /\ Two(con[d], q, shm.hdr0)
  BY Facts DEF IInv, TypeInv
<1>3. q.hdr = shm.hdr0 /\ q.writeLock = TRUE
  BY <1>1, <1>2 DEF Sees, Held, Writer
<1>4. CASE restart
  <2>1. shm.nBackfill = shm.hdr0.mx
    BY <1>1, <1>2, <1>3, <1>4 DEF OneNow, One, ReadOk
  <2>2. Become(c, Restarting(q, "restart"))
    BY <1>4 DEF RestartLog, Restarting
  <2>3. shm.hdr0.mx \in Nat /\ shm.nBackfill >= shm.hdr0.mx /\ nSalt' = nSalt + 1
    BY <2>1, <1>1, <1>4, ConnTypes
  <2> QED BY <1>1, <1>3, <1>4, <2>2, <2>3, StartOverH
<1>5. CASE ~restart /\ q.readLock = 0
  <2> DEFINE r == [q EXCEPT !.pc = "mark", !.op = "rewal", !.readLock = None]
  <2>2. Only(c, r) /\ nSalt \in Nat
    BY <1>1, <1>5 DEF IInv, TypeInv, RestartLog, Become, Only
  <2>4. /\ r.pc = "mark" /\ r.op = "rewal" /\ r.then = q.then /\ r.hdr = q.hdr /\ r.h1 = q.h1
        /\ r.readLock = -1 /\ r.ckptLock = q.ckptLock /\ r.mode = q.mode /\ r.prior = q.prior
    <3> HIDE DEF q
    <3> QED BY <1>2 DEF ConSet, None
  <2> HIDE DEF q, r
  <2>5. OneNow(r)
    BY <1>1, <1>2, <1>5, <2>4 DEF OneNow, One, Ctl, Held, Marks, InitOk, CallLocks, CommitOk, RecoverOk,
       RestartOk, ReadOk, CkptOk, WorkOk, UsesHdr, Publishing, Checkpointing, Working
  <2>6. \A d \in Conn \ {c} : Two(r, con[d], shm.hdr0) /\ Two(con[d], r, shm.hdr0)
    BY <1>1, <1>2, <1>5, <2>4 DEF OneNow, One, CallLocks, Two, FreshOk, CkptAlone, Limited, Publishing,
       Working, AtMark
  <2>7. SnapOk(r, shm.aPgno, wal.f, db, hist[snap[c]])
    BY <2>4 DEF SnapOk
  <2>8. nSalt' \in Nat /\ nSalt <= nSalt' /\ shm'.aReadMark = shm.aReadMark /\ nSalt' = nSalt
    BY <1>1, <1>5
  <2> HIDE DEF HInv, IInv
  <2> QED BY <1>1, <2>2, <2>5, <2>6, <2>7, <2>8, CalmStep2 DEF OneNow
<1>6. CASE q.readLock # 0
  <2> DEFINE r == [q EXCEPT !.pc = "append"]
  <2>2. Only(c, r) /\ nSalt \in Nat
    BY <1>1, <1>6 DEF IInv, TypeInv, RestartLog, Become, Only
  <2>4. /\ r.pc = "append" /\ r.op = q.op /\ r.then = q.then /\ r.hdr = q.hdr /\ r.h1 = q.h1
        /\ r.readLock = q.readLock /\ r.ckptLock = q.ckptLock /\ r.mode = q.mode
        /\ r.prior = q.prior /\ r.minFrame = q.minFrame
    <3> HIDE DEF q
    <3> QED BY <1>2 DEF ConSet
  <2> HIDE DEF q, r
  <2>5. OneNow(r)
    BY <1>1, <1>2, <1>6, <2>4 DEF OneNow, One, Ctl, Held, Marks, InitOk, CallLocks, CommitOk, RecoverOk,
       RestartOk, ReadOk, CkptOk, WorkOk, UsesHdr, Publishing, Checkpointing, Working
  <2>6. \A d \in Conn \ {c} : Two(r, con[d], shm.hdr0) /\ Two(con[d], r, shm.hdr0)
    BY <1>1, <1>2, <1>6, <2>4 DEF OneNow, One, CallLocks, Two, FreshOk, CkptAlone, Limited, Publishing,
       Working, AtMark
  <2>7. SnapOk(r, shm.aPgno, wal.f, db, hist[snap[c]])
    BY <2>4 DEF SnapOk
  <2>8. nSalt' \in Nat /\ nSalt <= nSalt' /\ shm'.aReadMark = shm.aReadMark /\ nSalt' = nSalt
    BY <1>1, <1>6
  <2> HIDE DEF HInv, IInv
  <2> QED BY <1>1, <2>2, <2>5, <2>6, <2>7, <2>8, CalmStep2 DEF OneNow
<1> QED BY <1>4, <1>5, <1>6

\* A commit is over: its transaction is the snapshot now.
LEMMA EndCommitH ==
  ASSUME IInv, HInv, sc' = sc, NEW c \in Conn, EndCommit(c)
  PROVE  HInv'
<1> DEFINE q == con[c]
           r == [q EXCEPT !.pc = "reading", !.then = "none", !.writeLock = FALSE]
<1>1. /\ q \in ConSet(sc) /\ Ctl(q) /\ Held(sc, q) /\ OneNow(q) /\ sc \in Scenarios
      /\ Sees(sc, q, shm.hdr0, NextVer)
      /\ \A d \in Conn \ {c} : Two(q, con[d], shm.hdr0) /\ Two(con[d], q, shm.hdr0)
  BY Facts DEF IInv, TypeInv
<1>2. /\ Only(c, r) /\ nSalt \in Nat /\ head \in 0..sc.maxTxn /\ head <= head /\ Calm
      /\ snap' = [snap EXCEPT ![c] = q.hdr.ck] /\ UNCHANGED <<shm, nSalt>> /\ q.pc = "commit"
  BY ScFacts DEF IInv, TypeInv, EndCommit, Become, Only, Calm
<1>3. q.hdr = shm.hdr0 /\ q.then = "commit"
  BY <1>1, <1>2 DEF Sees, Ctl
<1>4. /\ r.pc = "reading" /\ r.op = q.op /\ r.then = "none" /\ r.hdr = q.hdr /\ r.h1 = q.h1
      /\ r.readLock = q.readLock /\ r.minFrame = q.minFrame /\ r.ckptLock = q.ckptLock
      /\ r.mode = q.mode /\ r.prior = q.prior
  <2> HIDE DEF q
  <2> QED BY <1>1 DEF ConSet
<1>8. /\ q.hdr.mx \in Nat /\ q.minFrame \in Nat /\ q.minFrame >= 1 /\ q.readLock \in -1..sc.nReader-1
      /\ shm.nBackfill \in Nat /\ sc.nReader \in Nat
  <2>1. q.minFrame \in 1..sc.maxFrame+1 /\ sc.maxFrame \in Nat /\ shm.nBackfill \in 0..sc.maxFrame
    BY <1>1, ConFields, ConnTypes, ShmFields DEF IInv, TypeInv
  <2> QED BY <2>1, <1>1, Numerals
<1>9. /\ shm.hdr0.isInit = TRUE /\ q.hdr.ck = head
      /\ PubOk(shm.hdr0, shm.aPgno, shm.nBackfill, wal, db, head, hist[head])
  <2>1. PubOk(shm.hdr0, shm.aPgno, shm.nBackfill, wal, db, head, hist[head])
    BY DEF HInv, PubInv
  <2>2. shm.hdr0.isInit = TRUE /\ shm.hdr0.mx # 0
    BY <1>1, <1>3 DEF OneNow, One, InitOk, UsesHdr, CommitOk
  <2> QED BY <1>3, <2>1, <2>2 DEF PubOk
<1> HIDE DEF q, r
<1>5. OneNow(r)
  BY <1>1, <1>2, <1>3, <1>4, <1>8 DEF OneNow, One, Ctl, Held, Marks, InitOk, CallLocks, CommitOk,
     RecoverOk, RestartOk, ReadOk, CkptOk, WorkOk, UsesHdr, Publishing, Checkpointing, Working
<1>6. \A d \in Conn \ {c} : Two(r, con[d], shm.hdr0) /\ Two(con[d], r, shm.hdr0)
  BY <1>1, <1>2, <1>3, <1>4 DEF OneNow, One, CallLocks, Two, FreshOk, CkptAlone, Limited,
     Publishing, Working, AtMark
<1>7. SnapOk(r, shm.aPgno, wal.f, db, hist[head])
  <2>3. r.readLock # 0 /\ r.minFrame <= shm.nBackfill + 1
    BY <1>1, <1>2, <1>4, <1>8 DEF OneNow, One, ReadOk, Held
  <2>4. Sight(r, shm.aPgno, wal.f, db, hist[head])
    BY <2>3, <1>3, <1>4, <1>8, <1>9, SightNow
  <2> QED BY <2>4 DEF SnapOk
<1> QED
  <2>1. nSalt' \in Nat /\ nSalt <= nSalt' /\ shm'.aReadMark = shm.aReadMark
        /\ snap' = [snap EXCEPT ![c] = head] /\ nSalt' = nSalt
    BY <1>2, <1>9
  <2> HIDE DEF HInv, IInv
  <2> QED BY <1>2, <2>1, <1>5, <1>6, <1>7, CalmStep DEF OneNow

\* A checkpoint that does not start the log over comes to its end.
LEMMA CkptEndH ==
  ASSUME IInv, HInv, sc' = sc, NEW c \in Conn, CkptEnd(c)
  PROVE  HInv'
<1> DEFINE q == con[c]
           reset == q.mode = "TRUNCATE" /\ AllBackfilled(c) /\ LogUnused(c)
<1>1. /\ Calm /\ UNCHANGED <<shm, snap>> /\ q.pc = "ckend" /\ nSalt \in Nat
      /\ nSalt' = IF reset THEN nSalt + 1 ELSE nSalt
  BY DEF CkptEnd, Calm, ghosts, IInv, TypeInv
<1>2. /\ q \in ConSet(sc) /\ Ctl(q) /\ Held(sc, q) /\ OneNow(q) /\ sc \in Scenarios
      /\ q.op \in {"none", "read", "ckpt", "rewal"}
      /\ \A d \in Conn \ {c} : Two(q, con[d], shm.hdr0) /\ Two(con[d], q, shm.hdr0)
  BY Facts, ConnTypes DEF IInv, TypeInv
<1>4. CASE reset
  <2>1. q.hdr = shm.hdr0 /\ q.writeLock = TRUE /\ q.readLock = -1
    BY <1>1, <1>2, <1>4 DEF OneNow, One, CkptOk, CallLocks, Checkpointing, Held
  <2>2. Become(c, Restarting(q, "truncate"))
    BY <1>4 DEF CkptEnd, Restarting
  <2>3. shm.nBackfill >= shm.hdr0.mx /\ nSalt' = nSalt + 1
    BY <2>1, <1>1, <1>4 DEF AllBackfilled
  <2> QED BY <1>1, <2>1, <2>2, <2>3, StartOverH
<1>5. CASE ~reset
  <2> DEFINE r == [q EXCEPT !.pc = "ckdone"]
  <2>2. Only(c, r) /\ nSalt \in Nat
    BY <1>1, <1>5 DEF IInv, TypeInv, CkptEnd, Become, Only
  <2>4. /\ r.pc = "ckdone" /\ r.op = q.op /\ r.then = q.then /\ r.hdr = q.hdr /\ r.h1 = q.h1
        /\ r.readLock = q.readLock /\ r.ckptLock = q.ckptLock /\ r.mode = q.mode
    <3> HIDE DEF q
    <3> QED BY <1>2 DEF ConSet
  <2> HIDE DEF q, r
  <2>5. OneNow(r)
    BY <1>1, <1>2, <2>4 DEF OneNow, One, Ctl, Held, Marks, InitOk, CallLocks, CommitOk, RecoverOk,
       RestartOk, ReadOk, CkptOk, WorkOk, UsesHdr, Publishing, Checkpointing, Working
  <2>6. \A d \in Conn \ {c} : Two(r, con[d], shm.hdr0) /\ Two(con[d], r, shm.hdr0)
    BY <1>1, <1>2, <2>4 DEF OneNow, One, CallLocks, Two, FreshOk, CkptAlone, Limited, Publishing,
       Working, AtMark
  <2>7. SnapOk(r, shm.aPgno, wal.f, db, hist[snap[c]])
    BY <2>4 DEF SnapOk
  <2>8. nSalt' \in Nat /\ nSalt <= nSalt' /\ shm'.aReadMark = shm.aReadMark /\ nSalt' = nSalt
    BY <1>1, <1>5
  <2> HIDE DEF HInv, IInv
  <2> QED BY <1>1, <2>2, <2>5, <2>6, <2>7, <2>8, CalmStep2 DEF OneNow
<1> QED BY <1>4, <1>5

\* A checkpoint begins: it has the CKPT lock to itself.
LEMMA StartCkptH ==
  ASSUME IInv, HInv, sc' = sc, NEW c \in Conn, NEW m, StartCkpt(c, m)
  PROVE  HInv'
<1> DEFINE q == con[c]
           w == m # "PASSIVE" /\ WriteFree
           r == [q EXCEPT !.pc = "readhdr", !.op = "ckpt", !.ckptLock = TRUE,
                          !.writeLock = w, !.mode = IF w THEN m ELSE "PASSIVE"]
<1>1. /\ q \in ConSet(sc) /\ Ctl(q) /\ Held(sc, q) /\ OneNow(q) /\ sc \in Scenarios
      /\ q.op \in {"none", "read", "ckpt", "rewal"}
      /\ \A d \in Conn \ {c} : Two(q, con[d], shm.hdr0) /\ Two(con[d], q, shm.hdr0)
  BY Facts, ConnTypes DEF IInv, TypeInv
<1>2. Only(c, r) /\ Calm /\ nSalt' = nSalt /\ nSalt \in Nat /\ shm' = shm /\ snap' = snap
  BY DEF IInv, TypeInv, StartCkpt, Become, Only, Calm, ghosts
<1>3. q.pc = "idle" /\ CkptFree
  BY DEF StartCkpt
<1>4. /\ r.pc = "readhdr" /\ r.op = "ckpt" /\ r.then = q.then /\ r.hdr = q.hdr /\ r.h1 = q.h1
      /\ r.readLock = q.readLock /\ r.ckptLock = TRUE /\ r.prior = q.prior
  <2> HIDE DEF q, w
  <2> QED BY <1>1 DEF ConSet
<1>8. \A d \in Conn : con[d].ckptLock = FALSE /\ con[d].then # "recover"
  <2>1. \A d \in Conn : con[d].ckptLock \in BOOLEAN
    BY Facts, ConFields
  <2> QED BY <2>1, <1>3 DEF CkptFree
<1> HIDE DEF q, r
<1>5. OneNow(r)
  BY <1>1, <1>3, <1>4 DEF OneNow, One, Ctl, Held, Marks, InitOk, CallLocks, CommitOk, RecoverOk,
     RestartOk, ReadOk, CkptOk, WorkOk, UsesHdr, Publishing, Checkpointing, Working
<1>6. \A d \in Conn \ {c} : Two(r, con[d], shm.hdr0) /\ Two(con[d], r, shm.hdr0)
  BY <1>1, <1>3, <1>4, <1>8 DEF OneNow, One, CallLocks, Two, FreshOk, CkptAlone, Limited, Publishing,
     Working, AtMark
<1>7. SnapOk(r, shm.aPgno, wal.f, db, hist[snap[c]])
  BY <1>4 DEF SnapOk
<1> QED
  <2>1. nSalt' \in Nat /\ nSalt <= nSalt' /\ shm'.aReadMark = shm.aReadMark
    BY <1>2
  <2> HIDE DEF HInv, IInv
  <2> QED BY <1>2, <2>1, <1>5, <1>6, <1>7, CalmStep2 DEF OneNow

\* The iterator holds the last frame of every page, and nothing else.
Visits(todo, f, m) ==
  /\ \A t \in todo : Hits(f, t[1], m, t[2]) /\ t[1] > 0
  /\ \A p \in Page : \A i \in 1..m : Hits(f, p, m, i) => <<p, i>> \in todo

LEMMA IteratorVisits ==
  ASSUME NEW s \in Scenarios, NEW f, NEW x \in [1..s.maxFrame -> 0..MaxPage],
         NEW m \in 0..s.maxFrame, Indexed(x, f, m)
  PROVE  Visits(Iterator(x, m), f, m)
<1>1. s.maxFrame \in Nat /\ MaxPage \in Nat /\ m \in Nat
  BY ScFacts
<1>2. ASSUME NEW p, p \in {x[i] : i \in 1..m} \ {0}
      PROVE  Hits(f, p, m, Max({i \in 1..m : x[i] = p})) /\ p > 0
  <2> DEFINE S == {i \in 1..m : x[i] = p}
  <2>1. S # {} /\ S \in SUBSET (0..m) /\ S \subseteq 1..m /\ \A i \in 1..m : i \in S <=> x[i] = p
    BY <1>2
  <2>2. p \in Nat /\ p > 0
    BY <1>1, <1>2
  <2> HIDE DEF S
  <2>3. Max(S) \in S /\ \A j \in S : j <= Max(S)
    BY <1>1, <2>1, MaxFacts, Zenon
  <2>4. Hits(f, p, m, Max(S))
    BY <2>1, <2>3 DEF Hits, Indexed
  <2> QED BY <2>2, <2>4 DEF S
<1>3. ASSUME NEW t \in Iterator(x, m)
      PROVE  Hits(f, t[1], m, t[2]) /\ t[1] > 0
  <2>1. PICK p \in {x[i] : i \in 1..m} \ {0} : t = <<p, Max({i \in 1..m : x[i] = p})>>
    BY <1>3 DEF Iterator
  <2>2. t[1] = p /\ t[2] = Max({i \in 1..m : x[i] = p})
    BY <2>1
  <2> QED BY <2>1, <2>2, <1>2
<1>4. ASSUME NEW p \in Page, NEW i \in 1..m, Hits(f, p, m, i)
      PROVE  <<p, i>> \in Iterator(x, m)
  <2>1. x[i] = p /\ p # 0
    BY <1>1, <1>4 DEF Hits, Indexed, Page
  <2>2. p \in {x[j] : j \in 1..m} \ {0}
    BY <2>1
  <2>3. Hits(f, p, m, Max({j \in 1..m : x[j] = p}))
    BY <2>2, <1>2
  <2>4. Max({j \in 1..m : x[j] = p}) \in Nat
    BY <2>3, <1>1 DEF Hits
  <2> DEFINE k == Max({j \in 1..m : x[j] = p})
  <2>6. <<p, k>> \in Iterator(x, m)
    BY <2>2 DEF Iterator
  <2> HIDE DEF k
  <2>5. i = k
    BY <2>3, <2>4, <1>1, <1>4, OneHit DEF k
  <2> QED BY <2>5, <2>6
<1> QED BY <1>3, <1>4 DEF Visits

\* The frames to copy are collected, or there is nothing to do.
LEMMA CkptInitH ==
  ASSUME IInv, HInv, sc' = sc, NEW c \in Conn, CkptInit(c)
  PROVE  HInv'
<1> DEFINE q == con[c]
           work == shm.nBackfill < q.hdr.mx
           todo == Iterator(shm.aPgno, q.hdr.mx)
           r == IF work THEN [q EXCEPT !.pc = "readmark", !.mxSafe = q.hdr.mx, !.i = 1,
                                       !.todo = todo]
                ELSE [q EXCEPT !.pc = "ckend"]
<1>1. /\ q \in ConSet(sc) /\ Ctl(q) /\ Held(sc, q) /\ OneNow(q) /\ sc \in Scenarios
      /\ q.op \in {"none", "read", "ckpt", "rewal"}
      /\ \A d \in Conn \ {c} : Two(q, con[d], shm.hdr0) /\ Two(con[d], q, shm.hdr0)
  BY Facts, ConnTypes DEF IInv, TypeInv
<1>2. Only(c, r) /\ Calm /\ nSalt' = nSalt /\ nSalt \in Nat /\ shm' = shm /\ snap' = snap
  BY DEF IInv, TypeInv, CkptInit, Become, Only, Calm, ghosts
<1>3. q.pc = "ckinit" /\ q.hdr.mx \in Nat /\ q.op = "ckpt"
  BY <1>1, Numerals DEF CkptInit, Ctl
<1>4. /\ r.pc = (IF work THEN "readmark" ELSE "ckend") /\ r.op = q.op /\ r.then = q.then
      /\ r.hdr = q.hdr /\ r.h1 = q.h1 /\ r.readLock = q.readLock /\ r.ckptLock = q.ckptLock
      /\ r.prior = q.prior /\ r.mode = q.mode
      /\ work => r.mxSafe = q.hdr.mx /\ r.i = 1 /\ r.todo = todo
  <2> HIDE DEF q, work, todo
  <2> QED BY <1>1 DEF ConSet
<1>8. q.hdr.salt = shm.hdr0.salt => Visits(todo, wal.f, q.hdr.mx)
  <2> SUFFICES ASSUME q.hdr.salt = shm.hdr0.salt
               PROVE  Visits(todo, wal.f, q.hdr.mx)
    OBVIOUS
  <2>1. q.hdr.mx <= shm.hdr0.mx /\ shm.hdr0.isInit = TRUE
    BY <1>1, <1>3 DEF OneNow, One, CkptOk, Checkpointing, InitOk, UsesHdr, Ctl
  <2>2. Indexed(shm.aPgno, wal.f, shm.hdr0.mx) /\ shm.hdr0.mx \in Nat
    BY <2>1, ConnTypes DEF HInv, PubInv, PubOk
  <2>3. Indexed(shm.aPgno, wal.f, q.hdr.mx)
    BY <1>3, <2>1, <2>2 DEF Indexed
  <2>4. shm.aPgno \in [1..sc.maxFrame -> 0..MaxPage] /\ q.hdr.mx \in 0..sc.maxFrame
    BY ShmFields, ConnTypes DEF IInv, TypeInv
  <2> HIDE DEF q
  <2> QED BY <1>1, <2>3, <2>4, IteratorVisits
<1>9. \A d \in Conn \ {c} : con[d].readLock \in -1..sc.nReader-1 /\ sc.nReader \in Nat
  BY ConnTypes
<1> HIDE DEF q, r, work, todo
<1>5. OneNow(r)
  BY <1>1, <1>3, <1>4, <1>8 DEF OneNow, One, Ctl, Held, Marks, InitOk, CallLocks, CommitOk, RecoverOk,
     RestartOk, ReadOk, CkptOk, WorkOk, UsesHdr, Publishing, Checkpointing, Working, Visits
<1>6. \A d \in Conn \ {c} : Two(r, con[d], shm.hdr0) /\ Two(con[d], r, shm.hdr0)
  BY <1>1, <1>3, <1>4, <1>9 DEF OneNow, One, CallLocks, Two, FreshOk, CkptAlone, Limited, Publishing,
     Working, AtMark
<1>7. SnapOk(r, shm.aPgno, wal.f, db, hist[snap[c]])
  BY <1>4 DEF SnapOk
<1> QED
  <2>1. nSalt' \in Nat /\ nSalt <= nSalt' /\ shm'.aReadMark = shm.aReadMark
    BY <1>2
  <2> HIDE DEF HInv, IInv
  <2> QED BY <1>2, <2>1, <1>5, <1>6, <1>7, CalmStep2 DEF OneNow

\* A mark is looked at.
LEMMA CkptReadMarkH ==
  ASSUME IInv, HInv, sc' = sc, NEW c \in Conn, CkptReadMark(c)
  PROVE  HInv'
<1> DEFINE q == con[c]
           over == q.i = NReader
           below == ~over /\ q.mxSafe > shm.aReadMark[q.i]
           r == IF over THEN [q EXCEPT !.pc = "lock0", !.i = 1]
                ELSE IF q.mxSafe > shm.aReadMark[q.i]
                THEN [q EXCEPT !.pc = "trymark", !.y = shm.aReadMark[q.i]]
                ELSE [q EXCEPT !.i = @ + 1]
<1>1. /\ q \in ConSet(sc) /\ Ctl(q) /\ Held(sc, q) /\ OneNow(q) /\ sc \in Scenarios
      /\ q.op \in {"none", "read", "ckpt", "rewal"}
      /\ \A d \in Conn \ {c} : Two(q, con[d], shm.hdr0) /\ Two(con[d], q, shm.hdr0)
  BY Facts, ConnTypes DEF IInv, TypeInv
<1>2. Only(c, r) /\ Calm /\ nSalt' = nSalt /\ nSalt \in Nat /\ shm' = shm /\ snap' = snap
  BY DEF IInv, TypeInv, CkptReadMark, Become, Only, Calm, ghosts
<1>3. /\ q.pc = "readmark" /\ q.op = "ckpt" /\ q.i \in 1..sc.nReader /\ sc.nReader \in Nat
      /\ q.mxSafe \in Nat
      /\ shm.aReadMark \in [1..sc.nReader-1 -> 0..sc.maxFrame+1] /\ sc.maxFrame \in Nat
  BY <1>1, Numerals, ScFacts, ShmFields DEF CkptReadMark, Ctl, NReader, IInv, TypeInv
<1>4. /\ r.op = q.op /\ r.then = q.then
      /\ r.hdr = q.hdr /\ r.h1 = q.h1 /\ r.readLock = q.readLock /\ r.ckptLock = q.ckptLock
      /\ r.prior = q.prior /\ r.mode = q.mode /\ r.mxSafe = q.mxSafe /\ r.todo = q.todo
      /\ r.lo = q.lo
      /\ \/ r.pc = "lock0" /\ q.i = sc.nReader
         \/ /\ r.pc = "trymark" /\ r.i = q.i /\ r.y = shm.aReadMark[q.i]
            /\ shm.aReadMark[q.i] < q.mxSafe /\ q.i \in 1..sc.nReader-1
         \/ /\ r.pc = "readmark" /\ r.i = q.i + 1 /\ q.i \in 1..sc.nReader-1
            /\ q.mxSafe <= shm.aReadMark[q.i]
  <2>1. CASE over
    <3>1. q.i = sc.nReader
      BY <2>1 DEF NReader
    <3>2. r = [q EXCEPT !.pc = "lock0", !.i = 1]
      BY <2>1
    <3> HIDE DEF q, r
    <3> QED BY <1>1, <3>1, <3>2 DEF ConSet
  <2>2. CASE below
    <3>1. q.i \in 1..sc.nReader-1 /\ shm.aReadMark[q.i] < q.mxSafe
      BY <1>3, <2>2 DEF NReader
    <3>2. r = [q EXCEPT !.pc = "trymark", !.y = shm.aReadMark[q.i]]
      BY <2>2
    <3> HIDE DEF q, r
    <3> QED BY <1>1, <3>1, <3>2 DEF ConSet
  <2>3. CASE ~over /\ ~below
    <3>1. q.i \in 1..sc.nReader-1
      BY <1>3, <2>3 DEF NReader
    <3>2. q.mxSafe <= shm.aReadMark[q.i]
      <4>1. shm.aReadMark[q.i] \in Nat
        BY <1>3, <3>1
      <4> QED BY <1>3, <2>3, <4>1
    <3>3. r = [q EXCEPT !.i = @ + 1]
      BY <2>3
    <3> HIDE DEF q, r
    <3>4. r.pc = q.pc /\ r.i = q.i + 1
      BY <1>1, <3>3 DEF ConSet
    <3> QED BY <1>1, <1>3, <3>1, <3>2, <3>3, <3>4 DEF ConSet
  <2> QED BY <2>1, <2>2, <2>3
<1>9. \A d \in Conn \ {c} :
        /\ con[d].readLock \in -1..sc.nReader-1 /\ con[d].hdr.mx \in Nat
        /\ con[d].readLock > 0 /\ con[d].pc # "checkmark" =>
             shm.aReadMark[con[d].readLock] <= con[d].hdr.mx
  <2> SUFFICES ASSUME NEW d \in Conn \ {c}
               PROVE  /\ con[d].readLock \in -1..sc.nReader-1 /\ con[d].hdr.mx \in Nat
                      /\ con[d].readLock > 0 /\ con[d].pc # "checkmark" =>
                           shm.aReadMark[con[d].readLock] <= con[d].hdr.mx
    OBVIOUS
  <2>1. OneNow(con[d]) /\ con[d] \in ConSet(sc)
    BY Facts
  <2> QED BY <1>1, <2>1, Numerals DEF OneNow, One, ReadOk
<1> HIDE DEF q, r, over, below
<1>5. OneNow(r)
  BY <1>1, <1>3, <1>4 DEF OneNow, One, Ctl, Held, Marks, InitOk, CallLocks, CommitOk, RecoverOk,
     RestartOk, ReadOk, CkptOk, WorkOk, UsesHdr, Publishing, Checkpointing, Working
<1>6. \A d \in Conn \ {c} : Two(r, con[d], shm.hdr0) /\ Two(con[d], r, shm.hdr0)
  <2> SUFFICES ASSUME NEW d \in Conn \ {c}
               PROVE  Two(r, con[d], shm.hdr0) /\ Two(con[d], r, shm.hdr0)
    OBVIOUS
  <2>1. Two(q, con[d], shm.hdr0) /\ Two(con[d], q, shm.hdr0)
    BY <1>1
  <2>2. /\ FreshOk(r, con[d], shm.hdr0) /\ FreshOk(con[d], r, shm.hdr0) /\ CkptAlone(r, con[d])
        /\ CkptAlone(con[d], r) /\ Limited(con[d], r, shm.hdr0)
    BY <2>1, <1>1, <1>3, <1>4 DEF OneNow, One, CallLocks, Two, FreshOk, CkptAlone, Limited, Publishing,
       Working, AtMark
  <2>3. Limited(r, con[d], shm.hdr0)
    <3> SUFFICES ASSUME r.hdr.salt = shm.hdr0.salt, con[d].readLock > 0, con[d].pc # "checkmark"
                 PROVE  \/ r.mxSafe <= con[d].hdr.mx
                        \/ AtMark(r) /\ con[d].readLock > r.i
                        \/ AtMark(r) /\ con[d].readLock = r.i
                             /\ (r.pc = "trymark" => r.y <= con[d].hdr.mx)
      BY DEF Limited
    <3>1. \/ q.mxSafe <= con[d].hdr.mx
          \/ con[d].readLock > q.i
          \/ con[d].readLock = q.i
      BY <2>1, <1>3, <1>4 DEF Two, Limited, Working
    <3>2. con[d].readLock \in 1..sc.nReader-1 /\ con[d].hdr.mx \in Nat
          /\ shm.aReadMark[con[d].readLock] <= con[d].hdr.mx
          /\ shm.aReadMark[con[d].readLock] \in Nat
      BY <1>9, <1>3
    <3>3. CASE q.mxSafe <= con[d].hdr.mx
      BY <3>3, <1>4
    <3>4. CASE con[d].readLock > q.i
      BY <3>2, <3>4, <1>3, <1>4 DEF AtMark
    <3>5. CASE con[d].readLock = q.i
      <4>1. CASE r.pc = "trymark" /\ r.i = q.i /\ r.y = shm.aReadMark[q.i]
        BY <3>2, <3>5, <4>1 DEF AtMark
      <4>2. CASE q.mxSafe <= shm.aReadMark[q.i]
        BY <3>2, <3>5, <4>2, <1>3, <1>4
      <4> QED BY <3>2, <3>5, <4>1, <4>2, <1>3, <1>4
    <3> QED BY <3>1, <3>3, <3>4, <3>5
  <2> QED BY <2>2, <2>3 DEF Two
<1>7. SnapOk(r, shm.aPgno, wal.f, db, hist[snap[c]])
  BY <1>4 DEF SnapOk
<1> QED
  <2>1. nSalt' \in Nat /\ nSalt <= nSalt' /\ shm'.aReadMark = shm.aReadMark
    BY <1>2
  <2> HIDE DEF HInv, IInv
  <2> QED BY <1>2, <2>1, <1>5, <1>6, <1>7, CalmStep2 DEF OneNow

\* The slot of a mark below mxSafe is free, and the mark is moved, or it holds
\* the checkpoint back.
LEMMA CkptTryMarkH ==
  ASSUME IInv, HInv, sc' = sc, NEW c \in Conn, CkptTryMark(c)
  PROVE  HInv'
<1> DEFINE q == con[c]
           free == ExclOk(c, {q.i})
           mark == IF q.i = 1 THEN q.mxSafe ELSE NOT_USED
           r == [q EXCEPT !.pc = "readmark", !.i = @ + 1, !.y = 0,
                          !.mxSafe = IF free THEN @ ELSE q.y]
<1>1. /\ q \in ConSet(sc) /\ Ctl(q) /\ Held(sc, q) /\ OneNow(q) /\ sc \in Scenarios
      /\ q.op \in {"none", "read", "ckpt", "rewal"}
      /\ \A d \in Conn \ {c} : Two(q, con[d], shm.hdr0) /\ Two(con[d], q, shm.hdr0)
  BY Facts, ConnTypes DEF IInv, TypeInv
<1>3. /\ q.pc = "trymark" /\ q.op = "ckpt" /\ q.i \in 1..sc.nReader-1 /\ sc.nReader \in Nat
      /\ q.mxSafe \in Nat /\ q.y \in Nat /\ q.hdr.mx \in Nat /\ nSalt \in Nat
      /\ shm \in ShmSet(sc) /\ shm.aReadMark \in [1..sc.nReader-1 -> 0..sc.maxFrame+1]
  <2>1. q.pc = "trymark" /\ q.i # sc.nReader
    BY <1>1 DEF CkptTryMark, Held
  <2> QED BY <1>1, <2>1, Numerals, ShmFields DEF Ctl, IInv, TypeInv
<1>4. /\ r.pc = "readmark" /\ r.i = q.i + 1 /\ r.mxSafe = (IF free THEN q.mxSafe ELSE q.y)
      /\ r.op = q.op /\ r.then = q.then
      /\ r.hdr = q.hdr /\ r.h1 = q.h1 /\ r.readLock = q.readLock /\ r.ckptLock = q.ckptLock
      /\ r.prior = q.prior /\ r.mode = q.mode /\ r.todo = q.todo /\ r.lo = q.lo
  <2> HIDE DEF q, free
  <2> QED BY <1>1, <1>3 DEF ConSet
<1>2. /\ Only(c, r) /\ Calm /\ nSalt' = nSalt /\ snap' = snap
      /\ shm' = IF free THEN [shm EXCEPT !.aReadMark = [@ EXCEPT ![q.i] = mark]] ELSE shm
  <2>1. /\ sc' = sc /\ wal' = wal /\ db' = db /\ UNCHANGED ghosts /\ nSalt' = nSalt
    BY DEF CkptTryMark
  <2>2. CASE free
    <3>1. /\ shm' = [shm EXCEPT !.aReadMark = [@ EXCEPT ![q.i] = mark]]
          /\ Become(c, [q EXCEPT !.pc = "readmark", !.i = @ + 1, !.y = 0])
      BY <1>1, <2>2 DEF CkptTryMark, ConSet
    <3>2. r = [q EXCEPT !.pc = "readmark", !.i = @ + 1, !.y = 0]
      <4> HIDE DEF q, free
      <4> QED BY <1>1, <2>2 DEF ConSet
    <3>3. shm'.hdr0 = shm.hdr0 /\ shm'.nBackfill = shm.nBackfill /\ shm'.aPgno = shm.aPgno
      <4> HIDE DEF q, mark
      <4> QED BY <1>3, <3>1 DEF ShmSet
    <3>4. Become(c, r)
      BY <3>1, <3>2
    <3> HIDE DEF r
    <3> QED BY <2>1, <2>2, <3>1, <3>3, <3>4 DEF Only, Become, Calm, IInv, TypeInv, ghosts
  <2>3. CASE ~free
    <3>1. /\ shm' = shm
          /\ Become(c, [[q EXCEPT !.pc = "readmark", !.i = @ + 1, !.y = 0] EXCEPT !.mxSafe = q.y])
      BY <2>3 DEF CkptTryMark, LimitedTo
    <3>2. r = [[q EXCEPT !.pc = "readmark", !.i = @ + 1, !.y = 0] EXCEPT !.mxSafe = q.y]
      <4> HIDE DEF q, free
      <4> QED BY <1>1, <2>3 DEF ConSet
    <3>4. Become(c, r)
      BY <3>1, <3>2
    <3> HIDE DEF r
    <3> QED BY <2>1, <2>3, <3>1, <3>4 DEF Only, Become, Calm, IInv, TypeInv, ghosts
  <2> QED BY <2>2, <2>3
<1>8. \A d \in Conn \ {c} :
        /\ con[d].readLock \in -1..sc.nReader-1 /\ con[d].hdr.mx \in Nat
        /\ free => con[d].readLock # q.i
  <2> SUFFICES ASSUME NEW d \in Conn \ {c}
               PROVE  /\ con[d].readLock \in -1..sc.nReader-1 /\ con[d].hdr.mx \in Nat
                      /\ free => con[d].readLock # q.i
    OBVIOUS
  <2>1. con[d] \in ConSet(sc)
    BY Facts
  <2> QED BY <1>1, <2>1, Numerals DEF ExclOk
<1>9. \A d \in Conn \ {c} : con[d].readLock > 0 =>
        shm'.aReadMark[con[d].readLock] = shm.aReadMark[con[d].readLock]
  <2> HIDE DEF q, free, mark, r
  <2>1. CASE free
    BY <1>2, <1>3, <1>8, <2>1 DEF ShmSet
  <2>2. CASE ~free
    BY <1>2, <2>2
  <2> QED BY <2>1, <2>2
<1> HIDE DEF q, r, free, mark
<1>5. One(r, shm.hdr0, shm.aPgno, shm.nBackfill, shm'.aReadMark, wal, db, head, hist[head],
          RecoveredMx, nSalt)
  BY <1>1, <1>3, <1>4 DEF OneNow, One, Ctl, Held, Marks, InitOk, CallLocks, CommitOk, RecoverOk,
     RestartOk, ReadOk, CkptOk, WorkOk, UsesHdr, Publishing, Checkpointing, Working
<1>6. \A d \in Conn \ {c} : Two(r, con[d], shm.hdr0) /\ Two(con[d], r, shm.hdr0)
  <2> SUFFICES ASSUME NEW d \in Conn \ {c}
               PROVE  Two(r, con[d], shm.hdr0) /\ Two(con[d], r, shm.hdr0)
    OBVIOUS
  <2>1. Two(q, con[d], shm.hdr0) /\ Two(con[d], q, shm.hdr0)
    BY <1>1
  <2>2. /\ FreshOk(r, con[d], shm.hdr0) /\ FreshOk(con[d], r, shm.hdr0) /\ CkptAlone(r, con[d])
        /\ CkptAlone(con[d], r) /\ Limited(con[d], r, shm.hdr0)
    BY <2>1, <1>1, <1>3, <1>4 DEF OneNow, One, CallLocks, Two, FreshOk, CkptAlone, Limited, Publishing,
       Working, AtMark
  <2>3. Limited(r, con[d], shm.hdr0)
    <3> SUFFICES ASSUME r.hdr.salt = shm.hdr0.salt, con[d].readLock > 0, con[d].pc # "checkmark"
                 PROVE  \/ r.mxSafe <= con[d].hdr.mx
                        \/ AtMark(r) /\ con[d].readLock > r.i
                        \/ AtMark(r) /\ con[d].readLock = r.i
                             /\ (r.pc = "trymark" => r.y <= con[d].hdr.mx)
      BY DEF Limited
    <3>1. \/ q.mxSafe <= con[d].hdr.mx
          \/ con[d].readLock > q.i
          \/ con[d].readLock = q.i /\ q.y <= con[d].hdr.mx
      BY <2>1, <1>3, <1>4 DEF Two, Limited, Working
    <3>2. con[d].readLock \in 1..sc.nReader-1 /\ con[d].hdr.mx \in Nat
      BY <1>8, <1>3
    <3>6. q.y < q.mxSafe
      BY <1>1, <1>3, <1>4 DEF OneNow, One, WorkOk, Working
    <3>3. CASE q.mxSafe <= con[d].hdr.mx
      BY <3>2, <3>3, <3>6, <1>3, <1>4
    <3>4. CASE con[d].readLock > q.i
      BY <3>2, <3>4, <1>3, <1>4 DEF AtMark
    <3>5. CASE con[d].readLock = q.i /\ q.y <= con[d].hdr.mx
      BY <3>5, <1>4, <1>8
    <3> QED BY <3>1, <3>3, <3>4, <3>5
  <2> QED BY <2>2, <2>3 DEF Two
<1>7. SnapOk(r, shm.aPgno, wal.f, db, hist[snap[c]])
  BY <1>4 DEF SnapOk
<1> QED
  <2>1. nSalt' \in Nat /\ nSalt <= nSalt'
    BY <1>2, <1>3
  <2> HIDE DEF HInv, IInv
  <2> QED BY <1>2, <2>1, <1>5, <1>6, <1>7, <1>9, CalmStep2

\* READ_LOCK(0) is taken for the copy, if there is anything to copy.
LEMMA CkptLock0H ==
  ASSUME IInv, HInv, sc' = sc, NEW c \in Conn, CkptLock0(c)
  PROVE  HInv'
<1> DEFINE q == con[c]
           go == shm.nBackfill < q.mxSafe /\ ExclOk(c, {0})
           r == IF go THEN [q EXCEPT !.pc = "copy", !.excl = {0}, !.lo = shm.nBackfill]
                ELSE [q EXCEPT !.pc = "ckend", !.todo = {}]
<1>1. /\ q \in ConSet(sc) /\ Ctl(q) /\ Held(sc, q) /\ OneNow(q) /\ sc \in Scenarios
      /\ q.op \in {"none", "read", "ckpt", "rewal"}
      /\ \A d \in Conn \ {c} : Two(q, con[d], shm.hdr0) /\ Two(con[d], q, shm.hdr0)
  BY Facts, ConnTypes DEF IInv, TypeInv
<1>2. Only(c, r) /\ Calm /\ nSalt' = nSalt /\ nSalt \in Nat /\ shm' = shm /\ snap' = snap
  BY DEF IInv, TypeInv, CkptLock0, Become, Only, Calm, ghosts
<1>3. q.pc = "lock0" /\ q.op = "ckpt"
  BY <1>1 DEF CkptLock0, Ctl
<1>4. /\ \/ r.pc = "copy" /\ r.lo = shm.nBackfill /\ shm.nBackfill < q.mxSafe
         \/ r.pc = "ckend"
      /\ r.op = q.op /\ r.then = q.then
      /\ r.hdr = q.hdr /\ r.h1 = q.h1 /\ r.readLock = q.readLock /\ r.ckptLock = q.ckptLock
      /\ r.prior = q.prior /\ r.mode = q.mode /\ r.mxSafe = q.mxSafe
      /\ r.pc = "copy" => r.todo = q.todo
  <2> HIDE DEF q
  <2>1. CASE go
    <3>1. r = [q EXCEPT !.pc = "copy", !.excl = {0}, !.lo = shm.nBackfill]
          /\ shm.nBackfill < q.mxSafe
      BY <2>1
    <3> HIDE DEF r
    <3> QED BY <1>1, <3>1 DEF ConSet
  <2>2. CASE ~go
    <3>1. r = [q EXCEPT !.pc = "ckend", !.todo = {}]
      BY <2>2
    <3> HIDE DEF r
    <3> QED BY <1>1, <3>1 DEF ConSet
  <2> QED BY <2>1, <2>2
<1> HIDE DEF q, r, go
<1>5. OneNow(r)
  BY <1>1, <1>3, <1>4 DEF OneNow, One, Ctl, Held, Marks, InitOk, CallLocks, CommitOk, RecoverOk,
     RestartOk, ReadOk, CkptOk, WorkOk, UsesHdr, Publishing, Checkpointing, Working
<1>6. \A d \in Conn \ {c} : Two(r, con[d], shm.hdr0) /\ Two(con[d], r, shm.hdr0)
  BY <1>1, <1>3, <1>4 DEF OneNow, One, CallLocks, Two, FreshOk, CkptAlone, Limited, Publishing,
     Working, AtMark
<1>7. SnapOk(r, shm.aPgno, wal.f, db, hist[snap[c]])
  BY <1>4 DEF SnapOk
<1> QED
  <2>1. nSalt' \in Nat /\ nSalt <= nSalt' /\ shm'.aReadMark = shm.aReadMark
    BY <1>2
  <2> HIDE DEF HInv, IInv
  <2> QED BY <1>2, <2>1, <1>5, <1>6, <1>7, CalmStep2 DEF OneNow

-----------------------------------------------------------------------------
(* Steps that change what is published, logged or in the database file *)

\* One with the shared state after a step.
OneNext(r) == One(r, shm'.hdr0, shm'.aPgno, shm'.nBackfill, shm'.aReadMark, wal', db', head',
                  hist'[head'], RecoveredMx', nSalt')

\* What such a step of c has to establish.
LEMMA LoudStep ==
  ASSUME IInv, HInv, NEW c \in Conn, NEW r, Only(c, r), HistInv', PubInv', SurvInv',
         OneNext(r), \A d \in Conn \ {c} : OneNext(con[d]),
         \A d \in Conn \ {c} : Two(r, con[d], shm'.hdr0) /\ Two(con[d], r, shm'.hdr0),
         \A d, e \in Conn \ {c} : d # e => Two(con[d], con[e], shm'.hdr0),
         SnapOk(r, shm'.aPgno, wal'.f, db', hist'[snap'[c]]),
         \A d \in Conn \ {c} : SnapOk(con[d], shm'.aPgno, wal'.f, db', hist'[snap'[d]])
  PROVE  HInv'
<1>1. OneInv'
  <2> SUFFICES ASSUME NEW d \in Conn PROVE OneNext(con'[d])
    BY Zenon DEF OneInv, OneNext
  <2>1. CASE d = c
    BY <2>1, Zenon DEF Only
  <2>2. CASE d # c
    BY <2>2, Zenon DEF Only
  <2> QED BY <2>1, <2>2
<1>2. TwoInv'
  <2> SUFFICES ASSUME NEW d \in Conn, NEW e \in Conn, d # e
               PROVE  Two(con'[d], con'[e], shm'.hdr0)
    BY Zenon DEF TwoInv
  <2>1. CASE d = c
    BY <2>1, Zenon DEF Only
  <2>2. CASE e = c
    BY <2>2, Zenon DEF Only
  <2>3. CASE d # c /\ e # c
    BY <2>3, Zenon DEF Only
  <2> QED BY <2>1, <2>2, <2>3
<1>3. SnapInv'
  <2> SUFFICES ASSUME NEW d \in Conn
               PROVE  SnapOk(con'[d], shm'.aPgno, wal'.f, db', hist'[snap'[d]])
    BY Zenon DEF SnapInv
  <2>1. CASE d = c
    BY <2>1, Zenon DEF Only
  <2>2. CASE d # c
    BY <2>2, Zenon DEF Only
  <2> QED BY <2>1, <2>2
<1> QED BY <1>1, <1>2, <1>3 DEF HInv

\* The frames recovery accepts, and the last commit among them: it is as long
\* a log as recovery would accept.
Accepted(w, n) == {i \in 1..n : \A j \in 1..i : Linked(w, j)}
LastCommit(w, n) == Max({0} \cup {i \in Accepted(w, n) : w.f[i].commit})

LEMMA LastCommitFacts ==
  ASSUME NEW s \in Scenarios, NEW w \in WalSet(s)
  PROVE  /\ LastCommit(w, s.maxFrame) \in 0..s.maxFrame /\ Whole(w, LastCommit(w, s.maxFrame))
         /\ \A m \in 0..s.maxFrame : Whole(w, m) => m <= LastCommit(w, s.maxFrame)
<1> DEFINE n == s.maxFrame
           S == {0} \cup {i \in Accepted(w, n) : w.f[i].commit}
           M == Max(S)
<1>1. n \in Nat
  BY ScFacts
<1>2. \A i \in 1..n : w.f[i].commit \in BOOLEAN
  BY DEF WalSet, FrameSet
<1> HIDE DEF n
<1>3. S \in SUBSET (0..n) /\ S # {} /\ 0 \in S
  BY <1>1 DEF Accepted
<1>4. \A m \in 1..n : m \in S <=> w.f[m].commit = TRUE /\ \A j \in 1..m : Linked(w, j)
  BY <1>1, <1>2 DEF Accepted
<1> HIDE DEF S
<1>5. M \in S /\ \A j \in S : j <= M
  BY <1>1, <1>3, MaxFacts, Zenon
<1>6. LastCommit(w, n) = M
  BY DEF LastCommit, S
<1> HIDE DEF M
<1>7. M \in 0..n
  BY <1>3, <1>5
<1>8. Whole(w, M)
  <2> SUFFICES ASSUME M # 0 PROVE w.f[M].commit = TRUE /\ \A j \in 1..M : Linked(w, j)
    BY DEF Whole
  <2> QED BY <1>1, <1>4, <1>5, <1>7
<1>9. ASSUME NEW m \in 0..n, Whole(w, m) PROVE m <= M
  <2>1. CASE m = 0
    BY <2>1, <1>7
  <2>2. CASE m # 0
    <3>1. m \in S
      BY <1>1, <1>4, <1>9, <2>2 DEF Whole
    <3> QED BY <3>1, <1>5
  <2> QED BY <2>1, <2>2
<1> QED BY <1>6, <1>7, <1>8, <1>9 DEF n

\* What a recovery would find now.
LEMMA RecoveredWhole ==
  ASSUME IInv
  PROVE  /\ RecoveredMx \in 0..sc.maxFrame /\ Whole(wal, RecoveredMx)
         /\ \A m \in 0..sc.maxFrame : Whole(wal, m) => m <= RecoveredMx
<1>1. sc \in Scenarios /\ wal \in WalSet(sc)
  BY DEF IInv, TypeInv
<1>2. RecoveredMx = LastCommit(wal, sc.maxFrame)
  BY DEF RecoveredMx, ValidFrames, MaxFrame, LastCommit, Accepted, Linked
<1> QED BY <1>1, <1>2, LastCommitFacts

\* The published header stays within what recovery would find, and unless a
\* restart is left half done nothing beyond it counts as backfilled.
LEMMA Published ==
  ASSUME IInv, HInv
  PROVE  /\ shm.hdr0.mx \in Nat /\ shm.nBackfill \in Nat /\ RecoveredMx \in Nat
         /\ shm.hdr0.mx \in 0..sc.maxFrame /\ shm.hdr0.mx <= RecoveredMx
         /\ Whole(wal, shm.hdr0.mx) /\ Indexed(shm.aPgno, wal.f, shm.hdr0.mx)
         /\ Shows(wal.f, db, RecoveredMx, hist[RecoveredVer]) /\ RecoveredVer >= head
         /\ Backed(wal.f, db, shm.hdr0.mx, shm.nBackfill)
<1>1. /\ shm.hdr0.mx \in 0..sc.maxFrame /\ sc.maxFrame \in Nat /\ shm.nBackfill \in 0..sc.maxFrame
  BY ShmFields, HdrFields, ScFacts DEF IInv, TypeInv
<1>2. RecoveredMx \in 0..sc.maxFrame /\ \A m \in 0..sc.maxFrame : Whole(wal, m) => m <= RecoveredMx
  BY RecoveredWhole
<1>3. PubOk(shm.hdr0, shm.aPgno, shm.nBackfill, wal, db, head, hist[head])
  BY DEF HInv, PubInv
<1>4. CASE shm.hdr0.isInit = TRUE
  BY <1>1, <1>2, <1>3, <1>4 DEF PubOk, HInv, SurvInv
<1>5. CASE shm.hdr0.isInit # TRUE
  <2>1. shm.hdr0.mx = 0
    BY <1>3, <1>5 DEF PubOk
  <2>2. Whole(wal, 0) /\ Indexed(shm.aPgno, wal.f, 0) /\ Backed(wal.f, db, 0, shm.nBackfill)
    BY DEF Whole, Indexed, Backed
  <2> QED BY <1>1, <1>2, <2>1, <2>2 DEF HInv, SurvInv
<1> QED BY <1>4, <1>5

LEMMA BackfillBound ==
  ASSUME IInv, HInv, ~TornRestart, NEW c \in Conn, con[c].writeLock = TRUE,
         con[c].then \notin {"restart", "truncate"}
  PROVE  shm.nBackfill <= shm.hdr0.mx
<1>1. shm.hdr0.mx \in Nat /\ shm.nBackfill \in Nat
  BY Published
<1>2. \A d \in Conn : con[d].then \notin {"restart", "truncate"}
  BY OneWriter
<1> QED BY <1>1, <1>2 DEF TornRestart

\* The first to open clears the wal-index; the others find it as it is.
LEMMA OpenH ==
  ASSUME IInv, HInv, sc' = sc, NEW c \in Conn, Open(c)
  PROVE  HInv'
<1> DEFINE q == con[c]
           r == [Closed EXCEPT !.pc = "readhdr", !.op = "read"]
<1>1. /\ q \in ConSet(sc) /\ OneNow(q) /\ sc \in Scenarios /\ q.pc = "closed"
      /\ \A d \in Conn \ {c} : Two(q, con[d], shm.hdr0) /\ Two(con[d], q, shm.hdr0)
  BY Facts DEF IInv, TypeInv, Open
<1>2. /\ Only(c, r) /\ UNCHANGED <<wal, db, hist, head, snap, nSalt>> /\ nSalt \in Nat
      /\ head \in Nat /\ shm' = IF \A d \in Conn : con[d].pc = "closed" THEN FreshShm ELSE shm
  BY ScFacts DEF IInv, TypeInv, Open, Become, Only
<1>3. /\ r.pc = "readhdr" /\ r.op = "read" /\ r.then = "none" /\ r.hdr = BadHdr /\ r.h1 = BadHdr
      /\ r.readLock = -1 /\ r.ckptLock = FALSE /\ r.mode = "PASSIVE" /\ r.prior = 0
  BY DEF Closed, Resting, None
<1>4. BadHdr.isInit = FALSE /\ BadHdr.salt = 0 /\ BadHdr.ck = 0 /\ BadHdr.mx = 0
  BY DEF BadHdr
<1> HIDE DEF q, r
<1>5. \A d \in Conn \ {c} : \A h : Two(r, con[d], h)
  BY <1>3 DEF Two, FreshOk, CkptAlone, Limited, Publishing, Working
<1>6. CASE \E d \in Conn : con[d].pc # "closed"
  <2>1. shm' = shm /\ Calm
    BY <1>2, <1>6 DEF Calm
  <2>2. OneNow(r)
    BY <1>1, <1>2, <1>3, <1>4 DEF OneNow, One, Marks, InitOk, CallLocks, CommitOk, RecoverOk,
       RestartOk, ReadOk, CkptOk, WorkOk, UsesHdr, Publishing, Checkpointing, Working
  <2>3. \A d \in Conn \ {c} : Two(r, con[d], shm.hdr0) /\ Two(con[d], r, shm.hdr0)
    <3> SUFFICES ASSUME NEW d \in Conn \ {c}
                 PROVE  Two(con[d], r, shm.hdr0)
      BY <1>5
    <3>1. Two(con[d], q, shm.hdr0)
      BY <1>1
    <3>2. CkptAlone(con[d], r) /\ Limited(con[d], r, shm.hdr0)
      BY <1>3, <3>1 DEF Two, CkptAlone, Limited
    <3>3. FreshOk(con[d], r, shm.hdr0)
      BY <1>3, <1>4, <3>1 DEF Two, FreshOk
    <3> QED BY <3>2, <3>3 DEF Two
  <2>4. SnapOk(r, shm.aPgno, wal.f, db, hist[snap[c]])
    BY <1>3 DEF SnapOk
  <2>5. nSalt' \in Nat /\ nSalt <= nSalt' /\ shm'.aReadMark = shm.aReadMark /\ nSalt' = nSalt
    BY <1>2, <2>1
  <2> HIDE DEF HInv, IInv
  <2> QED BY <1>2, <2>1, <2>2, <2>3, <2>4, <2>5, CalmStep2 DEF OneNow
<1>7. CASE \A d \in Conn : con[d].pc = "closed"
  <2>1. shm'.hdr0 = BadHdr /\ shm'.nBackfill = 0
    BY <1>2, <1>7 DEF FreshShm
  <2>2. RecoveredMx' = RecoveredMx /\ RecoveredVer' = RecoveredVer
    BY <1>2 DEF RecoveredMx, RecoveredVer, ValidFrames, MaxFrame
  <2>3. HistInv'
    <3>1. 0 <= head /\ 0 <= nSalt
      BY <1>2
    <3> QED BY <1>2, <1>4, <2>1, <3>1 DEF HInv, HistInv
  <2>4. PubInv' /\ SurvInv'
    BY <1>2, <1>4, <2>1, <2>2 DEF HInv, PubInv, PubOk, SurvInv
  <2>5. OneNext(r)
    BY <1>1, <1>2, <1>3, <1>4, <2>1 DEF OneNext, OneNow, One, Marks, InitOk, CallLocks, CommitOk,
       RecoverOk, RestartOk, ReadOk, CkptOk, WorkOk, UsesHdr, Publishing, Checkpointing, Working
  <2>6. ASSUME NEW d \in Conn \ {c}
        PROVE  /\ OneNext(con[d]) /\ Two(con[d], r, shm'.hdr0)
               /\ \A e \in Conn \ {c} : d # e => Two(con[d], con[e], shm'.hdr0)
               /\ SnapOk(con[d], shm'.aPgno, wal'.f, db', hist'[snap'[d]])
    <3> DEFINE u == con[d]
    <3>1. /\ OneNow(u) /\ u.pc = "closed" /\ Ctl(u) /\ Two(u, q, shm.hdr0) /\ Held(sc, u)
          /\ u.op \in OpSet /\ u.then \in ThenSet
          /\ \A e \in Conn \ {c} : d # e => Two(u, con[e], shm.hdr0)
      BY <1>7, Facts, ConnTypes DEF q, OpSet, ThenSet
    <3> HIDE DEF u
    <3>2. OneNext(u)
      BY <1>2, <2>1, <2>2, <3>1 DEF OneNext, OneNow, One, Ctl, Held, Marks, InitOk, CallLocks,
         CommitOk, RecoverOk, RestartOk, ReadOk, CkptOk, WorkOk, UsesHdr, Publishing,
         Checkpointing, Working
    <3>3. Two(u, r, shm'.hdr0) /\ \A e \in Conn \ {c} : d # e => Two(u, con[e], shm'.hdr0)
      BY <1>3, <3>1 DEF Two, FreshOk, CkptAlone, Limited, Publishing, Working
    <3>4. SnapOk(u, shm'.aPgno, wal'.f, db', hist'[snap'[d]])
      BY <3>1 DEF SnapOk
    <3> QED BY <3>2, <3>3, <3>4 DEF u
  <2>7. SnapOk(r, shm'.aPgno, wal'.f, db', hist'[snap'[c]])
    BY <1>3 DEF SnapOk
  <2> HIDE DEF HInv, IInv
  <2> QED BY <1>2, <1>5, <2>3, <2>4, <2>5, <2>6, <2>7, LoudStep
<1> QED BY <1>6, <1>7

\* The shared and exclusive locks of two connections.
LEMMA ApartFacts ==
  ASSUME IInv, NEW c \in Conn, NEW d \in Conn \ {c}
  PROVE  /\ con[d].readLock \notin con[c].excl /\ con[c].readLock \notin con[d].excl
         /\ con[d].readLock \in -1..sc.nReader-1 /\ sc.nReader \in Nat
         /\ con[d] \in ConSet(sc) /\ sc \in Scenarios /\ Ctl(con[d]) /\ Held(sc, con[d])
         /\ con[d].op \in {"none", "read", "ckpt", "rewal"} /\ con[d].ckptLock \in BOOLEAN
         /\ con[d].then \in {"none", "commit", "recover", "restart", "truncate"}
<1>1. Compatible(con[c], con[d])
  BY OtherFacts
<1>2. con[d] \in ConSet(sc) /\ sc \in Scenarios /\ Ctl(con[d]) /\ Held(sc, con[d])
  BY ConnFacts, GoodFields
<1> QED BY <1>1, <1>2, ConnTypes, ConFields DEF Compatible

\* Recovery rebuilds the hash table under every lock.
LEMMA StartRecoverH ==
  ASSUME IInv, HInv, sc' = sc, NEW c \in Conn, StartRecover(c)
  PROVE  HInv'
<1> DEFINE q == con[c]
           mx == RecoveredMx
           h == [isInit |-> TRUE, mx |-> mx, salt |-> wal.salt, iChange |-> 0,
                 ck |-> IF mx = 0 THEN 0 ELSE wal.f[mx].ver]
           n == IF wal = NoLog THEN q.nCkpt ELSE wal.nCkpt
           r == [q EXCEPT !.pc = "write1", !.then = "recover", !.hdr = h, !.nCkpt = n,
                          !.changed = TRUE, !.writeLock = TRUE, !.excl = 0..NReader-1]
           x == [i \in 1..MaxFrame |-> IF i \in ValidFrames THEN wal.f[i].pg ELSE 0]
<1>1. /\ q \in ConSet(sc) /\ Ctl(q) /\ Held(sc, q) /\ OneNow(q) /\ sc \in Scenarios
      /\ \A d \in Conn \ {c} : Two(q, con[d], shm.hdr0) /\ Two(con[d], q, shm.hdr0)
      /\ q.op \in {"none", "read", "ckpt", "rewal"} /\ q.readLock \in -1..sc.nReader-1
      /\ q.ckptLock \in BOOLEAN /\ q.writeLock \in BOOLEAN
      /\ q.mode \in {"PASSIVE", "FULL", "RESTART", "TRUNCATE"}
  BY Facts, ConnTypes, ConFields DEF IInv, TypeInv, ModeSet
<1>2. /\ Only(c, r) /\ UNCHANGED <<wal, db, hist, head, snap, nSalt>> /\ nSalt \in Nat
      /\ shm' = [shm EXCEPT !.aPgno = x] /\ shm \in ShmSet(sc)
  BY DEF IInv, TypeInv, StartRecover, Become, Only, ghosts
<1>3. q.pc = "badhdr" /\ WriteFree /\ OthersOut(c) /\ q.writeLock = FALSE
  BY <1>1 DEF StartRecover, WriteFree
<1> HIDE DEF x
<1>4. /\ shm'.hdr0 = shm.hdr0 /\ shm'.nBackfill = shm.nBackfill /\ shm'.aPgno = x
      /\ shm'.aReadMark = shm.aReadMark
  BY <1>2 DEF ShmSet
<1>5. /\ h.isInit = TRUE /\ h.mx = mx /\ h.salt = wal.salt
      /\ h.ck = IF mx = 0 THEN 0 ELSE wal.f[mx].ver
  OBVIOUS
<1> HIDE DEF h, n
<1>6. /\ r.pc = "write1" /\ r.then = "recover" /\ r.hdr = h /\ r.op = q.op /\ r.h1 = q.h1
      /\ r.readLock = q.readLock /\ r.ckptLock = q.ckptLock /\ r.mode = q.mode
      /\ r.prior = q.prior /\ r.minFrame = q.minFrame
  <2> HIDE DEF q
  <2> QED BY <1>1 DEF ConSet
<1> HIDE DEF q, r
<1>7. RecoveredMx' = RecoveredMx /\ RecoveredVer' = RecoveredVer
  BY <1>2 DEF RecoveredMx, RecoveredVer, ValidFrames, MaxFrame
<1>8. ASSUME NEW m \in 0..sc.maxFrame, Whole(wal, m) PROVE Indexed(x, wal.f, m)
  <2> SUFFICES ASSUME NEW i \in 1..m PROVE x[i] = wal.f[i].pg
    BY DEF Indexed
  <2>1. sc.maxFrame \in Nat
    BY <1>1, ScFacts
  <2>2. i \in 1..MaxFrame /\ \A j \in 1..i : Linked(wal, j)
    BY <1>8, <2>1 DEF Whole, MaxFrame
  <2>3. i \in ValidFrames
    BY <2>2 DEF ValidFrames, Linked
  <2> QED BY <2>2, <2>3 DEF x
<1>9. Indexed(x, wal.f, shm.hdr0.mx) /\ Indexed(x, wal.f, RecoveredMx)
  BY <1>8, Published, RecoveredWhole
<1>10. HistInv' /\ SurvInv'
  BY <1>2, <1>4, <1>7 DEF HInv, HistInv, SurvInv
<1>11. PubInv'
  BY <1>2, <1>4, <1>9 DEF HInv, PubInv, PubOk
<1>12. wal.salt <= nSalt
  BY DEF HInv, HistInv
<1>13. OneNext(r)
  BY <1>1, <1>2, <1>3, <1>4, <1>5, <1>6, <1>7, <1>9, <1>12 DEF OneNext, OneNow, One, Ctl, Held,
     Marks, InitOk, CallLocks, CommitOk, RecoverOk, RestartOk, ReadOk, CkptOk, WorkOk, UsesHdr,
     Publishing, Checkpointing, Working
<1>14. r.readLock = -1
  BY <1>1, <1>3, <1>6 DEF OneNow, One, CallLocks
<1>15. SnapOk(r, shm'.aPgno, wal'.f, db', hist'[snap'[c]])
  BY <1>6 DEF SnapOk
<1>16. ASSUME NEW d \in Conn \ {c}
       PROVE  /\ OneNext(con[d]) /\ Two(con[d], r, shm'.hdr0) /\ Two(r, con[d], shm'.hdr0)
              /\ \A e \in Conn \ {c} : d # e => Two(con[d], con[e], shm'.hdr0)
              /\ SnapOk(con[d], shm'.aPgno, wal'.f, db', hist'[snap'[d]])
  <2> DEFINE u == con[d]
  <2>1. /\ OneNow(u) /\ Two(u, q, shm.hdr0) /\ Two(q, u, shm.hdr0) /\ Ctl(u) /\ Held(sc, u)
        /\ u.readLock \in -1..sc.nReader-1 /\ u.op \in {"none", "read", "ckpt", "rewal"}
        /\ u.then \in {"none", "commit", "recover", "restart", "truncate"}
        /\ \A e \in Conn \ {c} : d # e => Two(u, con[e], shm.hdr0)
    BY Facts, ApartFacts DEF q
  <2>2. ~u.writeLock /\ u.ckptLock = FALSE /\ u.readLock \notin 0..sc.nReader-1
    BY <1>3, ApartFacts DEF WriteFree, OthersOut, ExclOk, NReader
  <2> HIDE DEF u
  <2>3. u.then = "none" /\ ~Publishing(u) /\ u.readLock = -1
    BY <2>1, <2>2 DEF Ctl, Held, Publishing
  <2>4. OneNext(u)
    BY <2>1, <2>3, <1>2, <1>4, <1>7 DEF OneNext, OneNow, One, CommitOk, RecoverOk
  <2>5. Two(u, r, shm'.hdr0) /\ Two(r, u, shm'.hdr0)
    BY <2>1, <2>2, <2>3, <1>3, <1>4, <1>6, <1>14 DEF Two, FreshOk, CkptAlone, Limited, Publishing, Working
  <2>6. \A e \in Conn \ {c} : d # e => Two(u, con[e], shm'.hdr0)
    BY <1>4, <2>1
  <2>7. SnapOk(u, shm'.aPgno, wal'.f, db', hist'[snap'[d]])
    BY <2>1, <2>3 DEF SnapOk, Held
  <2> QED BY <2>4, <2>5, <2>6, <2>7 DEF u
<1> HIDE DEF HInv, IInv
<1> QED BY <1>2, <1>10, <1>11, <1>13, <1>15, <1>16, LoudStep

\* Nobody else is in a checkpoint that holds the CKPT lock, nor in one while a
\* recovery runs.
LEMMA NoCheckpoint ==
  ASSUME IInv, HInv, NEW c \in Conn, con[c].then = "recover" \/ con[c].op = "ckpt",
         NEW d \in Conn \ {c}
  PROVE  con[d].op # "ckpt" /\ ~Checkpointing(con[d])
<1>1. /\ OneNow(con[c]) /\ OneNow(con[d]) /\ Ctl(con[d])
      /\ Two(con[d], con[c], shm.hdr0) /\ Two(con[c], con[d], shm.hdr0)
      /\ con[d].op \in {"none", "read", "ckpt", "rewal"}
  BY Facts, ConnTypes
<1>2. con[d].op # "ckpt"
  BY <1>1 DEF OneNow, One, CallLocks, Two, CkptAlone
<1> QED BY <1>1, <1>2 DEF Ctl, Checkpointing, Working

\* Recovery ends: nothing counts as backfilled.
LEMMA EndRecoverH ==
  ASSUME IInv, HInv, sc' = sc, NEW c \in Conn, EndRecover(c)
  PROVE  HInv'
<1> DEFINE q == con[c]
           marks == [i \in Mark |-> IF i = 1 /\ q.hdr.mx > 0 THEN q.hdr.mx ELSE NOT_USED]
           r == [q EXCEPT !.pc = AfterHdr(q.op), !.then = "none", !.writeLock = FALSE,
                          !.excl = {}]
<1>1. /\ q \in ConSet(sc) /\ Ctl(q) /\ Held(sc, q) /\ OneNow(q) /\ sc \in Scenarios
      /\ \A d \in Conn \ {c} : Two(q, con[d], shm.hdr0) /\ Two(con[d], q, shm.hdr0)
      /\ q.op \in {"none", "read", "ckpt", "rewal"} /\ q.readLock \in -1..sc.nReader-1
      /\ q.hdr.mx \in Nat
  BY Facts, ConnTypes, Numerals DEF IInv, TypeInv
<1>2. /\ Only(c, r) /\ UNCHANGED <<wal, db, hist, head, snap, nSalt>> /\ nSalt \in Nat
      /\ shm' = [shm EXCEPT !.nBackfill = 0, !.aReadMark = marks] /\ shm \in ShmSet(sc)
  BY DEF IInv, TypeInv, EndRecover, Become, Only, ghosts
<1>3. q.pc = "recover" /\ q.then = "recover" /\ q.op \in {"read", "ckpt"} /\ q.writeLock = TRUE
  BY <1>1 DEF EndRecover, Ctl, Held
<1> HIDE DEF marks
<1>4. /\ shm'.hdr0 = shm.hdr0 /\ shm'.nBackfill = 0 /\ shm'.aPgno = shm.aPgno
      /\ shm'.aReadMark = marks
  BY <1>2 DEF ShmSet
<1>6. /\ r.pc = AfterHdr(q.op) /\ r.then = "none" /\ r.hdr = q.hdr /\ r.op = q.op /\ r.h1 = q.h1
      /\ r.readLock = q.readLock /\ r.ckptLock = q.ckptLock /\ r.mode = q.mode
      /\ r.prior = q.prior /\ r.minFrame = q.minFrame
  <2> HIDE DEF q
  <2> QED BY <1>1 DEF ConSet
<1> HIDE DEF q, r
<1>7. RecoveredMx' = RecoveredMx /\ RecoveredVer' = RecoveredVer
  BY <1>2 DEF RecoveredMx, RecoveredVer, ValidFrames, MaxFrame
<1>8. Backed(wal.f, db, shm.hdr0.mx, 0)
  BY DEF Backed
<1>9. HistInv' /\ SurvInv' /\ PubInv'
  BY <1>2, <1>4, <1>7, <1>8 DEF HInv, HistInv, SurvInv, PubInv, PubOk
<1>10. q.hdr = shm.hdr0 /\ q.readLock = -1
  BY <1>1, <1>3 DEF OneNow, One, RecoverOk, CallLocks
<1>11. r.mode # "TRUNCATE" /\ r.hdr.ck <= head
  BY <1>1, <1>3, <1>6, <1>10 DEF Held, HInv, HistInv
<1>12. OneNext(r)
  BY <1>1, <1>2, <1>3, <1>4, <1>6, <1>7, <1>10, <1>11 DEF AfterHdr, OneNext, OneNow, One, Ctl,
     Marks, InitOk, CallLocks, CommitOk, RecoverOk, RestartOk, ReadOk, CkptOk, WorkOk,
     UsesHdr, Publishing, Checkpointing, Working
<1>13. SnapOk(r, shm'.aPgno, wal'.f, db', hist'[snap'[c]])
  BY <1>3, <1>6 DEF SnapOk, AfterHdr
<1>14. ASSUME NEW d \in Conn \ {c}
       PROVE  /\ OneNext(con[d]) /\ Two(con[d], r, shm'.hdr0) /\ Two(r, con[d], shm'.hdr0)
              /\ \A e \in Conn \ {c} : d # e => Two(con[d], con[e], shm'.hdr0)
              /\ SnapOk(con[d], shm'.aPgno, wal'.f, db', hist'[snap'[d]])
  <2> DEFINE u == con[d]
  <2>1. /\ OneNow(u) /\ Two(u, q, shm.hdr0) /\ Two(q, u, shm.hdr0) /\ Ctl(u) /\ Held(sc, u)
        /\ u.readLock \notin q.excl /\ u.readLock \in -1..sc.nReader-1 /\ sc.nReader \in Nat
        /\ \A e \in Conn \ {c} : d # e => Two(u, con[e], shm.hdr0)
        /\ SnapOk(u, shm.aPgno, wal.f, db, hist[snap[d]])
    BY Facts, ApartFacts DEF q
  <2>2. u.op # "ckpt" /\ ~Checkpointing(u) /\ u.then = "none" /\ ~Publishing(u)
    BY <1>3, NoCheckpoint, OneWriter DEF q
  <2> HIDE DEF u
  <2>3. u.readLock = -1
    BY <1>1, <1>3, <2>1 DEF Held
  <2>4. OneNext(u)
    BY <2>1, <2>2, <2>3, <1>2, <1>4, <1>7 DEF OneNext, OneNow, One, ReadOk, CkptOk, Checkpointing,
       Working
  <2>5. Two(u, r, shm'.hdr0) /\ Two(r, u, shm'.hdr0)
    BY <2>1, <2>2, <2>3, <1>3, <1>4, <1>6 DEF Two, FreshOk, CkptAlone, Limited, Publishing,
       Working, Checkpointing, AfterHdr
  <2>6. \A e \in Conn \ {c} : d # e => Two(u, con[e], shm'.hdr0)
    BY <1>4, <2>1
  <2>7. SnapOk(u, shm'.aPgno, wal'.f, db', hist'[snap'[d]])
    BY <2>1, <1>2, <1>4
  <2> QED BY <2>4, <2>5, <2>6, <2>7 DEF u
<1> HIDE DEF HInv, IInv
<1> QED BY <1>2, <1>9, <1>12, <1>13, <1>14, LoudStep

\* The checkpoint information of a log that was started over.
LEMMA RestartInfoH ==
  ASSUME shm \in ShmSet(sc), RestartInfo
  PROVE  shm'.hdr0 = shm.hdr0 /\ shm'.nBackfill = 0 /\ shm'.aPgno = shm.aPgno
BY DEF RestartInfo, ShmSet

\* The log is restarted: nobody reads it, and nothing of it counts as backfilled.
LEMMA EndRestartH ==
  ASSUME IInv, HInv, sc' = sc, NEW c \in Conn, EndRestart(c)
  PROVE  HInv'
<1> DEFINE q == con[c]
           r == [q EXCEPT !.pc = "mark", !.op = "rewal", !.then = "none", !.readLock = None,
                          !.excl = {}]
<1>1. /\ q \in ConSet(sc) /\ Ctl(q) /\ Held(sc, q) /\ OneNow(q) /\ sc \in Scenarios
      /\ \A d \in Conn \ {c} : Two(q, con[d], shm.hdr0) /\ Two(con[d], q, shm.hdr0)
      /\ q.op \in {"none", "read", "ckpt", "rewal"}
  BY Facts, ConnTypes DEF IInv, TypeInv
<1>2. /\ Only(c, r) /\ UNCHANGED <<wal, db, hist, head, snap, nSalt>> /\ nSalt \in Nat
      /\ RestartInfo /\ shm \in ShmSet(sc)
  BY DEF IInv, TypeInv, EndRestart, Become, Only, ghosts
<1>3. q.pc = "restart" /\ q.then = "restart" /\ q.op = "none" /\ q.writeLock = TRUE
      /\ q.readLock = 0
  BY <1>1 DEF EndRestart, Ctl, Held
<1>4. shm'.hdr0 = shm.hdr0 /\ shm'.nBackfill = 0 /\ shm'.aPgno = shm.aPgno
  BY <1>2, RestartInfoH
<1>6. /\ r.pc = "mark" /\ r.then = "none" /\ r.hdr = q.hdr /\ r.op = "rewal" /\ r.h1 = q.h1
      /\ r.readLock = -1 /\ r.ckptLock = q.ckptLock /\ r.mode = q.mode /\ r.prior = q.prior
  <2> HIDE DEF q
  <2> QED BY <1>1 DEF ConSet, None
<1> HIDE DEF q, r
<1>7. RecoveredMx' = RecoveredMx /\ RecoveredVer' = RecoveredVer
  BY <1>2 DEF RecoveredMx, RecoveredVer, ValidFrames, MaxFrame
<1>8. Backed(wal.f, db, shm.hdr0.mx, 0)
  BY DEF Backed
<1>9. HistInv' /\ SurvInv' /\ PubInv'
  BY <1>2, <1>4, <1>7, <1>8 DEF HInv, HistInv, SurvInv, PubInv, PubOk
<1>10. q.hdr = shm.hdr0 /\ shm.hdr0.mx = 0
  BY <1>1, <1>3 DEF OneNow, One, RestartOk
<1>12. OneNext(r)
  BY <1>1, <1>2, <1>3, <1>4, <1>6, <1>7, <1>10 DEF OneNext, OneNow, One, Held, Ctl,
     Marks, InitOk, CallLocks, CommitOk, RecoverOk, RestartOk, ReadOk, CkptOk, WorkOk,
     UsesHdr, Publishing, Checkpointing, Working
<1>13. SnapOk(r, shm'.aPgno, wal'.f, db', hist'[snap'[c]])
  BY <1>6 DEF SnapOk
<1>14. ASSUME NEW d \in Conn \ {c}
       PROVE  /\ OneNext(con[d]) /\ Two(con[d], r, shm'.hdr0) /\ Two(r, con[d], shm'.hdr0)
              /\ \A e \in Conn \ {c} : d # e => Two(con[d], con[e], shm'.hdr0)
              /\ SnapOk(con[d], shm'.aPgno, wal'.f, db', hist'[snap'[d]])
  <2> DEFINE u == con[d]
  <2>1. /\ OneNow(u) /\ Two(u, q, shm.hdr0) /\ Two(q, u, shm.hdr0) /\ Ctl(u) /\ Held(sc, u)
        /\ u.readLock \notin q.excl /\ u.readLock \in -1..sc.nReader-1 /\ sc.nReader \in Nat
        /\ q.readLock \notin u.excl
        /\ \A e \in Conn \ {c} : d # e => Two(u, con[e], shm.hdr0)
        /\ SnapOk(u, shm.aPgno, wal.f, db, hist[snap[d]])
    BY Facts, ApartFacts DEF q
  <2>2. u.then = "none" /\ ~Publishing(u)
    BY <1>3, OneWriter DEF q
  <2> HIDE DEF u
  <2>3. u.readLock \in {-1, 0} /\ u.pc # "copy"
    <3>1. q.excl = 1..sc.nReader-1 /\ (u.pc = "copy" => u.excl = {0})
      BY <1>1, <1>3, <2>1, <2>2 DEF Held
    <3> QED BY <1>3, <2>1, <3>1
  <2>4. OneNext(u)
    BY <2>1, <2>2, <2>3, <1>2, <1>4, <1>7, <1>10 DEF OneNext, OneNow, One, ReadOk, CkptOk
  <2>5. Two(u, r, shm'.hdr0) /\ Two(r, u, shm'.hdr0)
    BY <2>1, <2>2, <2>3, <1>3, <1>4, <1>6 DEF Two, FreshOk, CkptAlone, Limited, Publishing,
       Working
  <2>6. \A e \in Conn \ {c} : d # e => Two(u, con[e], shm'.hdr0)
    BY <1>4, <2>1
  <2>7. SnapOk(u, shm'.aPgno, wal'.f, db', hist'[snap'[d]])
    BY <2>1, <1>2, <1>4
  <2> QED BY <2>4, <2>5, <2>6, <2>7 DEF u
<1> HIDE DEF HInv, IInv
<1> QED BY <1>2, <1>9, <1>12, <1>13, <1>14, LoudStep

\* A log without frames has nothing to recover.
LEMMA NoLogFacts ==
  ASSUME sc \in Scenarios
  PROVE  /\ Whole(NoLog, 0) /\ NoLog.salt = 0 /\ Numbers(NoLog.f, sc.maxFrame)
         /\ LastCommit(NoLog, sc.maxFrame) = 0
<1>1. sc.maxFrame \in Nat
  BY ScFacts
<1>2. \A i \in 1..sc.maxFrame : NoLog.f[i] = NoFrame
  BY DEF NoLog, MaxFrame
<1>3. Whole(NoLog, 0) /\ NoLog.salt = 0
  BY DEF Whole, NoLog
<1>4. Numbers(NoLog.f, sc.maxFrame)
  BY <1>2 DEF Numbers, NoFrame
<1>5. Accepted(NoLog, sc.maxFrame) = {}
  <2> SUFFICES ASSUME NEW i \in 1..sc.maxFrame PROVE ~Linked(NoLog, i)
    BY <1>1 DEF Accepted
  <2>1. NoLog.f[i].pg = 0
    BY <1>2 DEF NoFrame
  <2> QED BY <2>1 DEF Linked
<1>6. LastCommit(NoLog, sc.maxFrame) = Max({0})
  <2>1. {0} \cup {i \in Accepted(NoLog, sc.maxFrame) : NoLog.f[i].commit} = {0}
    BY <1>5
  <2> QED BY <2>1 DEF LastCommit
<1>7. Max({0}) = 0
  <2>1. {0} \in SUBSET (0..0) /\ {0} # {} /\ 0 \in Nat
    OBVIOUS
  <2>2. Max({0}) \in {0}
    BY <2>1, MaxFacts, Zenon
  <2> QED BY <2>2
<1> QED BY <1>3, <1>4, <1>6, <1>7

\* The log is truncated: everything is in the database file, and nobody reads
\* the log.
LEMMA CkptTruncateH ==
  ASSUME IInv, HInv, sc' = sc, NEW c \in Conn, CkptTruncate(c)
  PROVE  HInv'
<1> DEFINE q == con[c]
           r == [q EXCEPT !.pc = "ckdone", !.then = "none", !.excl = {}]
<1>1. /\ q \in ConSet(sc) /\ Ctl(q) /\ Held(sc, q) /\ OneNow(q) /\ sc \in Scenarios
      /\ \A d \in Conn \ {c} : Two(q, con[d], shm.hdr0) /\ Two(con[d], q, shm.hdr0)
      /\ q.op \in {"none", "read", "ckpt", "rewal"}
  BY Facts, ConnTypes DEF IInv, TypeInv
<1>2. /\ Only(c, r) /\ UNCHANGED <<db, hist, head, snap, nSalt>> /\ nSalt \in Nat
      /\ RestartInfo /\ shm \in ShmSet(sc) /\ wal' = NoLog
  BY DEF IInv, TypeInv, CkptTruncate, Become, Only, ghosts
<1>3. q.pc = "truncate" /\ q.then = "truncate" /\ q.op = "ckpt" /\ q.writeLock = TRUE
  BY <1>1 DEF CkptTruncate, Ctl, Held
<1>4. shm'.hdr0 = shm.hdr0 /\ shm'.nBackfill = 0 /\ shm'.aPgno = shm.aPgno
  BY <1>2, RestartInfoH
<1>6. /\ r.pc = "ckdone" /\ r.then = "none" /\ r.hdr = q.hdr /\ r.op = "ckpt" /\ r.h1 = q.h1
      /\ r.readLock = q.readLock /\ r.ckptLock = q.ckptLock /\ r.mode = q.mode
      /\ r.prior = q.prior
  <2> HIDE DEF q
  <2> QED BY <1>1, <1>3 DEF ConSet
<1> HIDE DEF q, r
<1>7. RecoveredMx' = 0 /\ RecoveredVer' = head
  <2>1. RecoveredMx' = LastCommit(NoLog, sc.maxFrame)
    BY <1>2 DEF RecoveredMx, ValidFrames, MaxFrame, LastCommit, Accepted, Linked
  <2>2. RecoveredMx' = 0
    BY <2>1, <1>1, NoLogFacts
  <2> QED BY <2>2, <1>2 DEF RecoveredVer
<1>8. /\ q.hdr = shm.hdr0 /\ shm.hdr0.mx = 0 /\ InFile(db, hist[head]) /\ q.readLock = -1
      /\ shm.hdr0.isInit = TRUE
  BY <1>1, <1>3 DEF OneNow, One, RestartOk, CallLocks, InitOk, UsesHdr
<1>9. \A f, n : Shows(f, db, 0, hist[head]) /\ Backed(f, db, 0, n)
  BY <1>8 DEF Shows, Backed, InFile
<1>10. HistInv'
  <2>1. 0 <= nSalt
    BY <1>2
  <2> QED BY <2>1, <1>1, <1>2, <1>4, NoLogFacts DEF HInv, HistInv
<1>11. PubInv' /\ SurvInv'
  <2>1. Indexed(shm.aPgno, NoLog.f, 0) /\ Whole(NoLog, 0) /\ head <= head
    BY <1>1, NoLogFacts, ScFacts DEF Indexed, IInv, TypeInv
  <2> QED BY <2>1, <1>2, <1>4, <1>7, <1>8, <1>9 DEF PubInv, SurvInv, PubOk
<1>12. OneNext(r)
  BY <1>1, <1>2, <1>3, <1>4, <1>6, <1>7, <1>8 DEF OneNext, OneNow, One, Held, Ctl,
     Marks, InitOk, CallLocks, CommitOk, RecoverOk, RestartOk, ReadOk, CkptOk, WorkOk,
     UsesHdr, Publishing, Checkpointing, Working
<1>13. SnapOk(r, shm'.aPgno, wal'.f, db', hist'[snap'[c]])
  BY <1>6 DEF SnapOk
<1>14. ASSUME NEW d \in Conn \ {c}
       PROVE  /\ OneNext(con[d]) /\ Two(con[d], r, shm'.hdr0) /\ Two(r, con[d], shm'.hdr0)
              /\ \A e \in Conn \ {c} : d # e => Two(con[d], con[e], shm'.hdr0)
              /\ SnapOk(con[d], shm'.aPgno, wal'.f, db', hist'[snap'[d]])
  <2> DEFINE u == con[d]
  <2>1. /\ OneNow(u) /\ Two(u, q, shm.hdr0) /\ Two(q, u, shm.hdr0) /\ Ctl(u) /\ Held(sc, u)
        /\ u.readLock \notin q.excl /\ u.readLock \in -1..sc.nReader-1 /\ sc.nReader \in Nat
        /\ \A e \in Conn \ {c} : d # e => Two(u, con[e], shm.hdr0)
        /\ SnapOk(u, shm.aPgno, wal.f, db, hist[snap[d]])
    BY Facts, ApartFacts DEF q
  <2>2. u.op # "ckpt" /\ ~Checkpointing(u) /\ u.then = "none" /\ ~Publishing(u)
    BY <1>3, NoCheckpoint, OneWriter DEF q
  <2> HIDE DEF u
  <2>3. u.readLock \in {-1, 0}
    <3>1. q.excl = 1..sc.nReader-1
      BY <1>1, <1>3 DEF Held
    <3> QED BY <2>1, <3>1
  <2>4. OneNext(u)
    BY <2>1, <2>2, <2>3, <1>2, <1>4, <1>7, <1>8 DEF OneNext, OneNow, One, CommitOk, RecoverOk,
       RestartOk, ReadOk, CkptOk, WorkOk, Checkpointing, Working
  <2>5. Two(u, r, shm'.hdr0) /\ Two(r, u, shm'.hdr0)
    BY <2>1, <2>2, <2>3, <1>3, <1>4, <1>6, <1>8 DEF Two, FreshOk, CkptAlone, Limited, Publishing,
       Working, Checkpointing
  <2>6. \A e \in Conn \ {c} : d # e => Two(u, con[e], shm'.hdr0)
    BY <1>4, <2>1
  <2>7. SnapOk(u, shm'.aPgno, wal'.f, db', hist'[snap'[d]])
    <3> SUFFICES ASSUME u.pc \in {"reading", "writing"}
                 PROVE  Sight(u, shm'.aPgno, wal'.f, db', hist'[snap'[d]])
      BY DEF SnapOk
    <3>1. u.readLock = 0 /\ Sight(u, shm.aPgno, wal.f, db, hist[snap[d]])
      BY <2>1, <2>3 DEF Held, SnapOk
    <3> QED BY <3>1, <1>2, <1>4 DEF Sight, Unlogged
  <2> QED BY <2>4, <2>5, <2>6, <2>7 DEF u
<1> HIDE DEF HInv, IInv
<1> QED BY <1>2, <1>10, <1>11, <1>12, <1>13, <1>14, LoudStep

\* A checkpoint that copies does so on behalf of the log as it is.
LEMMA CopyFacts ==
  ASSUME IInv, HInv, ~StaleCheckpoint, NEW c \in Conn, con[c].pc = "copy"
  PROVE  /\ con[c].hdr.salt = shm.hdr0.salt /\ shm.hdr0.isInit = TRUE /\ con[c].op = "ckpt"
         /\ con[c].hdr.mx <= shm.hdr0.mx /\ con[c].mxSafe <= con[c].hdr.mx
         /\ con[c].lo = shm.nBackfill /\ shm.nBackfill < con[c].mxSafe /\ con[c].excl = {0}
         /\ con[c].readLock = -1 /\ con[c].ckptLock = TRUE /\ con[c].then = "none"
         /\ con[c].hdr.mx \in Nat /\ con[c].mxSafe \in Nat /\ con[c].lo \in Nat
         /\ shm.hdr0.mx \in Nat /\ shm.nBackfill \in Nat
<1> DEFINE q == con[c]
<1>1. /\ OneNow(q) /\ Ctl(q) /\ Held(sc, q) /\ q \in ConSet(sc) /\ sc \in Scenarios
      /\ q.op \in {"none", "read", "ckpt", "rewal"}
      /\ q.then \in {"none", "commit", "recover", "restart", "truncate"}
  BY Facts, ConnTypes DEF IInv, TypeInv
<1>2. q.pc = "copy" /\ q.hdr.salt = shm.hdr0.salt
  BY DEF StaleCheckpoint
<1> HIDE DEF q
<1>3. q.then = "none" /\ q.op = "ckpt" /\ Working(q) /\ Checkpointing(q) /\ UsesHdr(q)
  BY <1>1, <1>2 DEF Ctl, Working, Checkpointing, UsesHdr
<1>4. q.excl = {0} /\ q.readLock = -1 /\ q.ckptLock = TRUE
  BY <1>1, <1>2, <1>3 DEF Held, OneNow, One, CallLocks
<1>5. /\ shm.hdr0.isInit = TRUE /\ q.hdr.mx <= shm.hdr0.mx /\ q.mxSafe <= q.hdr.mx
      /\ q.lo = shm.nBackfill /\ shm.nBackfill < q.mxSafe
  BY <1>1, <1>2, <1>3 DEF OneNow, One, InitOk, CkptOk, WorkOk
<1>6. q.hdr.mx \in Nat /\ q.mxSafe \in Nat /\ q.lo \in Nat
  BY <1>1, Numerals
<1>7. shm.hdr0.mx \in Nat /\ shm.nBackfill \in Nat
  BY Published
<1> QED BY <1>2, <1>3, <1>4, <1>5, <1>6, <1>7 DEF q

\* What a checkpoint copies is backfilled.
LEMMA CkptCopiedH ==
  ASSUME IInv, HInv, ~StaleCheckpoint, sc' = sc, NEW c \in Conn, CkptCopied(c)
  PROVE  HInv'
<1> DEFINE q == con[c]
           r == [q EXCEPT !.pc = "ckend", !.excl = {}]
<1>1. /\ q \in ConSet(sc) /\ Ctl(q) /\ Held(sc, q) /\ OneNow(q) /\ sc \in Scenarios
      /\ \A d \in Conn \ {c} : Two(q, con[d], shm.hdr0) /\ Two(con[d], q, shm.hdr0)
  BY Facts DEF IInv, TypeInv
<1>2. /\ Only(c, r) /\ UNCHANGED <<wal, db, hist, head, snap, nSalt>> /\ nSalt \in Nat
      /\ shm' = [shm EXCEPT !.nBackfill = q.mxSafe] /\ shm \in ShmSet(sc)
  BY DEF IInv, TypeInv, CkptCopied, Become, Only, ghosts
<1>3. q.pc = "copy" /\ q.todo = {}
  BY DEF CkptCopied
<1>4. /\ shm'.hdr0 = shm.hdr0 /\ shm'.nBackfill = q.mxSafe /\ shm'.aPgno = shm.aPgno
      /\ shm'.aReadMark = shm.aReadMark
  BY <1>2 DEF ShmSet
<1>5. /\ q.hdr.salt = shm.hdr0.salt /\ shm.hdr0.isInit = TRUE /\ q.op = "ckpt"
      /\ q.hdr.mx <= shm.hdr0.mx /\ q.mxSafe <= q.hdr.mx
      /\ q.lo = shm.nBackfill /\ shm.nBackfill < q.mxSafe /\ q.excl = {0}
      /\ q.readLock = -1 /\ q.ckptLock = TRUE /\ q.then = "none"
      /\ q.hdr.mx \in Nat /\ q.mxSafe \in Nat /\ shm.hdr0.mx \in Nat /\ shm.nBackfill \in Nat
  BY <1>3, CopyFacts
<1>6. /\ r.pc = "ckend" /\ r.then = q.then /\ r.hdr = q.hdr /\ r.op = q.op /\ r.h1 = q.h1
      /\ r.readLock = q.readLock /\ r.ckptLock = q.ckptLock /\ r.mode = q.mode
      /\ r.prior = q.prior
  <2> HIDE DEF q
  <2> QED BY <1>1 DEF ConSet
<1> HIDE DEF q, r
<1>7. RecoveredMx' = RecoveredMx /\ RecoveredVer' = RecoveredVer
  BY <1>2 DEF RecoveredMx, RecoveredVer, ValidFrames, MaxFrame
<1>8. Backed(wal.f, db, shm.hdr0.mx, q.mxSafe)
  <2> SUFFICES ASSUME NEW p \in Page, NEW i \in 1..shm.hdr0.mx, Hits(wal.f, p, shm.hdr0.mx, i),
                      i <= q.mxSafe
               PROVE  db[p] = wal.f[i].ver
    BY DEF Backed
  <2>1. CASE i <= shm.nBackfill
    BY <2>1, Published DEF Backed
  <2>2. CASE i > shm.nBackfill
    <3>1. i \in 1..q.hdr.mx /\ Hits(wal.f, p, q.hdr.mx, i)
      BY <1>5, HitsUp
    <3>2. WorkOk(q, shm.hdr0, wal.f, db) /\ Working(q) /\ <<p, i>> \notin q.todo
      BY <1>1, <1>3 DEF OneNow, One, Working
    <3> QED BY <2>2, <3>1, <3>2, <1>5 DEF WorkOk
  <2> QED BY <2>1, <2>2, <1>5
<1>9. HistInv' /\ SurvInv' /\ PubInv'
  BY <1>2, <1>4, <1>5, <1>7, <1>8 DEF HInv, HistInv, SurvInv, PubInv, PubOk
<1>12. OneNext(r)
  BY <1>1, <1>2, <1>3, <1>4, <1>5, <1>6, <1>7 DEF OneNext, OneNow, One,
     Marks, InitOk, CallLocks, CommitOk, RecoverOk, RestartOk, ReadOk, CkptOk, WorkOk,
     UsesHdr, Publishing, Checkpointing, Working
<1>13. SnapOk(r, shm'.aPgno, wal'.f, db', hist'[snap'[c]])
  BY <1>6 DEF SnapOk
<1>14. ASSUME NEW d \in Conn \ {c}
       PROVE  /\ OneNext(con[d]) /\ Two(con[d], r, shm'.hdr0) /\ Two(r, con[d], shm'.hdr0)
              /\ \A e \in Conn \ {c} : d # e => Two(con[d], con[e], shm'.hdr0)
              /\ SnapOk(con[d], shm'.aPgno, wal'.f, db', hist'[snap'[d]])
  <2> DEFINE u == con[d]
  <2>1. /\ OneNow(u) /\ Two(u, q, shm.hdr0) /\ Two(q, u, shm.hdr0) /\ Ctl(u) /\ Held(sc, u)
        /\ u.readLock \notin q.excl /\ u \in ConSet(sc)
        /\ \A e \in Conn \ {c} : d # e => Two(u, con[e], shm.hdr0)
        /\ SnapOk(u, shm.aPgno, wal.f, db, hist[snap[d]])
    BY Facts, ApartFacts DEF q
  <2>2. u.op # "ckpt" /\ ~Checkpointing(u)
    BY <1>5, NoCheckpoint DEF q
  <2> HIDE DEF u
  <2>3. u.minFrame \in Nat /\ u.readLock # 0
    BY <2>1, <1>1, <1>5, Numerals
  <2>4. OneNext(u)
    <3>1. ReadOk(u, shm.hdr0, shm.nBackfill, shm.aReadMark)
          /\ CkptOk(u, shm.hdr0, shm.nBackfill)
      BY <2>1 DEF OneNow, One
    <3>2. u.minFrame <= shm.nBackfill + 1 => u.minFrame <= q.mxSafe + 1
      BY <2>3, <1>5
    <3>3. ReadOk(u, shm.hdr0, q.mxSafe, shm.aReadMark)
      BY <2>3, <3>1, <3>2 DEF ReadOk
    <3>4. CkptOk(u, shm.hdr0, q.mxSafe)
      BY <2>2, <3>1 DEF CkptOk, Checkpointing, Working
    <3> QED BY <2>1, <3>3, <3>4, <1>2, <1>4, <1>7 DEF OneNext, OneNow, One
  <2>5. Two(u, r, shm'.hdr0) /\ Two(r, u, shm'.hdr0)
    BY <2>1, <2>2, <1>3, <1>4, <1>5, <1>6 DEF Two, FreshOk, CkptAlone, Limited, Publishing,
       Working, Checkpointing
  <2>6. \A e \in Conn \ {c} : d # e => Two(u, con[e], shm'.hdr0)
    BY <1>4, <2>1
  <2>7. SnapOk(u, shm'.aPgno, wal'.f, db', hist'[snap'[d]])
    BY <2>1, <1>2, <1>4
  <2> QED BY <2>4, <2>5, <2>6, <2>7 DEF u
<1> HIDE DEF HInv, IInv
<1> QED BY <1>2, <1>9, <1>12, <1>13, <1>14, LoudStep

\* The frame that is copied next is the last one of its page within the header
\* of the checkpoint: it belongs to page t[1], which has not been visited.
LEMMA TakeFacts ==
  ASSUME IInv, HInv, ~StaleCheckpoint, NEW c \in Conn, con[c].pc = "copy",
         NEW t \in con[c].todo
  PROVE  /\ t[1] \in Page /\ t[2] \in 1..con[c].hdr.mx /\ t[2] \in Nat
         /\ t[1] \in Nat /\ con[c].prior \in Nat
         /\ Hits(wal.f, t[1], con[c].hdr.mx, t[2])
         /\ shm.aPgno[t[2]] = t[1] /\ wal.f[t[2]].pg = t[1] /\ t[1] > con[c].prior
         /\ t = <<t[1], t[2]>>
<1>1. /\ OneNow(con[c]) /\ con[c] \in ConSet(sc) /\ sc \in Scenarios
      /\ con[c].todo \in SUBSET (Page \X (1..sc.maxFrame))
  BY Facts, ConFields DEF IInv, TypeInv
<1>2. /\ con[c].hdr.salt = shm.hdr0.salt /\ con[c].hdr.mx <= shm.hdr0.mx
      /\ con[c].hdr.mx \in Nat /\ shm.hdr0.mx \in Nat
  BY CopyFacts
<1>3. t[1] \in Page /\ t[2] \in 1..sc.maxFrame /\ t = <<t[1], t[2]>>
  BY <1>1
<1>4. Hits(wal.f, t[1], con[c].hdr.mx, t[2]) /\ t[1] > con[c].prior
  BY <1>1, <1>2 DEF OneNow, One, WorkOk, Working
<1>5. t[2] \in 1..con[c].hdr.mx /\ wal.f[t[2]].pg = t[1]
  BY <1>4 DEF Hits
<1>6. Indexed(shm.aPgno, wal.f, shm.hdr0.mx)
  BY Published
<1>7. shm.aPgno[t[2]] = t[1]
  BY <1>2, <1>5, <1>6 DEF Indexed
<1>8. t[1] \in Nat /\ t[2] \in Nat /\ con[c].prior \in Nat
  BY <1>1, <1>2, <1>3, <1>5, Numerals, ScFacts DEF Page
<1> QED BY <1>3, <1>4, <1>5, <1>7, <1>8

\* A copy is of the page of a frame beyond what is backfilled.
LEMMA CkptCopyH ==
  ASSUME IInv, HInv, ~StaleCheckpoint, sc' = sc, NEW c \in Conn, CkptCopy(c)
  PROVE  HInv'
<1> DEFINE q == con[c]
<1>1. /\ q \in ConSet(sc) /\ Ctl(q) /\ Held(sc, q) /\ OneNow(q) /\ sc \in Scenarios
      /\ \A d \in Conn \ {c} : Two(q, con[d], shm.hdr0) /\ Two(con[d], q, shm.hdr0)
      /\ db \in [Page -> 0..sc.maxTxn] /\ q.todo \in SUBSET (Page \X (1..sc.maxFrame))
  BY Facts, ConFields DEF IInv, TypeInv
<1>2. PICK t \in q.todo :
        LET pg == shm.aPgno[t[2]]
            take == IteratorTakes(c, t)
            copy == take /\ q.lo < t[2] /\ t[2] <= q.mxSafe
        IN /\ \A u \in q.todo : t[1] <= u[1]
           /\ db' = IF copy THEN [db EXCEPT ![pg] = wal.f[t[2]].ver] ELSE db
           /\ Become(c, [q EXCEPT !.todo = @ \ {t}, !.prior = IF take THEN pg ELSE @])
  BY DEF CkptCopy
<1>3. q.pc = "copy" /\ UNCHANGED <<shm, wal, hist, head, snap, nSalt>> /\ nSalt \in Nat
  BY DEF CkptCopy, ghosts, IInv, TypeInv
<1> DEFINE p0 == t[1]
           k == t[2]
           todo == q.todo \ {t}
           r == [q EXCEPT !.todo = todo, !.prior = p0]
<1>4. /\ p0 \in Page /\ k \in 1..q.hdr.mx /\ k \in Nat /\ p0 \in Nat /\ q.prior \in Nat
      /\ Hits(wal.f, p0, q.hdr.mx, k) /\ shm.aPgno[k] = p0 /\ wal.f[k].pg = p0 /\ p0 > q.prior
      /\ t = <<p0, k>>
  BY <1>3, <1>2, TakeFacts
<1>5. /\ q.hdr.salt = shm.hdr0.salt /\ shm.hdr0.isInit = TRUE /\ q.op = "ckpt"
      /\ q.hdr.mx <= shm.hdr0.mx /\ q.mxSafe <= q.hdr.mx
      /\ q.lo = shm.nBackfill /\ shm.nBackfill < q.mxSafe /\ q.excl = {0}
      /\ q.readLock = -1 /\ q.ckptLock = TRUE /\ q.then = "none"
      /\ q.hdr.mx \in Nat /\ q.mxSafe \in Nat /\ shm.hdr0.mx \in Nat /\ shm.nBackfill \in Nat
  BY <1>3, CopyFacts
<1>6. IteratorTakes(c, t)
  BY <1>4 DEF IteratorTakes
<1>7. /\ \A u \in q.todo : p0 <= u[1]
      /\ db' = IF q.lo < k /\ k <= q.mxSafe THEN [db EXCEPT ![p0] = wal.f[k].ver] ELSE db
      /\ Become(c, r)
  BY <1>2, <1>4, <1>6
<1>8. Only(c, r)
  BY <1>7 DEF Become, Only, IInv, TypeInv
<1>9. /\ \A p \in Page : p # p0 => db'[p] = db[p]
      /\ shm.nBackfill < k /\ k <= q.mxSafe => db'[p0] = wal.f[k].ver
      /\ ~(shm.nBackfill < k /\ k <= q.mxSafe) => db' = db
  BY <1>1, <1>4, <1>5, <1>7
<1>10. /\ r.pc = "copy" /\ r.then = q.then /\ r.hdr = q.hdr /\ r.op = q.op /\ r.h1 = q.h1
       /\ r.readLock = q.readLock /\ r.ckptLock = q.ckptLock /\ r.mode = q.mode
       /\ r.lo = q.lo /\ r.mxSafe = q.mxSafe /\ r.todo = todo /\ r.prior = p0 /\ r.i = q.i
  <2> HIDE DEF q, todo
  <2> QED BY <1>1, <1>3 DEF ConSet
<1> HIDE DEF r
<1>11. RecoveredMx' = RecoveredMx /\ RecoveredVer' = RecoveredVer
  BY <1>3 DEF RecoveredMx, RecoveredVer, ValidFrames, MaxFrame
<1>12. k \in 1..shm.hdr0.mx /\ k \in 1..RecoveredMx
  BY <1>4, <1>5, Published
<1>13. HistInv'
  BY <1>3 DEF HInv, HistInv
<1>14. PubInv' /\ SurvInv'
  <2>1. PubOk(shm.hdr0, shm.aPgno, shm.nBackfill, wal, db, head, hist[head])
        /\ Shows(wal.f, db, RecoveredMx, hist[RecoveredVer]) /\ RecoveredVer >= head
    BY DEF HInv, PubInv, SurvInv
  <2>2. \A p \in Page : p # wal.f[k].pg => db'[p] = db[p]
    BY <1>4, <1>9
  <2>3. \A m, img : k \in 1..m /\ Shows(wal.f, db, m, img) => Shows(wal.f, db', m, img)
    BY <2>2, Zenon DEF Shows, Absent
  <2>4. Backed(wal.f, db', shm.hdr0.mx, shm.nBackfill)
    <3> SUFFICES ASSUME NEW p \in Page, NEW i \in 1..shm.hdr0.mx, Hits(wal.f, p, shm.hdr0.mx, i),
                        i <= shm.nBackfill
                 PROVE  db'[p] = wal.f[i].ver
      BY DEF Backed
    <3>1. db[p] = wal.f[i].ver
      BY Published DEF Backed
    <3>2. CASE p # p0
      BY <1>9, <3>1, <3>2
    <3>3. CASE p = p0
      <4>1. k <= i
        BY <1>4, <1>12, <3>3 DEF Hits
      <4>2. ~(shm.nBackfill < k)
        BY <4>1, <1>4, <1>5
      <4> QED BY <4>2, <3>1, <1>9
    <3> QED BY <3>2, <3>3
  <2> QED BY <2>1, <2>3, <2>4, <1>3, <1>5, <1>11, <1>12 DEF PubInv, PubOk, SurvInv
<1>15. OneNext(r)
  <2>1. WorkOk(r, shm.hdr0, wal.f, db')
    <3> SUFFICES /\ r.mxSafe <= r.hdr.mx
                 /\ \A u \in r.todo : Hits(wal.f, u[1], r.hdr.mx, u[2]) /\ u[1] > r.prior
                 /\ \A p \in Page : \A i \in 1..r.hdr.mx :
                      Hits(wal.f, p, r.hdr.mx, i) /\ <<p, i>> \notin r.todo =>
                        (r.lo < i /\ i <= r.mxSafe => db'[p] = wal.f[i].ver)
      BY <1>10 DEF WorkOk
    <3>1. ASSUME NEW u \in todo PROVE Hits(wal.f, u[1], q.hdr.mx, u[2]) /\ u[1] > p0
      <4>1. u \in q.todo
        OBVIOUS
      <4>2. /\ Hits(wal.f, u[1], q.hdr.mx, u[2]) /\ u = <<u[1], u[2]>> /\ u[2] \in Nat
            /\ u[1] \in Nat
        BY <4>1, <1>3, TakeFacts
      <4>3. u[1] # p0
        <5> SUFFICES ASSUME u[1] = p0 PROVE FALSE
          OBVIOUS
        <5>1. u[2] = k
          BY <4>2, <1>4, <1>5, OneHit
        <5> QED BY <5>1, <4>2, <1>4
      <4> QED BY <4>1, <4>2, <4>3, <1>4, <1>7
    <3>2. ASSUME NEW p \in Page, NEW i \in 1..q.hdr.mx, Hits(wal.f, p, q.hdr.mx, i),
                 <<p, i>> \notin todo, q.lo < i, i <= q.mxSafe
          PROVE  db'[p] = wal.f[i].ver
      <4>1. CASE p = p0
        <5>1. i = k
          BY <4>1, <3>2, <1>4, <1>5, OneHit
        <5> QED BY <5>1, <4>1, <3>2, <1>5, <1>9
      <4>2. CASE p # p0
        <5>1. <<p, i>> \notin q.todo
          BY <4>2, <3>2, <1>4
        <5>2. db[p] = wal.f[i].ver
          BY <5>1, <3>2, <1>1, <1>3, <1>5 DEF OneNow, One, WorkOk, Working
        <5> QED BY <5>2, <4>2, <1>9
      <4> QED BY <4>1, <4>2
    <3> QED BY <3>1, <3>2, <1>5, <1>10
  <2> HIDE DEF q
  <2> QED BY <2>1, <1>1, <1>3, <1>5, <1>10, <1>11 DEF OneNext, OneNow, One, Marks, InitOk, CallLocks,
       CommitOk, RecoverOk, RestartOk, ReadOk, CkptOk, UsesHdr, Publishing, Checkpointing, Working
<1>16. SnapOk(r, shm'.aPgno, wal'.f, db', hist'[snap'[c]])
  BY <1>10 DEF SnapOk
<1>17. ASSUME NEW d \in Conn \ {c}
       PROVE  /\ OneNext(con[d]) /\ Two(con[d], r, shm'.hdr0) /\ Two(r, con[d], shm'.hdr0)
              /\ \A e \in Conn \ {c} : d # e => Two(con[d], con[e], shm'.hdr0)
              /\ SnapOk(con[d], shm'.aPgno, wal'.f, db', hist'[snap'[d]])
  <2> DEFINE u == con[d]
  <2>1. /\ OneNow(u) /\ Two(u, q, shm.hdr0) /\ Two(q, u, shm.hdr0) /\ Ctl(u) /\ Held(sc, u)
        /\ u.readLock \notin q.excl /\ q.readLock \notin u.excl /\ u \in ConSet(sc)
        /\ u.readLock \in -1..sc.nReader-1 /\ sc.nReader \in Nat
        /\ \A e \in Conn \ {c} : d # e => Two(u, con[e], shm.hdr0)
        /\ SnapOk(u, shm.aPgno, wal.f, db, hist[snap[d]])
    BY Facts, ApartFacts
  <2>2. u.op # "ckpt" /\ ~Checkpointing(u)
    BY <1>5, NoCheckpoint
  <2> HIDE DEF u, q
  <2>3. u.minFrame \in Nat /\ u.hdr.mx \in Nat /\ u.readLock # 0
    BY <2>1, <1>1, <1>5, Numerals
  <2>4. OneNext(u)
    <3>1. u.then \notin {"restart", "truncate"}
      BY <2>1, <2>2, <2>3 DEF Ctl, Held
    <3> QED BY <2>1, <2>2, <3>1, <1>3, <1>11 DEF OneNext, OneNow, One, RestartOk, WorkOk,
          Checkpointing
  <2>5. Two(u, r, shm'.hdr0) /\ Two(r, u, shm'.hdr0)
    BY <2>1, <2>2, <1>3, <1>5, <1>10 DEF Two, FreshOk, CkptAlone, Limited, Publishing,
       Working, Checkpointing, AtMark
  <2>6. \A e \in Conn \ {c} : d # e => Two(u, con[e], shm'.hdr0)
    BY <1>3, <2>1
  <2>7. SnapOk(u, shm'.aPgno, wal'.f, db', hist'[snap'[d]])
    <3> SUFFICES ASSUME u.pc \in {"reading", "writing"}
                 PROVE  Sight(u, shm.aPgno, wal.f, db', hist[snap[d]])
      BY <1>3 DEF SnapOk
    <3>1. Sight(u, shm.aPgno, wal.f, db, hist[snap[d]]) /\ u.readLock > 0
      BY <2>1, <2>3 DEF Held, SnapOk
    <3>2. u.minFrame <= shm.nBackfill + 1 /\ q.mxSafe <= u.hdr.mx
      BY <2>1, <3>1, <1>1, <1>3, <1>5 DEF OneNow, One, ReadOk, Two, Limited, Working, AtMark
    <3>3. ASSUME NEW p \in Page, Unlogged(u, shm.aPgno, p) PROVE db'[p] = db[p]
      <4>1. CASE p # p0
        BY <4>1, <1>9
      <4>2. CASE p = p0
        <5>1. ~(k \in u.minFrame..u.hdr.mx)
          BY <4>2, <3>3, <3>1, <1>4 DEF Unlogged
        <5>2. ~(shm.nBackfill < k /\ k <= q.mxSafe)
          BY <5>1, <3>2, <2>3, <1>4, <1>5
        <5> QED BY <5>2, <1>9
      <4> QED BY <4>1, <4>2
    <3> QED BY <3>1, <3>3 DEF Sight
  <2> QED BY <2>4, <2>5, <2>6, <2>7 DEF u
<1> HIDE DEF HInv, IInv
<1> QED BY <1>3, <1>8, <1>13, <1>14, <1>15, <1>16, <1>17, LoudStep

\* What a step that publishes a header changes.
LEMMA PublishFacts ==
  ASSUME IInv, HInv, sc' = sc, NEW c \in Conn, WriteHdr0(c), NEW r,
         r = [con[c] EXCEPT !.pc = con[c].then]
  PROVE  /\ con[c].pc = "write0" /\ Only(c, r) /\ UNCHANGED <<wal, db, hist, snap, nSalt>>
         /\ nSalt \in Nat /\ head \in Nat
         /\ head' = IF con[c].then \in {"commit", "recover"} /\ con[c].hdr.mx > 0
                    THEN con[c].hdr.ck ELSE head
         /\ shm'.hdr0 = con[c].hdr /\ shm'.nBackfill = shm.nBackfill
         /\ shm'.aPgno = shm.aPgno /\ shm'.aReadMark = shm.aReadMark
         /\ r.pc = con[c].then /\ r.then = con[c].then /\ r.hdr = con[c].hdr
         /\ r.op = con[c].op /\ r.h1 = con[c].h1 /\ r.readLock = con[c].readLock
         /\ r.minFrame = con[c].minFrame /\ r.ckptLock = con[c].ckptLock
         /\ r.mode = con[c].mode /\ r.prior = con[c].prior
         /\ con[c].hdr.isInit = TRUE /\ con[c].hdr.salt <= nSalt
         /\ con[c].hdr.mx \in Nat /\ con[c].hdr.ck \in Nat /\ con[c].hdr.salt \in Nat
         /\ con[c].writeLock = TRUE
         /\ con[c].then \in {"commit", "recover", "restart", "truncate"}
         /\ RecoveredMx' = RecoveredMx
         /\ RecoveredMx # 0 => RecoveredVer' = RecoveredVer
<1> DEFINE q == con[c]
<1>1. /\ q \in ConSet(sc) /\ Ctl(q) /\ Held(sc, q) /\ OneNow(q) /\ sc \in Scenarios
      /\ q.then \in {"none", "commit", "recover", "restart", "truncate"}
  BY Facts, ConnTypes DEF IInv, TypeInv
<1>2. /\ q.pc = "write0" /\ Become(c, r) /\ UNCHANGED <<wal, db, hist, snap, nSalt>>
      /\ shm' = [shm EXCEPT !.hdr0 = q.hdr] /\ shm \in ShmSet(sc)
  BY DEF WriteHdr0, Goto, IInv, TypeInv
<1>3. q.then # "none" /\ q.writeLock = TRUE
  BY <1>1, <1>2 DEF Ctl, Held
<1>4. /\ shm'.hdr0 = q.hdr /\ shm'.nBackfill = shm.nBackfill /\ shm'.aPgno = shm.aPgno
      /\ shm'.aReadMark = shm.aReadMark
  BY <1>2 DEF ShmSet
<1>5. q.hdr.isInit = TRUE /\ q.hdr.salt <= nSalt
  BY <1>1, <1>3 DEF OneNow, One, InitOk, UsesHdr, Marks
<1>6. q.hdr.mx \in Nat /\ q.hdr.ck \in Nat /\ q.hdr.salt \in Nat /\ nSalt \in Nat /\ head \in Nat
  BY <1>1, Numerals, ScFacts DEF IInv, TypeInv
<1>7. RecoveredMx' = RecoveredMx
  BY <1>2 DEF RecoveredMx, ValidFrames, MaxFrame
<1>8. RecoveredMx # 0 => RecoveredVer' = RecoveredVer
  BY <1>2, <1>7 DEF RecoveredVer
<1>9. Only(c, r)
  BY <1>2 DEF Become, Only, IInv, TypeInv
<1>10. head' = IF q.then \in {"commit", "recover"} /\ q.hdr.mx > 0 THEN q.hdr.ck ELSE head
  BY DEF WriteHdr0
<1> HIDE DEF q
<1>11. /\ r.pc = q.then /\ r.then = q.then /\ r.hdr = q.hdr
       /\ r.op = q.op /\ r.h1 = q.h1 /\ r.readLock = q.readLock
       /\ r.minFrame = q.minFrame /\ r.ckptLock = q.ckptLock
       /\ r.mode = q.mode /\ r.prior = q.prior
  BY <1>1 DEF ConSet, q
<1> QED BY <1>1, <1>2, <1>3, <1>4, <1>5, <1>6, <1>7, <1>8, <1>9, <1>10, <1>11 DEF q

\* A header that is published is of the log it was, and longer, or its salt is
\* one nobody has seen.
LEMMA NewHeader ==
  ASSUME IInv, HInv, NEW c \in Conn, Publishing(con[c]), con[c].then # "recover",
         con[c].hdr.salt # shm.hdr0.salt, NEW d \in Conn \ {c}
  PROVE  con[d].hdr.salt # con[c].hdr.salt /\ con[d].h1.salt # con[c].hdr.salt
<1>1. Two(con[c], con[d], shm.hdr0)
  BY Facts
<1> QED BY <1>1 DEF Two, FreshOk

\* A connection without the WRITE lock, when a commit or a restart publishes g.
LEMMA OthersPublish ==
  ASSUME IInv, HInv, NEW c \in Conn, con[c].writeLock = TRUE, NEW d \in Conn \ {c},
         NEW g, NEW hd \in Nat, NEW img, g.isInit = TRUE, head <= hd, head \in Nat,
         con[d].hdr.salt = g.salt => g.salt = shm.hdr0.salt /\ shm.hdr0.mx <= g.mx,
         con[d].h1.salt = g.salt => g.salt = shm.hdr0.salt /\ shm.hdr0.mx <= g.mx,
         con[d].hdr # g, g.mx \in Nat
  PROVE  /\ One(con[d], g, shm.aPgno, shm.nBackfill, shm.aReadMark, wal, db, hd, img,
                RecoveredMx, nSalt)
         /\ \A q : Two(con[d], q, shm.hdr0) => Two(con[d], q, g)
<1> DEFINE u == con[d]
<1>1. /\ OneNow(u) /\ Held(sc, u) /\ u \in ConSet(sc) /\ sc \in Scenarios
  BY Facts DEF IInv, TypeInv
<1>2. u.then = "none" /\ ~Publishing(u) /\ u.writeLock = FALSE
  BY OneWriter
<1>3. /\ u.hdr.mx \in Nat /\ u.h1.mx \in Nat /\ u.hdr.ck \in Nat /\ u.h1.ck \in Nat
      /\ shm.hdr0.mx \in Nat
  BY <1>1, Numerals, Published
<1>4. u.hdr.salt = g.salt => g.salt = shm.hdr0.salt /\ shm.hdr0.mx <= g.mx
  OBVIOUS
<1>5. u.h1.salt = g.salt => g.salt = shm.hdr0.salt /\ shm.hdr0.mx <= g.mx
  OBVIOUS
<1>6. u.hdr # g
  OBVIOUS
<1> HIDE DEF u
<1>7. u.mode # "TRUNCATE"
  BY <1>1, <1>2 DEF Held
<1>8. Marks(u, nSalt, hd) /\ InitOk(u, g) /\ CallLocks(u)
  BY <1>1, <1>2, <1>3 DEF OneNow, One, Marks, InitOk
<1>9. ReadOk(u, g, shm.nBackfill, shm.aReadMark)
  BY <1>1, <1>6 DEF OneNow, One, ReadOk
<1>10. CkptOk(u, g, shm.nBackfill)
  BY <1>1, <1>3, <1>4, <1>5, <1>7 DEF OneNow, One, CkptOk
<1>11. WorkOk(u, g, wal.f, db)
  BY <1>1, <1>4 DEF OneNow, One, WorkOk
<1>12. \A q : Two(u, q, shm.hdr0) => Two(u, q, g)
  BY <1>2, <1>4 DEF Two, FreshOk, Limited
<1> QED BY <1>1, <1>2, <1>8, <1>9, <1>10, <1>11, <1>12 DEF OneNow, One, CommitOk, RecoverOk, RestartOk, u

\* A commit becomes visible: the header published covers what recovery finds.
LEMMA PublishCommitH ==
  ASSUME IInv, HInv, ~TornRestart, sc' = sc, NEW c \in Conn, WriteHdr0(c),
         con[c].then = "commit"
  PROVE  HInv'
<1> DEFINE q == con[c]
           r == [q EXCEPT !.pc = q.then]
<1>1. /\ q \in ConSet(sc) /\ Ctl(q) /\ Held(sc, q) /\ OneNow(q) /\ sc \in Scenarios
      /\ \A d \in Conn \ {c} : Two(q, con[d], shm.hdr0) /\ Two(con[d], q, shm.hdr0)
      /\ q.op \in {"none", "read", "ckpt", "rewal"} /\ q.readLock \in -1..sc.nReader-1
      /\ q.h1.ck \in Nat
  BY Facts, ConnTypes, Numerals DEF IInv, TypeInv
<1>2. /\ q.pc = "write0" /\ Only(c, r) /\ UNCHANGED <<wal, db, hist, snap, nSalt>>
      /\ nSalt \in Nat /\ head \in Nat /\ q.writeLock = TRUE
      /\ shm'.hdr0 = q.hdr /\ shm'.nBackfill = shm.nBackfill
      /\ shm'.aPgno = shm.aPgno /\ shm'.aReadMark = shm.aReadMark
      /\ q.hdr.isInit = TRUE /\ q.hdr.salt <= nSalt /\ RecoveredMx' = RecoveredMx
      /\ q.hdr.mx \in Nat /\ q.hdr.ck \in Nat /\ q.hdr.salt \in Nat
      /\ head' = IF q.then \in {"commit", "recover"} /\ q.hdr.mx > 0 THEN q.hdr.ck ELSE head
      /\ RecoveredMx # 0 => RecoveredVer' = RecoveredVer
  BY PublishFacts
<1>3. /\ r.pc = q.then /\ r.then = q.then /\ r.hdr = q.hdr /\ r.op = q.op /\ r.h1 = q.h1
      /\ r.readLock = q.readLock /\ r.minFrame = q.minFrame /\ r.ckptLock = q.ckptLock
      /\ r.mode = q.mode /\ r.prior = q.prior
  BY PublishFacts
<1>4. /\ shm.hdr0.mx \in Nat /\ shm.nBackfill \in Nat /\ RecoveredMx \in Nat
      /\ shm.hdr0.mx <= RecoveredMx /\ Backed(wal.f, db, shm.hdr0.mx, shm.nBackfill)
      /\ Shows(wal.f, db, RecoveredMx, hist[RecoveredVer]) /\ RecoveredVer >= head
      /\ Whole(wal, RecoveredMx)
  BY Published, RecoveredWhole
<1> HIDE DEF q, r
<1>5. /\ q.then = "commit" /\ q.hdr.mx # 0 /\ q.hdr.mx = RecoveredMx /\ shm.hdr0.mx < RecoveredMx
      /\ q.hdr.salt = wal.salt /\ q.hdr.ck = wal.f[RecoveredMx].ver /\ q.hdr.ck > head
      /\ Indexed(shm.aPgno, wal.f, RecoveredMx)
  <2>1. q.then = "commit"
    BY DEF q
  <2> QED BY <2>1, <1>1, <1>2 DEF OneNow, One, CommitOk, Publishing
<1>6. head' = q.hdr.ck /\ RecoveredVer = q.hdr.ck /\ head <= q.hdr.ck /\ q.hdr.ck <= q.hdr.ck
  BY <1>2, <1>4, <1>5 DEF RecoveredVer
<1>7. shm.nBackfill <= shm.hdr0.mx
  BY <1>1, <1>2, <1>5, BackfillBound DEF q
<1>8. Backed(wal.f, db, RecoveredMx, shm.nBackfill)
  <2> SUFFICES ASSUME NEW p \in Page, NEW i \in 1..RecoveredMx, Hits(wal.f, p, RecoveredMx, i),
                      i <= shm.nBackfill
               PROVE  db[p] = wal.f[i].ver
    BY DEF Backed
  <2>1. i \in 1..shm.hdr0.mx /\ Hits(wal.f, p, shm.hdr0.mx, i)
    BY <1>4, <1>7, HitsUp
  <2> QED BY <2>1, <1>4 DEF Backed
<1>9. HistInv'
  <2>1. \A d \in Conn : snap[d] <= head /\ snap[d] \in 0..sc.maxTxn
    BY DEF HInv, HistInv
  <2>2. \A d \in Conn : snap[d] <= q.hdr.ck
    BY <1>1, <1>2, <1>6, <2>1, ScFacts
  <2> QED BY <2>2, <1>2, <1>6 DEF HInv, HistInv
<1>10. PubInv' /\ SurvInv'
  BY <1>2, <1>4, <1>5, <1>6, <1>8 DEF PubInv, PubOk, SurvInv
<1>11. OneNext(r)
  BY <1>1, <1>2, <1>3, <1>5, <1>6 DEF OneNext, OneNow, One, Held, Marks, InitOk,
     CallLocks, CommitOk, RecoverOk, RestartOk, ReadOk, CkptOk, WorkOk, UsesHdr, Publishing,
     Checkpointing, Working
<1>12. SnapOk(r, shm'.aPgno, wal'.f, db', hist'[snap'[c]])
  BY <1>3, <1>5 DEF SnapOk
<1>13. ASSUME NEW d \in Conn \ {c}
       PROVE  /\ OneNext(con[d]) /\ Two(con[d], r, shm'.hdr0) /\ Two(r, con[d], shm'.hdr0)
              /\ \A e \in Conn \ {c} : d # e => Two(con[d], con[e], shm'.hdr0)
              /\ SnapOk(con[d], shm'.aPgno, wal'.f, db', hist'[snap'[d]])
  <2>1. /\ OneNow(con[d]) /\ Two(con[d], q, shm.hdr0) /\ Two(q, con[d], shm.hdr0)
        /\ con[d] \in ConSet(sc)
        /\ \A e \in Conn \ {c} : d # e => Two(con[d], con[e], shm.hdr0)
        /\ SnapOk(con[d], shm.aPgno, wal.f, db, hist[snap[d]])
    BY Facts DEF q
  <2>2. q.hdr.salt # shm.hdr0.salt => con[d].hdr.salt # q.hdr.salt /\ con[d].h1.salt # q.hdr.salt
    BY <1>2, <1>5, NewHeader DEF q, Publishing
  <2>3. con[d].then = "none" /\ ~Publishing(con[d])
    BY <1>2, OneWriter DEF q
  <2>4. con[d].hdr # q.hdr
    <3>1. con[d].hdr.ck <= head /\ con[d].hdr.ck \in Nat
      BY <1>1, <2>1, <2>3, Numerals DEF OneNow, One, Marks
    <3> QED BY <3>1, <1>2, <1>5
  <2>5. /\ con[d].hdr.salt = q.hdr.salt => q.hdr.salt = shm.hdr0.salt /\ shm.hdr0.mx <= q.hdr.mx
        /\ con[d].h1.salt = q.hdr.salt => q.hdr.salt = shm.hdr0.salt /\ shm.hdr0.mx <= q.hdr.mx
    BY <2>2, <1>4, <1>5
  <2>6. /\ One(con[d], q.hdr, shm.aPgno, shm.nBackfill, shm.aReadMark, wal, db, q.hdr.ck,
               hist[q.hdr.ck], RecoveredMx, nSalt)
        /\ \A z : Two(con[d], z, shm.hdr0) => Two(con[d], z, q.hdr)
    <3>1. con[c].writeLock = TRUE
      BY <1>2 DEF q
    <3> HIDE DEF HInv, IInv
    <3> QED BY <3>1, <2>4, <2>5, <1>2, <1>6, OthersPublish
  <2>7. OneNext(con[d])
    BY <2>6, <1>2, <1>6 DEF OneNext
  <2>8. Two(con[d], r, shm'.hdr0) /\ Two(r, con[d], shm'.hdr0)
    <3>1. Two(con[d], q, q.hdr)
      BY <2>1, <2>6
    <3> QED BY <2>1, <3>1, <1>2, <1>3, <1>5 DEF Two, FreshOk, CkptAlone, Limited, Publishing,
       Working
  <2>9. \A e \in Conn \ {c} : d # e => Two(con[d], con[e], shm'.hdr0)
    BY <1>2, <2>1, <2>6
  <2>10. SnapOk(con[d], shm'.aPgno, wal'.f, db', hist'[snap'[d]])
    BY <2>1, <1>2
  <2> QED BY <2>7, <2>8, <2>9, <2>10
<1> HIDE DEF HInv, IInv
<1> QED BY <1>2, <1>9, <1>10, <1>11, <1>12, <1>13, LoudStep

\* The header of a log that is started over: everything is in the file.
LEMMA PublishRestartH ==
  ASSUME IInv, HInv, sc' = sc, NEW c \in Conn, WriteHdr0(c),
         con[c].then \in {"restart", "truncate"}
  PROVE  HInv'
<1> DEFINE q == con[c]
           r == [q EXCEPT !.pc = q.then]
<1>1. /\ q \in ConSet(sc) /\ Ctl(q) /\ Held(sc, q) /\ OneNow(q) /\ sc \in Scenarios
      /\ \A d \in Conn \ {c} : Two(q, con[d], shm.hdr0) /\ Two(con[d], q, shm.hdr0)
      /\ q.op \in {"none", "read", "ckpt", "rewal"} /\ q.readLock \in -1..sc.nReader-1
      /\ q.h1.ck \in Nat
  BY Facts, ConnTypes, Numerals DEF IInv, TypeInv
<1>2. /\ q.pc = "write0" /\ Only(c, r) /\ UNCHANGED <<wal, db, hist, snap, nSalt>>
      /\ nSalt \in Nat /\ head \in Nat /\ q.writeLock = TRUE
      /\ shm'.hdr0 = q.hdr /\ shm'.nBackfill = shm.nBackfill
      /\ shm'.aPgno = shm.aPgno /\ shm'.aReadMark = shm.aReadMark
      /\ q.hdr.isInit = TRUE /\ q.hdr.salt <= nSalt /\ RecoveredMx' = RecoveredMx
      /\ q.hdr.mx \in Nat /\ q.hdr.ck \in Nat /\ q.hdr.salt \in Nat
      /\ head' = IF q.then \in {"commit", "recover"} /\ q.hdr.mx > 0 THEN q.hdr.ck ELSE head
      /\ RecoveredMx # 0 => RecoveredVer' = RecoveredVer
  BY PublishFacts
<1>3. /\ r.pc = q.then /\ r.then = q.then /\ r.hdr = q.hdr /\ r.op = q.op /\ r.h1 = q.h1
      /\ r.readLock = q.readLock /\ r.minFrame = q.minFrame /\ r.ckptLock = q.ckptLock
      /\ r.mode = q.mode /\ r.prior = q.prior
  BY PublishFacts
<1>4. /\ shm.hdr0.mx \in Nat /\ shm.nBackfill \in Nat /\ RecoveredMx \in Nat
      /\ shm.hdr0.mx <= RecoveredMx /\ Backed(wal.f, db, shm.hdr0.mx, shm.nBackfill)
      /\ Shows(wal.f, db, RecoveredMx, hist[RecoveredVer]) /\ RecoveredVer >= head
      /\ Whole(wal, RecoveredMx)
  BY Published, RecoveredWhole
<1> HIDE DEF q, r
<1>5. /\ q.then \in {"restart", "truncate"} /\ q.hdr.mx = 0 /\ InFile(db, hist[head])
      /\ q.hdr.salt # shm.hdr0.salt /\ q.hdr.ck <= head
      /\ q.then = "restart" => q.readLock = 0
      /\ q.then = "truncate" => q.readLock = -1
  <2>1. q.then \in {"restart", "truncate"}
    BY DEF q
  <2>2. q.then = "restart" => q.readLock = 0
    BY <1>1 DEF Held
  <2>3. q.then = "truncate" => q.readLock = -1
    BY <1>1 DEF Ctl, OneNow, One, CallLocks
  <2> QED BY <2>1, <2>2, <2>3, <1>1, <1>2 DEF OneNow, One, RestartOk, Marks, Publishing
<1>6. head' = head /\ RecoveredVer' = RecoveredVer
  <2>1. head' = head
    BY <1>2, <1>5
  <2> QED BY <2>1, <1>2 DEF RecoveredVer
<1>9. HistInv'
  BY <1>2, <1>5, <1>6 DEF HInv, HistInv
<1>10. PubInv' /\ SurvInv'
  <2>1. /\ Shows(wal.f, db, 0, hist[head]) /\ Indexed(shm.aPgno, wal.f, 0)
        /\ Backed(wal.f, db, 0, shm.nBackfill) /\ Whole(wal, 0)
    BY <1>5 DEF Shows, InFile, Indexed, Backed, Whole
  <2> QED BY <2>1, <1>2, <1>4, <1>5, <1>6 DEF PubInv, PubOk, SurvInv
<1>11. OneNext(r)
  BY <1>1, <1>2, <1>3, <1>5, <1>6 DEF OneNext, OneNow, One, Held, Marks, InitOk,
     CallLocks, CommitOk, RecoverOk, RestartOk, ReadOk, CkptOk, WorkOk, UsesHdr, Publishing,
     Checkpointing, Working
<1>12. SnapOk(r, shm'.aPgno, wal'.f, db', hist'[snap'[c]])
  BY <1>3, <1>5 DEF SnapOk
<1>13. ASSUME NEW d \in Conn \ {c}
       PROVE  /\ OneNext(con[d]) /\ Two(con[d], r, shm'.hdr0) /\ Two(r, con[d], shm'.hdr0)
              /\ \A e \in Conn \ {c} : d # e => Two(con[d], con[e], shm'.hdr0)
              /\ SnapOk(con[d], shm'.aPgno, wal'.f, db', hist'[snap'[d]])
  <2>1. /\ OneNow(con[d]) /\ Two(con[d], q, shm.hdr0) /\ Two(q, con[d], shm.hdr0)
        /\ con[d] \in ConSet(sc)
        /\ \A e \in Conn \ {c} : d # e => Two(con[d], con[e], shm.hdr0)
        /\ SnapOk(con[d], shm.aPgno, wal.f, db, hist[snap[d]])
    BY Facts DEF q
  <2>2. con[d].hdr.salt # q.hdr.salt /\ con[d].h1.salt # q.hdr.salt
    BY <1>2, <1>5, NewHeader DEF q, Publishing
  <2>4. con[d].hdr # q.hdr /\ head <= head
    BY <2>2, <1>2
  <2>6. /\ One(con[d], q.hdr, shm.aPgno, shm.nBackfill, shm.aReadMark, wal, db, head,
               hist[head], RecoveredMx, nSalt)
        /\ \A z : Two(con[d], z, shm.hdr0) => Two(con[d], z, q.hdr)
    <3>1. con[c].writeLock = TRUE
      BY <1>2 DEF q
    <3> HIDE DEF HInv, IInv
    <3> QED BY <3>1, <2>2, <2>4, <1>2, <1>6, OthersPublish
  <2>7. OneNext(con[d])
    BY <2>6, <1>2, <1>6 DEF OneNext
  <2>8. Two(con[d], r, shm'.hdr0) /\ Two(r, con[d], shm'.hdr0)
    <3>1. Two(con[d], q, q.hdr)
      BY <2>1, <2>6
    <3> QED BY <2>1, <2>2, <3>1, <1>2, <1>3, <1>5 DEF Two, FreshOk, CkptAlone, Limited, Publishing,
       Working
  <2>9. \A e \in Conn \ {c} : d # e => Two(con[d], con[e], shm'.hdr0)
    BY <1>2, <2>1, <2>6
  <2>10. SnapOk(con[d], shm'.aPgno, wal'.f, db', hist'[snap'[d]])
    BY <2>1, <1>2
  <2> QED BY <2>7, <2>8, <2>9, <2>10
<1> HIDE DEF HInv, IInv
<1> QED BY <1>2, <1>9, <1>10, <1>11, <1>12, <1>13, LoudStep

\* The header that recovery found is published, with every lock held.
LEMMA PublishRecoverH ==
  ASSUME IInv, HInv, ~TornRestart, sc' = sc, NEW c \in Conn, WriteHdr0(c),
         con[c].then = "recover"
  PROVE  HInv'
<1> DEFINE q == con[c]
           r == [q EXCEPT !.pc = q.then]
<1>1. /\ q \in ConSet(sc) /\ Ctl(q) /\ Held(sc, q) /\ OneNow(q) /\ sc \in Scenarios
      /\ \A d \in Conn \ {c} : Two(q, con[d], shm.hdr0) /\ Two(con[d], q, shm.hdr0)
      /\ q.op \in {"none", "read", "ckpt", "rewal"} /\ q.readLock \in -1..sc.nReader-1
      /\ q.h1.ck \in Nat
  BY Facts, ConnTypes, Numerals DEF IInv, TypeInv
<1>2. /\ q.pc = "write0" /\ Only(c, r) /\ UNCHANGED <<wal, db, hist, snap, nSalt>>
      /\ nSalt \in Nat /\ head \in Nat /\ q.writeLock = TRUE
      /\ shm'.hdr0 = q.hdr /\ shm'.nBackfill = shm.nBackfill
      /\ shm'.aPgno = shm.aPgno /\ shm'.aReadMark = shm.aReadMark
      /\ q.hdr.isInit = TRUE /\ q.hdr.salt <= nSalt /\ RecoveredMx' = RecoveredMx
      /\ q.hdr.mx \in Nat /\ q.hdr.ck \in Nat /\ q.hdr.salt \in Nat
      /\ head' = IF q.then \in {"commit", "recover"} /\ q.hdr.mx > 0 THEN q.hdr.ck ELSE head
      /\ RecoveredMx # 0 => RecoveredVer' = RecoveredVer
  BY PublishFacts
<1>3. /\ r.pc = q.then /\ r.then = q.then /\ r.hdr = q.hdr /\ r.op = q.op /\ r.h1 = q.h1
      /\ r.readLock = q.readLock /\ r.minFrame = q.minFrame /\ r.ckptLock = q.ckptLock
      /\ r.mode = q.mode /\ r.prior = q.prior
  BY PublishFacts
<1>4. /\ shm.hdr0.mx \in Nat /\ shm.nBackfill \in Nat /\ RecoveredMx \in Nat
      /\ shm.hdr0.mx <= RecoveredMx /\ Backed(wal.f, db, shm.hdr0.mx, shm.nBackfill)
      /\ Shows(wal.f, db, RecoveredMx, hist[RecoveredVer]) /\ RecoveredVer >= head
      /\ Whole(wal, RecoveredMx)
  BY Published, RecoveredWhole
<1> HIDE DEF q, r
<1>5. /\ q.then = "recover" /\ q.hdr.mx = RecoveredMx /\ q.hdr.salt = wal.salt
      /\ q.hdr.ck = (IF RecoveredMx = 0 THEN 0 ELSE wal.f[RecoveredMx].ver)
      /\ Indexed(shm.aPgno, wal.f, RecoveredMx) /\ q.excl = 0..sc.nReader-1
      /\ q.readLock = -1 /\ q.mode # "TRUNCATE" /\ q.op \in {"read", "ckpt"}
  <2>1. q.then = "recover"
    BY DEF q
  <2> QED BY <2>1, <1>1 DEF OneNow, One, RecoverOk, CallLocks, Held, Ctl
<1>6. /\ head' = RecoveredVer /\ RecoveredVer' = RecoveredVer /\ RecoveredVer \in Nat
      /\ q.hdr.ck <= RecoveredVer
      /\ RecoveredMx # 0 => q.hdr.ck = RecoveredVer
  <2>1. CASE RecoveredMx = 0
    <3>1. head' = head /\ RecoveredVer = head /\ RecoveredVer' = head
      BY <2>1, <1>2, <1>4, <1>5 DEF RecoveredVer
    <3> QED BY <2>1, <3>1, <1>2, <1>5
  <2>2. CASE RecoveredMx # 0
    <3>1. RecoveredVer = q.hdr.ck
      BY <2>2, <1>5 DEF RecoveredVer
    <3> QED BY <2>2, <3>1, <1>2, <1>4, <1>5
  <2> QED BY <2>1, <2>2
<1>7. shm.nBackfill <= shm.hdr0.mx
  BY <1>1, <1>2, <1>5, BackfillBound DEF q
<1>8. Backed(wal.f, db, RecoveredMx, shm.nBackfill)
  <2> SUFFICES ASSUME NEW p \in Page, NEW i \in 1..RecoveredMx, Hits(wal.f, p, RecoveredMx, i),
                      i <= shm.nBackfill
               PROVE  db[p] = wal.f[i].ver
    BY DEF Backed
  <2>1. i \in 1..shm.hdr0.mx /\ Hits(wal.f, p, shm.hdr0.mx, i)
    BY <1>4, <1>7, HitsUp
  <2> QED BY <2>1, <1>4 DEF Backed
<1>9. HistInv'
  <2>1. \A d \in Conn : snap[d] <= head /\ snap[d] \in 0..sc.maxTxn
    BY DEF HInv, HistInv
  <2>2. \A d \in Conn : snap[d] <= RecoveredVer
    BY <1>1, <1>2, <1>4, <1>6, <2>1, ScFacts
  <2> QED BY <2>2, <1>2, <1>6 DEF HInv, HistInv
<1>10. PubInv' /\ SurvInv'
  BY <1>2, <1>4, <1>5, <1>6, <1>8 DEF PubInv, PubOk, SurvInv, RecoveredVer
<1>11. OneNext(r)
  BY <1>1, <1>2, <1>3, <1>4, <1>5, <1>6 DEF OneNext, OneNow, One, Held, Marks, InitOk,
     CallLocks, CommitOk, RecoverOk, RestartOk, ReadOk, CkptOk, WorkOk, UsesHdr, Publishing,
     Checkpointing, Working
<1>12. SnapOk(r, shm'.aPgno, wal'.f, db', hist'[snap'[c]])
  BY <1>3, <1>5 DEF SnapOk
<1>13. ASSUME NEW d \in Conn \ {c}
       PROVE  /\ OneNext(con[d]) /\ Two(con[d], r, shm'.hdr0) /\ Two(r, con[d], shm'.hdr0)
              /\ \A e \in Conn \ {c} : d # e => Two(con[d], con[e], shm'.hdr0)
              /\ SnapOk(con[d], shm'.aPgno, wal'.f, db', hist'[snap'[d]])
  <2> DEFINE u == con[d]
  <2>1. /\ OneNow(u) /\ Two(u, q, shm.hdr0) /\ Two(q, u, shm.hdr0) /\ Ctl(u) /\ Held(sc, u)
        /\ u.readLock \notin q.excl /\ u.readLock \in -1..sc.nReader-1 /\ sc.nReader \in Nat
        /\ \A e \in Conn \ {c} : d # e => Two(u, con[e], shm.hdr0)
        /\ u \in ConSet(sc)
    BY Facts, ApartFacts DEF q
  <2>2. u.op # "ckpt" /\ ~Checkpointing(u) /\ u.then = "none" /\ ~Publishing(u)
    BY <1>2, <1>5, NoCheckpoint, OneWriter DEF q
  <2>3. u.hdr.ck \in Nat /\ u.h1.ck \in Nat
    BY <1>1, <2>1, Numerals
  <2> HIDE DEF u
  <2>4. u.readLock = -1 /\ u.mode # "TRUNCATE"
    BY <1>5, <2>1, <2>2 DEF Held
  <2>5. OneNext(u)
    BY <2>1, <2>2, <2>3, <2>4, <1>2, <1>4, <1>6 DEF OneNext, OneNow, One, Marks, InitOk, CommitOk, RecoverOk,
       RestartOk, ReadOk, CkptOk, WorkOk, Checkpointing, Working
  <2>6. Two(u, r, shm'.hdr0) /\ Two(r, u, shm'.hdr0)
    BY <2>1, <2>2, <1>3, <1>5 DEF Two, FreshOk, CkptAlone, Limited, Publishing,
       Working, Checkpointing
  <2>7. \A e \in Conn \ {c} : d # e => Two(u, con[e], shm'.hdr0)
    BY <2>1, <2>2 DEF Two, FreshOk, Limited, Checkpointing
  <2>8. SnapOk(u, shm'.aPgno, wal'.f, db', hist'[snap'[d]])
    BY <2>1, <2>4 DEF SnapOk, Held
  <2> QED BY <2>5, <2>6, <2>7, <2>8 DEF u
<1> HIDE DEF HInv, IInv
<1> QED BY <1>2, <1>9, <1>10, <1>11, <1>12, <1>13, LoudStep

\* WriteHdr0, whatever the header was written for.
LEMMA WriteHdr0H ==
  ASSUME IInv, HInv, ~TornRestart, sc' = sc, NEW c \in Conn, WriteHdr0(c)
  PROVE  HInv'
<1>1. con[c].then \in {"commit", "recover", "restart", "truncate"}
  BY PublishFacts
<1> QED BY <1>1, PublishCommitH, PublishRecoverH, PublishRestartH

\* The number of the next transaction is new.
LEMMA NextVerNew ==
  ASSUME IInv
  PROVE  /\ NextVer \in Nat /\ head < NextVer /\ head \in Nat
         /\ \A i \in 1..sc.maxFrame : wal.f[i].ver < NextVer
<1> DEFINE S == {head} \cup {wal.f[i].ver : i \in 1..MaxFrame}
<1>1. sc \in Scenarios /\ wal \in WalSet(sc) /\ head \in 0..sc.maxTxn /\ sc.maxTxn \in Nat
  BY ScFacts DEF IInv, TypeInv
<1>2. \A i \in 1..MaxFrame : wal.f[i].ver \in 0..sc.maxTxn
  BY <1>1, FrameFields DEF MaxFrame
<1>3. S \in SUBSET (0..sc.maxTxn) /\ S # {}
  BY <1>1, <1>2
<1>4. NextVer = 1 + Max(S)
  BY DEF NextVer
<1>5. head \in S /\ \A i \in 1..MaxFrame : wal.f[i].ver \in S
  OBVIOUS
<1> HIDE DEF S
<1>6. Max(S) \in S /\ \A y \in S : y <= Max(S)
  BY <1>1, <1>3, MaxFacts, Zenon
<1>7. S \subseteq Nat
  BY <1>1, <1>3
<1>8. Max(S) \in Nat
  BY <1>6, <1>7
<1>9. ASSUME NEW y \in S PROVE y < NextVer
  BY <1>4, <1>6, <1>7, <1>8
<1>10. NextVer \in Nat /\ head \in Nat /\ head < NextVer
  BY <1>4, <1>5, <1>7, <1>8, <1>9
<1>11. ASSUME NEW i \in 1..sc.maxFrame PROVE wal.f[i].ver < NextVer
  BY <1>5, <1>9 DEF MaxFrame
<1> QED BY <1>10, <1>11

\* The frames g have grown from f: the first m are the same, and those up to k
\* are of transaction v.
SameTo(f, g, m) == \A i \in 1..m : g[i] = f[i]
Grown(f, g, m, k, v) == SameTo(f, g, m) /\ \A i \in m+1..k : g[i].ver = v

LEMMA SamePrefix ==
  ASSUME NEW f, NEW g, NEW m \in Nat, SameTo(f, g, m), NEW n \in 0..m
  PROVE  /\ \A p, i : Hits(g, p, n, i) <=> Hits(f, p, n, i)
         /\ \A d, img : Shows(f, d, n, img) => Shows(g, d, n, img)
         /\ \A d, b : Backed(f, d, n, b) => Backed(g, d, n, b)
<1>1. \A i \in 1..n : g[i] = f[i]
  BY DEF SameTo
<1>2. \A p, i : Hits(g, p, n, i) <=> Hits(f, p, n, i)
  BY <1>1 DEF Hits
<1>3. \A p : Absent(g, p, n) <=> Absent(f, p, n)
  BY <1>1 DEF Absent
<1>4. \A d, img : Shows(f, d, n, img) => Shows(g, d, n, img)
  BY <1>1, <1>2, <1>3 DEF Shows
<1>5. \A d, b : Backed(f, d, n, b) => Backed(g, d, n, b)
  BY <1>1, <1>2 DEF Backed
<1> QED BY <1>2, <1>4, <1>5

\* The image after transaction v.
After(g, m, k, v, img) ==
  [p \in Page |-> IF \E i \in m+1..k : g[i].pg = p THEN v ELSE img[p]]

LEMMA GrownShows ==
  ASSUME NEW f, NEW g, NEW m \in Nat, NEW k \in Nat, m <= k, NEW v, Grown(f, g, m, k, v),
         NEW d, NEW img, Shows(f, d, m, img)
  PROVE  Shows(g, d, k, After(g, m, k, v, img))
<1> DEFINE a == After(g, m, k, v, img)
<1>1. SameTo(f, g, m) /\ \A i \in m+1..k : g[i].ver = v
  BY DEF Grown
<1> SUFFICES ASSUME NEW p \in Page
             PROVE  /\ Absent(g, p, k) => d[p] = a[p]
                    /\ \A i \in 1..k : Hits(g, p, k, i) => g[i].ver = a[p]
  BY DEF Shows
<1>2. a[p] = IF \E i \in m+1..k : g[i].pg = p THEN v ELSE img[p]
  BY DEF After
<1> HIDE DEF a
<1>3. ASSUME Absent(g, p, k) PROVE d[p] = a[p]
  <2>1. ~\E i \in m+1..k : g[i].pg = p
    BY <1>3 DEF Absent
  <2>2. Absent(f, p, m)
    BY <1>1, <1>3 DEF Absent, SameTo
  <2> QED BY <1>2, <2>1, <2>2 DEF Shows
<1>4. ASSUME NEW i \in 1..k, Hits(g, p, k, i) PROVE g[i].ver = a[p]
  <2>1. CASE i > m
    <3>1. i \in m+1..k /\ g[i].pg = p
      BY <1>4, <2>1 DEF Hits
    <3> QED BY <1>1, <1>2, <3>1
  <2>2. CASE i <= m
    <3>1. ~\E j \in m+1..k : g[j].pg = p
      BY <1>4, <2>2 DEF Hits
    <3>2. i \in 1..m /\ Hits(f, p, m, i) /\ g[i] = f[i]
      BY <1>1, <1>4, <2>2 DEF Hits, SameTo
    <3> QED BY <1>2, <3>1, <3>2 DEF Shows
  <2> QED BY <2>1, <2>2
<1> QED BY <1>3, <1>4

\* A frame of the log after n frames of transaction v were appended to f behind
\* the header h, and the same for the hash table.
NewFrame(fr, f, h, n, pages, v, i) ==
  IF i > h.mx /\ i <= h.mx + n
  THEN /\ fr.pg = pages[i - h.mx] /\ fr.ver = v /\ fr.salt = h.salt
       /\ fr.prev = (IF i = 1 THEN 0 ELSE IF i = h.mx + 1 THEN h.ck ELSE v)
       /\ i = h.mx + n => fr.commit = TRUE
  ELSE fr = f[i]
NewSlot(y, a, mx, n, pages, i) ==
  /\ i <= mx => y = a[i]
  /\ i > mx /\ i <= mx + n => y = pages[i - mx]

LEMMA FramesOfFacts ==
  ASSUME NEW s \in Scenarios, sc = s, NEW f, NEW h, h.mx \in Nat, NEW n \in Nat,
         NEW pages \in [1..n -> Page], NEW v, NEW i \in 1..s.maxFrame
  PROVE  NewFrame(FramesOf(f, h, pages, v)[i], f, h, n, pages, v, i)
<1> DEFINE fr == FramesOf(f, h, pages, v)[i]
<1>1. s.maxFrame \in Nat /\ DOMAIN pages = 1..n /\ Len(pages) = n
  BY ScFacts
<1>2. fr = IF i - h.mx \in DOMAIN pages
           THEN [pg |-> pages[i - h.mx], ver |-> v, commit |-> i - h.mx = Len(pages),
                 salt |-> h.salt,
                 prev |-> IF i = 1 THEN 0 ELSE IF i = h.mx + 1 THEN h.ck ELSE v]
           ELSE f[i]
  BY DEF FramesOf, MaxFrame
<1> HIDE DEF fr
<1>3. CASE ~(i > h.mx /\ i <= h.mx + n)
  <2>1. fr = f[i]
    BY <1>1, <1>2, <1>3
  <2> QED BY <2>1, <1>3 DEF NewFrame, fr
<1>4. CASE i > h.mx /\ i <= h.mx + n
  <2>1. i - h.mx \in 1..n /\ (i = h.mx + n <=> i - h.mx = n)
    BY <1>1, <1>4
  <2>2. fr = [pg |-> pages[i - h.mx], ver |-> v, commit |-> i - h.mx = n,
              salt |-> h.salt,
              prev |-> IF i = 1 THEN 0 ELSE IF i = h.mx + 1 THEN h.ck ELSE v]
    BY <1>1, <1>2, <2>1
  <2>3. /\ fr.pg = pages[i - h.mx] /\ fr.ver = v /\ fr.salt = h.salt
        /\ fr.prev = (IF i = 1 THEN 0 ELSE IF i = h.mx + 1 THEN h.ck ELSE v)
    BY <2>2
  <2>4. fr.commit = (i - h.mx = n)
    BY <2>2
  <2>5. i = h.mx + n => fr.commit = TRUE
    BY <2>1, <2>4
  <2> QED BY <1>4, <2>3, <2>5 DEF NewFrame, fr
<1> QED BY <1>3, <1>4

LEMMA IndexAppendFacts ==
  ASSUME NEW s \in Scenarios, sc = s, NEW a, NEW mx \in Nat, NEW n \in Nat,
         NEW pages \in [1..n -> Page], NEW i \in 1..s.maxFrame
  PROVE  NewSlot(IndexAppend(a, mx, pages)[i], a, mx, n, pages, i)
<1>1. s.maxFrame \in Nat /\ DOMAIN pages = 1..n
  BY ScFacts
<1>2. CASE i <= mx
  <2>1. i - mx \notin DOMAIN pages /\ ~(i > mx)
    BY <1>1, <1>2
  <2>2. IndexAppend(a, mx, pages)[i] = a[i]
    BY <1>1, <1>2, <2>1 DEF IndexAppend, MaxFrame
  <2> QED BY <2>1, <2>2 DEF NewSlot
<1>3. CASE i > mx
  <2>1. ~(i <= mx)
    BY <1>1, <1>3
  <2>2. ASSUME i <= mx + n PROVE IndexAppend(a, mx, pages)[i] = pages[i - mx]
    <3>1. i - mx \in DOMAIN pages
      BY <1>1, <1>3, <2>2
    <3> QED BY <1>1, <3>1 DEF IndexAppend, MaxFrame
  <2> QED BY <2>1, <2>2 DEF NewSlot
<1> QED BY <1>1, <1>2, <1>3

\* The frames m+1..k are those of transaction v, of salt sl, chained to frame m.
ChainedAt(g, i, v, sl) ==
  /\ g[i].pg # 0 /\ g[i].salt = sl /\ g[i].prev = IF i = 1 THEN 0 ELSE g[i-1].ver
  /\ g[i].prev \in Nat /\ g[i].prev <= v
Chained(g, m, k, v, sl) == \A i \in m+1..k : ChainedAt(g, i, v, sl)
Recorded(hs, new, v, a) == new = [hs EXCEPT ![v] = a]
SameAfter(f, g, k, n) == \A i \in k+1..n : g[i] = f[i]

\* What a transaction does to the log, the hash table and the images.
LEMMA LogGrows ==
  ASSUME IInv, HInv, sc' = sc, NEW c \in Conn, NEW pages \in PageLists, AppendFrames(c, pages),
         NEW m, m = con[c].hdr.mx, NEW v, v = NextVer, NEW k, k = m + Len(pages)
  PROVE  /\ m \in Nat /\ k \in Nat /\ m < k /\ k <= sc.maxFrame /\ m = shm.hdr0.mx
         /\ con[c].hdr = shm.hdr0 /\ shm.hdr0.isInit = TRUE /\ v \in 0..sc.maxTxn
         /\ Grown(wal.f, wal'.f, m, k, v) /\ SameAfter(wal.f, wal'.f, k, sc.maxFrame)
         /\ SameTo(shm.aPgno, shm'.aPgno, m)
         /\ Indexed(shm'.aPgno, wal'.f, k)
         /\ Recorded(hist, hist', v, After(wal'.f, m, k, v, hist[head]))
         /\ wal'.f[k].commit = TRUE
         /\ Chained(wal'.f, m, k, v, wal'.salt)
         /\ m # 0 => wal'.salt = wal.salt
<1> DEFINE q == con[c]
           first == q.hdr.mx = 0
           draw == first /\ q.nCkpt = 0
           h == [q.hdr EXCEPT !.salt = IF draw THEN nSalt + 1 ELSE @]
           ws == IF first THEN h.salt ELSE wal.salt
           wn == IF first THEN q.nCkpt ELSE wal.nCkpt
           g == FramesOf(wal.f, h, pages, v)
           x == IndexAppend(shm.aPgno, h.mx, pages)
<1>1. /\ q \in ConSet(sc) /\ Ctl(q) /\ Held(sc, q) /\ OneNow(q) /\ sc \in Scenarios
      /\ Sees(sc, q, shm.hdr0, NextVer) /\ shm \in ShmSet(sc) /\ wal \in WalSet(sc)
      /\ q.hdr \in HdrSet(sc) /\ q.hdr.mx \in Nat /\ q.hdr.salt \in Nat /\ q.hdr.ck \in Nat
  BY Facts, Numerals, ConFields DEF IInv, TypeInv
<1>2. /\ q.pc = "append" /\ wal' = [wal EXCEPT !.salt = ws, !.nCkpt = wn, !.f = g]
      /\ shm' = [shm EXCEPT !.aPgno = x]
      /\ hist' = [hist EXCEPT ![v] = [p \in Page |-> IF \E i \in DOMAIN pages : pages[i] = p
                                                    THEN v ELSE hist[head][p]]]
  BY DEF AppendFrames
<1>3. PICK n \in 1..sc.pagesPerTxn : pages \in [1..n -> Page]
  BY DEF PageLists
<1>4. n \in Nat /\ n # 0 /\ Len(pages) = n /\ DOMAIN pages = 1..n
  BY <1>1, <1>3, ScFacts
<1>5. q.hdr = shm.hdr0 /\ shm.hdr0.isInit = TRUE
  BY <1>1, <1>2 DEF Sees, OneNow, One, InitOk, UsesHdr
<1>6. /\ v \in 0..sc.maxTxn /\ v \in Nat /\ q.hdr.mx + sc.pagesPerTxn <= sc.maxFrame
      /\ sc.maxFrame \in Nat /\ head < v /\ head \in Nat /\ sc.pagesPerTxn \in Nat
  BY <1>1, <1>2, NextVerNew, ScFacts DEF Sees, Writer
<1>7. /\ m \in Nat /\ k \in Nat /\ k = m + n /\ m < k /\ k <= sc.maxFrame /\ m = q.hdr.mx
      /\ sc.maxFrame \in Nat /\ n \in Nat
  BY <1>1, <1>3, <1>4, <1>6
<1>8. h.mx = m /\ h.ck = q.hdr.ck /\ (m # 0 => h.salt = q.hdr.salt) /\ (m = 0 => ws = h.salt)
  BY <1>1, <1>7 DEF HdrSet
<1> HIDE DEF h
<1>9. wal'.f = g /\ wal'.salt = ws /\ shm'.aPgno = x /\ (m # 0 => wal'.salt = wal.salt)
  <2> HIDE DEF g, x
  <2> QED BY <1>1, <1>2, <1>7 DEF WalSet, ShmSet
<1>10. m # 0 => wal.salt = shm.hdr0.salt /\ wal.f[m].ver = shm.hdr0.ck
  BY <1>5, <1>7 DEF HInv, PubInv, PubOk
<1>11. wal'.salt = h.salt
  BY <1>5, <1>7, <1>8, <1>9, <1>10
<1>12. q.hdr.ck <= v
  <2>1. shm.hdr0.ck <= head /\ q.hdr.ck = shm.hdr0.ck
    BY <1>5 DEF HInv, HistInv
  <2> QED BY <2>1, <1>1, <1>6
<1> HIDE DEF q
<1>13. ASSUME NEW i \in 1..sc.maxFrame
       PROVE  NewFrame(g[i], wal.f, h, n, pages, v, i) /\ NewSlot(x[i], shm.aPgno, m, n, pages, i)
  <2>1. h.mx \in Nat /\ n \in Nat /\ m = h.mx /\ m \in Nat /\ sc \in Scenarios
        /\ pages \in [1..n -> Page]
    BY <1>1, <1>3, <1>7, <1>8
  <2>2. NewFrame(g[i], wal.f, h, n, pages, v, i)
    BY <2>1, FramesOfFacts
  <2>3. x = IndexAppend(shm.aPgno, m, pages)
    BY <1>8
  <2>4. NewSlot(x[i], shm.aPgno, m, n, pages, i)
    BY <2>1, <2>3, IndexAppendFacts
  <2> QED BY <2>2, <2>4
<1> HIDE DEF g, x
<1>14. /\ \A i \in 1..m : g[i] = wal.f[i] /\ x[i] = shm.aPgno[i]
       /\ \A i \in k+1..sc.maxFrame : g[i] = wal.f[i]
       /\ g[k].commit = TRUE
       /\ \A i \in m+1..k :
            /\ g[i].pg = pages[i - m] /\ i - m \in 1..n /\ g[i].ver = v /\ x[i] = pages[i - m]
            /\ g[i].salt = wal'.salt
            /\ g[i].prev = (IF i = 1 THEN 0 ELSE IF i = m + 1 THEN shm.hdr0.ck ELSE v)
  <2>1. ASSUME NEW i \in 1..m PROVE g[i] = wal.f[i] /\ x[i] = shm.aPgno[i]
    <3>1. i \in 1..sc.maxFrame /\ ~(i > h.mx) /\ i <= m
      BY <1>7, <1>8
    <3> QED BY <3>1, <1>13 DEF NewFrame, NewSlot
  <2>2. ASSUME NEW i \in k+1..sc.maxFrame PROVE g[i] = wal.f[i]
    <3>1. i \in 1..sc.maxFrame /\ ~(i <= h.mx + n)
      BY <1>7, <1>8
    <3> QED BY <3>1, <1>13 DEF NewFrame
  <2>3. ASSUME NEW i \in m+1..k
        PROVE  /\ g[i].pg = pages[i - m] /\ i - m \in 1..n /\ g[i].ver = v /\ x[i] = pages[i - m]
               /\ g[i].salt = wal'.salt
               /\ g[i].prev = (IF i = 1 THEN 0 ELSE IF i = m + 1 THEN shm.hdr0.ck ELSE v)
               /\ i = k => g[i].commit = TRUE
    <3>1. i \in 1..sc.maxFrame /\ i > h.mx /\ i <= h.mx + n /\ i - m \in 1..n
      BY <1>7, <1>8
    <3>2. NewFrame(g[i], wal.f, h, n, pages, v, i) /\ NewSlot(x[i], shm.aPgno, m, n, pages, i)
      BY <3>1, <1>13
    <3>3. h.mx = m /\ h.mx + n = k /\ h.ck = shm.hdr0.ck /\ h.salt = wal'.salt
      BY <1>5, <1>7, <1>8, <1>11 DEF q
    <3>4. x[i] = pages[i - m]
      BY <3>1, <3>2, <3>3 DEF NewSlot
    <3> QED BY <3>1, <3>2, <3>3, <3>4 DEF NewFrame
  <2>4. k \in m+1..k
    BY <1>7
  <2> QED BY <2>1, <2>2, <2>3, <2>4
<1>15. Grown(wal.f, g, m, k, v) /\ SameAfter(wal.f, g, k, sc.maxFrame)
  BY <1>14 DEF Grown, SameTo, SameAfter
<1>16. Indexed(x, g, k) /\ SameTo(shm.aPgno, x, m)
  <2>1. \A i \in 1..m : x[i] = shm.aPgno[i] /\ g[i] = wal.f[i]
    BY <1>14
  <2>2. \A i \in m+1..k : x[i] = g[i].pg
    BY <1>14
  <2>3. Indexed(shm.aPgno, wal.f, m)
    BY <1>5, <1>7, Published DEF q
  <2>4. \A i \in 1..k : i \in 1..m \/ i \in m+1..k
    BY <1>7
  <2> QED BY <2>1, <2>2, <2>3, <2>4 DEF Indexed, SameTo
<1>17. Recorded(hist, hist', v, After(g, m, k, v, hist[head]))
  <2>1. \A p \in Page : (\E i \in DOMAIN pages : pages[i] = p) <=> (\E i \in m+1..k : g[i].pg = p)
    <3> SUFFICES ASSUME NEW p \in Page
                 PROVE  (\E i \in DOMAIN pages : pages[i] = p) <=> (\E i \in m+1..k : g[i].pg = p)
      OBVIOUS
    <3>1. ASSUME NEW i \in DOMAIN pages, pages[i] = p PROVE \E j \in m+1..k : g[j].pg = p
      <4>1. i + m \in m+1..k /\ (i + m) - m = i
        BY <3>1, <1>4, <1>7
      <4>2. g[i + m].pg = p
        BY <4>1, <3>1, <1>14
      <4> QED BY <4>1, <4>2
    <3>2. ASSUME NEW j \in m+1..k, g[j].pg = p PROVE \E i \in DOMAIN pages : pages[i] = p
      <4>2. j - m \in 1..n /\ pages[j - m] = p
        BY <3>2, <1>14
      <4> QED BY <4>2, <1>4
    <3> QED BY <3>1, <3>2
  <2> QED BY <2>1, <1>2 DEF After, Recorded
<1>18. g[k].commit = TRUE
  BY <1>14
<1>19. ASSUME NEW i \in m+1..k
       PROVE  ChainedAt(g, i, v, wal'.salt)
  <2>1. i \in 1..sc.maxFrame /\ i > m /\ i <= k
    BY <1>7
  <2>2. /\ g[i].pg = pages[i - m] /\ i - m \in 1..n /\ g[i].salt = wal'.salt
        /\ g[i].prev = (IF i = 1 THEN 0 ELSE IF i = m + 1 THEN shm.hdr0.ck ELSE v)
    BY <1>14
  <2>3. g[i].pg # 0
    BY <2>2, <1>3, ScFacts DEF Page
  <2>4. g[i].prev \in Nat /\ g[i].prev <= v
    BY <2>2, <1>1, <1>5, <1>6, <1>12 DEF q
  <2>5. g[i].prev = IF i = 1 THEN 0 ELSE g[i-1].ver
    <3>1. CASE i = 1
      BY <2>2, <3>1
    <3>2. CASE i # 1 /\ i = m + 1
      <4>1. m # 0 /\ i - 1 = m /\ m \in 1..m
        BY <3>2, <1>7
      <4>2. g[m] = wal.f[m]
        BY <4>1, <1>14
      <4> QED BY <4>1, <4>2, <3>2, <2>2, <1>10
    <3>3. CASE i # 1 /\ i # m + 1
      <4>1. i - 1 \in m+1..k
        BY <3>3, <2>1, <1>7
      <4>2. g[i-1].ver = v
        BY <4>1, <1>14
      <4> QED BY <4>2, <3>3, <2>2
    <3> QED BY <3>1, <3>2, <3>3
  <2> QED BY <2>2, <2>3, <2>4, <2>5 DEF ChainedAt
<1>20. Chained(g, m, k, v, wal'.salt)
  BY <1>19 DEF Chained
<1> QED BY <1>5, <1>6, <1>7, <1>9, <1>15, <1>16, <1>17, <1>18, <1>20 DEF q

\* The connection q after it has logged transaction v up to frame k, and the
\* salt of its header.
Logged(q, r, k, v, sl) ==
  /\ r.pc = "write1" /\ r.then = "commit" /\ r.op = q.op /\ r.h1 = q.h1
  /\ r.readLock = q.readLock /\ r.minFrame = q.minFrame
  /\ r.ckptLock = q.ckptLock /\ r.mode = q.mode /\ r.prior = q.prior
  /\ r.writeLock = q.writeLock
  /\ r.hdr.mx = k /\ r.hdr.ck = v /\ r.hdr.isInit = TRUE /\ r.hdr.salt = sl
NewSalt(sl, old, n, m) == /\ sl \in Nat /\ sl <= m
                          /\ sl # old => n < sl

\* The header of the connection that logged a transaction.
LEMMA AppendHeader ==
  ASSUME IInv, HInv, sc' = sc, NEW c \in Conn, NEW pages \in PageLists, AppendFrames(c, pages),
         NEW m, m = con[c].hdr.mx, NEW v, v = NextVer, NEW k, k = m + Len(pages),
         NEW r, r = con'[c]
  PROVE  /\ con[c].pc = "append" /\ Only(c, r) /\ db' = db /\ head' = head /\ snap' = snap
         /\ shm'.hdr0 = shm.hdr0 /\ shm'.nBackfill = shm.nBackfill
         /\ shm'.aReadMark = shm.aReadMark
         /\ nSalt \in Nat /\ nSalt' \in Nat /\ nSalt <= nSalt'
         /\ Logged(con[c], r, k, v, wal'.salt)
         /\ NewSalt(r.hdr.salt, shm.hdr0.salt, nSalt, nSalt')
<1> DEFINE q == con[c]
           first == q.hdr.mx = 0
           draw == first /\ q.nCkpt = 0
           sl == IF draw THEN nSalt + 1 ELSE q.hdr.salt
           h == [q.hdr EXCEPT !.salt = sl]
           g == [h EXCEPT !.mx = h.mx + Len(pages), !.iChange = h.iChange + 1, !.ck = v]
           ws == IF first THEN h.salt ELSE wal.salt
           f == FramesOf(wal.f, h, pages, v)
           x == IndexAppend(shm.aPgno, h.mx, pages)
           z == [q EXCEPT !.pc = "write1", !.then = "commit", !.hdr = g]
<1>1. /\ q \in ConSet(sc) /\ OneNow(q) /\ sc \in Scenarios /\ shm \in ShmSet(sc)
      /\ wal \in WalSet(sc) /\ nSalt \in Nat /\ q.hdr \in HdrSet(sc) /\ q.hdr.salt \in Nat
  BY Facts, ConFields, Numerals DEF IInv, TypeInv
<1>2. q.pc = "append" /\ UNCHANGED <<db, head, snap>> /\ Become(c, z)
  BY DEF AppendFrames
<1>3. wal' = [wal EXCEPT !.salt = ws, !.nCkpt = IF first THEN q.nCkpt ELSE wal.nCkpt, !.f = f]
  BY DEF AppendFrames
<1>4. shm' = [shm EXCEPT !.aPgno = x] /\ nSalt' = IF draw THEN nSalt + 1 ELSE nSalt
  BY DEF AppendFrames
<1>5. q.hdr = shm.hdr0 /\ m = shm.hdr0.mx /\ m \in Nat /\ shm.hdr0.isInit = TRUE
      /\ (m # 0 => wal'.salt = wal.salt)
  BY LogGrows
<1>6. m # 0 => wal.salt = shm.hdr0.salt
  BY <1>5 DEF HInv, PubInv, PubOk
<1>7. q.hdr.salt <= nSalt
  BY <1>1 DEF OneNow, One, Marks
<1>8. nSalt' \in Nat /\ nSalt <= nSalt' /\ sl \in Nat /\ sl <= nSalt'
      /\ (sl # q.hdr.salt => sl = nSalt + 1 /\ first)
  BY <1>1, <1>4, <1>7
<1>9. Only(c, z) /\ r = z
  BY <1>2 DEF Become, Only, IInv, TypeInv
<1> HIDE DEF q, sl
<1>10. h.salt = sl /\ h.mx = m /\ h.isInit = TRUE /\ h \in HdrSet(sc) /\ DOMAIN h = DOMAIN q.hdr
  BY <1>1, <1>5, <1>8 DEF HdrSet, q
<1> HIDE DEF h
<1>11. g.salt = sl /\ g.mx = k /\ g.isInit = TRUE /\ g.ck = v
  BY <1>10 DEF HdrSet
<1> HIDE DEF g
<1>12. /\ z.pc = "write1" /\ z.then = "commit" /\ z.op = q.op /\ z.h1 = q.h1
       /\ z.readLock = q.readLock /\ z.minFrame = q.minFrame
       /\ z.ckptLock = q.ckptLock /\ z.mode = q.mode /\ z.prior = q.prior
       /\ z.writeLock = q.writeLock /\ z.hdr = g
  BY <1>1 DEF ConSet
<1> HIDE DEF x, f, z
<1>13. shm'.hdr0 = shm.hdr0 /\ shm'.nBackfill = shm.nBackfill /\ shm'.aReadMark = shm.aReadMark
  BY <1>1, <1>4 DEF ShmSet
<1>14. wal'.salt = ws
  BY <1>1, <1>3 DEF WalSet
<1>15. wal'.salt = sl
  <2>1. CASE m = 0
    BY <2>1, <1>5, <1>10, <1>14
  <2>2. CASE m # 0
    BY <2>2, <1>5, <1>6, <1>8, <1>10, <1>14
  <2> QED BY <2>1, <2>2
<1>16. NewSalt(r.hdr.salt, shm.hdr0.salt, nSalt, nSalt')
  BY <1>1, <1>5, <1>8, <1>9, <1>11, <1>12, <1>15 DEF NewSalt
<1>17. Logged(q, r, k, v, wal'.salt)
  BY <1>9, <1>11, <1>12, <1>15 DEF Logged
<1> QED BY <1>1, <1>2, <1>8, <1>9, <1>13, <1>16, <1>17 DEF q

LEMMA NextNumber ==
  ASSUME NEW k \in Nat, NEW j \in Nat, NEW n \in Nat, k < j, j <= n
  PROVE  /\ k + 1 \in 1..j /\ j # 0
         /\ k + 1 \in 1..n /\ k + 1 \in k+1..n
OBVIOUS

\* A recovery would find the transaction, and nothing after it.
LEMMA AppendRecovered ==
  ASSUME IInv, HInv, sc' = sc, NEW c \in Conn, NEW pages \in PageLists, AppendFrames(c, pages),
         NEW m, m = con[c].hdr.mx, NEW v, v = NextVer, NEW k, k = m + Len(pages)
  PROVE  /\ Whole(wal', k) /\ RecoveredMx' = k /\ RecoveredVer' = v /\ head < v
         /\ \A i \in 1..sc.maxFrame : wal'.f[i].prev <= wal'.f[i].ver
<1>1. IInv'
  BY AppendFramesStep
<1>2. wal' \in WalSet(sc) /\ sc \in Scenarios /\ wal \in WalSet(sc) /\ sc.maxFrame \in Nat
  <2>1. wal' \in WalSet(sc')
    BY <1>1 DEF IInv, TypeInv
  <2> QED BY <2>1, ScFacts DEF IInv, TypeInv
<1>3. /\ m \in Nat /\ k \in Nat /\ m < k /\ k <= sc.maxFrame /\ m = shm.hdr0.mx
      /\ v \in 0..sc.maxTxn /\ Grown(wal.f, wal'.f, m, k, v)
      /\ SameAfter(wal.f, wal'.f, k, sc.maxFrame)
      /\ wal'.f[k].commit = TRUE
      /\ Chained(wal'.f, m, k, v, wal'.salt)
      /\ m # 0 => wal'.salt = wal.salt
  BY LogGrows
<1>4. head < v /\ \A i \in 1..sc.maxFrame : wal.f[i].ver < v
  BY NextVerNew
<1>5. SameTo(wal.f, wal'.f, m) /\ \A i \in m+1..k : wal'.f[i].ver = v
  BY <1>3 DEF Grown
<1>6. Whole(wal', k)
  <2>1. ASSUME NEW j \in 1..m PROVE Linked(wal', j)
    <3>1. Whole(wal, m)
      BY <1>3, Published
    <3>2. m # 0 /\ Linked(wal, j)
      BY <2>1, <1>3, <3>1 DEF Whole
    <3>3. wal'.f[j] = wal.f[j]
      BY <1>5 DEF SameTo
    <3>4. j # 1 => wal'.f[j-1] = wal.f[j-1]
      <4>1. j # 1 => j - 1 \in 1..m
        BY <1>3
      <4> QED BY <4>1, <1>5 DEF SameTo
    <3> QED BY <1>3, <3>2, <3>3, <3>4 DEF Linked
  <2>2. ASSUME NEW j \in m+1..k PROVE Linked(wal', j)
    BY <1>3 DEF Linked, Chained, ChainedAt
  <2>3. \A j \in 1..k : j \in 1..m \/ j \in m+1..k
    <3>1. m \in Nat /\ k \in Nat
      BY <1>3
    <3> QED BY <3>1
  <2> QED BY <1>3, <2>1, <2>2, <2>3 DEF Whole
<1> DEFINE M == LastCommit(wal', sc.maxFrame)
<1>7. M \in 0..sc.maxFrame /\ Whole(wal', M) /\ \A j \in 0..sc.maxFrame : Whole(wal', j) => j <= M
  BY <1>2, LastCommitFacts
<1>8. RecoveredMx' = M
  BY DEF RecoveredMx, ValidFrames, MaxFrame, LastCommit, Accepted, Linked
<1> HIDE DEF M
<1>9. M = k
  <2>1. k <= M
    BY <1>3, <1>6, <1>7
  <2>2. ASSUME k < M PROVE FALSE
    <3>1. k + 1 \in 1..M /\ M # 0 /\ k + 1 # 1 /\ (k + 1) - 1 = k /\ k \in m+1..k
          /\ k + 1 \in 1..sc.maxFrame /\ k + 1 \in k+1..sc.maxFrame
      <4>1. M \in Nat /\ M <= sc.maxFrame
        BY <1>2, <1>7
      <4>2. m \in Nat /\ k \in Nat /\ m < k /\ sc.maxFrame \in Nat
        BY <1>2, <1>3
      <4>3. k < M
        BY <2>2
      <4>7. k + 1 # 1
        BY <4>2
      <4>4. k + 1 \in 1..M /\ M # 0
        BY <4>1, <4>2, <4>3, NextNumber
      <4>5. (k + 1) - 1 = k /\ k \in m+1..k
        BY <4>2
      <4>6. k + 1 \in 1..sc.maxFrame /\ k + 1 \in k+1..sc.maxFrame
        BY <4>1, <4>2, <4>3, NextNumber
      <4> QED BY <4>4, <4>5, <4>6, <4>7
    <3> DEFINE j == k + 1
    <3>2. j \in 1..M /\ j # 1 /\ j - 1 = k /\ j \in 1..sc.maxFrame /\ j \in k+1..sc.maxFrame
      BY <3>1
    <3> HIDE DEF j
    <3>3. Linked(wal', j)
      BY <1>7, <3>1, <3>2 DEF Whole
    <3>4. wal'.f[j].prev = v
      BY <3>1, <3>2, <3>3, <1>5 DEF Linked
    <3>5. wal'.f[j] = wal.f[j]
      BY <1>3, <3>2 DEF SameAfter
    <3>6. wal.f[j].prev <= wal.f[j].ver /\ wal.f[j].ver < v
      BY <1>4, <3>2 DEF HInv, HistInv, Numbers
    <3>7. wal.f[j].prev \in Nat /\ wal.f[j].ver \in Nat /\ v \in Nat
      <4>1. wal.f[j] \in FrameSet(sc)
        BY <1>2, <3>2 DEF WalSet
      <4>2. wal.f[j].prev \in 0..sc.maxTxn /\ wal.f[j].ver \in 0..sc.maxTxn
        BY <4>1 DEF FrameSet
      <4>3. sc.maxTxn \in Nat
        BY <1>2, ScFacts
      <4> QED BY <4>2, <4>3, <1>3
    <3> QED BY <3>4, <3>5, <3>6, <3>7
  <2> QED BY <1>2, <1>3, <1>7, <2>1, <2>2
<1>10. RecoveredVer' = v
  <2>1. RecoveredMx' # 0 /\ k \in m+1..k
    <3>1. k # 0 /\ k \in m+1..k
      BY <1>3
    <3> QED BY <3>1, <1>8, <1>9
  <2> QED BY <1>5, <1>8, <1>9, <2>1 DEF RecoveredVer
<1>11. ASSUME NEW i \in 1..sc.maxFrame PROVE wal'.f[i].prev <= wal'.f[i].ver
  <2>1. wal.f[i].prev <= wal.f[i].ver
    BY DEF HInv, HistInv, Numbers
  <2>2. i \in 1..m \/ i \in m+1..k \/ i \in k+1..sc.maxFrame
    BY <1>2, <1>3
  <2>3. CASE i \in 1..m
    BY <2>1, <2>3, <1>5 DEF SameTo
  <2>4. CASE i \in m+1..k
    BY <2>4, <1>3, <1>5 DEF Chained, ChainedAt
  <2>5. CASE i \in k+1..sc.maxFrame
    BY <2>1, <2>5, <1>3 DEF SameAfter
  <2> QED BY <2>2, <2>3, <2>4, <2>5
<1> QED BY <1>4, <1>6, <1>8, <1>9, <1>10, <1>11

\* The images of the open snapshots and of transaction hd are what they were.
ImagesKept(hs, new, s, t, hd) == new[hd] = hs[hd] /\ \A d \in Conn : new[t[d]] = hs[s[d]]

\* The log that grew still holds what is published, and a recovery of it finds
\* the image after the transaction.
LEMMA AppendLog ==
  ASSUME IInv, HInv, sc' = sc, NEW c \in Conn, NEW pages \in PageLists, AppendFrames(c, pages),
         NEW m, m = con[c].hdr.mx, NEW v, v = NextVer, NEW k, k = m + Len(pages),
         NEW r, r = con'[c]
  PROVE  HistInv' /\ PubInv' /\ SurvInv'
         /\ ImagesKept(hist, hist', snap, snap', head)
<1>1. /\ m \in Nat /\ k \in Nat /\ m < k /\ k <= sc.maxFrame /\ m = shm.hdr0.mx
      /\ v \in 0..sc.maxTxn /\ Grown(wal.f, wal'.f, m, k, v) /\ shm.hdr0.isInit = TRUE
      /\ SameTo(shm.aPgno, shm'.aPgno, m) /\ Indexed(shm'.aPgno, wal'.f, k)
      /\ Recorded(hist, hist', v, After(wal'.f, m, k, v, hist[head]))
      /\ m # 0 => wal'.salt = wal.salt
  BY LogGrows
<1>2. /\ db' = db /\ head' = head /\ snap' = snap /\ shm'.hdr0 = shm.hdr0 /\ shm'.nBackfill = shm.nBackfill
      /\ nSalt \in Nat /\ nSalt' \in Nat /\ nSalt <= nSalt'
      /\ Logged(con[c], r, k, v, wal'.salt)
      /\ NewSalt(r.hdr.salt, shm.hdr0.salt, nSalt, nSalt')
  BY AppendHeader
<1>3. /\ Whole(wal', k) /\ RecoveredMx' = k /\ RecoveredVer' = v /\ head < v
      /\ \A i \in 1..sc.maxFrame : wal'.f[i].prev <= wal'.f[i].ver
  BY AppendRecovered
<1>4. /\ sc \in Scenarios /\ sc.maxTxn \in Nat /\ head \in 0..sc.maxTxn
      /\ shm.hdr0.salt \in Nat /\ shm.hdr0.ck \in Nat
  <2>1. shm.hdr0 \in HdrSet(sc) /\ sc \in Scenarios /\ head \in 0..sc.maxTxn
    BY ShmFields DEF IInv, TypeInv
  <2> QED BY <2>1, HdrFields, ScFacts
<1>5. /\ hist \in [0..sc.maxTxn -> [Page -> 0..sc.maxTxn]] /\ snap \in [Conn -> 0..sc.maxTxn]
      /\ \A d \in Conn : snap[d] <= head
      /\ shm.hdr0.ck <= head /\ shm.hdr0.salt <= nSalt
  BY DEF HInv, HistInv
<1>6. /\ m # 0 => wal.f[m].ver = head /\ shm.hdr0.ck = head /\ wal.salt = shm.hdr0.salt
      /\ Shows(wal.f, db, m, hist[head]) /\ Backed(wal.f, db, m, shm.nBackfill)
      /\ Whole(wal, m)
  BY <1>1 DEF HInv, PubInv, PubOk
<1>7. SameTo(wal.f, wal'.f, m) /\ m \in 0..m
  BY <1>1 DEF Grown
<1>8. Shows(wal'.f, db, m, hist[head]) /\ Backed(wal'.f, db, m, shm.nBackfill)
  BY <1>1, <1>6, <1>7, SamePrefix
<1>9. hist'[head] = hist[head] /\ \A d \in Conn : hist'[snap[d]] = hist[snap[d]]
  <2>1. head # v /\ head \in 0..sc.maxTxn
    BY <1>1, <1>3, <1>4
  <2>2. ASSUME NEW d \in Conn PROVE snap[d] # v /\ snap[d] \in 0..sc.maxTxn
    BY <1>1, <1>3, <1>4, <1>5
  <2> QED BY <1>1, <1>5, <2>1, <2>2 DEF Recorded
<1>10. HistInv'
  <2>1. After(wal'.f, m, k, v, hist[head]) \in [Page -> 0..sc.maxTxn]
    BY <1>1, <1>4, <1>5 DEF After
  <2> DEFINE a == After(wal'.f, m, k, v, hist[head])
  <2>2. hist' \in [0..sc.maxTxn -> [Page -> 0..sc.maxTxn]]
    <3>1. hist' = [hist EXCEPT ![v] = a] /\ a \in [Page -> 0..sc.maxTxn]
      BY <1>1, <2>1 DEF Recorded
    <3> HIDE DEF a
    <3> QED BY <3>1, <1>5
  <2>3. Numbers(wal'.f, sc.maxFrame)
    BY <1>3 DEF Numbers
  <2>4. shm.hdr0.salt <= nSalt'
    BY <1>2, <1>4, <1>5
  <2> QED BY <1>2, <1>5, <2>2, <2>3, <2>4 DEF HistInv, Logged, NewSalt
<1>11. PubInv'
  <2>1. Indexed(shm'.aPgno, wal'.f, m)
    BY <1>1 DEF Indexed
  <2>2. Whole(wal', m)
    <3> SUFFICES ASSUME m # 0 PROVE wal'.f[m].commit = TRUE /\ \A j \in 1..m : Linked(wal', j)
      BY DEF Whole
    <3>1. m \in 1..m /\ k # 0 /\ \A j \in 1..m : j \in 1..k
      BY <1>1
    <3>2. wal'.f[m] = wal.f[m]
      BY <3>1, <1>7 DEF SameTo
    <3> QED BY <3>1, <3>2, <1>3, <1>6 DEF Whole
  <2>3. m # 0 => wal'.f[m].ver = head /\ wal'.salt = shm.hdr0.salt
    <3>1. m # 0 => m \in 1..m
      BY <1>1
    <3> QED BY <3>1, <1>1, <1>6, <1>7 DEF SameTo
  <2> QED BY <1>1, <1>2, <1>6, <1>8, <1>9, <2>1, <2>2, <2>3 DEF PubInv, PubOk
<1>12. SurvInv'
  <2>1. Shows(wal'.f, db, k, After(wal'.f, m, k, v, hist[head]))
    <3>1. m <= k
      BY <1>1
    <3> QED BY <3>1, <1>1, <1>6, GrownShows
  <2>2. hist'[v] = After(wal'.f, m, k, v, hist[head])
    BY <1>1, <1>5 DEF Recorded
  <2>3. v >= head
    BY <1>1, <1>3, <1>4
  <2> QED BY <1>2, <1>3, <2>1, <2>2, <2>3 DEF SurvInv
<1> QED BY <1>2, <1>9, <1>10, <1>11, <1>12 DEF ImagesKept

\* What another connection relies on is below the new frames.
LEMMA AppendOthers ==
  ASSUME IInv, HInv, NEW d \in Conn, con[d].then = "none", con[d].writeLock = FALSE,
         NEW f, NEW x, NEW m, m = shm.hdr0.mx, SameTo(wal.f, f, m), SameTo(shm.aPgno, x, m)
  PROVE  /\ WorkOk(con[d], shm.hdr0, f, db)
         /\ SnapOk(con[d], x, f, db, hist[snap[d]])
<1> DEFINE q == con[d]
           img == hist[snap[d]]
<1>1. /\ q \in ConSet(sc) /\ Held(sc, q) /\ Sees(sc, q, shm.hdr0, NextVer) /\ OneNow(q)
      /\ sc \in Scenarios /\ SnapOk(q, shm.aPgno, wal.f, db, img)
  BY Facts DEF IInv, TypeInv
<1>2. /\ q.hdr.mx \in Nat /\ m \in Nat /\ q.minFrame \in Nat /\ q.minFrame >= 1
  <2>1. q.minFrame \in 1..sc.maxFrame+1 /\ sc.maxFrame \in Nat
    BY <1>1, ConFields, ScFacts
  <2> QED BY <2>1, <1>1, Numerals, Published
<1>3. q.then = "none" /\ q.writeLock = FALSE
  OBVIOUS
<1> HIDE DEF q, img
<1>4. WorkOk(q, shm.hdr0, f, db)
  <2> SUFFICES ASSUME Working(q), q.hdr.salt = shm.hdr0.salt
               PROVE  WorkOk(q, shm.hdr0, f, db)
    BY DEF WorkOk
  <2>1. q.hdr.mx <= m /\ WorkOk(q, shm.hdr0, wal.f, db)
    BY <1>1 DEF OneNow, One, CkptOk, Checkpointing
  <2>2. q.hdr.mx \in 0..m
    BY <1>2, <2>1
  <2>3. \A p, i : Hits(f, p, q.hdr.mx, i) <=> Hits(wal.f, p, q.hdr.mx, i)
    BY <1>2, <2>2, SamePrefix
  <2>4. \A i \in 1..q.hdr.mx : f[i] = wal.f[i]
    BY <1>2, <2>2 DEF SameTo
  <2> HIDE DEF Hits
  <2> QED BY <2>1, <2>3, <2>4 DEF WorkOk
<1>5. SnapOk(q, x, f, db, img)
  <2> SUFFICES ASSUME q.pc \in {"reading", "writing"} PROVE Sight(q, x, f, db, img)
    BY DEF SnapOk
  <2>1. q.pc = "reading" /\ Sight(q, shm.aPgno, wal.f, db, img)
    BY <1>1, <1>3 DEF SnapOk, Held, Writer
  <2>2. CASE q.readLock = 0
    BY <2>1, <2>2 DEF Sight, Unlogged
  <2>3. CASE q.readLock # 0
    <3>1. q.hdr.mx <= m
      BY <1>1, <2>1, <2>3 DEF Sees
    <3>2. \A i \in q.minFrame..q.hdr.mx : i \in 1..m
      BY <1>2, <3>1
    <3>3. \A i \in q.minFrame..q.hdr.mx : x[i] = shm.aPgno[i] /\ f[i] = wal.f[i]
      BY <3>2 DEF SameTo
    <3> QED BY <2>1, <2>3, <3>3 DEF Sight, Unlogged, Found
  <2> QED BY <2>2, <2>3
<1> QED BY <1>4, <1>5 DEF q, img

\* A transaction is logged behind what everybody else relies on.
LEMMA AppendFramesH ==
  ASSUME IInv, HInv, sc' = sc, NEW c \in Conn, NEW pages \in PageLists, AppendFrames(c, pages)
  PROVE  HInv'
<1> SUFFICES ASSUME NEW m, m = con[c].hdr.mx, NEW v, v = NextVer, NEW k, k = m + Len(pages),
                    NEW r, r = con'[c]
             PROVE  HInv'
  OBVIOUS
<1> DEFINE q == con[c]
<1>1. /\ m \in Nat /\ k \in Nat /\ m < k /\ m = shm.hdr0.mx /\ q.hdr = shm.hdr0
      /\ Grown(wal.f, wal'.f, m, k, v) /\ shm.hdr0.isInit = TRUE /\ v \in 0..sc.maxTxn
      /\ SameTo(shm.aPgno, shm'.aPgno, m) /\ Indexed(shm'.aPgno, wal'.f, k)
  BY LogGrows
<1>2. /\ q.pc = "append" /\ Only(c, r) /\ db' = db /\ head' = head /\ snap' = snap
      /\ shm'.hdr0 = shm.hdr0 /\ shm'.nBackfill = shm.nBackfill /\ shm'.aReadMark = shm.aReadMark
      /\ nSalt \in Nat /\ nSalt' \in Nat /\ nSalt <= nSalt'
      /\ Logged(q, r, k, v, wal'.salt) /\ NewSalt(r.hdr.salt, shm.hdr0.salt, nSalt, nSalt')
  BY AppendHeader
<1>3. RecoveredMx' = k /\ head < v
  BY AppendRecovered
<1>13. HistInv' /\ PubInv' /\ SurvInv' /\ ImagesKept(hist, hist', snap, snap', head)
  BY AppendLog
<1>4. HistInv' /\ PubInv' /\ SurvInv' /\ hist'[head] = hist[head]
      /\ \A d \in Conn : hist'[snap'[d]] = hist[snap[d]]
  BY <1>13 DEF ImagesKept
<1>5. /\ q \in ConSet(sc) /\ Ctl(q) /\ Held(sc, q) /\ OneNow(q) /\ sc \in Scenarios
      /\ \A d \in Conn \ {c} : Two(q, con[d], shm.hdr0) /\ Two(con[d], q, shm.hdr0)
      /\ q.op \in {"none", "read", "ckpt", "rewal"} /\ q.readLock \in -1..sc.nReader-1
      /\ q.h1.ck \in Nat /\ q.h1.salt \in Nat /\ sc.nReader \in Nat
  BY Facts, ConnTypes, Numerals DEF IInv, TypeInv
<1>6. wal'.f[k].ver = v
  <2>1. k \in m+1..k
    BY <1>1
  <2> QED BY <2>1, <1>1 DEF Grown
<1>7. /\ q.readLock > 0 /\ q.readLock \in 1..sc.nReader-1 /\ q.op = "none" /\ q.then = "none"
      /\ q.writeLock = TRUE
  <2>1. q.op = "none" /\ q.then = "none" /\ q.writeLock = TRUE /\ q.readLock \notin {-1, 0}
    BY <1>2, <1>5, ConnTypes DEF Ctl, Held, Writer
  <2> QED BY <2>1, <1>5
<1>8. shm.aReadMark[q.readLock] \in Nat
  <2>1. shm \in ShmSet(sc) /\ sc.maxFrame \in Nat
    BY <1>5, ScFacts DEF IInv, TypeInv
  <2>2. shm.aReadMark \in [1..sc.nReader-1 -> 0..sc.maxFrame+1]
    BY <2>1 DEF ShmSet
  <2>3. q.readLock \in 1..sc.nReader-1
    BY <1>7
  <2> HIDE DEF q
  <2>4. shm.aReadMark[q.readLock] \in 0..sc.maxFrame+1
    BY <2>2, <2>3
  <2> QED BY <2>1, <2>4
<1>9. head \in Nat /\ v \in Nat
  BY <1>1, <1>5, ScFacts DEF IInv, TypeInv
<1> HIDE DEF q
<1>10. OneNext(r)
  <2>1. Marks(r, nSalt', head) /\ InitOk(r, shm.hdr0) /\ CallLocks(r)
    BY <1>1, <1>2, <1>5, <1>7, <1>9 DEF OneNow, One, Marks, InitOk, CallLocks, Logged, NewSalt,
       Publishing
  <2>2. CommitOk(r, shm.hdr0, shm'.aPgno, wal', k, head)
    <3>1. r.hdr.mx = k /\ k # 0 /\ shm.hdr0.mx < k /\ v > head
      <4>1. k # 0 /\ shm.hdr0.mx < k
        BY <1>1
      <4>2. v > head
        BY <1>3, <1>9
      <4> QED BY <4>1, <4>2, <1>2 DEF Logged
    <3> QED BY <3>1, <1>1, <1>2, <1>6 DEF CommitOk, Logged
  <2>3. RecoverOk(r, shm.hdr0, shm'.aPgno, wal', k) /\ RestartOk(r, shm.hdr0, db, hist[head])
    BY <1>2 DEF RecoverOk, RestartOk, Logged
  <2>4. ReadOk(r, shm.hdr0, shm.nBackfill, shm.aReadMark)
    <3>1. shm.aReadMark[q.readLock] <= m /\ q.minFrame <= shm.nBackfill + 1
      BY <1>1, <1>2, <1>5, <1>7 DEF OneNow, One, ReadOk
    <3>2. shm.aReadMark[q.readLock] <= k
      BY <3>1, <1>1, <1>8
    <3> QED BY <3>1, <3>2, <1>2, <1>7 DEF ReadOk, Logged
  <2>5. CkptOk(r, shm.hdr0, shm.nBackfill) /\ WorkOk(r, shm.hdr0, wal'.f, db)
    BY <1>2, <1>5, <1>7 DEF OneNow, One, CkptOk, WorkOk, Logged, Working, Checkpointing
  <2> QED BY <2>1, <2>2, <2>3, <2>4, <2>5, <1>2, <1>3, <1>4 DEF OneNext, One
<1>11. SnapOk(r, shm'.aPgno, wal'.f, db', hist'[snap'[c]])
  BY <1>2 DEF SnapOk, Logged
<1>12. ASSUME NEW d \in Conn \ {c}
       PROVE  /\ OneNext(con[d]) /\ Two(con[d], r, shm'.hdr0) /\ Two(r, con[d], shm'.hdr0)
              /\ \A e \in Conn \ {c} : d # e => Two(con[d], con[e], shm'.hdr0)
              /\ SnapOk(con[d], shm'.aPgno, wal'.f, db', hist'[snap'[d]])
  <2> DEFINE u == con[d]
  <2>1. /\ OneNow(u) /\ Two(u, q, shm.hdr0) /\ Two(q, u, shm.hdr0) /\ u \in ConSet(sc)
        /\ \A e \in Conn \ {c} : d # e => Two(u, con[e], shm.hdr0)
    BY Facts DEF q
  <2>2. u.then = "none" /\ ~Publishing(u) /\ u.writeLock = FALSE
    BY <1>7, OneWriter DEF q
  <2>3. WorkOk(u, shm.hdr0, wal'.f, db) /\ SnapOk(u, shm'.aPgno, wal'.f, db, hist[snap[d]])
    <3>1. SameTo(wal.f, wal'.f, m)
      BY <1>1 DEF Grown
    <3> QED BY <3>1, <2>2, <1>1, AppendOthers
  <2>4. /\ u.hdr.salt \in Nat /\ u.h1.salt \in Nat /\ u.mxSafe \in Nat /\ u.y \in Nat
    BY <1>5, <2>1, Numerals
  <2> HIDE DEF u
  <2>5. OneNext(u)
    <3>1. Marks(u, nSalt', head)
      BY <1>2, <2>1, <2>4 DEF OneNow, One, Marks
    <3>2. /\ CommitOk(u, shm.hdr0, shm'.aPgno, wal', k, head)
          /\ RecoverOk(u, shm.hdr0, shm'.aPgno, wal', k) /\ RestartOk(u, shm.hdr0, db, hist[head])
      BY <2>2 DEF CommitOk, RecoverOk, RestartOk
    <3> QED BY <3>1, <3>2, <2>1, <2>3, <1>2, <1>3, <1>4 DEF OneNow, OneNext, One
  <2>6. Two(u, r, shm.hdr0)
    <3>1. FreshOk(u, r, shm.hdr0)
      BY <2>2 DEF FreshOk
    <3>2. CkptAlone(u, r)
      BY <1>2, <2>1 DEF Two, CkptAlone, Logged
    <3>3. Limited(u, r, shm.hdr0)
      <4>1. /\ r.readLock = q.readLock /\ r.pc = "write1" /\ r.hdr.mx = k /\ q.hdr.mx = m
            /\ q.pc # "checkmark"
        BY <1>1, <1>2 DEF Logged
      <4>2. \A y \in Nat : y <= m => y <= k
        BY <1>1
      <4> QED BY <4>1, <4>2, <2>1, <2>4 DEF Two, Limited
    <3> QED BY <3>1, <3>2, <3>3 DEF Two
  <2>7. Two(r, u, shm.hdr0)
    <3>1. u.hdr.salt <= nSalt /\ u.h1.salt <= nSalt
      BY <2>1 DEF OneNow, One, Marks
    <3>2. FreshOk(r, u, shm.hdr0)
      BY <3>1, <1>2, <2>4 DEF FreshOk, NewSalt
    <3> QED BY <3>2, <2>1, <1>2 DEF Two, CkptAlone, Limited, Logged, Working
  <2>8. SnapOk(u, shm'.aPgno, wal'.f, db', hist'[snap'[d]])
    BY <2>3, <1>2, <1>4
  <2> QED BY <2>1, <2>5, <2>6, <2>7, <2>8, <1>2 DEF u
<1> HIDE DEF HInv, IInv
<1> QED BY <1>2, <1>4, <1>10, <1>11, <1>12, LoudStep

-----------------------------------------------------------------------------
(* What the open transactions see and what a recovery finds *)

LEMMA InitH ==
  ASSUME Init
  PROVE  HInv
<1> DEFINE r == Closed
<1>1. IInv /\ sc \in Scenarios
  BY InitInv DEF Init
<1>2. /\ shm = FreshShm /\ wal = NoLog /\ db = [p \in Page |-> 0] /\ con = [c \in Conn |-> r]
      /\ hist = [v \in 0..sc.maxTxn |-> [p \in Page |-> 0]] /\ head = 0
      /\ snap = [c \in Conn |-> 0] /\ nSalt = 0
  BY DEF Init
<1>3. sc.maxFrame \in Nat /\ sc.maxTxn \in Nat
  BY <1>1, ScFacts
<1>4. /\ r.pc = "closed" /\ r.op = "none" /\ r.then = "none" /\ r.hdr = BadHdr /\ r.h1 = BadHdr
      /\ r.readLock = -1 /\ r.ckptLock = FALSE /\ r.mode = "PASSIVE" /\ r.prior = 0
  BY DEF Closed, Resting, None
<1>5. /\ shm.hdr0 = BadHdr /\ shm.nBackfill = 0 /\ BadHdr.mx = 0 /\ BadHdr.isInit = FALSE
      /\ BadHdr.salt = 0 /\ BadHdr.ck = 0 /\ wal.salt = 0
  BY <1>2 DEF FreshShm, BadHdr, NoLog
<1>6. ASSUME NEW i \in 1..sc.maxFrame
      PROVE  wal.f[i].prev = 0 /\ wal.f[i].ver = 0 /\ wal.f[i].commit = FALSE
  BY <1>2 DEF NoLog, NoFrame, MaxFrame
<1> HIDE DEF r
<1>7. RecoveredMx = 0
  <2>1. RecoveredMx \in 0..sc.maxFrame /\ Whole(wal, RecoveredMx)
    BY <1>1, RecoveredWhole
  <2>2. RecoveredMx # 0 => RecoveredMx \in 1..sc.maxFrame
    BY <1>3, <2>1
  <2> QED BY <1>6, <2>1, <2>2 DEF Whole
<1>8. hist[head] = [p \in Page |-> 0]
  BY <1>2, <1>3
<1>9. Shows(wal.f, db, 0, hist[head])
  BY <1>2, <1>8 DEF Shows
<1>10. HistInv
  <2>1. \A v \in 0..sc.maxTxn : [p \in Page |-> 0] \in [Page -> 0..sc.maxTxn]
    BY <1>3
  <2>2. Numbers(wal.f, sc.maxFrame)
    <3>1. \A i \in 1..sc.maxFrame : wal.f[i].prev = 0 /\ wal.f[i].ver = 0
      BY <1>6
    <3>2. 0 <= 0
      OBVIOUS
    <3> HIDE DEF HInv, IInv
    <3> QED BY <3>1, <3>2 DEF Numbers
  <2> QED BY <1>2, <1>3, <1>5, <2>1, <2>2 DEF HistInv
<1>11. PubInv
  BY <1>5 DEF PubInv, PubOk
<1>12. SurvInv
  <2>1. RecoveredVer = head
    BY <1>7 DEF RecoveredVer
  <2> QED BY <1>2, <1>7, <1>9, <2>1 DEF SurvInv
<1>13. OneNow(r)
  BY <1>2, <1>4, <1>5 DEF OneNow, One, Marks, InitOk, CallLocks, CommitOk, RecoverOk, RestartOk,
     ReadOk, CkptOk, WorkOk, UsesHdr, Publishing, Checkpointing, Working
<1>14. Two(r, r, shm.hdr0)
  BY <1>4 DEF Two, FreshOk, CkptAlone, Limited, Publishing, Working
<1>15. OneInv /\ TwoInv
  BY <1>2, <1>13, <1>14 DEF OneInv, TwoInv, OneNow
<1>16. SnapInv
  BY <1>2, <1>4 DEF SnapInv, SnapOk
<1> QED BY <1>10, <1>11, <1>12, <1>15, <1>16 DEF HInv

LEMMA StutterH ==
  ASSUME HInv, UNCHANGED vars
  PROVE  HInv'
<1>1. /\ sc' = sc /\ shm' = shm /\ wal' = wal /\ db' = db /\ con' = con /\ hist' = hist
      /\ head' = head /\ snap' = snap /\ nSalt' = nSalt
  BY DEF vars
<1>2. RecoveredMx' = RecoveredMx /\ RecoveredVer' = RecoveredVer
  BY <1>1 DEF RecoveredMx, RecoveredVer, ValidFrames, MaxFrame
<1> QED BY <1>1, <1>2 DEF HInv, HistInv, PubInv, SurvInv, OneInv, TwoInv, SnapInv

\* Unless a checkpoint has a header of an earlier log or a restart is left
\* half done, every step keeps the log, the file and the headers in agreement.
LEMMA NextH ==
  ASSUME IInv, HInv, ~StaleCheckpoint, ~TornRestart, [Next]_vars
  PROVE  HInv'
<1>1. CASE UNCHANGED vars
  BY <1>1, StutterH
<1>2. CASE Next
  <2>1. sc' = sc
    BY <1>2 DEF Next
  <2>2. PICK c \in Conn : Open(c) \/ Die(c) \/ Step(c)
    BY <1>2 DEF Next
  <2>3. CASE Open(c)
    BY <2>1, <2>3, OpenH
  <2>4. CASE Die(c)
    BY <2>1, <2>4, DieH
  <2>5. CASE Step(c)
    <3>1. CASE \/ BeginRead(c) \/ ReadHdr0(c) \/ ReadHdr1(c) \/ HdrRetryOk(c) \/ HdrBusy(c)
               \/ Protocol(c) \/ StartRecover(c) \/ WriteHdr1(c) \/ WriteHdr0(c) \/ EndRecover(c)
      BY <2>1, <3>1, BeginReadH, ReadHdr0H, ReadHdr1H, HdrRetryOkH, HdrBusyH, ProtocolH,
         StartRecoverH, WriteHdr1H, WriteHdr0H, EndRecoverH
    <3>2. CASE \/ TryRead0(c) \/ Check0(c) \/ SelectMark(c) \/ LockMark(c) \/ CheckMark(c)
               \/ EndRead(c) \/ BeginWrite(c) \/ Rollback(c) \/ RestartLog(c) \/ EndRestart(c)
      BY <2>1, <3>2, TryRead0H, Check0H, SelectMarkH, LockMarkH, CheckMarkH, EndReadH,
         BeginWriteH, RollbackH, RestartLogH, EndRestartH
    <3>3. CASE EndCommit(c)
      BY <2>1, <3>3, EndCommitH
    <3>4. CASE \E pages \in PageLists : AppendFrames(c, pages)
      BY <2>1, <3>4, AppendFramesH
    <3>5. CASE \E m \in sc.modes : StartCkpt(c, m)
      BY <2>1, <3>5, StartCkptH
    <3>6. CASE \/ CkptInit(c) \/ CkptReadMark(c) \/ CkptTryMark(c) \/ CkptLock0(c)
               \/ CkptCopy(c) \/ CkptInterrupt(c) \/ CkptCopied(c) \/ CkptEnd(c)
               \/ CkptTruncate(c) \/ CkptDone(c)
      BY <2>1, <3>6, CkptInitH, CkptReadMarkH, CkptTryMarkH, CkptLock0H, CkptCopyH,
         CkptInterruptH, CkptCopiedH, CkptEndH, CkptTruncateH, CkptDoneH
    <3> QED BY <2>5, <3>1, <3>2, <3>3, <3>4, <3>5, <3>6 DEF Step
  <2> QED BY <2>2, <2>3, <2>4, <2>5
<1> QED BY <1>1, <1>2

\* What sqlite3WalFindFrame and readDbPage find is what Sight says.
LEMMA IsolationFacts ==
  ASSUME IInv, HInv
  PROVE  SnapshotIsolation
<1> SUFFICES ASSUME NEW c \in Conn, InSnapshot(c), NEW p \in Page
             PROVE  PageSeen(c, p) = hist[snap[c]][p]
  BY DEF SnapshotIsolation
<1> DEFINE q == con[c]
           img == hist[snap[c]]
           S == FramesSeen(c, p)
<1>1. /\ sc \in Scenarios /\ Sight(q, shm.aPgno, wal.f, db, img)
      /\ q.minFrame \in Nat /\ q.minFrame >= 1 /\ q.hdr.mx \in Nat
  <2>1. q \in ConSet(sc) /\ SnapOk(q, shm.aPgno, wal.f, db, img) /\ sc \in Scenarios
    BY Facts DEF IInv, TypeInv
  <2>2. q.minFrame \in 1..sc.maxFrame+1 /\ sc.maxFrame \in Nat
    BY <2>1, ConFields, ScFacts
  <2> QED BY <2>1, <2>2, Numerals DEF SnapOk, InSnapshot
<1>2. S = {i \in q.minFrame..q.hdr.mx : shm.aPgno[i] = p}
  BY DEF FramesSeen
<1>3. InLog(c, p) <=> q.readLock # 0 /\ q.hdr.mx # 0 /\ S # {}
  BY DEF InLog
<1>4. PageSeen(c, p) = IF InLog(c, p) THEN wal.f[Max(S)].ver ELSE db[p]
  BY DEF PageSeen
<1> HIDE DEF q, img, S
<1>5. CASE InLog(c, p)
  <2>1. S \in SUBSET (0..q.hdr.mx) /\ S # {}
    BY <1>1, <1>2, <1>3, <1>5
  <2>2. Max(S) \in S /\ \A j \in S : j <= Max(S)
    BY <1>1, <2>1, MaxFacts, Zenon
  <2> DEFINE i == Max(S)
  <2>3. i \in S /\ \A j \in S : j <= i
    BY <2>2
  <2>4. PageSeen(c, p) = wal.f[i].ver
    BY <1>4, <1>5
  <2> HIDE DEF i
  <2>5. i \in q.minFrame..q.hdr.mx /\ Found(q, shm.aPgno, p, i)
    BY <1>2, <2>3 DEF Found
  <2> QED BY <1>1, <1>3, <1>5, <2>4, <2>5 DEF Sight, img
<1>6. CASE ~InLog(c, p)
  <2>1. Unlogged(q, shm.aPgno, p)
    <3>1. CASE q.readLock = 0
      BY <3>1 DEF Unlogged
    <3>2. CASE q.hdr.mx = 0
      <4>1. ~\E i \in q.minFrame..q.hdr.mx : TRUE
        BY <1>1, <3>2
      <4> QED BY <4>1 DEF Unlogged
    <3>3. CASE S = {}
      BY <1>2, <3>3 DEF Unlogged
    <3> QED BY <1>3, <1>6, <3>1, <3>2, <3>3
  <2> QED BY <1>1, <1>4, <1>6, <2>1 DEF Sight, img
<1> QED BY <1>5, <1>6

\* The image of the frames that a recovery accepts is what Shows says.
LEMMA SurvivalFacts ==
  ASSUME IInv, HInv
  PROVE  CommitsSurvive
<1> DEFINE mx == RecoveredMx
           v == IF mx = 0 THEN head ELSE wal.f[mx].ver
           hits(p) == {i \in 1..mx : wal.f[i].pg = p}
           img == [p \in Page |-> IF hits(p) = {} THEN db[p] ELSE wal.f[Max(hits(p))].ver]
<1>1. /\ mx \in 0..sc.maxFrame /\ sc.maxFrame \in Nat /\ sc \in Scenarios /\ wal \in WalSet(sc)
      /\ head \in 0..sc.maxTxn
  BY RecoveredWhole, ScFacts DEF IInv, TypeInv
<1>2. v = RecoveredVer
  BY DEF RecoveredVer
<1>3. v >= head /\ Shows(wal.f, db, mx, hist[v])
  BY <1>2 DEF HInv, SurvInv
<1>4. hist[v] \in [Page -> 0..sc.maxTxn]
  <2>1. v \in 0..sc.maxTxn
    <3>1. mx # 0 => mx \in 1..sc.maxFrame
      BY <1>1
    <3>2. mx # 0 => wal.f[mx].ver \in 0..sc.maxTxn
      BY <1>1, <3>1, FrameFields
    <3> QED BY <1>1, <3>2
  <2> QED BY <2>1 DEF HInv, HistInv
<1> HIDE DEF mx, v
<1>5. ASSUME NEW p \in Page
      PROVE  (IF hits(p) = {} THEN db[p] ELSE wal.f[Max(hits(p))].ver) = hist[v][p]
  <2> DEFINE S == hits(p)
  <2>1. S = {i \in 1..mx : wal.f[i].pg = p}
    OBVIOUS
  <2> HIDE DEF S
  <2>2. CASE S = {}
    <3>1. Absent(wal.f, p, mx)
      BY <2>1, <2>2 DEF Absent
    <3> QED BY <1>3, <2>2, <3>1 DEF Shows, S
  <2>3. CASE S # {}
    <3>1. S \in SUBSET (0..mx) /\ mx \in Nat
      BY <1>1, <2>1
    <3>2. Max(S) \in S /\ \A j \in S : j <= Max(S)
      BY <2>3, <3>1, MaxFacts, Zenon
    <3> DEFINE i == Max(S)
    <3>3. i \in S /\ \A j \in S : j <= i
      BY <3>2
    <3> HIDE DEF i
    <3>4. i \in 1..mx /\ Hits(wal.f, p, mx, i)
      BY <2>1, <3>3 DEF Hits
    <3>5. wal.f[i].ver = hist[v][p]
      BY <1>3, <3>4 DEF Shows
    <3> QED BY <2>3, <3>5 DEF S, i
  <2> QED BY <2>2, <2>3
<1>6. img = hist[v]
  BY <1>4, <1>5
<1> QED BY <1>3, <1>6 DEF CommitsSurvive, mx, v

\* The published header, the log, the page index and the database file agree as
\* long as no checkpoint copies under the header of an earlier log and no log
\* restart is left half done.
THEOREM WalIndexAgreement ==
  Spec /\ []~StaleCheckpoint /\ []~TornRestart => []HInv
<1>1. Init => HInv
  BY InitH
<1>2. IInv /\ HInv /\ ~StaleCheckpoint /\ ~TornRestart /\ [Next]_vars => HInv'
  BY NextH
<1> QED BY <1>1, <1>2, WalIndexInvariant, PTL DEF Spec

\* A read transaction sees the one committed image of its snapshot, whatever is
\* appended, backfilled, restarted or recovered meanwhile.
THEOREM WalIndexIsolation ==
  Spec /\ []~StaleCheckpoint /\ []~TornRestart => []SnapshotIsolation
<1>1. IInv /\ HInv => SnapshotIsolation
  BY IsolationFacts
<1> QED BY <1>1, WalIndexInvariant, WalIndexAgreement, PTL

\* Should every process die now, walIndexRecover would find the last published
\* transaction, or the one being published: no checkpoint and no log restart
\* drops a transaction.
THEOREM WalIndexSurvival ==
  Spec /\ []~StaleCheckpoint /\ []~TornRestart => []CommitsSurvive
<1>1. IInv /\ HInv => CommitsSurvive
  BY SurvivalFacts
<1> QED BY <1>1, WalIndexInvariant, WalIndexAgreement, PTL

-----------------------------------------------------------------------------
(* Only a death leaves a restart half done *)

\* Nobody dies in the middle of starting a log over.
RestartsComplete ==
  \A c \in Conn : Die(c) => con[c].then \notin {"restart", "truncate"}

\* A step that changes neither nBackfill nor the published header, taken by a
\* connection that starts nothing over.
LEMMA SameHeader ==
  ASSUME IInv, ~TornRestart, sc' = sc, NEW c \in Conn, Open(c) \/ Die(c) \/ Step(c),
         con[c].then \notin {"restart", "truncate"} \/ con'[c].then = con[c].then,
         shm'.nBackfill = shm.nBackfill, shm'.hdr0 = shm.hdr0
  PROVE  ~TornRestart'
<1>1. PICK r : Become(c, r)
  BY OneMoves
<1>2. \A d \in Conn \ {c} : con'[d] = con[d]
  BY <1>1 DEF Become, IInv, TypeInv
<1>3. \A d \in Conn : con[d].then \in {"restart", "truncate"} => con'[d].then = con[d].then
  BY <1>2
<1> QED BY <1>3 DEF TornRestart

\* A step after which nothing beyond the published header counts as backfilled.
LEMMA WithinHeader ==
  ASSUME shm'.nBackfill \in Nat, shm'.hdr0.mx \in Nat, shm'.nBackfill <= shm'.hdr0.mx
  PROVE  ~TornRestart'
BY DEF TornRestart

\* The steps that change nBackfill or the published header.
LEMMA HeaderMoves ==
  ASSUME IInv, HInv, ~StaleCheckpoint, ~TornRestart, sc' = sc, NEW c \in Conn,
         WriteHdr0(c) \/ CkptCopied(c) \/ EndRecover(c) \/ EndRestart(c) \/ CkptTruncate(c)
  PROVE  ~TornRestart'
<1> DEFINE q == con[c]
<1>1. /\ q \in ConSet(sc) /\ Ctl(q) /\ Held(sc, q) /\ OneNow(q) /\ sc \in Scenarios
      /\ shm \in ShmSet(sc) /\ q.hdr.mx \in Nat /\ q.mxSafe \in Nat
  BY Facts, Numerals DEF IInv, TypeInv
<1>2. /\ shm.hdr0.mx \in Nat /\ shm.nBackfill \in Nat /\ shm.hdr0.mx <= RecoveredMx
      /\ RecoveredMx \in Nat
  BY Published
<1>3. CASE WriteHdr0(c)
  <2>1. /\ q.pc = "write0" /\ shm' = [shm EXCEPT !.hdr0 = q.hdr] /\ Goto(c, q.then)
    BY <1>3 DEF WriteHdr0
  <2>2. shm'.hdr0 = q.hdr /\ shm'.nBackfill = shm.nBackfill
    BY <1>1, <2>1 DEF ShmSet
  <2>3. q.then \in {"commit", "recover", "restart", "truncate"} /\ q.writeLock = TRUE
    <3>1. q.then \in {"none", "commit", "recover", "restart", "truncate"}
      BY ConnTypes
    <3> QED BY <3>1, <1>1, <2>1 DEF Ctl, Held
  <2>4. CASE q.then \in {"restart", "truncate"}
    <3>1. con'[c].then = q.then
      BY <1>1, <2>1 DEF Goto, Become, IInv, TypeInv, ConSet
    <3> QED BY <2>4, <3>1 DEF TornRestart
  <2>5. CASE q.then \in {"commit", "recover"}
    <3>1. shm.nBackfill <= shm.hdr0.mx
      BY <2>3, <2>5, BackfillBound
    <3>2. q.hdr.mx = RecoveredMx
      BY <1>1, <2>1, <2>5 DEF OneNow, One, CommitOk, RecoverOk, Publishing
    <3>3. shm.nBackfill <= q.hdr.mx
      BY <3>1, <3>2, <1>2
    <3> QED BY <3>3, <2>2, <1>1, <1>2, WithinHeader
  <2> QED BY <2>3, <2>4, <2>5
<1>4. CASE CkptCopied(c)
  <2>1. q.pc = "copy" /\ shm' = [shm EXCEPT !.nBackfill = q.mxSafe]
    BY <1>4 DEF CkptCopied
  <2>2. shm'.nBackfill = q.mxSafe /\ shm'.hdr0 = shm.hdr0
    BY <1>1, <2>1 DEF ShmSet
  <2>3. q.hdr.salt = shm.hdr0.salt
    BY <2>1 DEF StaleCheckpoint
  <2>4. q.mxSafe <= q.hdr.mx /\ q.hdr.mx <= shm.hdr0.mx
    BY <1>1, <2>1, <2>3 DEF OneNow, One, CkptOk, WorkOk, Checkpointing, Working
  <2>5. q.mxSafe <= shm.hdr0.mx
    BY <2>4, <1>1, <1>2
  <2> QED BY <2>2, <2>5, <1>1, <1>2, WithinHeader
<1>5. CASE EndRecover(c) \/ EndRestart(c) \/ CkptTruncate(c)
  <2>1. PICK marks : shm' = [shm EXCEPT !.nBackfill = 0, !.aReadMark = marks]
    BY <1>5 DEF EndRecover, EndRestart, CkptTruncate, RestartInfo
  <2>2. shm'.nBackfill = 0 /\ shm'.hdr0 = shm.hdr0
    BY <1>1, <2>1 DEF ShmSet
  <2>3. 0 \in Nat /\ 0 <= shm.hdr0.mx
    BY <1>2
  <2> QED BY <2>2, <2>3, <1>2, WithinHeader
<1> QED BY <1>3, <1>4, <1>5

LEMMA NotTorn ==
  ASSUME IInv, HInv, ~StaleCheckpoint, ~TornRestart, [Next]_vars, UNCHANGED vars \/ RestartsComplete
  PROVE  ~TornRestart'
<1>1. CASE UNCHANGED vars
  BY <1>1 DEF vars, TornRestart
<1>2. CASE Next /\ RestartsComplete
  <2>1. sc' = sc
    BY <1>2 DEF Next
  <2>2. PICK c \in Conn : Open(c) \/ Die(c) \/ Step(c)
    BY <1>2 DEF Next
  <2> DEFINE q == con[c]
  <2>3. Ctl(q) /\ shm \in ShmSet(sc) /\ q \in ConSet(sc)
        /\ q.then \in {"none", "commit", "recover", "restart", "truncate"}
    BY Facts, ConnTypes DEF IInv, TypeInv
  <2>4. q.pc \notin {"write1", "write0", "restart", "truncate"} =>
          q.then \notin {"restart", "truncate"}
    BY <2>3 DEF Ctl
  <2>5. CASE Open(c)
    <3>1. q.pc = "closed" /\ (shm' = FreshShm \/ shm' = shm)
      BY <2>5 DEF Open
    <3>2. CASE shm' = FreshShm
      <4>1. shm'.nBackfill = 0 /\ shm'.hdr0.mx = 0
        BY <3>2 DEF FreshShm, BadHdr
      <4> QED BY <4>1 DEF TornRestart
    <3>3. CASE shm' = shm
      BY <2>1, <2>4, <2>5, <3>1, <3>3, SameHeader
    <3> QED BY <3>1, <3>2, <3>3
  <2>6. CASE Die(c)
    <3>1. q.then \notin {"restart", "truncate"} /\ shm' = shm
      BY <1>2, <2>6 DEF RestartsComplete, Die
    <3> QED BY <2>1, <2>6, <3>1, SameHeader
  <2>7. CASE Step(c)
    <3>1. CASE WriteHdr0(c) \/ CkptCopied(c) \/ EndRecover(c) \/ EndRestart(c) \/ CkptTruncate(c)
      BY <2>1, <3>1, HeaderMoves
    <3>2. CASE WriteHdr1(c)
      <4>1. shm' = [shm EXCEPT !.hdr1 = q.hdr] /\ Goto(c, "write0")
        BY <3>2 DEF WriteHdr1
      <4>2. con'[c].then = q.then
        BY <2>3, <4>1 DEF Goto, Become, IInv, TypeInv, ConSet
      <4>3. shm'.nBackfill = shm.nBackfill /\ shm'.hdr0 = shm.hdr0
        BY <2>3, <4>1 DEF ShmSet
      <4> QED BY <2>1, <2>2, <4>2, <4>3, SameHeader
    <3>3. CASE \/ BeginRead(c) \/ ReadHdr0(c) \/ ReadHdr1(c) \/ HdrRetryOk(c) \/ HdrBusy(c)
               \/ Protocol(c) \/ TryRead0(c) \/ Check0(c) \/ LockMark(c) \/ CheckMark(c)
               \/ EndRead(c) \/ BeginWrite(c) \/ Rollback(c) \/ RestartLog(c) \/ EndCommit(c)
      <4>1. /\ q.pc \notin {"write1", "write0", "restart", "truncate"} /\ shm' = shm
        BY <3>3 DEF BeginRead, ReadHdr0, ReadHdr1, HdrRetryOk, HdrBusy, Protocol, TryRead0,
           Check0, LockMark, CheckMark, EndRead, BeginWrite, Rollback, RestartLog, EndCommit
      <4> QED BY <2>1, <2>2, <2>4, <4>1, SameHeader
    <3>4. CASE \/ (\E m \in sc.modes : StartCkpt(c, m)) \/ CkptInit(c) \/ CkptReadMark(c)
               \/ CkptLock0(c) \/ CkptCopy(c) \/ CkptInterrupt(c) \/ CkptEnd(c) \/ CkptDone(c)
      <4>1. /\ q.pc \notin {"write1", "write0", "restart", "truncate"} /\ shm' = shm
        BY <3>4 DEF StartCkpt, CkptInit, CkptReadMark, CkptLock0, CkptCopy, CkptInterrupt,
           CkptEnd, CkptDone
      <4> QED BY <2>1, <2>2, <2>4, <4>1, SameHeader
    <3>5. CASE StartRecover(c) \/ SelectMark(c) \/ CkptTryMark(c)
               \/ \E pages \in PageLists : AppendFrames(c, pages)
      <4>1. /\ q.pc \notin {"write1", "write0", "restart", "truncate"}
            /\ shm'.nBackfill = shm.nBackfill /\ shm'.hdr0 = shm.hdr0
        <5>1. CASE StartRecover(c)
          <6>1. PICK a : shm' = [shm EXCEPT !.aPgno = a]
            BY <5>1 DEF StartRecover
          <6>2. q.pc = "badhdr"
            BY <5>1 DEF StartRecover
          <6> QED BY <2>3, <6>1, <6>2 DEF ShmSet
        <5>2. CASE \E pages \in PageLists : AppendFrames(c, pages)
          <6>1. PICK a : shm' = [shm EXCEPT !.aPgno = a]
            BY <5>2 DEF AppendFrames
          <6>2. q.pc = "append"
            BY <5>2 DEF AppendFrames
          <6> QED BY <2>3, <6>1, <6>2 DEF ShmSet
        <5>3. CASE SelectMark(c)
          <6>1. shm' = shm \/ \E i, y : shm' = [shm EXCEPT !.aReadMark[i] = y]
            BY <5>3, Zenon DEF SelectMark
          <6>2. q.pc = "mark"
            BY <5>3 DEF SelectMark
          <6> QED BY <2>3, <6>1, <6>2 DEF ShmSet
        <5>4. CASE CkptTryMark(c)
          <6>1. shm' = shm \/ \E i, y : shm' = [shm EXCEPT !.aReadMark[i] = y]
            BY <5>4 DEF CkptTryMark
          <6>2. q.pc = "trymark"
            BY <5>4 DEF CkptTryMark
          <6> QED BY <2>3, <6>1, <6>2 DEF ShmSet
        <5> QED BY <3>5, <5>1, <5>2, <5>3, <5>4
      <4> QED BY <2>1, <2>2, <2>4, <4>1, SameHeader
    <3> QED BY <2>7, <3>1, <3>2, <3>3, <3>4, <3>5 DEF Step
  <2> QED BY <2>2, <2>5, <2>6, <2>7
<1> QED BY <1>1, <1>2

\* A log restart is left half done only when the process that does it dies in
\* the middle of it (walRestartHdr publishes the header before nBackfill).
THEOREM WalIndexTornByDeath ==
  Spec /\ []~StaleCheckpoint /\ [][RestartsComplete]_vars => []~TornRestart
<1>1. Init => HInv /\ ~TornRestart
  <2>1. ASSUME Init PROVE ~TornRestart
    BY <2>1 DEF Init, FreshShm, BadHdr, TornRestart
  <2> QED BY <2>1, InitH
<1>2. IInv /\ HInv /\ ~TornRestart /\ ~StaleCheckpoint /\ [Next]_vars /\ [RestartsComplete]_vars
        => HInv' /\ ~TornRestart'
  BY NextH, NotTorn
<1> QED BY <1>1, <1>2, WalIndexInvariant, PTL DEF Spec

\* With every restart completed, snapshots and recoveries are those of the
\* transactions, whatever else dies, as long as no checkpoint is stale.
THEOREM WalIndexCompleteRestarts ==
  Spec /\ []~StaleCheckpoint /\ [][RestartsComplete]_vars => [](SnapshotIsolation /\ CommitsSurvive)
BY WalIndexTornByDeath, WalIndexIsolation, WalIndexSurvival, PTL
=============================================================================
