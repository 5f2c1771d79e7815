----------------------------- MODULE PagerProofs -----------------------------
(***************************************************************************)
(* Theorems about Pager: what each step of a call holds of the lock on the  *)
(* database file, that nobody changes the database under a reader, and that *)
(* readers find the last commit as long as the journal brings it back.      *)
(***************************************************************************)
EXTENDS Pager, BoundedSets, TLAPS

-----------------------------------------------------------------------------
(* The inductive invariant *)

\* What the state of a connection and its place in a call say of its lock.
Control(me, l) ==
  \/ me.eState = "OPEN" /\ me.pc = "idle" /\ l = NO_LOCK
  \/ /\ me.eState = "OPEN" /\ l = SHARED_LOCK
     /\ me.pc \in {"access", "reserved", "first", "hotlock", "vers"}
  \/ me.eState = "OPEN" /\ me.pc \in {"hotopen", "play"} /\ l = EXCLUSIVE_LOCK
  \/ me.eState = "READER" /\ me.pc = "idle" /\ l = SHARED_LOCK
  \/ me.eState = "LOCKED" /\ me.pc \in {"idle", "undo", "play"} /\ l >= RESERVED_LOCK
  \/ me.eState = "CACHEMOD" /\ me.pc \in {"idle", "excl", "undo", "play"} /\ l >= RESERVED_LOCK
  \/ me.eState = "CACHEMOD" /\ me.pc \in {"nrec", "jsync"} /\ l = EXCLUSIVE_LOCK
  \/ /\ me.eState = "DBMOD" /\ l = EXCLUSIVE_LOCK
     /\ me.pc \in {"idle", "excl", "undo", "play"} \cup WriteStep
  \/ me.eState = "FINISHED" /\ me.pc \in {"final", "trunc", "play"} /\ l = EXCLUSIVE_LOCK
  \/ me.eState = "ERROR" /\ me.pc = "idle" /\ l >= SHARED_LOCK

\* The locks of two connections, and who is seen as RESERVED.
LockInv ==
  /\ \A c \in Conn : (c \in reserved => held[c] >= RESERVED_LOCK)
                     /\ (held[c] \in {RESERVED_LOCK, PENDING_LOCK} => c \in reserved)
  /\ \A c, d \in Conn : c # d =>
       /\ held[c] = EXCLUSIVE_LOCK => held[d] = NO_LOCK
       /\ held[c] >= RESERVED_LOCK => held[d] < RESERVED_LOCK

\* What remains to be done with the journal: exists says that there is a file,
\* j is what it holds.
Hot(exists, j) == exists /\ HasMagic(j, 1)
Writing == {"CACHEMOD"} \cup DbModified
JournalInv(me, exists, j) ==
  /\ me.pc \in {"play", "undo"} \/ me.eState \in Writing => me.jfd # "closed"
  /\ me.eState \in Writing /\ me.pc # "play" => me.off \in Nat \ {0}
  /\ me.pc = "play" /\ me.off = 0 => ~HasMagic(j, 1)
  /\ me.pc = "trunc" => ~Hot(exists, j)

HasFields(me) == {"eState", "pc", "jfd", "off"} \subseteq DOMAIN me
FilesInv == DOMAIN jrn = Slot /\ DOMAIN jdisk = Slot /\ \A o \in jold : DOMAIN o.disk = Slot

IInv ==
  /\ held \in [Conn -> LockLevel] /\ reserved \in SUBSET Conn
  /\ DOMAIN con = Conn /\ FilesInv /\ LockInv
  /\ \A c \in Conn : HasFields(con[c]) /\ Control(con[c], held[c])
                     /\ JournalInv(con[c], jexists, jrn)

\* A connection that reads, after sqlite3PagerSharedLock() and before it writes
\* to the database.
Settled(me) == me.eState \in {"READER", "LOCKED", "CACHEMOD"} /\ me.pc # "play"

\* A connection that has found the database to be in order and has not changed it.
Calm(me, l) == me.pc = "vers" \/ Settled(me) \/ l \in {RESERVED_LOCK, PENDING_LOCK}
CalmInv == \A c \in Conn : Calm(con[c], held[c]) => Holds(db, image)

\* No page of the database changes, and nothing is committed, while somebody reads.
ReadersUndisturbed ==
  [][\A c \in Conn : Settled(con[c]) /\ Settled(con[c])' => UNCHANGED <<db, image>>]_vars

-----------------------------------------------------------------------------
(* Steps *)

\* How a step of c changes the locks: it takes one by the rules of FileLock, or
\* keeps no more than SHARED.
LockStep(c) ==
  \/ UNCHANGED locks
  \/ FL!AcquireShared(c) \/ FL!AcquireReserved(c)
  \/ FL!AcquirePending(c) /\ held[c] = RESERVED_LOCK
  \/ FL!AcquireExclusive(c)
  \/ held[c] >= SHARED_LOCK /\ UnlockTo(c, SHARED_LOCK)
  \/ UnlockTo(c, NO_LOCK)

\* Locks stay compatible, whoever takes or releases one.
LEMMA LockFacts ==
  ASSUME held \in [Conn -> LockLevel], reserved \in SUBSET Conn, LockInv,
         NEW c \in Conn, LockStep(c)
  PROVE  /\ held' \in [Conn -> LockLevel] /\ reserved' \in SUBSET Conn /\ LockInv'
         /\ \A d \in Conn \ {c} : held'[d] = held[d]
<1> USE DEF FL!NO_LOCK, FL!SHARED_LOCK, FL!RESERVED_LOCK, FL!PENDING_LOCK, FL!EXCLUSIVE_LOCK,
        NO_LOCK, SHARED_LOCK, RESERVED_LOCK, PENDING_LOCK, EXCLUSIVE_LOCK, LockLevel
<1>1. CASE UNCHANGED locks
  BY <1>1 DEF LockInv, locks
<1>2. CASE FL!AcquireShared(c)
  <2>1. /\ held' = [held EXCEPT ![c] = 1] /\ reserved' = reserved /\ held[c] = 0
        /\ \A d \in Conn \ {c} : held[d] < 3
    BY <1>2 DEF FL!AcquireShared, FL!Others, FL!Siblings
  <2> QED BY <2>1 DEF LockInv
<1>3. CASE FL!AcquireReserved(c)
  <2>1. /\ held' = [held EXCEPT ![c] = 2] /\ reserved' = {c} /\ reserved = {}
        /\ held[c] = 1 /\ \A d \in Conn \ {c} : held[d] < 4
    BY <1>3 DEF FL!AcquireReserved, FL!Others
  <2>2. \A d \in Conn \ {c} : held[d] < 2
    BY <2>1 DEF LockInv
  <2> QED BY <2>1, <2>2 DEF LockInv
<1>4. CASE FL!AcquirePending(c) /\ held[c] = 2
  <2>1. /\ held' = [held EXCEPT ![c] = 3] /\ reserved' = reserved
    BY <1>4 DEF FL!AcquirePending
  <2> QED BY <1>4, <2>1 DEF LockInv
<1>5. CASE FL!AcquireExclusive(c)
  <2>1. /\ held' = [held EXCEPT ![c] = 4] /\ reserved' = reserved
        /\ \A d \in Conn \ {c} : held[d] = 0
    BY <1>5 DEF FL!AcquireExclusive, FL!Others
  <2> QED BY <2>1 DEF LockInv
<1>6. CASE held[c] >= SHARED_LOCK /\ UnlockTo(c, SHARED_LOCK)
  BY <1>6 DEF LockInv, UnlockTo
<1>7. CASE UnlockTo(c, NO_LOCK)
  BY <1>7 DEF LockInv, UnlockTo
<1> QED BY <1>1, <1>2, <1>3, <1>4, <1>5, <1>6, <1>7 DEF LockStep

\* What a step of c has done to the other connections and to the files: only
\* who is RESERVED or more changes the journal, and only the holder of
\* EXCLUSIVE the database.
StepOf(c) ==
  /\ DOMAIN con' = Conn /\ \A d \in Conn \ {c} : con'[d] = con[d]
  /\ LockStep(c)
  /\ UNCHANGED <<jexists, jrn>> \/ held[c] >= RESERVED_LOCK
  /\ UNCHANGED <<db, image>> \/ held[c] = EXCLUSIVE_LOCK
  /\ Settled(con[c]) => UNCHANGED <<db, image>>

\* The database is in order for c after the step, if the journal is right: it was
\* in order for somebody before, or there is no hot journal.
Ordered(c) ==
  Calm(con'[c], held'[c]) =>
    \/ UNCHANGED <<db, image>> /\ \E d \in Conn : Calm(con[d], held[d])
    \/ UNCHANGED <<db, image>> /\ ~Hot(jexists, jrn)
    \/ ~Hot(jexists', jrn')

\* The parts of a step that remain to be shown for each action.
Good(c) == /\ StepOf(c) /\ FilesInv' /\ Ordered(c)
           /\ HasFields(con'[c]) /\ Control(con'[c], held'[c])
           /\ JournalInv(con'[c], jexists', jrn')

\* A good step keeps the invariant.
LEMMA StepFacts ==
  ASSUME IInv, NEW c \in Conn, Good(c)
  PROVE  IInv'
<1> USE DEF NO_LOCK, SHARED_LOCK, RESERVED_LOCK, PENDING_LOCK, EXCLUSIVE_LOCK, LockLevel
<1>1. /\ held \in [Conn -> LockLevel] /\ reserved \in SUBSET Conn /\ LockInv /\ LockStep(c)
      /\ StepOf(c) /\ FilesInv'
  BY DEF IInv, Good, StepOf
<1>2. /\ held' \in [Conn -> LockLevel] /\ reserved' \in SUBSET Conn /\ LockInv'
      /\ \A d \in Conn \ {c} : held'[d] = held[d]
  BY <1>1, LockFacts
<1>3. ASSUME NEW d \in Conn
      PROVE  HasFields(con'[d]) /\ Control(con'[d], held'[d])
             /\ JournalInv(con'[d], jexists', jrn')
  <2>1. CASE d = c
    BY <2>1 DEF Good
  <2>2. CASE d # c
    <3>1. con'[d] = con[d] /\ held'[d] = held[d]
      BY <1>1, <1>2, <2>2 DEF StepOf
    <3>2. HasFields(con[d]) /\ Control(con[d], held[d]) /\ JournalInv(con[d], jexists, jrn)
      BY DEF IInv
    <3>3. CASE UNCHANGED <<jexists, jrn>>
      BY <3>1, <3>2, <3>3
    <3>4. CASE held[c] >= RESERVED_LOCK
      <4>1. held[d] < RESERVED_LOCK /\ held[d] \in LockLevel
        BY <1>1, <2>2, <3>4 DEF LockInv
      <4>2. ~(con[d].pc \in {"play", "trunc"})
        BY <3>2, <4>1 DEF Control
      <4> QED BY <3>1, <3>2, <4>2 DEF JournalInv
    <3> QED BY <1>1, <3>3, <3>4 DEF StepOf
  <2> QED BY <2>1, <2>2
<1> QED BY <1>1, <1>2, <1>3 DEF IInv, StepOf

\* The connection of a step, in the terms of the invariant.
LEMMA ConFacts ==
  ASSUME IInv, NEW c \in Conn
  PROVE  /\ HasFields(con[c]) /\ Control(con[c], held[c])
         /\ JournalInv(con[c], jexists, jrn) /\ held[c] \in LockLevel /\ FilesInv
         /\ \A me : Become(c, me) =>
              /\ con'[c] = me /\ DOMAIN con' = Conn
              /\ \A d \in Conn \ {c} : con'[d] = con[d]
BY DEF IInv, Become

\* The end of a journal file is a number.
LEMMA SizeNat ==
  ASSUME FilesInv PROVE Size(jrn) \in Nat
<1> DEFINE S == {x \in DOMAIN jrn : jrn[x] # None} \cup {0}
<1>1. MaxSlot \in Nat
  BY PagerAssumption DEF MaxSlot
<1>2. S \in SUBSET (0 .. MaxSlot) /\ S # {}
  BY <1>1 DEF FilesInv, Slot
<1> HIDE DEF S
<1>3. Max(S) \in S
  BY <1>1, <1>2, MaxFacts, Zenon
<1>4. S \subseteq Nat
  BY <1>1, <1>2
<1>5. Max(S) \in Nat
  BY <1>3, <1>4, Zenon
<1> QED BY <1>5 DEF Size, S

\* There is no hot journal without a first header.
LEMMA NoHeader ==
  /\ ~HasMagic(Blank, 1)
  /\ \A j : ~HasMagic([j EXCEPT ![1] = ZeroHeader], 1) \/ 1 \notin DOMAIN j
<1>1. ~HasMagic(Blank, 1)
  BY PagerAssumption DEF HasMagic, IsHeader, Blank
<1>2. \A j : 1 \in DOMAIN j => ~HasMagic([j EXCEPT ![1] = ZeroHeader], 1)
  BY DEF HasMagic, IsHeader, ZeroHeader
<1> QED BY <1>1, <1>2

-----------------------------------------------------------------------------
(* sqlite3PagerSharedLock *)

\* A step within a call that changes neither file and only where c is.
LEMMA Look ==
  ASSUME IInv, NEW c \in Conn, con[c].eState = "OPEN",
         NEW from, NEW pc \in {"access", "reserved", "first", "hotlock", "hotopen", "vers"},
         GoTo(c, from, pc), LockStep(c),
         held'[c] = IF pc = "hotopen" THEN EXCLUSIVE_LOCK ELSE SHARED_LOCK,
         pc = "vers" => ~Hot(jexists, jrn) \/ \E d \in Conn : Calm(con[d], held[d])
  PROVE  Good(c)
<1>1. /\ HasFields(con[c]) /\ con'[c] = [con[c] EXCEPT !.pc = pc] /\ DOMAIN con' = Conn
      /\ \A d \in Conn \ {c} : con'[d] = con[d]
      /\ FilesInv /\ held[c] \in LockLevel
  BY ConFacts DEF GoTo
<1>2. UNCHANGED <<jexists, jrn, jdisk, jold, db, image>>
  BY DEF GoTo, disk, jvars
<1>3. con'[c].eState = "OPEN" /\ con'[c].pc = pc /\ HasFields(con'[c])
  BY <1>1 DEF HasFields
<1>4. JournalInv(con'[c], jexists', jrn')
  BY <1>3 DEF JournalInv, Writing, DbModified
<1>5. StepOf(c)
  BY <1>1, <1>2 DEF StepOf
<1>6. FilesInv'
  BY <1>1, <1>2 DEF FilesInv
<1>7. Control(con'[c], held'[c])
  BY <1>3 DEF Control, WriteStep
<1>8. Calm(con'[c], held'[c]) => pc = "vers"
  BY <1>3 DEF Calm, Settled, NO_LOCK, SHARED_LOCK, RESERVED_LOCK, PENDING_LOCK, EXCLUSIVE_LOCK
<1>9. Ordered(c)
  BY <1>2, <1>8 DEF Ordered
<1> QED BY <1>1, <1>3, <1>4, <1>5, <1>6, <1>7, <1>9 DEF Good

\* The steps up to the lock for a hot journal.
LEMMA LookSteps ==
  ASSUME IInv, NEW c \in Conn,
         SharedLock(c) \/ Access(c) \/ CheckReserved(c) \/ ReadFirst(c) \/ HotLock(c)
  PROVE  Good(c)
<1> USE DEF NO_LOCK, SHARED_LOCK, RESERVED_LOCK, PENDING_LOCK, EXCLUSIVE_LOCK, LockLevel
<1>1. HasFields(con[c]) /\ Control(con[c], held[c]) /\ held[c] \in LockLevel
  BY ConFacts
<1>2. CASE SharedLock(c)
  <2>1. /\ con[c].pc = "idle" /\ con[c].eState = "OPEN" /\ held' = [held EXCEPT ![c] = 1]
        /\ GoTo(c, "idle", "access") /\ FL!AcquireShared(c)
    BY <1>2 DEF SharedLock, GoTo, FL!AcquireShared, FL!SHARED_LOCK
  <2>2. LockStep(c) /\ held'[c] = 1
    BY <2>1 DEF LockStep, IInv
  <2> QED BY <2>1, <2>2, Look
<1>3. CASE Access(c)
  <2> DEFINE pc == IF jexists THEN "reserved" ELSE "vers"
  <2>1. con[c].pc = "access" /\ GoTo(c, "access", pc) /\ UNCHANGED locks
    BY <1>3 DEF Access, GoTo
  <2>2. LockStep(c) /\ held'[c] = held[c]
    BY <2>1 DEF LockStep, locks
  <2>3. con[c].eState = "OPEN" /\ held[c] = 1
    BY <1>1, <2>1 DEF Control, WriteStep
  <2>4. pc = "vers" => ~Hot(jexists, jrn)
    BY DEF Hot
  <2> QED BY <2>1, <2>2, <2>3, <2>4, Look
<1>4. CASE CheckReserved(c)
  <2> DEFINE pc == IF reserved \ {c} # {} THEN "vers" ELSE "first"
  <2>1. con[c].pc = "reserved" /\ GoTo(c, "reserved", pc) /\ UNCHANGED locks
    BY <1>4 DEF CheckReserved, GoTo
  <2>2. LockStep(c) /\ held'[c] = held[c]
    BY <2>1 DEF LockStep, locks
  <2>3. con[c].eState = "OPEN" /\ held[c] = 1
    BY <1>1, <2>1 DEF Control, WriteStep
  <2>4. ASSUME pc = "vers" PROVE \E d \in Conn : Calm(con[d], held[d])
    <3>1. PICK d \in reserved : d # c
      BY <2>4
    <3>2. d \in Conn /\ held[d] >= 2 /\ held[d] \in LockLevel
      BY <3>1 DEF IInv, LockInv
    <3>3. held[d] # 4
      BY <2>3, <3>1, <3>2 DEF IInv, LockInv
    <3>4. held[d] \in {2, 3}
      BY <3>2, <3>3
    <3> QED BY <3>2, <3>4 DEF Calm
  <2> QED BY <2>1, <2>2, <2>3, <2>4, Look
<1>5. CASE ReadFirst(c)
  <2> DEFINE pc == IF ~jexists \/ HasMagic(jrn, 1) THEN "hotlock" ELSE "vers"
  <2>1. con[c].pc = "first" /\ GoTo(c, "first", pc) /\ UNCHANGED locks
    BY <1>5 DEF ReadFirst, GoTo
  <2>2. LockStep(c) /\ held'[c] = held[c]
    BY <2>1 DEF LockStep, locks
  <2>3. con[c].eState = "OPEN" /\ held[c] = 1
    BY <1>1, <2>1 DEF Control, WriteStep
  <2>4. pc = "vers" => ~Hot(jexists, jrn)
    BY DEF Hot
  <2> QED BY <2>1, <2>2, <2>3, <2>4, Look
<1>6. CASE HotLock(c)
  <2>1. /\ con[c].pc = "hotlock" /\ FL!AcquireExclusive(c) /\ held' = [held EXCEPT ![c] = 4]
        /\ GoTo(c, "hotlock", "hotopen")
    BY <1>6 DEF HotLock, GoTo, FL!AcquireExclusive, FL!EXCLUSIVE_LOCK
  <2>2. LockStep(c) /\ held'[c] = 4
    BY <2>1 DEF LockStep, IInv
  <2>3. con[c].eState = "OPEN"
    BY <1>1, <2>1 DEF Control, WriteStep
  <2> QED BY <2>1, <2>2, <2>3, Look
<1> QED BY <1>2, <1>3, <1>4, <1>5, <1>6

-----------------------------------------------------------------------------
(* Steps of one connection *)

Moves(c) == DOMAIN con' = Conn /\ \A d \in Conn \ {c} : con'[d] = con[d]

\* Pager object n is where m is in the protocol.
SamePlace(m, n) == n.eState = m.eState /\ n.pc = m.pc /\ n.jfd = m.jfd /\ n.off = m.off

\* A step that changes nothing but the Pager object.
LEMMA Quiet ==
  ASSUME IInv, NEW c \in Conn, Moves(c), UNCHANGED <<locks, disk, jvars, image>>,
         HasFields(con'[c]), Control(con'[c], held[c]), JournalInv(con'[c], jexists, jrn),
         Calm(con'[c], held[c]) => Calm(con[c], held[c])
  PROVE  Good(c)
<1>1. UNCHANGED <<held, reserved, db, dbDisk, jexists, jrn, jdisk, jold, image>>
  BY DEF locks, disk, jvars
<1>2. StepOf(c)
  BY <1>1 DEF StepOf, Moves, LockStep, locks
<1>3. FilesInv'
  BY <1>1, ConFacts DEF FilesInv
<1>4. Ordered(c)
  BY <1>1 DEF Ordered
<1> QED BY <1>1, <1>2, <1>3, <1>4 DEF Good

\* A connection gives up its lock, and its transaction with it.
LEMMA GaveUp ==
  ASSUME IInv, NEW c \in Conn, Moves(c), LockStep(c), held'[c] = NO_LOCK,
         UNCHANGED <<disk, jvars, image>>,
         HasFields(con'[c]), con'[c].eState = "OPEN", con'[c].pc = "idle"
  PROVE  Good(c)
<1>1. UNCHANGED <<db, dbDisk, jexists, jrn, jdisk, jold, image>>
  BY DEF disk, jvars
<1>2. StepOf(c)
  BY <1>1 DEF StepOf, Moves
<1>3. FilesInv'
  BY <1>1, ConFacts DEF FilesInv
<1>4. ~Calm(con'[c], held'[c])
  BY DEF Calm, Settled, NO_LOCK, RESERVED_LOCK, PENDING_LOCK
<1>5. Control(con'[c], held'[c])
  BY DEF Control
<1>6. JournalInv(con'[c], jexists', jrn')
  BY DEF JournalInv, Writing, DbModified
<1> QED BY <1>2, <1>3, <1>4, <1>5, <1>6 DEF Good, Ordered

\* A Pager object that starts anew.
LEMMA FreshFacts ==
  /\ HasFields(Fresh) /\ Fresh.eState = "OPEN" /\ Fresh.pc = "idle"
  /\ \A me : LET u == Unlocked(me) IN
       HasFields(u) /\ u.eState = "OPEN" /\ u.pc = "idle"
BY DEF HasFields, Fresh, Unlocked

\* The ends of a read transaction, and of a process.
LEMMA EndSteps ==
  ASSUME IInv, NEW c \in Conn, HotBusy(c) \/ EndRead(c) \/ HotFails(c) \/ Crash(c)
  PROVE  Good(c)
<1>1. held \in [Conn -> LockLevel] /\ reserved \in SUBSET Conn
  BY DEF IInv
<1>2. CASE HotBusy(c) \/ EndRead(c) \/ HotFails(c)
  <2>1. UnlockTo(c, NO_LOCK) /\ UNCHANGED <<disk, jvars, image>>
    BY <1>2 DEF HotBusy, EndRead, HotFails
  <2>2. LockStep(c) /\ held'[c] = NO_LOCK
    BY <1>1, <2>1 DEF LockStep, UnlockTo
  <2>3. PICK me : Become(c, me) /\ HasFields(me) /\ me.eState = "OPEN" /\ me.pc = "idle"
    <3>1. CASE HotBusy(c)
      BY <3>1, FreshFacts DEF HotBusy
    <3>2. CASE EndRead(c)
      <4> DEFINE u == Unlocked(con[c])
                 v == [u EXCEPT !.cache = IF con[c].eState = "ERROR" THEN NoCache ELSE @]
      <4>1. Become(c, v)
        BY <3>2 DEF EndRead
      <4>2. HasFields(u) /\ u.eState = "OPEN" /\ u.pc = "idle"
        BY FreshFacts
      <4> HIDE DEF u
      <4>3. HasFields(v) /\ v.eState = "OPEN" /\ v.pc = "idle"
        BY <4>2 DEF HasFields
      <4> QED BY <4>1, <4>3
    <3>3. CASE HotFails(c)
      <4> DEFINE u == Unlocked(con[c])
                 v == [u EXCEPT !.cache = NoCache]
      <4>1. Become(c, v)
        BY <3>3 DEF HotFails
      <4>2. HasFields(u) /\ u.eState = "OPEN" /\ u.pc = "idle"
        BY FreshFacts
      <4> HIDE DEF u
      <4>3. HasFields(v) /\ v.eState = "OPEN" /\ v.pc = "idle"
        BY <4>2 DEF HasFields
      <4> QED BY <4>1, <4>3
    <3> QED BY <1>2, <3>1, <3>2, <3>3
  <2>4. Moves(c) /\ con'[c] = me
    BY <2>3, ConFacts DEF Moves
  <2> QED BY <2>1, <2>2, <2>3, <2>4, GaveUp
<1>3. CASE Crash(c)
  <2>1. Become(c, Fresh) /\ FL!ReleaseAll(c) /\ UNCHANGED <<disk, jvars, image>>
    BY <1>3 DEF Crash
  <2>2. UnlockTo(c, NO_LOCK)
    BY <1>1, <2>1 DEF FL!ReleaseAll, UnlockTo, FL!NO_LOCK, NO_LOCK
  <2>3. LockStep(c) /\ held'[c] = NO_LOCK
    BY <1>1, <2>2 DEF LockStep, UnlockTo
  <2>4. Moves(c) /\ con'[c] = Fresh
    BY <2>1, ConFacts DEF Moves
  <2> QED BY <2>1, <2>3, <2>4, FreshFacts, GaveUp
<1> QED BY <1>2, <1>3

\* Steps in which a connection stays where it is.
LEMMA StaySteps ==
  ASSUME IInv, NEW c \in Conn, (\E p \in Page : ReadPage(c, p)) \/ OpenSavepoint(c)
                               \/ \E i \in 0 .. sc.calls : Release(c, i)
  PROVE  Good(c)
<1>1. UNCHANGED <<locks, disk, jvars, image>>
  BY DEF ReadPage, OpenSavepoint, Release
<1>2. PICK me : Become(c, me) /\ SamePlace(con[c], me) /\ HasFields(me)
  <2>1. HasFields(con[c])
    BY ConFacts
  <2>2. ASSUME NEW p \in Page, ReadPage(c, p)
        PROVE  \E me : Become(c, me) /\ SamePlace(con[c], me) /\ HasFields(me)
    <3> DEFINE v == [con[c] EXCEPT !.cache[p] = db[p],
                                   !.vers = IF p = 1 THEN db[1] ELSE @]
    <3>1. Become(c, v)
      BY <2>2 DEF ReadPage
    <3>2. SamePlace(con[c], v) /\ HasFields(v)
      BY <2>1 DEF HasFields, SamePlace
    <3> QED BY <3>1, <3>2
  <2>3. CASE OpenSavepoint(c)
    <3> DEFINE u == Called(con[c])
               v == [u EXCEPT !.aSavepoint = Append(@, NewSavepoint(con[c]))]
    <3>1. Become(c, v)
      BY <2>3 DEF OpenSavepoint
    <3>2. SamePlace(con[c], u) /\ HasFields(u)
      BY <2>1 DEF HasFields, SamePlace, Called
    <3> HIDE DEF u
    <3>3. SamePlace(con[c], v) /\ HasFields(v)
      BY <3>2 DEF HasFields, SamePlace
    <3> QED BY <3>1, <3>3
  <2>4. ASSUME NEW i \in 0 .. sc.calls, Release(c, i)
        PROVE  \E me : Become(c, me) /\ SamePlace(con[c], me) /\ HasFields(me)
    <3> DEFINE v == [con[c] EXCEPT !.aSavepoint = SubSeq(@, 1, i - 1),
                                   !.sub = IF i = 1 THEN <<>> ELSE @]
    <3>1. Become(c, v)
      BY <2>4 DEF Release
    <3>2. SamePlace(con[c], v) /\ HasFields(v)
      BY <2>1 DEF HasFields, SamePlace
    <3> QED BY <3>1, <3>2
  <2> QED BY <2>2, <2>3, <2>4
<1>3. Moves(c) /\ con'[c] = me
  BY <1>2, ConFacts DEF Moves
<1>4. /\ Control(con'[c], held[c]) /\ JournalInv(con'[c], jexists, jrn)
      /\ Calm(con'[c], held[c]) => Calm(con[c], held[c])
  BY <1>2, <1>3, ConFacts DEF SamePlace, Control, JournalInv, Calm, Settled
<1> QED BY <1>1, <1>2, <1>3, <1>4, Quiet

\* The first step that is taken with the database in order.
LEMMA CheckVersionStep ==
  ASSUME IInv, NEW c \in Conn, CheckVersion(c) PROVE Good(c)
<1> DEFINE v == [con[c] EXCEPT !.pc = "idle", !.eState = "READER",
                               !.size = Size(db), !.view = image,
                               !.cache = IF db[1] = con[c].vers THEN @ ELSE NoCache]
<1>1. Become(c, v) /\ con[c].pc = "vers" /\ UNCHANGED <<locks, disk, jvars, image>>
  BY DEF CheckVersion
<1>2. /\ HasFields(con[c]) /\ Control(con[c], held[c]) /\ con'[c] = v /\ Moves(c)
  BY <1>1, ConFacts DEF Moves
<1>3. HasFields(v) /\ v.eState = "READER" /\ v.pc = "idle"
  BY <1>2 DEF HasFields
<1> HIDE DEF v
<1>4. held[c] = SHARED_LOCK
  BY <1>1, <1>2 DEF Control, WriteStep
<1>5. Control(v, held[c]) /\ JournalInv(v, jexists, jrn)
  BY <1>3, <1>4 DEF Control, JournalInv, Writing, DbModified
<1>6. Calm(con[c], held[c])
  BY <1>1 DEF Calm
<1> QED BY <1>1, <1>2, <1>3, <1>5, <1>6, Quiet

\* sqlite3PagerBegin()
LEMMA BeginStep ==
  ASSUME IInv, NEW c \in Conn, Begin(c) PROVE Good(c)
<1> DEFINE v == [con[c] EXCEPT !.eState = "LOCKED", !.orig = con[c].size, !.off = 0,
                               !.txn = nTxn + 1]
<1>1. /\ Become(c, v) /\ con[c].pc = "idle" /\ con[c].eState = "READER"
      /\ UNCHANGED <<disk, jvars, image>> /\ FL!AcquireReserved(c)
  BY DEF Begin
<1>2. HasFields(con[c]) /\ con'[c] = v /\ Moves(c) /\ held \in [Conn -> LockLevel]
  BY <1>1, ConFacts DEF Moves, IInv
<1>3. HasFields(v) /\ v.eState = "LOCKED" /\ v.pc = "idle"
  BY <1>1, <1>2 DEF HasFields
<1> HIDE DEF v
<1>4. LockStep(c) /\ held'[c] = RESERVED_LOCK
  BY <1>1, <1>2 DEF LockStep, FL!AcquireReserved, FL!RESERVED_LOCK, RESERVED_LOCK
<1>5. Control(v, held'[c]) /\ JournalInv(v, jexists, jrn)
  BY <1>3, <1>4 DEF Control, JournalInv, Writing, DbModified, RESERVED_LOCK
<1>6. Calm(con[c], held[c])
  BY <1>1 DEF Calm, Settled
<1>7. UNCHANGED <<db, jexists, jrn, jdisk, jold, image>>
  BY <1>1 DEF disk, jvars
<1>8. StepOf(c) /\ FilesInv'
  BY <1>2, <1>4, <1>7, ConFacts DEF StepOf, Moves, FilesInv
<1> QED BY <1>2, <1>3, <1>5, <1>6, <1>7, <1>8 DEF Good, Ordered

\* pagerStress() begins.
LEMMA SpillStep ==
  ASSUME IInv, NEW c \in Conn, NEW p \in Page, Spill(c, p) PROVE Good(c)
<1> DEFINE pc == IF p \in con[c].needSync \/ con[c].eState = "CACHEMOD" THEN "excl"
                 ELSE "write"
           v == [con[c] EXCEPT !.spill = p, !.pc = pc]
<1>1. /\ Become(c, v) /\ con[c].pc = "idle" /\ con[c].eState \in {"CACHEMOD", "DBMOD"}
      /\ UNCHANGED <<locks, disk, jvars, image>>
  BY DEF Spill
<1>2. /\ HasFields(con[c]) /\ con'[c] = v /\ Moves(c)
      /\ Control(con[c], held[c]) /\ JournalInv(con[c], jexists, jrn)
  BY <1>1, ConFacts DEF Moves
<1>3. /\ HasFields(v) /\ v.eState = con[c].eState /\ v.pc = pc
      /\ v.off = con[c].off /\ v.jfd = con[c].jfd
  BY <1>2 DEF HasFields
<1> HIDE DEF v
<1>4. /\ pc \in {"excl", "write"}
      /\ pc = "write" => con[c].eState = "DBMOD"
  BY <1>1
<1> HIDE DEF pc
<1>5. Control(v, held[c])
  BY <1>1, <1>2, <1>3, <1>4 DEF Control, WriteStep
<1>6. JournalInv(v, jexists, jrn)
  BY <1>1, <1>2, <1>3, <1>4 DEF JournalInv
<1>7. Calm(v, held[c]) => Calm(con[c], held[c])
  BY <1>1, <1>3, <1>4 DEF Calm, Settled
<1> QED BY <1>1, <1>2, <1>3, <1>5, <1>6, <1>7, Quiet

\* The rollback to a savepoint begins.
LEMMA RollbackToStep ==
  ASSUME IInv, NEW c \in Conn, NEW i \in 0 .. sc.calls, RollbackTo(c, i) PROVE Good(c)
<1> DEFINE me == con[c]
           sp == me.aSavepoint[i]
           todo == IF me.jfd = "closed" THEN <<>>
                   ELSE IF i = 0 THEN Undo(me, me.orig, SavepointSlots(me, 1, 1), <<>>)
                   ELSE Undo(me, sp.nOrig, SavepointSlots(me, sp.iOffset, sp.iHdrOffset),
                             SubSeq(me.sub, sp.iSubRec + 1, Len(me.sub)))
           pc == IF todo = <<>> THEN "idle" ELSE "undo"
           v == [me EXCEPT !.aSavepoint = SubSeq(@, 1, i), !.ccDone = FALSE,
                           !.size = IF i = 0 THEN me.orig ELSE sp.nOrig,
                           !.view = IF i = 0 THEN image ELSE sp.view,
                           !.play = todo, !.pc = pc]
<1>1. /\ Become(c, v) /\ me.pc = "idle" /\ me.eState \in {"LOCKED", "CACHEMOD", "DBMOD"}
      /\ UNCHANGED <<locks, disk, jvars, image>>
  BY DEF RollbackTo, InTransaction
<1>2. /\ pc \in {"idle", "undo"}
      /\ pc = "undo" => me.jfd # "closed"
  OBVIOUS
<1> HIDE DEF todo, pc
<1>3. /\ HasFields(me) /\ con'[c] = v /\ Moves(c)
      /\ Control(me, held[c]) /\ JournalInv(me, jexists, jrn)
  BY <1>1, ConFacts DEF Moves
<1>4. HasFields(v) /\ v.eState = me.eState /\ v.pc = pc /\ v.off = me.off /\ v.jfd = me.jfd
  BY <1>3 DEF HasFields
<1> HIDE DEF v
<1>5. Control(v, held[c])
  BY <1>1, <1>2, <1>3, <1>4 DEF Control, WriteStep
<1>6. JournalInv(v, jexists, jrn)
  BY <1>1, <1>2, <1>3, <1>4 DEF JournalInv
<1>7. Calm(v, held[c]) => Calm(me, held[c])
  BY <1>1, <1>2, <1>4 DEF Calm, Settled
<1> QED BY <1>1, <1>3, <1>4, <1>5, <1>6, <1>7, Quiet

-----------------------------------------------------------------------------
(* Steps of a writer that change the journal *)

\* A step of a connection that is RESERVED or more and leaves the database alone.
LEMMA JournalStep ==
  ASSUME IInv, NEW c \in Conn, Moves(c), LockStep(c), held[c] >= RESERVED_LOCK,
         UNCHANGED <<disk, image>>, FilesInv',
         HasFields(con'[c]), Control(con'[c], held'[c]),
         JournalInv(con'[c], jexists', jrn'),
         Calm(con'[c], held'[c]) => Calm(con[c], held[c])
  PROVE  Good(c)
<1>1. UNCHANGED <<db, image>>
  BY DEF disk
<1>2. StepOf(c)
  BY <1>1 DEF StepOf, Moves
<1> QED BY <1>1, <1>2 DEF Good, Ordered

\* The Pager object after a page is written: the journal has not become shorter.
WrittenTo(m, n) ==
  /\ HasFields(n) /\ n.eState = m.eState /\ n.pc = m.pc /\ n.jfd = m.jfd
  /\ n.off \in Nat \ {0}

LEMMA WrittenFacts ==
  ASSUME NEW me, HasFields(me), me.off \in Nat \ {0}, NEW p, NEW v
  PROVE  WrittenTo(me, Written(me, p, v))
<1> DEFINE n == Written(me, p, v)
<1>1. HasFields(n)
  BY DEF Written, HasFields
<1>2. n.eState = me.eState /\ n.pc = me.pc /\ n.jfd = me.jfd
  BY DEF Written, HasFields
<1>3. n.off = IF ToJournal(me, p) THEN me.off + 1 ELSE me.off
  BY DEF Written, HasFields
<1> HIDE DEF n
<1> QED BY <1>1, <1>2, <1>3 DEF WrittenTo, n

\* Writes to the journal leave it as long as it is.
LEMMA WriteJournalFacts ==
  ASSUME FilesInv, NEW f, WriteJournal(f), UNCHANGED jold
  PROVE  FilesInv'
BY DEF FilesInv, WriteJournal

\* sqlite3PagerWrite()
LEMMA WriteStepFacts ==
  ASSUME IInv, NEW c \in Conn, NEW p \in Page, Write(c, p) PROVE Good(c)
<1> DEFINE o == Opened(con[c])
           me == Called(o)
           v == Written(me, p, me.txn + me.calls)
<1>1. /\ Become(c, v) /\ con[c].pc = "idle"
      /\ con[c].eState \in {"LOCKED", "CACHEMOD", "DBMOD"}
      /\ UNCHANGED <<locks, disk, jold, image>>
  BY DEF Write
<1>2. \E f : WriteJournal(f)
  BY DEF Write
<1>3. /\ HasFields(con[c]) /\ con'[c] = v /\ Moves(c)
      /\ Control(con[c], held[c]) /\ JournalInv(con[c], jexists, jrn)
      /\ held[c] \in LockLevel /\ FilesInv
  BY <1>1, ConFacts DEF Moves
<1>4. /\ HasFields(o) /\ o.pc = "idle" /\ o.eState \in {"CACHEMOD", "DBMOD"}
      /\ o.jfd # "closed" /\ o.off \in Nat \ {0}
      /\ con[c].eState = "DBMOD" <=> o.eState = "DBMOD"
  <2>1. CASE con[c].eState = "LOCKED"
    BY <1>1, <1>3, <2>1 DEF Opened, HasFields
  <2>2. CASE con[c].eState # "LOCKED"
    BY <1>1, <1>3, <2>2 DEF Opened, JournalInv, Writing, DbModified
  <2> QED BY <2>1, <2>2
<1> HIDE DEF o
<1>5. HasFields(me) /\ SamePlace(o, me)
  BY <1>4 DEF Called, HasFields, SamePlace
<1> HIDE DEF me
<1>6. WrittenTo(me, v)
  BY <1>4, <1>5, WrittenFacts DEF SamePlace
<1> HIDE DEF v
<1>7. /\ HasFields(v) /\ v.eState = o.eState /\ v.pc = "idle" /\ v.jfd # "closed"
      /\ v.off \in Nat \ {0}
  BY <1>4, <1>5, <1>6 DEF WrittenTo, SamePlace
<1>8. held'[c] = held[c] /\ LockStep(c) /\ held[c] >= RESERVED_LOCK
  BY <1>1, <1>3 DEF locks, LockStep, Control, RESERVED_LOCK, EXCLUSIVE_LOCK
<1>9. Control(v, held'[c])
  BY <1>1, <1>3, <1>4, <1>7, <1>8 DEF Control
<1>10. JournalInv(v, jexists', jrn')
  BY <1>7 DEF JournalInv
<1>11. Calm(v, held'[c]) => Calm(con[c], held[c])
  BY <1>1, <1>4, <1>7, <1>8 DEF Calm, Settled
<1>12. FilesInv'
  BY <1>1, <1>2, <1>3, WriteJournalFacts
<1> QED BY <1>1, <1>3, <1>7, <1>8, <1>9, <1>10, <1>11, <1>12, JournalStep

\* The change counter is written.
LEMMA CommitStartStep ==
  ASSUME IInv, NEW c \in Conn, CommitStart(c) PROVE Good(c)
<1> DEFINE done == [con[c] EXCEPT !.pc = "excl", !.ccDone = TRUE]
<1>1. /\ con[c].pc = "idle" /\ con[c].eState \in {"CACHEMOD", "DBMOD"}
      /\ UNCHANGED <<locks, disk, jold, image>>
  BY DEF CommitStart
<1>2. /\ HasFields(con[c]) /\ FilesInv /\ held[c] \in LockLevel
      /\ Control(con[c], held[c]) /\ JournalInv(con[c], jexists, jrn)
  BY ConFacts
<1>3. /\ HasFields(done) /\ done.eState = con[c].eState /\ done.pc = "excl"
      /\ done.jfd = con[c].jfd /\ done.off = con[c].off
  BY <1>2 DEF HasFields
<1>4. con[c].jfd # "closed" /\ con[c].off \in Nat \ {0}
  BY <1>1, <1>2 DEF JournalInv, Writing, DbModified
<1>5. PICK v : Become(c, v) /\ WrittenTo(done, v)
  <2>1. CASE con[c].ccDone
    BY <1>3, <1>4, <2>1 DEF CommitStart, WrittenTo
  <2>2. CASE ~con[c].ccDone
    <3> HIDE DEF done
    <3>1. WrittenTo(done, Written(done, 1, con[c].vers + 1))
      BY <1>3, <1>4, WrittenFacts
    <3>2. Become(c, Written(done, 1, con[c].vers + 1))
      BY <2>2 DEF CommitStart, done
    <3> QED BY <3>1, <3>2
  <2> QED BY <2>1, <2>2
<1> HIDE DEF done
<1>6. con'[c] = v /\ Moves(c)
  BY <1>5, ConFacts DEF Moves
<1>7. /\ HasFields(v) /\ v.eState = con[c].eState /\ v.pc = "excl" /\ v.jfd # "closed"
      /\ v.off \in Nat \ {0}
  BY <1>3, <1>4, <1>5 DEF WrittenTo
<1>8. held'[c] = held[c] /\ LockStep(c) /\ held[c] >= RESERVED_LOCK
  BY <1>1, <1>2 DEF locks, LockStep, Control, RESERVED_LOCK, EXCLUSIVE_LOCK
<1>9. Control(v, held'[c])
  BY <1>1, <1>2, <1>7, <1>8 DEF Control
<1>10. JournalInv(v, jexists', jrn')
  BY <1>7 DEF JournalInv
<1>11. Calm(v, held'[c]) => Calm(con[c], held[c])
  BY <1>1, <1>7, <1>8 DEF Calm, Settled
<1>12. FilesInv'
  <2>1. CASE UNCHANGED <<jrn, jdisk>>
    BY <1>1, <1>2, <2>1 DEF FilesInv
  <2>2. CASE WriteJournal(JournalPage(con[c], 1))
    BY <1>1, <1>2, <2>2, WriteJournalFacts
  <2> QED BY <2>1, <2>2 DEF CommitStart
<1> QED BY <1>1, <1>6, <1>7, <1>8, <1>9, <1>10, <1>11, <1>12, JournalStep

\* syncJournal() begins with the lock.
LEMMA ExclusiveStep ==
  ASSUME IInv, NEW c \in Conn, Exclusive(c) PROVE Good(c)
<1> DEFINE v == [con[c] EXCEPT !.pc = "nrec"]
<1>1. /\ Become(c, v) /\ con[c].pc = "excl" /\ UNCHANGED <<disk, jold, image>>
      /\ (held[c] = EXCLUSIVE_LOCK /\ UNCHANGED locks) \/ FL!AcquireExclusive(c)
  BY DEF Exclusive
<1>2. \E f : WriteJournal(f)
  BY DEF Exclusive
<1>3. /\ HasFields(con[c]) /\ con'[c] = v /\ Moves(c)
      /\ Control(con[c], held[c]) /\ JournalInv(con[c], jexists, jrn)
      /\ held[c] \in LockLevel /\ FilesInv /\ held \in [Conn -> LockLevel]
  BY <1>1, ConFacts DEF Moves, IInv
<1>4. /\ HasFields(v) /\ v.eState = con[c].eState /\ v.pc = "nrec"
      /\ v.jfd = con[c].jfd /\ v.off = con[c].off
  BY <1>3 DEF HasFields
<1> HIDE DEF v
<1>5. con[c].eState \in {"CACHEMOD", "DBMOD"} /\ held[c] >= RESERVED_LOCK
  BY <1>1, <1>3 DEF Control, WriteStep, RESERVED_LOCK, EXCLUSIVE_LOCK
<1>6. LockStep(c) /\ held'[c] = EXCLUSIVE_LOCK
  BY <1>1, <1>3 DEF LockStep, locks, FL!AcquireExclusive, FL!EXCLUSIVE_LOCK, EXCLUSIVE_LOCK
<1>7. Control(v, held'[c])
  BY <1>4, <1>5, <1>6 DEF Control, WriteStep
<1>8. JournalInv(v, jexists', jrn')
  BY <1>1, <1>3, <1>4, <1>5 DEF JournalInv, Writing, DbModified
<1>9. Calm(v, held'[c]) => Calm(con[c], held[c])
  BY <1>1, <1>4, <1>6 DEF Calm, Settled, RESERVED_LOCK, PENDING_LOCK, EXCLUSIVE_LOCK
<1>10. FilesInv'
  BY <1>1, <1>2, <1>3, WriteJournalFacts
<1> QED BY <1>1, <1>3, <1>4, <1>5, <1>6, <1>7, <1>8, <1>9, <1>10, JournalStep

\* Somebody reads: the writer keeps PENDING and has not changed the database yet.
LEMMA ExclusiveBusyStep ==
  ASSUME IInv, NEW c \in Conn, ExclusiveBusy(c) PROVE Good(c)
<1> USE DEF NO_LOCK, SHARED_LOCK, RESERVED_LOCK, PENDING_LOCK, EXCLUSIVE_LOCK, LockLevel
<1> DEFINE v == [con[c] EXCEPT !.pc = "idle", !.spill = 0]
<1>1. /\ Become(c, v) /\ con[c].pc = "excl" /\ UNCHANGED <<disk, jvars, image>>
      /\ FL!AcquirePending(c) \/ (held[c] = PENDING_LOCK /\ UNCHANGED locks)
  BY DEF ExclusiveBusy
<1>2. /\ HasFields(con[c]) /\ con'[c] = v /\ Moves(c)
      /\ Control(con[c], held[c]) /\ JournalInv(con[c], jexists, jrn)
      /\ held[c] \in LockLevel /\ FilesInv /\ held \in [Conn -> LockLevel]
  BY <1>1, ConFacts DEF Moves, IInv
<1>3. /\ HasFields(v) /\ v.eState = con[c].eState /\ v.pc = "idle"
      /\ v.jfd = con[c].jfd /\ v.off = con[c].off
  BY <1>2 DEF HasFields
<1> HIDE DEF v
<1>4. held[c] # EXCLUSIVE_LOCK
  BY <1>1 DEF FL!AcquirePending, FL!SHARED_LOCK, FL!RESERVED_LOCK
<1>5. con[c].eState = "CACHEMOD" /\ held[c] >= RESERVED_LOCK
  BY <1>1, <1>2, <1>4 DEF Control, WriteStep
<1>6. LockStep(c) /\ held'[c] = PENDING_LOCK
  <2>1. CASE FL!AcquirePending(c)
    <3>1. held[c] = RESERVED_LOCK
      BY <1>5, <2>1 DEF FL!AcquirePending, FL!SHARED_LOCK, FL!RESERVED_LOCK
    <3>2. held'[c] = PENDING_LOCK
      BY <1>2, <2>1 DEF FL!AcquirePending, FL!PENDING_LOCK
    <3> QED BY <2>1, <3>1, <3>2 DEF LockStep
  <2>2. CASE held[c] = PENDING_LOCK /\ UNCHANGED locks
    BY <2>2 DEF LockStep, locks
  <2> QED BY <1>1, <2>1, <2>2
<1>7. Control(v, held'[c])
  BY <1>3, <1>5, <1>6 DEF Control
<1>8. JournalInv(v, jexists', jrn')
  BY <1>1, <1>2, <1>3, <1>5 DEF JournalInv, Writing, DbModified
<1>9. Calm(con[c], held[c])
  BY <1>1, <1>5 DEF Calm, Settled
<1>10. FilesInv'
  BY <1>1, <1>2 DEF FilesInv, jvars
<1> QED BY <1>1, <1>2, <1>3, <1>5, <1>6, <1>7, <1>8, <1>9, <1>10, JournalStep

\* The names are synced, or nothing happens to the earlier journals.
LEMMA SyncNamesFacts ==
  ASSUME NEW me, SyncNames(me) \/ UNCHANGED <<jnone, jold>> PROVE jold' \subseteq jold
BY DEF SyncNames

\* The count of records is written.
LEMMA WriteNRecStep ==
  ASSUME IInv, NEW c \in Conn, WriteNRec(c) PROVE Good(c)
<1> DEFINE hdr == [jrn[con[c].hdr] EXCEPT !.magic = TRUE, !.nRec = con[c].nRec]
<1>1. /\ con[c].pc = "nrec" /\ UNCHANGED <<locks, disk, jexists, image>>
      /\ jrn' = [jrn EXCEPT ![con[c].hdr] = hdr]
      /\ SyncNames(con[c]) \/ UNCHANGED <<jnone, jold>>
  BY DEF WriteNRec
<1>2. /\ HasFields(con[c]) /\ FilesInv /\ held[c] \in LockLevel
      /\ Control(con[c], held[c]) /\ JournalInv(con[c], jexists, jrn)
  BY ConFacts
<1>3. con[c].eState \in {"CACHEMOD", "DBMOD"} /\ held[c] = EXCLUSIVE_LOCK
  BY <1>1, <1>2 DEF Control, WriteStep
<1>4. PICK v : /\ Become(c, v) /\ HasFields(v) /\ v.pc = "jsync" /\ v.eState = con[c].eState
               /\ v.off = con[c].off /\ v.jfd \in {"open", con[c].jfd}
  <2>1. CASE sc.fullSync
    <3> DEFINE w == [Synced(con[c]) EXCEPT !.pc = "jsync"]
    <3>1. Become(c, w)
      BY <2>1 DEF WriteNRec
    <3>2. HasFields(w) /\ w.pc = "jsync" /\ w.eState = con[c].eState
          /\ w.off = con[c].off /\ w.jfd = "open"
      BY <1>2 DEF Synced, HasFields
    <3> QED BY <3>1, <3>2
  <2>2. CASE ~sc.fullSync
    <3> DEFINE w == [con[c] EXCEPT !.pc = "jsync"]
    <3>1. Become(c, w)
      BY <2>2 DEF WriteNRec
    <3>2. HasFields(w) /\ w.pc = "jsync" /\ w.eState = con[c].eState
          /\ w.off = con[c].off /\ w.jfd = con[c].jfd
      BY <1>2 DEF HasFields
    <3> QED BY <3>1, <3>2
  <2> QED BY <2>1, <2>2
<1>5. con'[c] = v /\ Moves(c)
  BY <1>4, ConFacts DEF Moves
<1>6. LockStep(c) /\ held'[c] = EXCLUSIVE_LOCK
  BY <1>1, <1>3 DEF LockStep, locks
<1>7. Control(v, held'[c])
  BY <1>3, <1>4, <1>6 DEF Control, WriteStep
<1>8. JournalInv(v, jexists', jrn')
  BY <1>1, <1>2, <1>3, <1>4 DEF JournalInv, Writing, DbModified
<1>9. Calm(v, held'[c]) => Calm(con[c], held[c])
  BY <1>1, <1>3, <1>4, <1>6 DEF Calm, Settled
<1>10. DOMAIN jdisk' = Slot
  BY <1>2 DEF WriteNRec, FilesInv, Durable
<1>11. FilesInv'
  BY <1>1, <1>2, <1>10, SyncNamesFacts DEF FilesInv
<1>12. held[c] >= RESERVED_LOCK
  BY <1>3 DEF RESERVED_LOCK, EXCLUSIVE_LOCK
<1> QED BY <1>1, <1>4, <1>5, <1>6, <1>7, <1>8, <1>9, <1>11, <1>12, JournalStep

\* The journal is synced.
LEMMA SyncJournalStep ==
  ASSUME IInv, NEW c \in Conn, SyncJournal(c) PROVE Good(c)
<1> DEFINE me == Synced(con[c])
           next == [me EXCEPT !.pc = "write", !.eState = "DBMOD", !.needSync = {},
                              !.hdr = me.off, !.ownHdr = (me.spill # 0)]
           w == [next EXCEPT !.nRec = 0, !.off = @ + 1, !.aSavepoint = HeaderAt(@, me.off)]
<1>1. /\ con[c].pc = "jsync" /\ UNCHANGED <<locks, disk, jexists, image>> /\ SyncNames(con[c])
  BY DEF SyncJournal, Synced
<1>2. /\ HasFields(con[c]) /\ FilesInv /\ held[c] \in LockLevel
      /\ Control(con[c], held[c]) /\ JournalInv(con[c], jexists, jrn)
  BY ConFacts
<1>3. con[c].eState \in {"CACHEMOD", "DBMOD"} /\ held[c] = EXCLUSIVE_LOCK
  BY <1>1, <1>2 DEF Control, WriteStep
<1>4. /\ HasFields(next) /\ next.pc = "write" /\ next.eState = "DBMOD" /\ next.jfd = "open"
      /\ next.off \in Nat \ {0}
  <2>1. con[c].off \in Nat \ {0}
    BY <1>1, <1>2, <1>3 DEF JournalInv, Writing, DbModified
  <2>2. HasFields(me) /\ me.jfd = "open" /\ me.off = con[c].off
    BY <1>2 DEF Synced, HasFields
  <2> HIDE DEF me
  <2>3. HasFields(next) /\ next.pc = "write" /\ next.eState = "DBMOD" /\ next.jfd = me.jfd
        /\ next.off = me.off
    BY <2>2 DEF HasFields
  <2> QED BY <2>1, <2>2, <2>3
<1>5. PICK v : /\ Become(c, v) /\ HasFields(v) /\ v.pc = "write" /\ v.eState = "DBMOD"
               /\ v.jfd = "open" /\ v.off \in Nat \ {0}
  <2>1. CASE Become(c, next)
    BY <1>4, <2>1
  <2>2. CASE Become(c, w)
    <3> HIDE DEF next
    <3>1. HasFields(w) /\ w.pc = "write" /\ w.eState = "DBMOD" /\ w.jfd = "open"
          /\ w.off \in Nat \ {0}
      BY <1>4 DEF HasFields
    <3> QED BY <2>2, <3>1
  <2> QED BY <2>1, <2>2 DEF SyncJournal
<1>6. con'[c] = v /\ Moves(c)
  BY <1>5, ConFacts DEF Moves
<1>7. LockStep(c) /\ held'[c] = EXCLUSIVE_LOCK
  BY <1>1, <1>3 DEF LockStep, locks
<1>8. Control(v, held'[c]) /\ JournalInv(v, jexists', jrn')
  BY <1>5, <1>7 DEF Control, WriteStep, JournalInv
<1>9. ~Calm(v, held'[c])
  BY <1>5, <1>7 DEF Calm, Settled, RESERVED_LOCK, PENDING_LOCK, EXCLUSIVE_LOCK
<1>10. DOMAIN jrn' = Slot /\ DOMAIN jdisk' = Slot
  BY <1>2 DEF SyncJournal, FilesInv, Durable
<1>11. FilesInv'
  BY <1>1, <1>2, <1>10, SyncNamesFacts DEF FilesInv
<1>12. held[c] >= RESERVED_LOCK
  BY <1>3 DEF RESERVED_LOCK, EXCLUSIVE_LOCK
<1> QED BY <1>1, <1>5, <1>6, <1>7, <1>8, <1>9, <1>11, <1>12, JournalStep

-----------------------------------------------------------------------------
(* Steps that may change the database *)

\* A step of a connection that is RESERVED or more; it changes the database only
\* while it is EXCLUSIVE and reads no more.
LEMMA OwnStep ==
  ASSUME IInv, NEW c \in Conn, Moves(c), LockStep(c), held[c] >= RESERVED_LOCK,
         UNCHANGED <<db, image>> \/ (held[c] = EXCLUSIVE_LOCK /\ ~Settled(con[c])),
         FilesInv', HasFields(con'[c]), Control(con'[c], held'[c]),
         JournalInv(con'[c], jexists', jrn'), Ordered(c)
  PROVE  Good(c)
BY DEF Good, StepOf, Moves

\* pager_write_pagelist(), and the sync of the database.
LEMMA WritePageStep ==
  ASSUME IInv, NEW c \in Conn, WritePage(c) \/ SyncDb(c) PROVE Good(c)
<1>1. /\ HasFields(con[c]) /\ FilesInv /\ held[c] \in LockLevel
      /\ Control(con[c], held[c]) /\ JournalInv(con[c], jexists, jrn)
  BY ConFacts
<1>2. con[c].pc \in {"write", "sync"} /\ UNCHANGED <<locks, jvars, image>>
  BY DEF WritePage, SyncDb
<1>3. con[c].eState = "DBMOD" /\ held[c] = EXCLUSIVE_LOCK
  BY <1>1, <1>2 DEF Control, WriteStep
<1>4. PICK v : /\ Become(c, v) /\ HasFields(v) /\ v.jfd = con[c].jfd /\ v.off = con[c].off
               /\ \/ v.eState = "DBMOD" /\ v.pc \in {"idle", "write", "sync"}
                  \/ v.eState = "FINISHED" /\ v.pc = "final"
  <2>1. CASE WritePage(c)
    <3> DEFINE me == con[c]
               p == IF me.spill # 0 THEN me.spill ELSE Min(me.dirty)
               rest == me.dirty \ {p}
               pc == IF me.spill # 0 THEN "idle" ELSE IF rest = {} THEN "sync" ELSE "write"
               v == [me EXCEPT !.dirty = rest, !.spill = 0,
                               !.vers = IF p = 1 THEN me.cache[1] ELSE @,
                               !.cache[p] = IF me.spill # 0 THEN None ELSE @, !.pc = pc]
    <3>1. Become(c, v)
      BY <2>1 DEF WritePage
    <3>2. pc \in {"idle", "write", "sync"}
      OBVIOUS
    <3> HIDE DEF p, rest, pc
    <3>3. HasFields(v) /\ v.eState = me.eState /\ v.pc = pc /\ v.jfd = me.jfd /\ v.off = me.off
      BY <1>1 DEF HasFields
    <3> QED BY <1>3, <3>1, <3>2, <3>3
  <2>2. CASE SyncDb(c)
    <3> DEFINE v == [con[c] EXCEPT !.pc = "final", !.eState = "FINISHED"]
    <3>1. Become(c, v)
      BY <2>2 DEF SyncDb
    <3>2. HasFields(v) /\ v.eState = "FINISHED" /\ v.pc = "final"
          /\ v.jfd = con[c].jfd /\ v.off = con[c].off
      BY <1>1 DEF HasFields
    <3> QED BY <3>1, <3>2
  <2> QED BY <2>1, <2>2
<1>5. con'[c] = v /\ Moves(c)
  BY <1>4, ConFacts DEF Moves
<1>6. LockStep(c) /\ held'[c] = EXCLUSIVE_LOCK /\ held[c] >= RESERVED_LOCK
  BY <1>2, <1>3 DEF LockStep, locks, RESERVED_LOCK, EXCLUSIVE_LOCK
<1>7. Control(v, held'[c])
  BY <1>4, <1>6 DEF Control, WriteStep
<1>8. JournalInv(v, jexists', jrn')
  BY <1>1, <1>2, <1>3, <1>4 DEF JournalInv, Writing, DbModified
<1>9. ~Calm(v, held'[c]) /\ ~Settled(con[c])
  BY <1>3, <1>4, <1>6 DEF Calm, Settled, RESERVED_LOCK, PENDING_LOCK, EXCLUSIVE_LOCK
<1>10. FilesInv'
  BY <1>1, <1>2 DEF FilesInv, jvars
<1> QED BY <1>3, <1>4, <1>5, <1>6, <1>7, <1>8, <1>9, <1>10, OwnStep DEF Ordered

\* pager_playback_one_page(): the database is written only once it was changed.
LEMMA PlayPageStep ==
  ASSUME IInv, NEW c \in Conn, PlayPage(c) PROVE Good(c)
<1> DEFINE me == con[c]
           e == Head(me.play)
           write == InFile(me) /\ e.isSynced
           pc == IF me.pc = "undo" /\ Len(me.play) = 1 THEN "idle" ELSE me.pc
           done == [me EXCEPT !.play = Tail(@),
                              !.pc = IF @ = "undo" /\ Len(me.play) = 1 THEN "idle" ELSE @]
           more == [done EXCEPT !.cache[e.pgno] = e.data,
                                !.dirty = IF me.cache[e.pgno] = None
                                          THEN @ \cup {e.pgno} ELSE @,
                                !.vers = IF e.pgno = 1 THEN e.data ELSE @]
<1>1. /\ HasFields(me) /\ FilesInv /\ held[c] \in LockLevel
      /\ Control(me, held[c]) /\ JournalInv(me, jexists, jrn)
  BY ConFacts
<1>2. /\ me.pc \in {"play", "undo"} /\ UNCHANGED <<locks, jvars, image>>
      /\ Become(c, done) \/ Become(c, more)
      /\ ~InFile(me) => UNCHANGED disk
  BY DEF PlayPage
<1>3. /\ pc \in {"play", "undo", "idle"}
      /\ pc = "play" <=> me.pc = "play"
      /\ pc = "idle" => me.pc = "undo"
  BY <1>2
<1>4. HasFields(done) /\ done.pc = pc /\ done.eState = me.eState /\ done.jfd = me.jfd
      /\ done.off = me.off
  BY <1>1 DEF HasFields
<1> HIDE DEF done
<1>5. HasFields(more) /\ more.pc = pc /\ more.eState = me.eState /\ more.jfd = me.jfd
      /\ more.off = me.off
  BY <1>4 DEF HasFields
<1> HIDE DEF more, pc
<1>6. PICK v : /\ Become(c, v) /\ HasFields(v) /\ v.pc = pc /\ v.eState = me.eState
               /\ v.jfd = me.jfd /\ v.off = me.off
  BY <1>2, <1>4, <1>5
<1>7. con'[c] = v /\ Moves(c)
  BY <1>6, ConFacts DEF Moves
<1>8. held[c] >= RESERVED_LOCK /\ (InFile(me) => held[c] = EXCLUSIVE_LOCK)
  BY <1>1, <1>2 DEF Control, WriteStep, InFile, DbModified, RESERVED_LOCK, EXCLUSIVE_LOCK
<1>9. LockStep(c) /\ held'[c] = held[c]
  BY <1>2 DEF LockStep, locks
<1>10. Control(v, held'[c])
  BY <1>1, <1>2, <1>3, <1>6, <1>9 DEF Control, WriteStep
<1>11. JournalInv(v, jexists', jrn')
  BY <1>1, <1>2, <1>3, <1>6 DEF JournalInv, jvars
<1>12. InFile(me) => ~Settled(me)
  BY DEF InFile, Settled, DbModified
<1>13. UNCHANGED <<db, image>> \/ (held[c] = EXCLUSIVE_LOCK /\ ~Settled(me))
  BY <1>2, <1>8, <1>12 DEF disk
<1>14. Calm(v, held'[c]) => Calm(me, held[c])
  BY <1>2, <1>3, <1>6, <1>9 DEF Calm, Settled
<1>15. Calm(v, held'[c]) => UNCHANGED <<db, image>>
  <2>1. ASSUME InFile(me), me.pc # "idle" PROVE ~Calm(me, held[c])
    BY <1>2, <1>8, <1>12, <2>1 DEF Calm, RESERVED_LOCK, PENDING_LOCK, EXCLUSIVE_LOCK
  <2> QED BY <1>2, <1>14, <2>1 DEF disk
<1>16. FilesInv'
  BY <1>1, <1>2 DEF FilesInv, jvars
<1> QED BY <1>6, <1>7, <1>8, <1>9, <1>10, <1>11, <1>13, <1>14, <1>15, <1>16, OwnStep DEF Ordered

-----------------------------------------------------------------------------
(* The playback of a journal *)

\* pager_playback() reads the first header of a hot journal.
LEMMA StartFacts ==
  ASSUME FilesInv, NEW c \in Conn, NEW me, HasFields(me), NEW isHot,
         StartPlayback(c, me, isHot)
  PROVE  /\ \E v : /\ Become(c, v) /\ HasFields(v) /\ v.pc = "play"
                   /\ v.eState = me.eState /\ v.jfd = me.jfd
                   /\ v.off = 0 => ~HasMagic(jrn, 1)
         /\ ~InFile(me) => UNCHANGED disk
<1> DEFINE n == jrn[1].orig
           todo == Slots(jrn, me, isHot)
           r == Readable(jrn, me, isHot)
           off == IF r THEN Size(jrn) + 1 ELSE 0
           v == [me EXCEPT
                  !.pc = "play", !.isHot = isHot, !.spill = 0, !.ccDone = FALSE,
                  !.size = IF r THEN n ELSE @, !.off = off,
                  !.cache = IF isHot /\ todo # <<>> THEN NoCache ELSE @,
                  !.play = [i \in DOMAIN todo |-> MainRecord(me, todo[i])]]
<1>1. Become(c, v) /\ (~InFile(me) => UNCHANGED disk)
  BY DEF StartPlayback
<1>2. off = 0 => ~HasMagic(jrn, 1)
  <2>1. Size(jrn) + 1 # 0
    BY SizeNat
  <2>2. HasMagic(jrn, 1) => r
    BY DEF Readable
  <2> QED BY <2>1, <2>2
<1> HIDE DEF n, todo, r, off
<1>3. HasFields(v) /\ v.pc = "play" /\ v.eState = me.eState /\ v.jfd = me.jfd /\ v.off = off
  BY DEF HasFields
<1> QED BY <1>1, <1>2, <1>3

\* The hot journal is opened, or is not there any more.
LEMMA HotOpenStep ==
  ASSUME IInv, NEW c \in Conn, HotOpen(c) PROVE Good(c)
<1>1. /\ HasFields(con[c]) /\ FilesInv /\ held \in [Conn -> LockLevel]
      /\ reserved \in SUBSET Conn /\ Control(con[c], held[c])
  BY ConFacts DEF IInv
<1>2. con[c].pc = "hotopen"
  BY DEF HotOpen, GoTo
<1>3. con[c].eState = "OPEN" /\ held[c] = EXCLUSIVE_LOCK
  BY <1>1, <1>2 DEF Control, WriteStep
<1>4. held[c] >= RESERVED_LOCK /\ held[c] >= SHARED_LOCK
  BY <1>3 DEF SHARED_LOCK, RESERVED_LOCK, EXCLUSIVE_LOCK
<1>5. CASE ~jexists
  <2>1. GoTo(c, "hotopen", "vers") /\ UnlockTo(c, SHARED_LOCK)
    BY <1>5 DEF HotOpen
  <2>2. LockStep(c) /\ held'[c] = SHARED_LOCK
    BY <1>1, <1>4, <2>1 DEF LockStep, UnlockTo
  <2>3. ~Hot(jexists, jrn)
    BY <1>5 DEF Hot
  <2> QED BY <1>3, <2>1, <2>2, <2>3, Look
<1>6. CASE jexists
  <2> DEFINE me == [con[c] EXCEPT !.jfd = "open", !.hdr = Size(jrn) + 1]
  <2>1. /\ StartPlayback(c, me, TRUE) /\ jdisk' = Durable(jrn)
        /\ UNCHANGED <<locks, jexists, jrn, jold, image>>
    BY <1>6 DEF HotOpen
  <2>2. HasFields(me) /\ me.eState = "OPEN" /\ me.jfd = "open"
    BY <1>1, <1>3 DEF HasFields
  <2> HIDE DEF me
  <2>3. PICK v : /\ Become(c, v) /\ HasFields(v) /\ v.pc = "play"
                 /\ v.eState = "OPEN" /\ v.jfd = "open"
                 /\ v.off = 0 => ~HasMagic(jrn, 1)
    BY <1>1, <2>1, <2>2, StartFacts
  <2>4. con'[c] = v /\ Moves(c)
    BY <2>3, ConFacts DEF Moves
  <2>5. LockStep(c) /\ held'[c] = EXCLUSIVE_LOCK
    BY <1>3, <2>1 DEF LockStep, locks
  <2>6. Control(v, held'[c]) /\ JournalInv(v, jexists', jrn')
    BY <2>1, <2>3, <2>5 DEF Control, WriteStep, JournalInv, Writing, DbModified
  <2>7. ~Calm(v, held'[c]) /\ ~Settled(con[c])
    BY <1>3, <2>3, <2>5 DEF Calm, Settled, RESERVED_LOCK, PENDING_LOCK, EXCLUSIVE_LOCK
  <2>8. FilesInv'
    BY <1>1, <2>1 DEF FilesInv, Durable
  <2> QED BY <1>3, <1>4, <2>3, <2>4, <2>5, <2>6, <2>7, <2>8, OwnStep DEF Ordered
<1> QED BY <1>5, <1>6

\* A rollback begins, whether it was asked for or a commit failed.
LEMMA RollbackStep ==
  ASSUME IInv, NEW c \in Conn, Rollback(c) \/ CommitFails(c) PROVE Good(c)
<1>1. /\ HasFields(con[c]) /\ FilesInv /\ held[c] \in LockLevel
      /\ Control(con[c], held[c]) /\ JournalInv(con[c], jexists, jrn)
  BY ConFacts
<1>2. StartPlayback(c, con[c], FALSE) /\ UNCHANGED <<locks, jvars, image>>
  BY DEF Rollback, CommitFails
<1>3. /\ con[c].eState \in Writer
      /\ held[c] >= RESERVED_LOCK
      /\ con[c].eState \in DbModified => held[c] = EXCLUSIVE_LOCK
  <2>1. CASE Rollback(c)
    BY <1>1, <2>1 DEF Rollback, Control, WriteStep, Writer, DbModified,
                      RESERVED_LOCK, EXCLUSIVE_LOCK
  <2>2. CASE CommitFails(c)
    BY <1>1, <2>2 DEF CommitFails, Control, WriteStep, Writer, DbModified,
                      RESERVED_LOCK, EXCLUSIVE_LOCK
  <2> QED BY <2>1, <2>2
<1>4. con[c].jfd # "closed"
  <2>1. CASE Rollback(c)
    <3>1. con[c].eState \in Writing
      BY <1>1, <2>1 DEF Rollback, Control, WriteStep, Writing, DbModified
    <3> QED BY <1>1, <3>1 DEF JournalInv
  <2>2. CASE CommitFails(c)
    <3>1. con[c].pc = "undo" \/ con[c].eState \in Writing
      BY <1>1, <2>2 DEF CommitFails, Control, WriteStep, Writing, DbModified
    <3> QED BY <1>1, <3>1 DEF JournalInv
  <2> QED BY <2>1, <2>2
<1>5. PICK v : /\ Become(c, v) /\ HasFields(v) /\ v.pc = "play"
               /\ v.eState = con[c].eState /\ v.jfd = con[c].jfd
               /\ v.off = 0 => ~HasMagic(jrn, 1)
  BY <1>1, <1>2, StartFacts
<1>6. ~InFile(con[c]) => UNCHANGED disk
  BY <1>1, <1>2, StartFacts
<1>7. con'[c] = v /\ Moves(c)
  BY <1>5, ConFacts DEF Moves
<1>8. LockStep(c) /\ held'[c] = held[c]
  BY <1>2 DEF LockStep, locks
<1>9. Control(v, held'[c]) /\ JournalInv(v, jexists', jrn')
  BY <1>2, <1>3, <1>4, <1>5, <1>8
     DEF Control, WriteStep, Writer, DbModified, JournalInv, jvars
<1>10. /\ UNCHANGED <<db, image>> \/ (held[c] = EXCLUSIVE_LOCK /\ ~Settled(con[c]))
       /\ UNCHANGED <<db, image>> \/ ~Calm(v, held'[c])
  <2>1. CASE con[c].eState \in DbModified
    BY <1>3, <1>5, <1>8, <2>1
       DEF Calm, Settled, DbModified, RESERVED_LOCK, PENDING_LOCK, EXCLUSIVE_LOCK
  <2>2. CASE con[c].eState \notin DbModified
    BY <1>2, <1>3, <1>6, <2>2 DEF InFile, Writer, disk
  <2> QED BY <2>1, <2>2
<1>11. Calm(v, held'[c]) => Calm(con[c], held[c])
  BY <1>5, <1>8 DEF Calm, Settled
<1>12. FilesInv'
  BY <1>1, <1>2 DEF FilesInv, jvars
<1> QED BY <1>3, <1>5, <1>7, <1>8, <1>9, <1>10, <1>11, <1>12, OwnStep DEF Ordered

\* pager_error() of a writer.
LEMMA FailsStep ==
  ASSUME IInv, NEW c \in Conn, Fails(c) PROVE Good(c)
<1> USE DEF NO_LOCK, SHARED_LOCK, RESERVED_LOCK, PENDING_LOCK, EXCLUSIVE_LOCK, LockLevel
<1> DEFINE v == [con[c] EXCEPT !.eState = "ERROR", !.pc = "idle", !.play = <<>>]
<1>1. /\ HasFields(con[c]) /\ FilesInv /\ held \in [Conn -> LockLevel]
      /\ reserved \in SUBSET Conn /\ held[c] \in LockLevel
      /\ Control(con[c], held[c]) /\ JournalInv(con[c], jexists, jrn)
  BY ConFacts DEF IInv
<1>2. /\ Become(c, v) /\ UNCHANGED <<disk, jvars, image>>
      /\ UnlockTo(c, SHARED_LOCK) \/ UNCHANGED locks
      /\ con[c].pc \in WriteStep \cup {"play", "final", "trunc"}
  BY DEF Fails
<1>3. HasFields(v) /\ v.eState = "ERROR" /\ v.pc = "idle"
  BY <1>1 DEF HasFields
<1>4. con'[c] = v /\ Moves(c)
  BY <1>2, ConFacts DEF Moves
<1> HIDE DEF v
<1>5. held[c] >= RESERVED_LOCK
  BY <1>1, <1>2 DEF Control, WriteStep
<1>6. LockStep(c) /\ held'[c] \in {held[c], SHARED_LOCK}
  BY <1>1, <1>2, <1>5 DEF LockStep, UnlockTo, locks
<1>7. Control(v, held'[c]) /\ JournalInv(v, jexists', jrn')
  <2>1. held'[c] >= SHARED_LOCK
    BY <1>1, <1>5, <1>6
  <2>2. JournalInv(v, jexists', jrn')
    BY <1>3 DEF JournalInv, Writing, DbModified
  <2> QED BY <1>3, <2>1, <2>2 DEF Control
<1>8. Calm(v, held'[c]) => Calm(con[c], held[c])
  BY <1>3, <1>6 DEF Calm, Settled
<1>9. FilesInv' /\ UNCHANGED <<db, image>>
  BY <1>1, <1>2 DEF FilesInv, jvars, disk
<1> QED BY <1>3, <1>4, <1>5, <1>6, <1>7, <1>8, <1>9, OwnStep DEF Ordered

-----------------------------------------------------------------------------
(* The end of a transaction *)

\* pager_end_transaction() leaves no hot journal, if it does anything to it.
LEMMA FinalizeFacts ==
  ASSUME FilesInv, NEW me, FinalizeJournal(me)
  PROVE  /\ FilesInv'
         /\ \/ ~Hot(jexists', jrn')
            \/ UNCHANGED <<jexists, jrn>> /\ (me.jfd = "closed" \/ me.off = 0)
<1>1. CASE UNCHANGED jvars /\ (me.jfd = "closed" \/ me.off = 0)
  BY <1>1 DEF FilesInv, jvars
<1>2. CASE /\ jexists' = FALSE /\ jrn' = Blank /\ jdisk' = Durable(Blank)
           /\ jold' = IF sc.extraSync THEN {} ELSE jold \cup {ThisJournal}
  BY <1>2 DEF FilesInv, Hot, Blank, Durable, ThisJournal
<1>3. CASE /\ jrn' = Blank /\ jdisk' = Durable(Blank)
           /\ SyncNames(me) \/ jold' = jold \cup {ThisJournal}
  <2>1. ~HasMagic(jrn', 1)
    BY <1>3, NoHeader
  <2>2. \A o \in jold' : DOMAIN o.disk = Slot
    BY <1>3, SyncNamesFacts DEF FilesInv, ThisJournal
  <2> QED BY <1>3, <2>1, <2>2 DEF FilesInv, Hot, Blank, Durable
<1>4. CASE /\ jrn' = [jrn EXCEPT ![1] = ZeroHeader] /\ jdisk' = Durable(jrn')
           /\ SyncNames(me)
  <2>1. 1 \in DOMAIN jrn
    BY PagerAssumption DEF FilesInv, Slot, MaxSlot
  <2>2. ~HasMagic(jrn', 1)
    BY <1>4, <2>1, NoHeader
  <2>3. \A o \in jold' : DOMAIN o.disk = Slot
    BY <1>4, SyncNamesFacts DEF FilesInv
  <2> QED BY <1>4, <2>2, <2>3 DEF FilesInv, Hot, Durable
<1>5. \/ UNCHANGED jvars /\ (me.jfd = "closed" \/ me.off = 0)
      \/ /\ jexists' = FALSE /\ jrn' = Blank /\ jdisk' = Durable(Blank)
         /\ jold' = IF sc.extraSync THEN {} ELSE jold \cup {ThisJournal}
      \/ /\ jrn' = Blank /\ jdisk' = Durable(Blank)
         /\ SyncNames(me) \/ jold' = jold \cup {ThisJournal}
      \/ /\ jrn' = [jrn EXCEPT ![1] = ZeroHeader] /\ jdisk' = Durable(jrn')
         /\ SyncNames(me)
  BY DEF FinalizeJournal
<1> QED BY <1>1, <1>2, <1>3, <1>4, <1>5

\* Where pager_end_transaction() leaves a connection.
EndedAs(v) == \/ v.eState = "OPEN" /\ v.pc = "vers"
              \/ v.eState = "READER" /\ v.pc = "idle"

LEMMA EndedFacts ==
  ASSUME NEW me, HasFields(me), NEW img
  PROVE  HasFields(Ended(me, img)) /\ EndedAs(Ended(me, img))
<1> DEFINE v == Ended(me, img)
<1>1. HasFields(v)
  BY DEF Ended, HasFields
<1>2. /\ v.eState = IF me.eState = "OPEN" THEN "OPEN" ELSE "READER"
      /\ v.pc = IF me.eState = "OPEN" THEN "vers" ELSE "idle"
  BY DEF Ended, HasFields
<1> HIDE DEF v
<1> QED BY <1>1, <1>2 DEF EndedAs, v

\* The lock is down to SHARED, and the database is in order.
LEMMA EndStep ==
  ASSUME IInv, NEW c \in Conn, NEW v, Become(c, v), HasFields(v), EndedAs(v),
         UnlockTo(c, SHARED_LOCK), held[c] >= RESERVED_LOCK, FilesInv',
         UNCHANGED <<db, image>> \/ (held[c] = EXCLUSIVE_LOCK /\ ~Settled(con[c])),
         \/ ~Hot(jexists', jrn')
         \/ UNCHANGED <<db, image>> /\ (Calm(con[c], held[c]) \/ ~Hot(jexists, jrn))
  PROVE  Good(c)
<1> USE DEF NO_LOCK, SHARED_LOCK, RESERVED_LOCK, PENDING_LOCK, EXCLUSIVE_LOCK, LockLevel
<1>1. held \in [Conn -> LockLevel] /\ reserved \in SUBSET Conn
  BY DEF IInv
<1>2. LockStep(c) /\ held'[c] = SHARED_LOCK
  BY <1>1 DEF LockStep, UnlockTo
<1>3. con'[c] = v /\ Moves(c)
  BY ConFacts DEF Moves
<1>4. Control(v, held'[c]) /\ JournalInv(v, jexists', jrn')
  BY <1>2 DEF EndedAs, Control, JournalInv, Writing, DbModified
<1>5. Ordered(c)
  BY DEF Ordered
<1> QED BY <1>2, <1>3, <1>4, <1>5, OwnStep

\* The journal has been played back.
LEMMA EndPlaybackStep ==
  ASSUME IInv, NEW c \in Conn, EndPlayback(c) PROVE Good(c)
<1>1. /\ HasFields(con[c]) /\ FilesInv /\ held[c] \in LockLevel
      /\ Control(con[c], held[c]) /\ JournalInv(con[c], jexists, jrn)
  BY ConFacts
<1>2. /\ con[c].pc = "play" /\ FinalizeJournal(con[c]) /\ UnlockTo(c, SHARED_LOCK)
      /\ Become(c, Ended(con[c], image)) /\ UNCHANGED <<db, image>>
  BY DEF EndPlayback
<1>3. held[c] >= RESERVED_LOCK
  BY <1>1, <1>2 DEF Control, WriteStep, RESERVED_LOCK, EXCLUSIVE_LOCK
<1>4. FilesInv' /\ (~Hot(jexists', jrn') \/ ~Hot(jexists, jrn))
  BY <1>1, <1>2, FinalizeFacts DEF JournalInv, Hot
<1>5. HasFields(Ended(con[c], image)) /\ EndedAs(Ended(con[c], image))
  BY <1>1, EndedFacts
<1> QED BY <1>2, <1>3, <1>4, <1>5, EndStep

\* Nothing was written.
LEMMA EndUnchangedStep ==
  ASSUME IInv, NEW c \in Conn, EndUnchanged(c) PROVE Good(c)
<1>1. /\ HasFields(con[c]) /\ FilesInv /\ held[c] \in LockLevel
      /\ Control(con[c], held[c])
  BY ConFacts
<1>2. /\ con[c].pc = "idle" /\ con[c].eState = "LOCKED"
      /\ FinalizeJournal(con[c]) /\ UnlockTo(c, SHARED_LOCK)
      /\ Become(c, Ended(con[c], con[c].view)) /\ UNCHANGED <<disk, image>>
  BY DEF EndUnchanged
<1>3. held[c] >= RESERVED_LOCK
  BY <1>1, <1>2 DEF Control, WriteStep, RESERVED_LOCK, EXCLUSIVE_LOCK
<1>4. FilesInv' /\ Calm(con[c], held[c]) /\ UNCHANGED <<db, image>>
  BY <1>1, <1>2, FinalizeFacts DEF Calm, Settled, disk
<1>5. HasFields(Ended(con[c], con[c].view)) /\ EndedAs(Ended(con[c], con[c].view))
  BY <1>1, EndedFacts
<1> QED BY <1>2, <1>3, <1>4, <1>5, EndStep

\* The transaction is committed.
LEMMA CommitPhaseTwoStep ==
  ASSUME IInv, NEW c \in Conn, CommitPhaseTwo(c) PROVE Good(c)
<1>1. /\ HasFields(con[c]) /\ FilesInv /\ held[c] \in LockLevel
      /\ Control(con[c], held[c]) /\ JournalInv(con[c], jexists, jrn)
  BY ConFacts
<1>2. con[c].pc = "final" /\ FinalizeJournal(con[c]) /\ UNCHANGED disk
  BY DEF CommitPhaseTwo
<1>3. con[c].eState = "FINISHED" /\ held[c] = EXCLUSIVE_LOCK
  BY <1>1, <1>2 DEF Control, WriteStep
<1>4. held[c] >= RESERVED_LOCK /\ ~Settled(con[c])
  BY <1>3 DEF Settled, RESERVED_LOCK, EXCLUSIVE_LOCK
<1>5. con[c].jfd # "closed" /\ con[c].off \in Nat \ {0}
  BY <1>1, <1>2, <1>3 DEF JournalInv, Writing, DbModified
<1>6. FilesInv' /\ ~Hot(jexists', jrn')
  BY <1>1, <1>2, <1>5, FinalizeFacts
<1>7. CASE Become(c, Ended(con[c], con[c].view)) /\ UnlockTo(c, SHARED_LOCK)
  <2>1. HasFields(Ended(con[c], con[c].view)) /\ EndedAs(Ended(con[c], con[c].view))
    BY <1>1, EndedFacts
  <2> QED BY <1>3, <1>4, <1>6, <1>7, <2>1, EndStep
<1>8. CASE Become(c, [con[c] EXCEPT !.pc = "trunc"]) /\ UNCHANGED locks
  <2> DEFINE v == [con[c] EXCEPT !.pc = "trunc"]
  <2>1. /\ HasFields(v) /\ v.pc = "trunc" /\ v.eState = "FINISHED"
        /\ v.jfd = con[c].jfd /\ v.off = con[c].off
    BY <1>1, <1>3 DEF HasFields
  <2>2. con'[c] = v /\ Moves(c)
    BY <1>8, ConFacts DEF Moves
  <2> HIDE DEF v
  <2>3. LockStep(c) /\ held'[c] = EXCLUSIVE_LOCK
    BY <1>3, <1>8 DEF LockStep, locks
  <2>4. Control(v, held'[c]) /\ JournalInv(v, jexists', jrn')
    BY <1>5, <1>6, <2>1, <2>3 DEF Control, JournalInv
  <2>5. Ordered(c)
    BY <1>6 DEF Ordered
  <2> QED BY <1>3, <1>4, <1>6, <2>1, <2>2, <2>3, <2>4, <2>5, OwnStep
<1> QED BY <1>7, <1>8 DEF CommitPhaseTwo

\* The file is cut off after the commit.
LEMMA TruncateDbStep ==
  ASSUME IInv, NEW c \in Conn, TruncateDb(c) PROVE Good(c)
<1>1. /\ HasFields(con[c]) /\ FilesInv /\ held[c] \in LockLevel
      /\ Control(con[c], held[c]) /\ JournalInv(con[c], jexists, jrn)
  BY ConFacts
<1>2. /\ con[c].pc = "trunc" /\ UnlockTo(c, SHARED_LOCK) /\ UNCHANGED jvars
      /\ Become(c, Ended(con[c], con[c].view))
  BY DEF TruncateDb
<1>3. con[c].eState = "FINISHED" /\ held[c] = EXCLUSIVE_LOCK
  BY <1>1, <1>2 DEF Control, WriteStep
<1>4. held[c] >= RESERVED_LOCK /\ ~Settled(con[c])
  BY <1>3 DEF Settled, RESERVED_LOCK, EXCLUSIVE_LOCK
<1>5. FilesInv' /\ ~Hot(jexists', jrn')
  BY <1>1, <1>2 DEF FilesInv, jvars, JournalInv
<1>6. HasFields(Ended(con[c], con[c].view)) /\ EndedAs(Ended(con[c], con[c].view))
  BY <1>1, EndedFacts
<1> QED BY <1>2, <1>3, <1>4, <1>5, <1>6, EndStep

\* Every step of a connection is good.
LEMMA Steps ==
  ASSUME IInv, NEW c \in Conn, Reader(c) \/ WriterStep(c) \/ Failure(c) PROVE Good(c)
<1>1. CASE Reader(c)
  BY <1>1, LookSteps, EndSteps, HotOpenStep, PlayPageStep, EndPlaybackStep,
     CheckVersionStep, StaySteps DEF Reader
<1>2. CASE WriterStep(c)
  BY <1>2, BeginStep, EndUnchangedStep, CommitStartStep, WriteStepFacts, SpillStep,
     StaySteps, RollbackToStep, ExclusiveStep, ExclusiveBusyStep, WriteNRecStep,
     SyncJournalStep, WritePageStep, CommitPhaseTwoStep, TruncateDbStep, RollbackStep
     DEF WriterStep
<1>3. CASE Failure(c)
  BY <1>3, RollbackStep, FailsStep, EndSteps DEF Failure
<1> QED BY <1>1, <1>2, <1>3

-----------------------------------------------------------------------------
(* The theorems *)

\* Whatever is left of a file after a power loss has the slots it had.
LEMMA VersionsDomain ==
  ASSUME NEW D, NEW j \in Versions(D) PROVE DOMAIN j = DOMAIN D
BY DEF Versions

\* A power loss leaves nobody with a lock.
LEMMA PowerLossStep ==
  ASSUME IInv, PowerLoss PROVE IInv'
<1>1. /\ con' = [c \in Conn |-> Fresh] /\ held' = [c \in Conn |-> NO_LOCK]
      /\ reserved' = {} /\ jold' = {}
  BY DEF PowerLoss
<1>2. FilesInv'
  <2>1. CASE jrn' = Blank /\ jdisk' = Durable(Blank)
    BY <1>1, <2>1 DEF FilesInv, Blank, Durable
  <2>2. ASSUME NEW o \in jold \cup (IF jexists THEN {ThisJournal} ELSE {}),
               NEW j \in Versions(o.disk), jrn' = j, jdisk' = Durable(j)
        PROVE  FilesInv'
    <3>1. DOMAIN o.disk = Slot
      BY DEF IInv, FilesInv, ThisJournal
    <3>2. DOMAIN j = Slot
      BY <3>1, VersionsDomain
    <3> QED BY <1>1, <2>2, <3>2 DEF FilesInv, Durable
  <2> QED BY <2>1, <2>2 DEF PowerLoss
<1>3. held' \in [Conn -> LockLevel] /\ reserved' \in SUBSET Conn /\ DOMAIN con' = Conn
  BY <1>1 DEF LockLevel, NO_LOCK, EXCLUSIVE_LOCK
<1>4. LockInv'
  BY <1>1 DEF LockInv, NO_LOCK, SHARED_LOCK, RESERVED_LOCK, PENDING_LOCK, EXCLUSIVE_LOCK
<1>5. ASSUME NEW c \in Conn
      PROVE  /\ HasFields(con'[c]) /\ Control(con'[c], held'[c])
             /\ JournalInv(con'[c], jexists', jrn')
  <2>1. con'[c] = Fresh /\ held'[c] = NO_LOCK
    BY <1>1
  <2> QED BY <2>1, FreshFacts DEF Control, JournalInv, Writing, DbModified
<1> QED BY <1>2, <1>3, <1>4, <1>5 DEF IInv

LEMMA InitIInv == Init => IInv
<1> SUFFICES ASSUME Init PROVE IInv
  OBVIOUS
<1>1. /\ con = [c \in Conn |-> Fresh] /\ held = [c \in Conn |-> NO_LOCK]
      /\ reserved = {} /\ jold = {} /\ jrn = Blank /\ jdisk = Durable(Blank)
  BY DEF Init, FL!Init, FL!NO_LOCK, NO_LOCK
<1>2. FilesInv
  BY <1>1 DEF FilesInv, Blank, Durable
<1>3. held \in [Conn -> LockLevel] /\ reserved \in SUBSET Conn /\ DOMAIN con = Conn
  BY <1>1 DEF LockLevel, NO_LOCK, EXCLUSIVE_LOCK
<1>4. LockInv
  BY <1>1 DEF LockInv, NO_LOCK, SHARED_LOCK, RESERVED_LOCK, PENDING_LOCK, EXCLUSIVE_LOCK
<1>5. ASSUME NEW c \in Conn
      PROVE  HasFields(con[c]) /\ Control(con[c], held[c]) /\ JournalInv(con[c], jexists, jrn)
  <2>1. con[c] = Fresh /\ held[c] = NO_LOCK
    BY <1>1
  <2> QED BY <2>1, FreshFacts DEF Control, JournalInv, Writing, DbModified
<1> QED BY <1>2, <1>3, <1>4, <1>5 DEF IInv

\* Nothing happens between two steps, or a connection takes a good one, or the
\* power fails.
LEMMA NextCases ==
  ASSUME IInv, sc.conns \subseteq Conn, [Next]_vars
  PROVE  UNCHANGED vars \/ PowerLoss \/ \E c \in Conn : Good(c)
<1>1. CASE UNCHANGED vars
  BY <1>1
<1>2. ASSUME NEW c \in sc.conns, Reader(c) \/ WriterStep(c) \/ Failure(c) PROVE Good(c)
  BY <1>2, Steps
<1> QED BY <1>1, <1>2 DEF Next

\* The scenario is chosen once.
LEMMA NextKeepsScenario == [Next]_vars => UNCHANGED sc
<1>1. ASSUME NEW c, Reader(c) PROVE UNCHANGED sc
  BY <1>1 DEF Reader, SharedLock, Access, CheckReserved, ReadFirst, HotLock, GoTo, HotBusy,
     HotOpen, PlayPage, EndPlayback, CheckVersion, EndRead, ReadPage
<1>2. ASSUME NEW c, WriterStep(c) PROVE UNCHANGED sc
  BY <1>2 DEF WriterStep, Begin, EndUnchanged, CommitStart, Write, Spill, OpenSavepoint,
     Release, RollbackTo, Exclusive, ExclusiveBusy, WriteNRec, SyncJournal, WritePage,
     SyncDb, CommitPhaseTwo, TruncateDb, Rollback
<1>3. ASSUME NEW c, Failure(c) PROVE UNCHANGED sc
  BY <1>3 DEF Failure, CommitFails, Fails, HotFails, Crash
<1>4. PowerLoss => UNCHANGED sc
  BY DEF PowerLoss
<1> QED BY <1>1, <1>2, <1>3, <1>4 DEF Next, vars

Inv == IInv /\ sc.conns \subseteq Conn

LEMMA InitInv == Init => Inv
BY InitIInv, PagerAssumption DEF Inv, Init, ScenarioType

LEMMA NextInv == Inv /\ [Next]_vars => Inv'
<1> SUFFICES ASSUME Inv, [Next]_vars PROVE Inv'
  OBVIOUS
<1>1. UNCHANGED sc
  BY NextKeepsScenario
<1>2. CASE UNCHANGED vars
  BY <1>2 DEF Inv, IInv, FilesInv, LockInv, vars, locks, jvars
<1>3. CASE PowerLoss
  BY <1>1, <1>3, PowerLossStep DEF Inv
<1>4. CASE \E c \in Conn : Good(c)
  BY <1>1, <1>4, StepFacts DEF Inv
<1> QED BY <1>2, <1>3, <1>4, NextCases DEF Inv

(***************************************************************************)
(* What each step of a call holds of the lock: a hot journal is played back *)
(* and the database is written by the holder of EXCLUSIVE only, a journal   *)
(* is open before anything is put into it, and it is not hot any more when  *)
(* a transaction is over.                                                   *)
(***************************************************************************)
THEOREM PagerInvariant == Spec => []IInv
<1>1. Inv => IInv
  BY DEF Inv
<1> QED BY <1>1, InitInv, NextInv, PTL DEF Spec

\* A connection that holds EXCLUSIVE disturbs no one: whoever is calm is not there.
LEMMA CalmApart ==
  ASSUME IInv, NEW c \in Conn, NEW d \in Conn \ {c}, Good(c), Calm(con[d], held[d])
  PROVE  UNCHANGED <<db, image>>
<1> USE DEF NO_LOCK, SHARED_LOCK, RESERVED_LOCK, PENDING_LOCK, EXCLUSIVE_LOCK, LockLevel
<1>1. held[d] \in LockLevel /\ Control(con[d], held[d])
  BY ConFacts
<1>2. held[d] # NO_LOCK
  BY <1>1 DEF Calm, Settled, Control, WriteStep
<1>3. held[c] # EXCLUSIVE_LOCK
  BY <1>2 DEF IInv, LockInv
<1> QED BY <1>3 DEF Good, StepOf

(***************************************************************************)
(* While a connection reads, from the end of sqlite3PagerSharedLock() until *)
(* it writes to the file itself, no page of the database changes and no     *)
(* transaction commits, whatever other connections do, also those that      *)
(* play a hot journal back.                                                 *)
(***************************************************************************)
THEOREM PagerReadersUndisturbed == Spec => ReadersUndisturbed
<1> DEFINE Calmly == \A c \in Conn : Settled(con[c]) /\ Settled(con[c])' => UNCHANGED <<db, image>>
<1>1. ASSUME Inv, Next PROVE Calmly
  <2> SUFFICES ASSUME NEW d \in Conn, Settled(con[d]), Settled(con[d])'
               PROVE  UNCHANGED <<db, image>>
    OBVIOUS
  <2>1. CASE UNCHANGED vars
    BY <2>1 DEF vars, disk
  <2>2. ~PowerLoss
    <3>1. PowerLoss => con'[d] = Fresh
      BY DEF PowerLoss
    <3> QED BY <3>1, FreshFacts DEF Settled
  <2>3. ASSUME NEW c \in Conn, Good(c) PROVE UNCHANGED <<db, image>>
    <3>1. CASE c = d
      BY <2>3, <3>1 DEF Good, StepOf
    <3>2. CASE c # d
      <4>1. Calm(con[d], held[d])
        BY DEF Calm
      <4> QED BY <1>1, <2>3, <3>2, <4>1, CalmApart DEF Inv
    <3> QED BY <3>1, <3>2
  <2> QED BY <1>1, <2>1, <2>2, <2>3, NextCases DEF Inv
<1>2. Inv /\ [Next]_vars => [Calmly]_vars
  BY <1>1
<1> QED BY <1>2, InitInv, NextInv, PTL DEF Spec, ReadersUndisturbed

\* A database that is in order stays so, and one that a connection finds without a
\* hot journal, or leaves without one, is.
LEMMA NextCalm ==
  ASSUME Inv, CalmInv, CrashRecovers, CrashRecovers', [Next]_vars
  PROVE  CalmInv'
<1>1. UNCHANGED sc
  BY NextKeepsScenario
<1>2. UNCHANGED <<db, image>> /\ Holds(db, image) => Holds(db, image)'
  BY <1>1 DEF Holds
<1>3. ~Hot(jexists, jrn) => Holds(db, image)
  BY NoHeader DEF Hot, CrashRecovers, Restored
<1>4. ~Hot(jexists', jrn') => Holds(db, image)'
  BY NoHeader DEF Hot, CrashRecovers, Restored
<1>5. CASE UNCHANGED vars
  BY <1>2, <1>5 DEF CalmInv, vars, locks, disk
<1>6. CASE PowerLoss
  <2>1. ASSUME NEW c \in Conn PROVE ~Calm(con[c], held[c])'
    <3>1. con'[c] = Fresh /\ held'[c] = NO_LOCK
      BY <1>6 DEF PowerLoss
    <3> QED BY <3>1, FreshFacts DEF Calm, Settled, NO_LOCK, RESERVED_LOCK, PENDING_LOCK
  <2> QED BY <2>1 DEF CalmInv
<1>7. ASSUME NEW c \in Conn, Good(c) PROVE CalmInv'
  <2> SUFFICES ASSUME NEW d \in Conn, Calm(con[d], held[d])' PROVE Holds(db, image)'
    BY DEF CalmInv
  <2>1. CASE d = c
    <3>1. CASE UNCHANGED <<db, image>> /\ \E e \in Conn : Calm(con[e], held[e])
      BY <1>2, <3>1 DEF CalmInv
    <3>2. CASE UNCHANGED <<db, image>> /\ ~Hot(jexists, jrn)
      BY <1>2, <1>3, <3>2
    <3>3. CASE ~Hot(jexists', jrn')
      BY <1>4, <3>3
    <3> QED BY <1>7, <2>1, <3>1, <3>2, <3>3 DEF Good, Ordered
  <2>2. CASE d # c
    <3>1. con'[d] = con[d] /\ held'[d] = held[d]
      BY <1>7, <2>2, LockFacts DEF Good, StepOf, Inv, IInv
    <3>2. UNCHANGED <<db, image>>
      BY <1>7, <2>2, <3>1, CalmApart DEF Inv
    <3> QED BY <1>2, <3>1, <3>2 DEF CalmInv
  <2> QED BY <2>1, <2>2
<1> QED BY <1>5, <1>6, <1>7, NextCases DEF Inv

(***************************************************************************)
(* Whoever reads finds the last commit, as long as the journal, played back *)
(* where it is hot, would bring that commit back: the protocol of locks and *)
(* hot journals lets nobody read a database that a playback has yet to put  *)
(* in order.                                                                *)
(***************************************************************************)
THEOREM PagerReadersSeeCommitted == Spec /\ []CrashRecovers => []ReadersSeeCommitted
<1>1. Init => CalmInv
  <2> SUFFICES ASSUME Init, NEW c \in Conn PROVE ~Calm(con[c], held[c])
    BY DEF CalmInv
  <2>1. con[c] = Fresh /\ held[c] = NO_LOCK
    BY DEF Init, FL!Init, FL!NO_LOCK, NO_LOCK
  <2> QED BY <2>1, FreshFacts DEF Calm, Settled, NO_LOCK, RESERVED_LOCK, PENDING_LOCK
<1>2. Inv /\ CalmInv /\ CrashRecovers /\ CrashRecovers' /\ [Next]_vars => CalmInv'
  BY NextCalm
<1>3. CalmInv => ReadersSeeCommitted
  BY DEF CalmInv, Calm, Settled, ReadersSeeCommitted
<1> QED BY <1>1, <1>2, <1>3, InitInv, NextInv, PTL DEF Spec
=============================================================================
