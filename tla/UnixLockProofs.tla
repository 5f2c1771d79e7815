--------------------------- MODULE UnixLockProofs ---------------------------
(***************************************************************************)
(* Proofs about UnixLock, for any number of processes and of handles per   *)
(* process, with and without I/O errors of fcntl(), and that it implements *)
(* FileLock.                                                               *)
(***************************************************************************)
EXTENDS UnixLock, FiniteSetTheorems, TLAPS

\* The handles counted in one inode are finitely many.
LEMMA ReadersFinite ==
  ASSUME NEW p
  PROVE  IsFiniteSet(Readers(p)) /\ Cardinality(Readers(p)) \in Nat
<1>1. Readers(p) \in SUBSET File BY DEF Readers
<1>2. QED BY <1>1, UnixLockAssumption, FS_Subset, FS_CardinalityType

\* A handle that is counted makes the count positive.
LEMMA OneReader ==
  ASSUME TypeOK, CountOK, NEW f \in File, Reader(f)
  PROVE  nShared[ProcOf[f]] >= 1
<1> DEFINE p == ProcOf[f]
<1>1. p \in Proc BY UnixLockAssumption
<1>2. f \in Readers(p) BY DEF Readers
<1>3. Cardinality(Readers(p)) # 0 BY <1>2, ReadersFinite, FS_EmptySet
<1>4. QED BY <1>1, <1>3, ReadersFinite DEF CountOK, TypeOK

\* Two handles of one process that are counted make it at least two.
LEMMA TwoReaders ==
  ASSUME TypeOK, CountOK, NEW f \in File, NEW g \in File, f # g,
         ProcOf[f] = ProcOf[g], Reader(f), Reader(g)
  PROVE  nShared[ProcOf[f]] >= 2
<1> DEFINE R == Readers(ProcOf[f])
<1>1. ProcOf[f] \in Proc BY UnixLockAssumption
<1>2. f \in R /\ g \in R BY DEF Readers
<1>3. IsFiniteSet(R) /\ Cardinality(R) \in Nat BY ReadersFinite
<1>4. Cardinality(R \ {f}) = Cardinality(R) - 1 /\ IsFiniteSet(R \ {f})
      BY <1>2, <1>3, FS_RemoveElement
<1>5. Cardinality(R \ {f}) # 0 /\ Cardinality(R \ {f}) \in Nat
      BY <1>2, <1>4, FS_EmptySet, FS_CardinalityType
<1>6. QED BY <1>1, <1>3, <1>4, <1>5 DEF CountOK, TypeOK

\* The consequences of IInv the other proofs rest on.
LEMMA Consequences ==
  ASSUME IInv
  PROVE  /\ \A f \in File : ProcOf[f] \in Proc
         /\ \A f \in File : Held(f) >= SHARED_LOCK => Reader(f)
         /\ \A f \in File : Held(f) \in LockLevel
         /\ \A f \in File : Reader(f) => nShared[ProcOf[f]] >= 1
         /\ \A f, g \in File :
              (f # g /\ ProcOf[f] = ProcOf[g] /\ Reader(f) /\ Reader(g))
                => nShared[ProcOf[f]] >= 2
<1> USE DEF IInv
<1>1. \A f \in File : ProcOf[f] \in Proc BY UnixLockAssumption
<1>2. \A f \in File : Held(f) >= SHARED_LOCK => Reader(f)
  BY DEF Held, Reader, TypeOK, HandleOK, HandleInv, SHARED_LOCK, NO_LOCK, LockLevel, Label, InMutex
<1>3. \A f \in File : Held(f) \in LockLevel
  BY DEF Held, TypeOK, SHARED_LOCK, NO_LOCK, LockLevel, EXCLUSIVE_LOCK
<1>4. \A f \in File : Reader(f) => nShared[ProcOf[f]] >= 1 BY OneReader
<1>5. \A f, g \in File :
        (f # g /\ ProcOf[f] = ProcOf[g] /\ Reader(f) /\ Reader(g))
          => nShared[ProcOf[f]] >= 2  BY TwoReaders
<1>6. QED BY <1>1, <1>2, <1>3, <1>4, <1>5

\* The safety properties of the lock levels follow from the invariant.
THEOREM SafetyFromIInv ==
  ASSUME IInv
  PROVE  ExclusiveExcludesAll /\ OneWriter /\ LocksBacked /\ ReservedVisible
<1> USE DEF NO_LOCK, SHARED_LOCK, RESERVED_LOCK, PENDING_LOCK, EXCLUSIVE_LOCK, LockLevel
<1>0. TypeOK /\ InodeOK /\ PosixOK /\ WriterOK BY DEF IInv
<1>1. ExclusiveExcludesAll
  <2> SUFFICES ASSUME NEW f \in File, Held(f) = EXCLUSIVE_LOCK,
                      NEW g \in File \ {f}, Held(g) # NO_LOCK
               PROVE  FALSE
      BY DEF ExclusiveExcludesAll
  <2>1. Reader(f) /\ Reader(g) /\ ProcOf[f] \in Proc /\ ProcOf[g] \in Proc
        BY Consequences
  <2>2. /\ iFileLock[ProcOf[f]] = EXCLUSIVE_LOCK
        BY <1>0 DEF WriterOK, WriterInv
  <2>3. nShared[ProcOf[f]] = 1 /\ \A q \in Proc \ {ProcOf[f]} : sharedRange[q] = "UN"
        BY <1>0, <2>1, <2>2 DEF InodeOK, InodeInv
  <2>4. CASE ProcOf[f] = ProcOf[g]
        BY <2>1, <2>3, <2>4, Consequences
  <2>5. CASE ProcOf[f] # ProcOf[g]
        BY <1>0, <2>1, <2>3, <2>5, Consequences DEF InodeOK, InodeInv, TypeOK
  <2>6. QED BY <2>4, <2>5
<1>2. LocksBacked
  <2> SUFFICES ASSUME NEW f \in File
               PROVE  /\ Held(f) >= SHARED_LOCK => sharedRange[ProcOf[f]] # "UN"
                      /\ Held(f) = RESERVED_LOCK => reservedByte[ProcOf[f]] = "WR"
                      /\ Held(f) >= PENDING_LOCK => pendingByte[ProcOf[f]] = "WR"
      BY DEF LocksBacked
  <2>1. QED BY <1>0, Consequences DEF InodeOK, InodeInv, WriterOK, WriterInv, TypeOK
<1>3. OneWriter
  <2> SUFFICES ASSUME NEW f \in File, NEW g \in File, f # g
               PROVE  /\ ~(Held(f) = RESERVED_LOCK /\ Held(g) = RESERVED_LOCK)
                      /\ ~(Held(f) >= PENDING_LOCK /\ Held(g) >= PENDING_LOCK)
                      /\ ProcOf[f] = ProcOf[g] =>
                           ~(Held(f) > SHARED_LOCK /\ Held(g) > SHARED_LOCK)
      BY DEF OneWriter
  <2>1. QED BY <1>0, <1>2, Consequences DEF LocksBacked, WriterOK, WriterInv, PosixOK, Compatible
<1>4. ReservedVisible
  <2> SUFFICES ASSUME NEW f \in File, NEW g \in File, f # g,
                      Held(g) = RESERVED_LOCK
               PROVE  CheckReservedLock(f)
      BY DEF ReservedVisible
  <2>1. reservedByte[ProcOf[g]] = "WR" /\ iFileLock[ProcOf[g]] = RESERVED_LOCK
        /\ ProcOf[g] \in Proc
        BY <1>0, <1>2, Consequences DEF LocksBacked, WriterOK, WriterInv
  <2>2. QED BY <2>1 DEF CheckReservedLock, CanLock
<1>5. QED BY <1>1, <1>2, <1>3, <1>4

-----------------------------------------------------------------------------
\* No handle open, no lock held: the invariant holds.
LEMMA InitIInv == Init => IInv
<1> SUFFICES ASSUME Init PROVE IInv OBVIOUS
<1> USE DEF Init, NO_LOCK, SHARED_LOCK, RESERVED_LOCK, PENDING_LOCK,
            EXCLUSIVE_LOCK, LockLevel
<1>1. TypeOK BY DEF TypeOK, Label, InMutex, Mode
<1>2. MutexOK BY DEF MutexOK, InMutex
<1>3. HandleOK BY DEF HandleOK, HandleInv
<1>4. InodeOK BY DEF InodeOK, InodeInv
<1>5. PosixOK BY DEF PosixOK, Compatible
<1>6. CountOK
  <2>1. ASSUME NEW p \in Proc PROVE Readers(p) = {} BY DEF Readers, Reader
  <2>2. QED BY <2>1, FS_EmptySet DEF CountOK
<1>7. WriterOK BY DEF WriterOK, WriterInv, Held
<1>8. QED BY <1>1, <1>2, <1>3, <1>4, <1>5, <1>6, <1>7 DEF IInv

\* How the count of readers follows the set of readers.
LEMMA CountStep ==
  ASSUME TypeOK, CountOK, TypeOK', NEW f \in File, NEW p \in Proc,
         p = ProcOf[f],
         \A q \in Proc \ {p} : Readers(q)' = Readers(q) /\ nShared'[q] = nShared[q],
         \/ Readers(p)' \in SUBSET Readers(p) /\ nShared'[p] >= nShared[p]
         \/ Readers(p)' = Readers(p) \cup {f} /\ nShared'[p] = nShared[p] + 1
         \/ /\ f \in Readers(p) /\ nShared'[p] = nShared[p] - 1
            /\ Readers(p)' = Readers(p) \ {f}
         \/ Readers(p)' = {}
  PROVE  CountOK'
<1> SUFFICES ASSUME NEW q \in Proc PROVE (Cardinality(Readers(q)) <= nShared[q])'
    BY DEF CountOK
<1>0. nShared[q] \in Nat /\ nShared'[q] \in Nat BY DEF TypeOK
<1>1. CASE q # p BY <1>1 DEF CountOK
<1>2. CASE q = p
  <2>0. IsFiniteSet(Readers(p)) /\ Cardinality(Readers(p)) \in Nat
        /\ Cardinality(Readers(p)) <= nShared[p]
        BY ReadersFinite DEF CountOK
  <2>1. CASE Readers(p)' \in SUBSET Readers(p) /\ nShared'[p] >= nShared[p]
    <3>1. IsFiniteSet(Readers(p)') /\ Cardinality(Readers(p)') <= Cardinality(Readers(p))
          BY <2>0, <2>1, FS_Subset
    <3>2. Cardinality(Readers(p)') \in Nat BY <3>1, FS_CardinalityType
    <3>3. QED BY <1>0, <1>2, <2>0, <2>1, <3>1, <3>2
  <2>2. CASE Readers(p)' = Readers(p) \cup {f} /\ nShared'[p] = nShared[p] + 1
    <3>0. Cardinality(Readers(p) \cup {f}) = IF f \in Readers(p)
              THEN Cardinality(Readers(p)) ELSE Cardinality(Readers(p)) + 1
          BY <2>0, FS_AddElement
    <3>1. Cardinality(Readers(p)') <= Cardinality(Readers(p)) + 1
          BY <2>0, <2>2, <3>0
    <3>2. Cardinality(Readers(p)') \in Nat
          BY <2>0, <2>2, FS_AddElement, FS_CardinalityType
    <3>3. QED BY <1>0, <1>2, <2>0, <2>2, <3>1, <3>2
  <2>3. CASE /\ f \in Readers(p) /\ nShared'[p] = nShared[p] - 1
             /\ Readers(p)' = Readers(p) \ {f}
    <3>1. Cardinality(Readers(p)') = Cardinality(Readers(p)) - 1
          BY <2>0, <2>3, FS_RemoveElement
    <3>2. QED BY <1>0, <1>2, <2>0, <2>3, <3>1
  <2>4. CASE Readers(p)' = {}
    BY <1>0, <1>2, <2>4, FS_EmptySet
  <2>5. QED BY <2>1, <2>2, <2>3, <2>4
<1>3. QED BY <1>1, <1>2

\* HandleInv(g) depends on g and on its process only.
LEMMA HandleFrame ==
  ASSUME NEW g \in File, HandleInv(g),
         open'[g] = open[g], eFileLock'[g] = eFileLock[g], pc'[g] = pc[g],
         iFileLock'[ProcOf[g]] = iFileLock[ProcOf[g]],
         pendingByte'[ProcOf[g]] = pendingByte[ProcOf[g]],
         sharedRange'[ProcOf[g]] = sharedRange[ProcOf[g]]
  PROVE  HandleInv(g)'
BY DEF HandleInv

-----------------------------------------------------------------------------

\* unixOpen takes no lock and parks no descriptor.
LEMMA OpenStep ==
  ASSUME IInv, NEW f \in File, Open(f)
  PROVE  IInv'
<1> DEFINE p == ProcOf[f]
<1> USE DEF NO_LOCK, SHARED_LOCK, RESERVED_LOCK, PENDING_LOCK, EXCLUSIVE_LOCK,
            LockLevel, Open, MutexFree, posixVars
<1>0. TypeOK /\ MutexOK /\ HandleOK /\ InodeOK /\ PosixOK /\ CountOK /\ WriterOK
      BY DEF IInv
<1>p. p \in Proc /\ \A g \in File : ProcOf[g] \in Proc BY UnixLockAssumption
<1>s. \A g \in File \ {f} : ProcOf[g] = p => pc[g] \notin InMutex
      BY DEF MutexFree
<1>f. HandleInv(f) /\ InodeInv(p) BY <1>0, <1>p DEF HandleOK, InodeOK
<1>1. TypeOK' BY <1>0, <1>p DEF TypeOK, Label, InMutex, Mode
<1>2. MutexOK' BY <1>0, <1>p, <1>s DEF MutexOK, InMutex, TypeOK
<1>3. HandleOK'
  <2> SUFFICES ASSUME NEW g \in File PROVE HandleInv(g)' BY DEF HandleOK
  <2>1. CASE g = f BY <1>0, <1>p, <1>f, <2>1 DEF HandleInv, TypeOK, InMutex
  <2>2. CASE g # f /\ ProcOf[g] = p BY <1>0, <1>p, <1>s, <2>2 DEF HandleOK, HandleInv, TypeOK, InMutex, Label
  <2>3. CASE ProcOf[g] # p
    <3>1. /\ open'[g] = open[g] /\ eFileLock'[g] = eFileLock[g] /\ pc'[g] = pc[g]
          /\ iFileLock'[ProcOf[g]] = iFileLock[ProcOf[g]]
          /\ pendingByte'[ProcOf[g]] = pendingByte[ProcOf[g]]
          /\ sharedRange'[ProcOf[g]] = sharedRange[ProcOf[g]]
          BY <1>0, <1>p, <2>3 DEF TypeOK
    <3>2. QED BY <1>0, <3>1, HandleFrame DEF HandleOK
  <2>4. QED BY <2>1, <2>2, <2>3
<1>4. InodeOK'
  <2> SUFFICES ASSUME NEW q \in Proc PROVE InodeInv(q)' BY DEF InodeOK
  <2>1. CASE q = p BY <1>0, <1>p, <1>f, <2>1 DEF InodeOK, InodeInv, TypeOK, Mode
  <2>2. CASE q # p BY <1>0, <1>p, <1>f, <2>2 DEF InodeOK, InodeInv, TypeOK, Mode, PosixOK, Compatible
  <2>3. QED BY <2>1, <2>2
<1>5. PosixOK' BY <1>0, <1>p DEF PosixOK, Compatible, TypeOK, Mode
<1>6. CountOK'
  <2>1. \A q \in Proc : Readers(q)' = Readers(q) /\ nShared'[q] = nShared[q]
        BY <1>0, <1>p, <1>f DEF Readers, Reader, TypeOK, HandleInv
  <2>2. QED BY <1>0, <2>1 DEF CountOK
<1>7. WriterOK'
  <2> SUFFICES ASSUME NEW g \in File PROVE WriterInv(g)' BY DEF WriterOK
  <2>1. CASE g = f BY <1>0, <1>p, <1>f, <2>1 DEF WriterOK, WriterInv, Held, TypeOK, InMutex
  <2>2. CASE g # f BY <1>0, <1>p, <1>f, <2>2 DEF WriterOK, WriterInv, Held, TypeOK, InMutex
  <2>3. QED BY <2>1, <2>2
<1>8. QED BY <1>1, <1>2, <1>3, <1>4, <1>5, <1>6, <1>7 DEF IInv

\* A SHARED lock by reference count adds one reader and one to each count.
LEMMA LockSharedLocalStep ==
  ASSUME IInv, NEW f \in File, LockSharedLocal(f)
  PROVE  IInv'
<1> DEFINE p == ProcOf[f]
<1> USE DEF NO_LOCK, SHARED_LOCK, RESERVED_LOCK, PENDING_LOCK, EXCLUSIVE_LOCK,
            LockLevel, LockSharedLocal, CanCall, MutexFree, posixVars, SiblingBusy
<1>0. TypeOK /\ MutexOK /\ HandleOK /\ InodeOK /\ PosixOK /\ CountOK /\ WriterOK
      BY DEF IInv
<1>p. p \in Proc /\ \A g \in File : ProcOf[g] \in Proc BY UnixLockAssumption
<1>s. \A g \in File \ {f} : ProcOf[g] = p => pc[g] \notin InMutex
      BY DEF CanCall, MutexFree
<1>f. HandleInv(f) /\ InodeInv(p) BY <1>0, <1>p DEF HandleOK, InodeOK
<1>1. TypeOK' BY <1>0, <1>p DEF TypeOK, Label, InMutex, Mode
<1>2. MutexOK' BY <1>0, <1>p, <1>s DEF MutexOK, InMutex, TypeOK
<1>3. HandleOK'
  <2> SUFFICES ASSUME NEW g \in File PROVE HandleInv(g)' BY DEF HandleOK
  <2>1. CASE g = f BY <1>0, <1>p, <1>f, <2>1 DEF HandleInv, TypeOK, InMutex
  <2>2. CASE g # f /\ ProcOf[g] = p BY <1>0, <1>p, <1>s, <2>2 DEF HandleOK, HandleInv, TypeOK, InMutex, Label
  <2>3. CASE ProcOf[g] # p
    <3>1. /\ open'[g] = open[g] /\ eFileLock'[g] = eFileLock[g] /\ pc'[g] = pc[g]
          /\ iFileLock'[ProcOf[g]] = iFileLock[ProcOf[g]]
          /\ pendingByte'[ProcOf[g]] = pendingByte[ProcOf[g]]
          /\ sharedRange'[ProcOf[g]] = sharedRange[ProcOf[g]]
          BY <1>0, <1>p, <2>3 DEF TypeOK
    <3>2. QED BY <1>0, <3>1, HandleFrame DEF HandleOK
  <2>4. QED BY <2>1, <2>2, <2>3
<1>4. InodeOK'
  <2> SUFFICES ASSUME NEW q \in Proc PROVE InodeInv(q)' BY DEF InodeOK
  <2>1. CASE q = p BY <1>0, <1>p, <1>f, <2>1 DEF InodeOK, InodeInv, TypeOK, Mode
  <2>2. CASE q # p BY <1>0, <1>p, <1>f, <2>2 DEF InodeOK, InodeInv, TypeOK, Mode, PosixOK, Compatible
  <2>3. QED BY <2>1, <2>2
<1>5. PosixOK' BY <1>0, <1>p DEF PosixOK, Compatible, TypeOK, Mode
<1>6. CountOK'
  <2>1. Readers(p)' = Readers(p) \cup {f}
        BY <1>0, <1>p DEF Readers, Reader, TypeOK
  <2>2. \A q \in Proc \ {p} : Readers(q)' = Readers(q) /\ nShared'[q] = nShared[q]
        BY <1>0, <1>p DEF Readers, Reader, TypeOK
  <2>3. nShared'[p] = nShared[p] + 1 BY <1>0, <1>p, <1>f DEF TypeOK, HandleInv, InodeInv
  <2>4. QED BY <1>0, <1>1, <1>p, <2>1, <2>2, <2>3, CountStep
<1>7. WriterOK'
  <2> SUFFICES ASSUME NEW g \in File PROVE WriterInv(g)' BY DEF WriterOK
  <2>1. CASE g = f BY <1>0, <1>p, <1>f, <2>1 DEF WriterOK, WriterInv, Held, TypeOK, InMutex
  <2>2. CASE g # f BY <1>0, <1>p, <1>f, <2>2 DEF WriterOK, WriterInv, Held, TypeOK, InMutex
  <2>3. QED BY <2>1, <2>2
<1>8. QED BY <1>1, <1>2, <1>3, <1>4, <1>5, <1>6, <1>7 DEF IInv

\* The read lock on the pending byte is not a level yet.
LEMMA LockPendingReadStep ==
  ASSUME IInv, NEW f \in File, LockPendingRead(f)
  PROVE  IInv'
<1> DEFINE p == ProcOf[f]
<1> USE DEF NO_LOCK, SHARED_LOCK, RESERVED_LOCK, PENDING_LOCK, EXCLUSIVE_LOCK,
            LockLevel, LockPendingRead, CanCall, MutexFree, Goto, inodeVars, CanLock, Grant, SiblingBusy
<1>0. TypeOK /\ MutexOK /\ HandleOK /\ InodeOK /\ PosixOK /\ CountOK /\ WriterOK
      BY DEF IInv
<1>p. p \in Proc /\ \A g \in File : ProcOf[g] \in Proc BY UnixLockAssumption
<1>s. \A g \in File \ {f} : ProcOf[g] = p => pc[g] \notin InMutex
      BY DEF CanCall, MutexFree
<1>f. HandleInv(f) /\ InodeInv(p) BY <1>0, <1>p DEF HandleOK, InodeOK
<1>1. TypeOK' BY <1>0, <1>p DEF TypeOK, Label, InMutex, Mode
<1>2. MutexOK' BY <1>0, <1>p, <1>s DEF MutexOK, InMutex, TypeOK
<1>3. HandleOK'
  <2> SUFFICES ASSUME NEW g \in File PROVE HandleInv(g)' BY DEF HandleOK
  <2>1. CASE g = f BY <1>0, <1>p, <1>f, <2>1 DEF HandleInv, TypeOK, InMutex
  <2>2. CASE g # f /\ ProcOf[g] = p BY <1>0, <1>p, <1>s, <2>2 DEF HandleOK, HandleInv, TypeOK, InMutex, Label
  <2>3. CASE ProcOf[g] # p
    <3>1. /\ open'[g] = open[g] /\ eFileLock'[g] = eFileLock[g] /\ pc'[g] = pc[g]
          /\ iFileLock'[ProcOf[g]] = iFileLock[ProcOf[g]]
          /\ pendingByte'[ProcOf[g]] = pendingByte[ProcOf[g]]
          /\ sharedRange'[ProcOf[g]] = sharedRange[ProcOf[g]]
          BY <1>0, <1>p, <2>3 DEF TypeOK
    <3>2. QED BY <1>0, <3>1, HandleFrame DEF HandleOK
  <2>4. QED BY <2>1, <2>2, <2>3
<1>4. InodeOK'
  <2> SUFFICES ASSUME NEW q \in Proc PROVE InodeInv(q)' BY DEF InodeOK
  <2>1. CASE q = p BY <1>0, <1>p, <1>f, <2>1 DEF InodeOK, InodeInv, TypeOK, Mode
  <2>2. CASE q # p BY <1>0, <1>p, <1>f, <2>2 DEF InodeOK, InodeInv, TypeOK, Mode, PosixOK, Compatible
  <2>3. QED BY <2>1, <2>2
<1>5. PosixOK' BY <1>0, <1>p DEF PosixOK, Compatible, TypeOK, Mode
<1>6. CountOK'
  <2>1. \A q \in Proc : Readers(q)' = Readers(q) /\ nShared'[q] = nShared[q]
        BY <1>0, <1>p, <1>f DEF Readers, Reader, TypeOK, HandleInv
  <2>2. QED BY <1>0, <2>1 DEF CountOK
<1>7. WriterOK'
  <2> SUFFICES ASSUME NEW g \in File PROVE WriterInv(g)' BY DEF WriterOK
  <2>1. CASE g = f BY <1>0, <1>p, <1>f, <2>1 DEF WriterOK, WriterInv, Held, TypeOK, InMutex
  <2>2. CASE g # f BY <1>0, <1>p, <1>f, <2>2 DEF WriterOK, WriterInv, Held, TypeOK, InMutex
  <2>3. QED BY <2>1, <2>2
<1>8. QED BY <1>1, <1>2, <1>3, <1>4, <1>5, <1>6, <1>7 DEF IInv

\* The read lock on the range: no process can be EXCLUSIVE meanwhile.
LEMMA LockSharedRangeStep ==
  ASSUME IInv, NEW f \in File, LockSharedRange(f)
  PROVE  IInv'
<1> DEFINE p == ProcOf[f]
<1> USE DEF NO_LOCK, SHARED_LOCK, RESERVED_LOCK, PENDING_LOCK, EXCLUSIVE_LOCK,
            LockLevel, LockSharedRange, Goto, inodeVars, CanLock, Grant
<1>0. TypeOK /\ MutexOK /\ HandleOK /\ InodeOK /\ PosixOK /\ CountOK /\ WriterOK
      BY DEF IInv
<1>p. p \in Proc /\ \A g \in File : ProcOf[g] \in Proc BY UnixLockAssumption
<1>s. \A g \in File \ {f} : ProcOf[g] = p => pc[g] \notin InMutex
      BY <1>0 DEF MutexOK, InMutex
<1>f. HandleInv(f) /\ InodeInv(p) BY <1>0, <1>p DEF HandleOK, InodeOK
<1>1. TypeOK' BY <1>0, <1>p DEF TypeOK, Label, InMutex, Mode
<1>2. MutexOK' BY <1>0, <1>p, <1>s DEF MutexOK, InMutex, TypeOK
<1>3. HandleOK'
  <2> SUFFICES ASSUME NEW g \in File PROVE HandleInv(g)' BY DEF HandleOK
  <2>1. CASE g = f BY <1>0, <1>p, <1>f, <2>1 DEF HandleInv, TypeOK, InMutex
  <2>2. CASE g # f /\ ProcOf[g] = p BY <1>0, <1>p, <1>s, <2>2 DEF HandleOK, HandleInv, TypeOK, InMutex, Label
  <2>3. CASE ProcOf[g] # p
    <3>1. /\ open'[g] = open[g] /\ eFileLock'[g] = eFileLock[g] /\ pc'[g] = pc[g]
          /\ iFileLock'[ProcOf[g]] = iFileLock[ProcOf[g]]
          /\ pendingByte'[ProcOf[g]] = pendingByte[ProcOf[g]]
          /\ sharedRange'[ProcOf[g]] = sharedRange[ProcOf[g]]
          BY <1>0, <1>p, <2>3 DEF TypeOK
    <3>2. QED BY <1>0, <3>1, HandleFrame DEF HandleOK
  <2>4. QED BY <2>1, <2>2, <2>3
<1>4. InodeOK'
  <2> SUFFICES ASSUME NEW q \in Proc PROVE InodeInv(q)' BY DEF InodeOK
  <2>1. CASE q = p BY <1>0, <1>p, <1>f, <2>1 DEF InodeOK, InodeInv, TypeOK, Mode
  <2>2. CASE q # p
    <3>1. iFileLock[q] # EXCLUSIVE_LOCK
          BY <1>0, <1>p, <1>f, <2>2 DEF InodeOK, InodeInv, HandleInv, PosixOK, Compatible
    <3>2. QED BY <1>0, <1>p, <2>2, <3>1 DEF InodeOK, InodeInv, TypeOK
  <2>3. QED BY <2>1, <2>2
<1>5. PosixOK' BY <1>0, <1>p DEF PosixOK, Compatible, TypeOK, Mode
<1>6. CountOK'
  <2>1. \A q \in Proc : Readers(q)' = Readers(q) /\ nShared'[q] = nShared[q]
        BY <1>0, <1>p, <1>f DEF Readers, Reader, TypeOK, HandleInv
  <2>2. QED BY <1>0, <2>1 DEF CountOK
<1>7. WriterOK'
  <2> SUFFICES ASSUME NEW g \in File PROVE WriterInv(g)' BY DEF WriterOK
  <2>1. CASE g = f BY <1>0, <1>p, <1>f, <2>1 DEF WriterOK, WriterInv, Held, TypeOK, InMutex
  <2>2. CASE g # f BY <1>0, <1>p, <1>f, <2>2 DEF WriterOK, WriterInv, Held, TypeOK, InMutex
  <2>3. QED BY <2>1, <2>2
<1>8. QED BY <1>1, <1>2, <1>3, <1>4, <1>5, <1>6, <1>7 DEF IInv

\* SHARED is recorded in the handle and in the inode at once.
LEMMA LockDropPendingStep ==
  ASSUME IInv, NEW f \in File, LockDropPending(f)
  PROVE  IInv'
<1> DEFINE p == ProcOf[f]
<1> USE DEF NO_LOCK, SHARED_LOCK, RESERVED_LOCK, PENDING_LOCK, EXCLUSIVE_LOCK,
            LockLevel, LockDropPending, Goto, Grant
<1>0. TypeOK /\ MutexOK /\ HandleOK /\ InodeOK /\ PosixOK /\ CountOK /\ WriterOK
      BY DEF IInv
<1>p. p \in Proc /\ \A g \in File : ProcOf[g] \in Proc BY UnixLockAssumption
<1>s. \A g \in File \ {f} : ProcOf[g] = p => pc[g] \notin InMutex
      BY <1>0 DEF MutexOK, InMutex
<1>f. HandleInv(f) /\ InodeInv(p) BY <1>0, <1>p DEF HandleOK, InodeOK
<1>1. TypeOK' BY <1>0, <1>p DEF TypeOK, Label, InMutex, Mode
<1>2. MutexOK' BY <1>0, <1>p, <1>s DEF MutexOK, InMutex, TypeOK
<1>3. HandleOK'
  <2> SUFFICES ASSUME NEW g \in File PROVE HandleInv(g)' BY DEF HandleOK
  <2>1. CASE g = f BY <1>0, <1>p, <1>f, <2>1 DEF HandleInv, TypeOK, InMutex
  <2>2. CASE g # f /\ ProcOf[g] = p BY <1>0, <1>p, <1>s, <2>2 DEF HandleOK, HandleInv, TypeOK, InMutex, Label
  <2>3. CASE ProcOf[g] # p
    <3>1. /\ open'[g] = open[g] /\ eFileLock'[g] = eFileLock[g] /\ pc'[g] = pc[g]
          /\ iFileLock'[ProcOf[g]] = iFileLock[ProcOf[g]]
          /\ pendingByte'[ProcOf[g]] = pendingByte[ProcOf[g]]
          /\ sharedRange'[ProcOf[g]] = sharedRange[ProcOf[g]]
          BY <1>0, <1>p, <2>3 DEF TypeOK
    <3>2. QED BY <1>0, <3>1, HandleFrame DEF HandleOK
  <2>4. QED BY <2>1, <2>2, <2>3
<1>4. InodeOK'
  <2> SUFFICES ASSUME NEW q \in Proc PROVE InodeInv(q)' BY DEF InodeOK
  <2>1. CASE q = p BY <1>0, <1>p, <1>f, <2>1 DEF InodeOK, InodeInv, HandleInv, TypeOK, Mode
  <2>2. CASE q # p
    <3>1. /\ iFileLock'[q] = iFileLock[q] /\ nShared'[q] = nShared[q]
          /\ nLock'[q] = nLock[q] /\ pendingByte'[q] = pendingByte[q]
          BY <1>0, <1>p, <2>2 DEF TypeOK
    <3>2. QED BY <1>0, <2>2, <3>1 DEF InodeOK, InodeInv
  <2>3. QED BY <2>1, <2>2
<1>5. PosixOK' BY <1>0, <1>p DEF PosixOK, Compatible, TypeOK, Mode
<1>6. CountOK'
  <2>0. \A q \in Proc \ {p} : Readers(q)' = Readers(q) /\ nShared'[q] = nShared[q]
        BY <1>0, <1>p DEF Readers, Reader, TypeOK
  <2>1. CASE pc[f] = "rdDrop"
    <3>1. Readers(p)' = Readers(p) \cup {f}
          BY <1>0, <1>p, <2>1 DEF Readers, Reader, TypeOK
    <3>2. nShared'[p] = nShared[p] + 1
          BY <1>0, <1>p, <1>f, <2>1 DEF TypeOK, HandleInv, InodeInv
    <3>3. QED BY <1>0, <1>1, <1>p, <2>0, <3>1, <3>2, CountStep
  <2>2. CASE pc[f] # "rdDrop"
    <3>1. Readers(p)' \in SUBSET Readers(p) /\ nShared'[p] = nShared[p]
          BY <1>0, <1>p, <2>2 DEF Readers, Reader, TypeOK
    <3>2. nShared[p] \in Nat BY <1>0, <1>p DEF TypeOK
    <3>3. QED BY <1>0, <1>1, <1>p, <2>0, <3>1, <3>2, CountStep
  <2>3. QED BY <2>1, <2>2
<1>7. WriterOK'
  <2> SUFFICES ASSUME NEW g \in File PROVE WriterInv(g)' BY DEF WriterOK
  <2>1. CASE g = f BY <1>0, <1>p, <1>f, <2>1 DEF WriterOK, WriterInv, Held, TypeOK, InMutex
  <2>2. CASE g # f
    <3>1. ProcOf[g] = p => Held(g) <= SHARED_LOCK
          BY <1>0, <1>p, <1>f, Consequences DEF WriterOK, WriterInv, HandleInv
    <3>2. QED BY <1>0, <1>p, <1>f, <2>2, <3>1 DEF WriterOK, WriterInv, Held, TypeOK, InMutex
  <2>3. QED BY <2>1, <2>2
<1>8. QED BY <1>1, <1>2, <1>3, <1>4, <1>5, <1>6, <1>7 DEF IInv

\* A failed release leaves more posix locks than levels, never fewer.
LEMMA LockDropPendingFailsStep ==
  ASSUME IInv, NEW f \in File, LockDropPendingFails(f)
  PROVE  IInv'
<1> DEFINE p == ProcOf[f]
<1> USE DEF NO_LOCK, SHARED_LOCK, RESERVED_LOCK, PENDING_LOCK, EXCLUSIVE_LOCK,
            LockLevel, LockDropPendingFails, Goto, inodeVars, posixVars
<1>0. TypeOK /\ MutexOK /\ HandleOK /\ InodeOK /\ PosixOK /\ CountOK /\ WriterOK
      BY DEF IInv
<1>p. p \in Proc /\ \A g \in File : ProcOf[g] \in Proc BY UnixLockAssumption
<1>s. \A g \in File \ {f} : ProcOf[g] = p => pc[g] \notin InMutex
      BY <1>0 DEF MutexOK, InMutex
<1>f. HandleInv(f) /\ InodeInv(p) BY <1>0, <1>p DEF HandleOK, InodeOK
<1>1. TypeOK' BY <1>0, <1>p DEF TypeOK, Label, InMutex, Mode
<1>2. MutexOK' BY <1>0, <1>p, <1>s DEF MutexOK, InMutex, TypeOK
<1>3. HandleOK'
  <2> SUFFICES ASSUME NEW g \in File PROVE HandleInv(g)' BY DEF HandleOK
  <2>1. CASE g = f BY <1>0, <1>p, <1>f, <2>1 DEF HandleInv, TypeOK, InMutex
  <2>2. CASE g # f /\ ProcOf[g] = p BY <1>0, <1>p, <1>s, <2>2 DEF HandleOK, HandleInv, TypeOK, InMutex, Label
  <2>3. CASE ProcOf[g] # p
    <3>1. /\ open'[g] = open[g] /\ eFileLock'[g] = eFileLock[g] /\ pc'[g] = pc[g]
          /\ iFileLock'[ProcOf[g]] = iFileLock[ProcOf[g]]
          /\ pendingByte'[ProcOf[g]] = pendingByte[ProcOf[g]]
          /\ sharedRange'[ProcOf[g]] = sharedRange[ProcOf[g]]
          BY <1>0, <1>p, <2>3 DEF TypeOK
    <3>2. QED BY <1>0, <3>1, HandleFrame DEF HandleOK
  <2>4. QED BY <2>1, <2>2, <2>3
<1>4. InodeOK'
  <2> SUFFICES ASSUME NEW q \in Proc PROVE InodeInv(q)' BY DEF InodeOK
  <2>1. CASE q = p BY <1>0, <1>p, <1>f, <2>1 DEF InodeOK, InodeInv, TypeOK, Mode
  <2>2. CASE q # p BY <1>0, <1>p, <1>f, <2>2 DEF InodeOK, InodeInv, TypeOK, Mode, PosixOK, Compatible
  <2>3. QED BY <2>1, <2>2
<1>5. PosixOK' BY <1>0, <1>p DEF PosixOK, Compatible, TypeOK, Mode
<1>6. CountOK'
  <2>1. \A q \in Proc : Readers(q)' = Readers(q) /\ nShared'[q] = nShared[q]
        BY <1>0, <1>p, <1>f DEF Readers, Reader, TypeOK, HandleInv
  <2>2. QED BY <1>0, <2>1 DEF CountOK
<1>7. WriterOK'
  <2> SUFFICES ASSUME NEW g \in File PROVE WriterInv(g)' BY DEF WriterOK
  <2>1. CASE g = f BY <1>0, <1>p, <1>f, <2>1 DEF WriterOK, WriterInv, Held, TypeOK, InMutex
  <2>2. CASE g # f BY <1>0, <1>p, <1>f, <2>2 DEF WriterOK, WriterInv, Held, TypeOK, InMutex
  <2>3. QED BY <2>1, <2>2
<1>8. QED BY <1>1, <1>2, <1>3, <1>4, <1>5, <1>6, <1>7 DEF IInv

\* RESERVED: no sibling is above SHARED, no other process has the byte.
LEMMA LockReservedStep ==
  ASSUME IInv, NEW f \in File, LockReserved(f)
  PROVE  IInv'
<1> DEFINE p == ProcOf[f]
<1> USE DEF NO_LOCK, SHARED_LOCK, RESERVED_LOCK, PENDING_LOCK, EXCLUSIVE_LOCK,
            LockLevel, LockReserved, CanCall, MutexFree, Goto, CanLock, Grant, SiblingBusy
<1>0. TypeOK /\ MutexOK /\ HandleOK /\ InodeOK /\ PosixOK /\ CountOK /\ WriterOK
      BY DEF IInv
<1>p. p \in Proc /\ \A g \in File : ProcOf[g] \in Proc BY UnixLockAssumption
<1>s. \A g \in File \ {f} : ProcOf[g] = p => pc[g] \notin InMutex
      BY DEF CanCall, MutexFree
<1>f. HandleInv(f) /\ InodeInv(p) BY <1>0, <1>p DEF HandleOK, InodeOK
<1>1. TypeOK' BY <1>0, <1>p DEF TypeOK, Label, InMutex, Mode
<1>2. MutexOK' BY <1>0, <1>p, <1>s DEF MutexOK, InMutex, TypeOK
<1>3. HandleOK'
  <2> SUFFICES ASSUME NEW g \in File PROVE HandleInv(g)' BY DEF HandleOK
  <2>1. CASE g = f BY <1>0, <1>p, <1>f, <2>1 DEF HandleInv, TypeOK, InMutex
  <2>2. CASE g # f /\ ProcOf[g] = p BY <1>0, <1>p, <1>s, <2>2 DEF HandleOK, HandleInv, TypeOK, InMutex, Label
  <2>3. CASE ProcOf[g] # p
    <3>1. /\ open'[g] = open[g] /\ eFileLock'[g] = eFileLock[g] /\ pc'[g] = pc[g]
          /\ iFileLock'[ProcOf[g]] = iFileLock[ProcOf[g]]
          /\ pendingByte'[ProcOf[g]] = pendingByte[ProcOf[g]]
          /\ sharedRange'[ProcOf[g]] = sharedRange[ProcOf[g]]
          BY <1>0, <1>p, <2>3 DEF TypeOK
    <3>2. QED BY <1>0, <3>1, HandleFrame DEF HandleOK
  <2>4. QED BY <2>1, <2>2, <2>3
<1>4. InodeOK'
  <2> SUFFICES ASSUME NEW q \in Proc PROVE InodeInv(q)' BY DEF InodeOK
  <2>1. CASE q = p BY <1>0, <1>p, <1>f, <2>1 DEF InodeOK, InodeInv, TypeOK, Mode
  <2>2. CASE q # p BY <1>0, <1>p, <1>f, <2>2 DEF InodeOK, InodeInv, TypeOK, Mode, PosixOK, Compatible
  <2>3. QED BY <2>1, <2>2
<1>5. PosixOK' BY <1>0, <1>p DEF PosixOK, Compatible, TypeOK, Mode
<1>6. CountOK'
  <2>1. \A q \in Proc : Readers(q)' = Readers(q) /\ nShared'[q] = nShared[q]
        BY <1>0, <1>p, <1>f DEF Readers, Reader, TypeOK, HandleInv
  <2>2. QED BY <1>0, <2>1 DEF CountOK
<1>7. WriterOK'
  <2> SUFFICES ASSUME NEW g \in File PROVE WriterInv(g)' BY DEF WriterOK
  <2>1. CASE g = f BY <1>0, <1>p, <1>f, <2>1 DEF WriterOK, WriterInv, Held, TypeOK, InMutex
  <2>2. CASE g # f BY <1>0, <1>p, <1>f, <2>2 DEF WriterOK, WriterInv, Held, TypeOK, InMutex
  <2>3. QED BY <2>1, <2>2
<1>8. QED BY <1>1, <1>2, <1>3, <1>4, <1>5, <1>6, <1>7 DEF IInv

\* The write lock on the pending byte excludes the readers' request.
LEMMA LockPendingWriteStep ==
  ASSUME IInv, NEW f \in File, LockPendingWrite(f)
  PROVE  IInv'
<1> DEFINE p == ProcOf[f]
<1> USE DEF NO_LOCK, SHARED_LOCK, RESERVED_LOCK, PENDING_LOCK, EXCLUSIVE_LOCK,
            LockLevel, LockPendingWrite, CanCall, MutexFree, Goto, inodeVars, CanLock, Grant, SiblingBusy
<1>0. TypeOK /\ MutexOK /\ HandleOK /\ InodeOK /\ PosixOK /\ CountOK /\ WriterOK
      BY DEF IInv
<1>p. p \in Proc /\ \A g \in File : ProcOf[g] \in Proc BY UnixLockAssumption
<1>s. \A g \in File \ {f} : ProcOf[g] = p => pc[g] \notin InMutex
      BY DEF CanCall, MutexFree
<1>f. HandleInv(f) /\ InodeInv(p) BY <1>0, <1>p DEF HandleOK, InodeOK
<1>1. TypeOK' BY <1>0, <1>p DEF TypeOK, Label, InMutex, Mode
<1>2. MutexOK' BY <1>0, <1>p, <1>s DEF MutexOK, InMutex, TypeOK
<1>3. HandleOK'
  <2> SUFFICES ASSUME NEW g \in File PROVE HandleInv(g)' BY DEF HandleOK
  <2>1. CASE g = f
    <3>1. iFileLock[p] = eFileLock[f] BY <1>0, <1>p, <1>f DEF TypeOK
    <3>2. pendingByte'[p] = "WR"
          BY <1>0, <1>p, <1>f, <3>1 DEF TypeOK, InodeInv
    <3>3. QED BY <1>0, <1>p, <1>f, <2>1, <3>1, <3>2 DEF HandleInv, TypeOK
  <2>2. CASE g # f /\ ProcOf[g] = p BY <1>0, <1>p, <1>s, <2>2 DEF HandleOK, HandleInv, TypeOK, InMutex, Label
  <2>3. CASE ProcOf[g] # p
    <3>1. /\ open'[g] = open[g] /\ eFileLock'[g] = eFileLock[g] /\ pc'[g] = pc[g]
          /\ iFileLock'[ProcOf[g]] = iFileLock[ProcOf[g]]
          /\ pendingByte'[ProcOf[g]] = pendingByte[ProcOf[g]]
          /\ sharedRange'[ProcOf[g]] = sharedRange[ProcOf[g]]
          BY <1>0, <1>p, <2>3 DEF TypeOK
    <3>2. QED BY <1>0, <3>1, HandleFrame DEF HandleOK
  <2>4. QED BY <2>1, <2>2, <2>3
<1>4. InodeOK'
  <2> SUFFICES ASSUME NEW q \in Proc PROVE InodeInv(q)' BY DEF InodeOK
  <2>1. CASE q = p BY <1>0, <1>p, <1>f, <2>1 DEF InodeOK, InodeInv, TypeOK, Mode
  <2>2. CASE q # p BY <1>0, <1>p, <1>f, <2>2 DEF InodeOK, InodeInv, TypeOK, Mode, PosixOK, Compatible
  <2>3. QED BY <2>1, <2>2
<1>5. PosixOK' BY <1>0, <1>p DEF PosixOK, Compatible, TypeOK, Mode
<1>6. CountOK'
  <2>1. \A q \in Proc : Readers(q)' = Readers(q) /\ nShared'[q] = nShared[q]
        BY <1>0, <1>p, <1>f DEF Readers, Reader, TypeOK, HandleInv
  <2>2. QED BY <1>0, <2>1 DEF CountOK
<1>7. WriterOK'
  <2> SUFFICES ASSUME NEW g \in File PROVE WriterInv(g)' BY DEF WriterOK
  <2>1. CASE g = f BY <1>0, <1>p, <1>f, <2>1 DEF WriterOK, WriterInv, Held, TypeOK, InMutex
  <2>2. CASE g # f BY <1>0, <1>p, <1>f, <2>2 DEF WriterOK, WriterInv, Held, TypeOK, InMutex
  <2>3. QED BY <2>1, <2>2
<1>8. QED BY <1>1, <1>2, <1>3, <1>4, <1>5, <1>6, <1>7 DEF IInv

\* EXCLUSIVE only with one reader in the process and none outside.
\* EXCLUSIVE only with one reader in the process and none outside.
LEMMA LockExclusiveRangeStep ==
  ASSUME IInv, NEW f \in File, LockExclusiveRange(f)
  PROVE  IInv'
<1> DEFINE p == ProcOf[f]
<1> USE DEF NO_LOCK, SHARED_LOCK, RESERVED_LOCK, PENDING_LOCK, EXCLUSIVE_LOCK,
            LockLevel, LockExclusiveRange, Goto, CanLock, Grant, OtherReaderInProcess
<1>0. TypeOK /\ MutexOK /\ HandleOK /\ InodeOK /\ PosixOK /\ CountOK /\ WriterOK
      BY DEF IInv
<1>p. p \in Proc /\ \A g \in File : ProcOf[g] \in Proc BY UnixLockAssumption
<1>s. \A g \in File \ {f} : ProcOf[g] = p => pc[g] \notin InMutex
      BY <1>0 DEF MutexOK, InMutex
<1>f. HandleInv(f) /\ InodeInv(p) BY <1>0, <1>p DEF HandleOK, InodeOK
<1>u. /\ eFileLock[f] \in SHARED_LOCK .. PENDING_LOCK
      /\ iFileLock[p] = eFileLock[f] /\ pendingByte[p] = "WR" /\ Held(f) = eFileLock[f]
      BY <1>f DEF HandleInv, Held
<1>v. \A g \in File \ {f} : ProcOf[g] = p => Held(g) <= SHARED_LOCK
      BY <1>0, <1>p, <1>u, Consequences DEF WriterOK, WriterInv
<1>x. /\ iFileLock' = [iFileLock EXCEPT ![p] = eFileLock'[f]]
      /\ eFileLock'[f] \in {PENDING_LOCK, EXCLUSIVE_LOCK}
      /\ eFileLock' = [eFileLock EXCEPT ![f] = eFileLock'[f]]
      /\ pc' = [pc EXCEPT ![f] = "idle"]
      BY <1>0, <1>p DEF TypeOK
<1>1. TypeOK' BY <1>0, <1>p DEF TypeOK, Label, InMutex, Mode
<1>2. MutexOK' BY <1>0, <1>p, <1>s DEF MutexOK, InMutex, TypeOK
<1>3. HandleOK'
  <2> SUFFICES ASSUME NEW g \in File PROVE HandleInv(g)' BY DEF HandleOK
  <2>1. CASE g = f BY <1>0, <1>p, <1>f, <2>1 DEF HandleInv, TypeOK, InMutex
  <2>2. CASE g # f /\ ProcOf[g] = p BY <1>0, <1>p, <1>s, <2>2 DEF HandleOK, HandleInv, TypeOK, InMutex, Label
  <2>3. CASE ProcOf[g] # p
    <3>1. /\ open'[g] = open[g] /\ eFileLock'[g] = eFileLock[g] /\ pc'[g] = pc[g]
          /\ iFileLock'[ProcOf[g]] = iFileLock[ProcOf[g]]
          /\ pendingByte'[ProcOf[g]] = pendingByte[ProcOf[g]]
          BY <1>0, <1>p, <1>x, <2>3 DEF TypeOK
    <3>2. sharedRange'[ProcOf[g]] = sharedRange[ProcOf[g]]
          BY <1>0, <1>p, <2>3 DEF TypeOK
    <3>3. QED BY <1>0, <3>1, <3>2, HandleFrame DEF HandleOK
  <2>4. QED BY <2>1, <2>2, <2>3
<1>4. InodeOK'
  <2> SUFFICES ASSUME NEW q \in Proc PROVE InodeInv(q)' BY DEF InodeOK
  <2>1. CASE q = p
    <3>1. CASE eFileLock'[f] = PENDING_LOCK
          BY <1>0, <1>p, <1>f, <1>u, <1>x, <2>1, <3>1 DEF InodeInv, TypeOK
    <3>2. CASE eFileLock'[f] = EXCLUSIVE_LOCK
      <4>1. nShared[p] = 1 /\ \A r \in Proc \ {p} : sharedRange[r] = "UN"
            BY <1>0, <1>p, <1>f, <1>u, <3>2 DEF TypeOK, InodeInv
      <4>2. sharedRange' = [sharedRange EXCEPT ![p] = "WR"]
            BY <1>0, <1>p, <3>2 DEF TypeOK
      <4>3. QED BY <1>0, <1>p, <1>f, <1>u, <1>x, <2>1, <3>2, <4>1, <4>2 DEF InodeInv, TypeOK
    <3>3. QED BY <1>x, <3>1, <3>2
  <2>2. CASE q # p
    <3>1. iFileLock[q] # EXCLUSIVE_LOCK
          BY <1>0, <1>p, <1>u, <2>2 DEF InodeOK, InodeInv, PosixOK, Compatible
    <3>2. QED BY <1>0, <1>p, <2>2, <3>1 DEF InodeOK, InodeInv, TypeOK
  <2>3. QED BY <2>1, <2>2
<1>5. PosixOK' BY <1>0, <1>p DEF PosixOK, Compatible, TypeOK, Mode
<1>6. CountOK'
  <2>1. \A q \in Proc : Readers(q)' = Readers(q) /\ nShared'[q] = nShared[q]
        BY <1>0, <1>p, <1>f DEF Readers, Reader, TypeOK, HandleInv
  <2>2. QED BY <1>0, <2>1 DEF CountOK
<1>7. WriterOK'
  <2> SUFFICES ASSUME NEW g \in File PROVE WriterInv(g)' BY DEF WriterOK
  <2>1. CASE g = f BY <1>0, <1>p, <1>v, <1>x, <2>1 DEF WriterInv, Held, TypeOK
  <2>2. CASE g # f BY <1>0, <1>p, <1>v, <1>x, <2>2 DEF WriterOK, WriterInv, Held, TypeOK
  <2>3. QED BY <2>1, <2>2
<1>8. QED BY <1>1, <1>2, <1>3, <1>4, <1>5, <1>6, <1>7 DEF IInv

\* The downgrade of the range keeps the process a reader.
LEMMA UnlockReadRangeStep ==
  ASSUME IInv, NEW f \in File, UnlockReadRange(f)
  PROVE  IInv'
<1> DEFINE p == ProcOf[f]
<1> USE DEF NO_LOCK, SHARED_LOCK, RESERVED_LOCK, PENDING_LOCK, EXCLUSIVE_LOCK,
            LockLevel, UnlockReadRange, CanCall, MutexFree, Goto, inodeVars, CanLock, Grant
<1>0. TypeOK /\ MutexOK /\ HandleOK /\ InodeOK /\ PosixOK /\ CountOK /\ WriterOK
      BY DEF IInv
<1>p. p \in Proc /\ \A g \in File : ProcOf[g] \in Proc BY UnixLockAssumption
<1>s. \A g \in File \ {f} : ProcOf[g] = p => pc[g] \notin InMutex
      BY DEF CanCall, MutexFree
<1>f. HandleInv(f) /\ InodeInv(p) BY <1>0, <1>p DEF HandleOK, InodeOK
<1>r. nShared[p] >= 1 BY <1>0, Consequences DEF Reader
<1>1. TypeOK' BY <1>0, <1>p DEF TypeOK, Label, InMutex, Mode
<1>2. MutexOK' BY <1>0, <1>p, <1>s DEF MutexOK, InMutex, TypeOK
<1>3. HandleOK'
  <2> SUFFICES ASSUME NEW g \in File PROVE HandleInv(g)' BY DEF HandleOK
  <2>1. CASE g = f BY <1>0, <1>p, <1>f, <2>1 DEF HandleInv, TypeOK, InMutex, WriterOK, WriterInv, Held
  <2>2. CASE g # f /\ ProcOf[g] = p BY <1>0, <1>p, <1>s, <2>2 DEF HandleOK, HandleInv, TypeOK, InMutex, Label
  <2>3. CASE ProcOf[g] # p
    <3>1. /\ open'[g] = open[g] /\ eFileLock'[g] = eFileLock[g] /\ pc'[g] = pc[g]
          /\ iFileLock'[ProcOf[g]] = iFileLock[ProcOf[g]]
          /\ pendingByte'[ProcOf[g]] = pendingByte[ProcOf[g]]
          /\ sharedRange'[ProcOf[g]] = sharedRange[ProcOf[g]]
          BY <1>0, <1>p, <2>3 DEF TypeOK
    <3>2. QED BY <1>0, <3>1, HandleFrame DEF HandleOK
  <2>4. QED BY <2>1, <2>2, <2>3
<1>4. InodeOK'
  <2> SUFFICES ASSUME NEW q \in Proc PROVE InodeInv(q)' BY DEF InodeOK
  <2>1. CASE q = p BY <1>0, <1>p, <1>f, <2>1 DEF InodeOK, InodeInv, TypeOK, Mode
  <2>2. CASE q # p BY <1>0, <1>p, <1>f, <1>r, <2>2 DEF InodeOK, InodeInv, TypeOK, Mode, PosixOK, Compatible
  <2>3. QED BY <2>1, <2>2
<1>5. PosixOK' BY <1>0, <1>p DEF PosixOK, Compatible, TypeOK, Mode
<1>6. CountOK'
  <2>1. \A q \in Proc : Readers(q)' = Readers(q) /\ nShared'[q] = nShared[q]
        BY <1>0, <1>p, <1>f DEF Readers, Reader, TypeOK, HandleInv
  <2>2. QED BY <1>0, <2>1 DEF CountOK
<1>7. WriterOK'
  <2> SUFFICES ASSUME NEW g \in File PROVE WriterInv(g)' BY DEF WriterOK
  <2>1. CASE g = f BY <1>0, <1>p, <1>f, <2>1 DEF WriterOK, WriterInv, Held, TypeOK, InMutex
  <2>2. CASE g # f BY <1>0, <1>p, <1>f, <2>2 DEF WriterOK, WriterInv, Held, TypeOK, InMutex
  <2>3. QED BY <2>1, <2>2
<1>8. QED BY <1>1, <1>2, <1>3, <1>4, <1>5, <1>6, <1>7 DEF IInv

\* Releasing the pending and reserved bytes leaves a SHARED inode.
LEMMA UnlockDropWriteStep ==
  ASSUME IInv, NEW f \in File, UnlockDropWrite(f)
  PROVE  IInv'
<1> DEFINE p == ProcOf[f]
<1> USE DEF NO_LOCK, SHARED_LOCK, RESERVED_LOCK, PENDING_LOCK, EXCLUSIVE_LOCK,
            LockLevel, UnlockDropWrite, Goto, Grant
<1>0. TypeOK /\ MutexOK /\ HandleOK /\ InodeOK /\ PosixOK /\ CountOK /\ WriterOK
      BY DEF IInv
<1>p. p \in Proc /\ \A g \in File : ProcOf[g] \in Proc BY UnixLockAssumption
<1>s. \A g \in File \ {f} : ProcOf[g] = p => pc[g] \notin InMutex
      BY <1>0 DEF MutexOK, InMutex
<1>f. HandleInv(f) /\ InodeInv(p) BY <1>0, <1>p DEF HandleOK, InodeOK
<1>v. /\ eFileLock[f] > SHARED_LOCK /\ Held(f) = eFileLock[f]
      /\ iFileLock[p] = eFileLock[f]
      BY <1>f DEF HandleInv, Held
<1>w. \A g \in File \ {f} : ProcOf[g] = p => Held(g) <= SHARED_LOCK
      BY <1>0, <1>p, <1>v DEF WriterOK, WriterInv
<1>1. TypeOK' BY <1>0, <1>p DEF TypeOK, Label, InMutex, Mode
<1>2. MutexOK' BY <1>0, <1>p, <1>s DEF MutexOK, InMutex, TypeOK
<1>3. HandleOK'
  <2> SUFFICES ASSUME NEW g \in File PROVE HandleInv(g)' BY DEF HandleOK
  <2>1. CASE g = f BY <1>0, <1>p, <1>f, <2>1 DEF HandleInv, TypeOK, InMutex
  <2>2. CASE g # f /\ ProcOf[g] = p BY <1>0, <1>p, <1>s, <2>2 DEF HandleOK, HandleInv, TypeOK, InMutex, Label
  <2>3. CASE ProcOf[g] # p
    <3>1. /\ open'[g] = open[g] /\ eFileLock'[g] = eFileLock[g] /\ pc'[g] = pc[g]
          /\ iFileLock'[ProcOf[g]] = iFileLock[ProcOf[g]]
          /\ pendingByte'[ProcOf[g]] = pendingByte[ProcOf[g]]
          /\ sharedRange'[ProcOf[g]] = sharedRange[ProcOf[g]]
          BY <1>0, <1>p, <2>3 DEF TypeOK
    <3>2. QED BY <1>0, <3>1, HandleFrame DEF HandleOK
  <2>4. QED BY <2>1, <2>2, <2>3
<1>4. InodeOK'
  <2> SUFFICES ASSUME NEW q \in Proc PROVE InodeInv(q)' BY DEF InodeOK
  <2>1. CASE q = p
    <3>1. CASE pc'[f] = "ret1"
          BY <1>0, <1>p, <1>f, <1>v, <2>1, <3>1 DEF InodeInv, TypeOK
    <3>2. CASE pc'[f] # "ret1"
          BY <1>0, <1>p, <1>f, <2>1, <3>2 DEF InodeInv, TypeOK
    <3>3. QED BY <3>1, <3>2
  <2>2. CASE q # p BY <1>0, <1>p, <1>f, <2>2 DEF InodeOK, InodeInv, TypeOK, Mode, PosixOK, Compatible
  <2>3. QED BY <2>1, <2>2
<1>5. PosixOK' BY <1>0, <1>p DEF PosixOK, Compatible, TypeOK, Mode
<1>6. CountOK'
  <2>1. \A q \in Proc : Readers(q)' = Readers(q) /\ nShared'[q] = nShared[q]
        BY <1>0, <1>p, <1>f DEF Readers, Reader, TypeOK, HandleInv
  <2>2. QED BY <1>0, <2>1 DEF CountOK
<1>7. WriterOK'
  <2> SUFFICES ASSUME NEW g \in File PROVE WriterInv(g)' BY DEF WriterOK
  <2>1. CASE g = f BY <1>0, <1>p, <1>v, <1>w, <2>1 DEF WriterInv, Held, TypeOK
  <2>2. CASE g # f
    <3>1. Held(g)' = Held(g) BY <1>0, <1>p, <2>2 DEF Held, TypeOK
    <3>2. CASE ProcOf[g] = p BY <1>w, <2>2, <3>1, <3>2, Consequences DEF WriterInv
    <3>3. CASE ProcOf[g] # p
      <4>1. iFileLock'[ProcOf[g]] = iFileLock[ProcOf[g]] BY <1>0, <1>p, <3>3 DEF TypeOK
      <4>2. \A h \in File : h # f => Held(h)' = Held(h) BY <1>0, <1>p DEF Held, TypeOK
      <4>3. QED BY <1>0, <3>1, <3>3, <4>1, <4>2 DEF WriterOK, WriterInv
    <3>4. QED BY <3>2, <3>3
  <2>3. QED BY <2>1, <2>2
<1>8. QED BY <1>1, <1>2, <1>3, <1>4, <1>5, <1>6, <1>7 DEF IInv

\* Entering unixClose() without a lock changes no lock.
LEMMA CloseUnlockedStep ==
  ASSUME IInv, NEW f \in File, CloseUnlocked(f)
  PROVE  IInv'
<1> DEFINE p == ProcOf[f]
<1> USE DEF NO_LOCK, SHARED_LOCK, RESERVED_LOCK, PENDING_LOCK, EXCLUSIVE_LOCK,
            LockLevel, CloseUnlocked, CanCall, MutexFree, Goto, inodeVars, posixVars
<1>0. TypeOK /\ MutexOK /\ HandleOK /\ InodeOK /\ PosixOK /\ CountOK /\ WriterOK
      BY DEF IInv
<1>p. p \in Proc /\ \A g \in File : ProcOf[g] \in Proc BY UnixLockAssumption
<1>s. \A g \in File \ {f} : ProcOf[g] = p => pc[g] \notin InMutex
      BY DEF CanCall, MutexFree
<1>f. HandleInv(f) /\ InodeInv(p) BY <1>0, <1>p DEF HandleOK, InodeOK
<1>1. TypeOK' BY <1>0, <1>p DEF TypeOK, Label, InMutex, Mode
<1>2. MutexOK' BY <1>0, <1>p, <1>s DEF MutexOK, InMutex, TypeOK
<1>3. HandleOK'
  <2> SUFFICES ASSUME NEW g \in File PROVE HandleInv(g)' BY DEF HandleOK
  <2>1. CASE g = f BY <1>0, <1>p, <1>f, <2>1 DEF HandleInv, TypeOK, InMutex
  <2>2. CASE g # f /\ ProcOf[g] = p BY <1>0, <1>p, <1>s, <2>2 DEF HandleOK, HandleInv, TypeOK, InMutex, Label
  <2>3. CASE ProcOf[g] # p
    <3>1. /\ open'[g] = open[g] /\ eFileLock'[g] = eFileLock[g] /\ pc'[g] = pc[g]
          /\ iFileLock'[ProcOf[g]] = iFileLock[ProcOf[g]]
          /\ pendingByte'[ProcOf[g]] = pendingByte[ProcOf[g]]
          /\ sharedRange'[ProcOf[g]] = sharedRange[ProcOf[g]]
          BY <1>0, <1>p, <2>3 DEF TypeOK
    <3>2. QED BY <1>0, <3>1, HandleFrame DEF HandleOK
  <2>4. QED BY <2>1, <2>2, <2>3
<1>4. InodeOK'
  <2> SUFFICES ASSUME NEW q \in Proc PROVE InodeInv(q)' BY DEF InodeOK
  <2>1. CASE q = p BY <1>0, <1>p, <1>f, <2>1 DEF InodeOK, InodeInv, TypeOK, Mode
  <2>2. CASE q # p BY <1>0, <1>p, <1>f, <2>2 DEF InodeOK, InodeInv, TypeOK, Mode, PosixOK, Compatible
  <2>3. QED BY <2>1, <2>2
<1>5. PosixOK' BY <1>0, <1>p DEF PosixOK, Compatible, TypeOK, Mode
<1>6. CountOK'
  <2>1. \A q \in Proc : Readers(q)' = Readers(q) /\ nShared'[q] = nShared[q]
        BY <1>0, <1>p, <1>f DEF Readers, Reader, TypeOK, HandleInv
  <2>2. QED BY <1>0, <2>1 DEF CountOK
<1>7. WriterOK'
  <2> SUFFICES ASSUME NEW g \in File PROVE WriterInv(g)' BY DEF WriterOK
  <2>1. CASE g = f BY <1>0, <1>p, <1>f, <2>1 DEF WriterOK, WriterInv, Held, TypeOK, InMutex
  <2>2. CASE g # f BY <1>0, <1>p, <1>f, <2>2 DEF WriterOK, WriterInv, Held, TypeOK, InMutex
  <2>3. QED BY <2>1, <2>2
<1>8. QED BY <1>1, <1>2, <1>3, <1>4, <1>5, <1>6, <1>7 DEF IInv

\* The first half of posixUnlock(NO_LOCK) leaves a SHARED inode.
LEMMA UnlockDropHighStep ==
  ASSUME IInv, NEW f \in File, NEW c \in BOOLEAN, UnlockDropHigh(f, c)
  PROVE  IInv'
<1> DEFINE p == ProcOf[f]
<1> USE DEF NO_LOCK, SHARED_LOCK, RESERVED_LOCK, PENDING_LOCK, EXCLUSIVE_LOCK,
            LockLevel, UnlockDropHigh, CanCall, MutexFree, Goto, Grant
<1>0. TypeOK /\ MutexOK /\ HandleOK /\ InodeOK /\ PosixOK /\ CountOK /\ WriterOK
      BY DEF IInv
<1>p. p \in Proc /\ \A g \in File : ProcOf[g] \in Proc BY UnixLockAssumption
<1>s. \A g \in File \ {f} : ProcOf[g] = p => pc[g] \notin InMutex
      BY DEF CanCall, MutexFree
<1>f. HandleInv(f) /\ InodeInv(p) BY <1>0, <1>p DEF HandleOK, InodeOK
<1>v. /\ eFileLock[f] > SHARED_LOCK /\ Held(f) = eFileLock[f]
      BY DEF Held
<1>w. /\ \A g \in File \ {f} : ProcOf[g] = p => Held(g) <= SHARED_LOCK
      /\ iFileLock[p] = eFileLock[f]
      BY <1>0, <1>p, <1>v DEF WriterOK, WriterInv
<1>1. TypeOK' BY <1>0, <1>p DEF TypeOK, Label, InMutex, Mode
<1>2. MutexOK' BY <1>0, <1>p, <1>s DEF MutexOK, InMutex, TypeOK
<1>3. HandleOK'
  <2> SUFFICES ASSUME NEW g \in File PROVE HandleInv(g)' BY DEF HandleOK
  <2>1. CASE g = f BY <1>0, <1>p, <1>f, <2>1 DEF HandleInv, TypeOK, InMutex
  <2>2. CASE g # f /\ ProcOf[g] = p BY <1>0, <1>p, <1>s, <2>2 DEF HandleOK, HandleInv, TypeOK, InMutex, Label
  <2>3. CASE ProcOf[g] # p
    <3>1. /\ open'[g] = open[g] /\ eFileLock'[g] = eFileLock[g] /\ pc'[g] = pc[g]
          /\ iFileLock'[ProcOf[g]] = iFileLock[ProcOf[g]]
          /\ pendingByte'[ProcOf[g]] = pendingByte[ProcOf[g]]
          /\ sharedRange'[ProcOf[g]] = sharedRange[ProcOf[g]]
          BY <1>0, <1>p, <2>3 DEF TypeOK
    <3>2. QED BY <1>0, <3>1, HandleFrame DEF HandleOK
  <2>4. QED BY <2>1, <2>2, <2>3
<1>4. InodeOK'
  <2> SUFFICES ASSUME NEW q \in Proc PROVE InodeInv(q)' BY DEF InodeOK
  <2>1. CASE q = p
    <3>1. CASE pc'[f] = "dropAll"
          BY <1>0, <1>p, <1>f, <1>v, <1>w, <2>1, <3>1 DEF InodeInv, TypeOK
    <3>2. CASE pc'[f] # "dropAll"
          BY <1>0, <1>p, <1>f, <2>1, <3>2 DEF InodeInv, TypeOK
    <3>3. QED BY <3>1, <3>2
  <2>2. CASE q # p BY <1>0, <1>p, <1>f, <2>2 DEF InodeOK, InodeInv, TypeOK, Mode, PosixOK, Compatible
  <2>3. QED BY <2>1, <2>2
<1>5. PosixOK' BY <1>0, <1>p DEF PosixOK, Compatible, TypeOK, Mode
<1>6. CountOK'
  <2>1. \A q \in Proc : Readers(q)' = Readers(q) /\ nShared'[q] = nShared[q]
        BY <1>0, <1>p, <1>f DEF Readers, Reader, TypeOK, HandleInv
  <2>2. QED BY <1>0, <2>1 DEF CountOK
<1>7. WriterOK'
  <2> SUFFICES ASSUME NEW g \in File PROVE WriterInv(g)' BY DEF WriterOK
  <2>1. CASE g = f BY <1>0, <1>p, <1>v, <1>w, <2>1 DEF WriterInv, Held, TypeOK
  <2>2. CASE g # f
    <3>1. Held(g)' = Held(g) BY <1>0, <1>p, <2>2 DEF Held, TypeOK
    <3>2. CASE ProcOf[g] = p BY <1>w, <2>2, <3>1, <3>2, Consequences DEF WriterInv
    <3>3. CASE ProcOf[g] # p
      <4>1. iFileLock'[ProcOf[g]] = iFileLock[ProcOf[g]] BY <1>0, <1>p, <3>3 DEF TypeOK
      <4>2. \A h \in File : h # f => Held(h)' = Held(h) BY <1>0, <1>p DEF Held, TypeOK
      <4>3. QED BY <1>0, <3>1, <3>3, <4>1, <4>2 DEF WriterOK, WriterInv
    <3>4. QED BY <3>2, <3>3
  <2>3. QED BY <2>1, <2>2
<1>8. QED BY <1>1, <1>2, <1>3, <1>4, <1>5, <1>6, <1>7 DEF IInv

\* The counting half of posixUnlock(NO_LOCK): the range goes with the last.
LEMMA ReleaseSharedStep ==
  ASSUME IInv, NEW f \in File, NEW c \in BOOLEAN, ReleaseShared(f, c),
         open' = open, closing' \in [File -> BOOLEAN],
         open[f], (pc[f] = "idle" /\ eFileLock[f] = SHARED_LOCK) \/ pc[f] = "dropAll",
         \A g \in File \ {f} : ProcOf[g] = ProcOf[f] => pc[g] \notin InMutex
  PROVE  IInv'
<1> DEFINE p == ProcOf[f]
<1> USE DEF NO_LOCK, SHARED_LOCK, RESERVED_LOCK, PENDING_LOCK, EXCLUSIVE_LOCK,
            LockLevel, ReleaseShared, Goto, Grant, DropPosixLocks, posixVars
<1>0. TypeOK /\ MutexOK /\ HandleOK /\ InodeOK /\ PosixOK /\ CountOK /\ WriterOK
      BY DEF IInv
<1>p. p \in Proc /\ \A g \in File : ProcOf[g] \in Proc BY UnixLockAssumption
<1>s. \A g \in File \ {f} : ProcOf[g] = p => pc[g] \notin InMutex
      OBVIOUS
<1>f. HandleInv(f) /\ InodeInv(p) BY <1>0, <1>p DEF HandleOK, InodeOK
<1>r. Reader(f) /\ nShared[p] >= 1 /\ nShared[p] \in Nat /\ nLock[p] = nShared[p]
      BY <1>0, <1>p, <1>f, Consequences DEF Reader, HandleInv, InodeInv, TypeOK
<1>x. /\ nShared' = [nShared EXCEPT ![p] = nShared[p] - 1]
      /\ nLock' = [nLock EXCEPT ![p] = nShared[p] - 1]
      /\ iFileLock' = [iFileLock EXCEPT ![p] = IF nShared[p] = 1 THEN NO_LOCK ELSE @]
      BY <1>r
<1>y. /\ \A g \in File \ {f} : pc'[g] = pc[g] /\ eFileLock'[g] = eFileLock[g]
      /\ \/ pc'[f] = "ret0" /\ eFileLock'[f] = eFileLock[f]
         \/ pc'[f] \in {"idle", "close"} /\ eFileLock'[f] = NO_LOCK
      /\ pc' \in [File -> Label] /\ eFileLock' \in [File -> LockLevel]
      BY <1>0, <1>p DEF TypeOK, Label
<1>z. /\ \A q \in Proc \ {p} : /\ pendingByte'[q] = pendingByte[q]
                              /\ reservedByte'[q] = reservedByte[q]
                              /\ sharedRange'[q] = sharedRange[q]
      /\ \/ UNCHANGED posixVars
         \/ /\ nShared[p] = 1 /\ pendingByte'[p] = "UN"
            /\ reservedByte'[p] = "UN" /\ sharedRange'[p] = "UN"
      /\ pendingByte' \in [Proc -> Mode] /\ reservedByte' \in [Proc -> Mode]
      /\ sharedRange' \in [Proc -> Mode]
      BY <1>0, <1>p, <1>r DEF TypeOK, Mode
<1>n. nUnused' \in [Proc -> Nat] BY <1>0, <1>p DEF TypeOK
<1>l. \A g \in File \ {f} : (ProcOf[g] = p /\ nShared[p] = 1) => Held(g) = NO_LOCK
      BY <1>0, <1>p, <1>r, Consequences
<1> HIDE DEF ReleaseShared
<1>1. TypeOK'
  <2>1. nShared' \in [Proc -> Nat] /\ nLock' \in [Proc -> Nat]
        BY <1>0, <1>p, <1>r, <1>x DEF TypeOK
  <2>2. iFileLock' \in [Proc -> LockLevel] BY <1>0, <1>p, <1>x DEF TypeOK
  <2>3. QED BY <1>0, <1>y, <1>z, <1>n, <2>1, <2>2 DEF TypeOK
<1>2. MutexOK' BY <1>0, <1>p, <1>s, <1>y DEF MutexOK, InMutex
<1>3. HandleOK'
  <2> SUFFICES ASSUME NEW g \in File PROVE HandleInv(g)' BY DEF HandleOK
  <2>1. CASE g = f BY <1>0, <1>p, <1>f, <1>y, <2>1 DEF HandleInv, TypeOK
  <2>2. CASE g # f /\ ProcOf[g] = p BY <1>0, <1>p, <1>s, <1>y, <2>2 DEF HandleOK, HandleInv, InMutex
  <2>3. CASE ProcOf[g] # p
    <3>1. /\ open'[g] = open[g] /\ eFileLock'[g] = eFileLock[g] /\ pc'[g] = pc[g]
          /\ iFileLock'[ProcOf[g]] = iFileLock[ProcOf[g]]
          /\ pendingByte'[ProcOf[g]] = pendingByte[ProcOf[g]]
          /\ sharedRange'[ProcOf[g]] = sharedRange[ProcOf[g]]
          BY <1>0, <1>p, <1>x, <1>y, <1>z, <2>3 DEF TypeOK
    <3>2. QED BY <1>0, <3>1, HandleFrame DEF HandleOK
  <2>4. QED BY <2>1, <2>2, <2>3
<1>4. InodeOK'
  <2> SUFFICES ASSUME NEW q \in Proc PROVE InodeInv(q)' BY DEF InodeOK
  <2>1. CASE q = p
    <3>1. CASE nShared[p] = 1
          BY <1>0, <1>p, <1>f, <1>x, <1>z, <2>1, <3>1 DEF InodeInv, TypeOK
    <3>2. CASE nShared[p] # 1
      <4>1. /\ iFileLock'[p] = iFileLock[p]
            /\ nShared'[p] = nShared[p] - 1 /\ nLock'[p] = nShared[p] - 1
            BY <1>0, <1>p, <1>x, <3>2 DEF TypeOK
      <4>2. UNCHANGED posixVars BY <1>z, <3>2
      <4>3. QED BY <1>f, <1>r, <2>1, <3>2, <4>1, <4>2 DEF InodeInv
    <3>3. QED BY <3>1, <3>2
  <2>2. CASE q # p
    <3>1. /\ nShared'[q] = nShared[q] /\ nLock'[q] = nLock[q] /\ iFileLock'[q] = iFileLock[q]
          BY <1>0, <1>p, <1>x, <2>2 DEF TypeOK
    <3>2. \A r \in Proc : sharedRange[r] = "UN" => sharedRange'[r] = "UN"
          BY <1>z
    <3>3. QED BY <1>0, <1>z, <2>2, <3>1, <3>2 DEF InodeOK, InodeInv
  <2>3. QED BY <2>1, <2>2
<1>5. PosixOK' BY <1>0, <1>p, <1>z DEF PosixOK, Compatible
<1>6. CountOK'
  <2>1. Readers(p)' = Readers(p) \ {f} /\ f \in Readers(p)
        BY <1>0, <1>p, <1>r, <1>y DEF Readers, Reader, TypeOK
  <2>2. \A q \in Proc \ {p} : Readers(q)' = Readers(q) /\ nShared'[q] = nShared[q]
        BY <1>0, <1>p, <1>x, <1>y DEF Readers, Reader, TypeOK
  <2>3. nShared'[p] = nShared[p] - 1 BY <1>0, <1>p, <1>x DEF TypeOK
  <2>4. QED BY <1>0, <1>1, <1>p, <2>1, <2>2, <2>3, CountStep
<1>7. WriterOK'
  <2> SUFFICES ASSUME NEW g \in File PROVE WriterInv(g)' BY DEF WriterOK
  <2>1. CASE g = f BY <1>0, <1>p, <1>y, <2>1 DEF WriterInv, Held, TypeOK
  <2>2. CASE g # f
    <3>1. \A h \in File : h # f => Held(h)' = Held(h) BY <1>y DEF Held
    <3>2. Held(f)' = NO_LOCK BY <1>y DEF Held
    <3>3. Held(g) > SHARED_LOCK => iFileLock'[ProcOf[g]] = iFileLock[ProcOf[g]]
          BY <1>0, <1>p, <1>x, <1>l, <2>2 DEF TypeOK
    <3>4. QED BY <1>0, <2>2, <3>1, <3>2, <3>3 DEF WriterOK, WriterInv
  <2>3. QED BY <2>1, <2>2
<1>8. QED BY <1>1, <1>2, <1>3, <1>4, <1>5, <1>6, <1>7 DEF IInv

\* posixUnlock(NO_LOCK) from SHARED preserves the invariant.
LEMMA UnlockSharedStep ==
  ASSUME IInv, NEW f \in File, NEW c \in BOOLEAN, UnlockShared(f, c)
  PROVE  IInv'
<1>1. closing' \in [File -> BOOLEAN] BY DEF IInv, TypeOK, UnlockShared
<1>2. QED BY <1>1, ReleaseSharedStep DEF UnlockShared, CanCall, MutexFree

\* The rest of posixUnlock(NO_LOCK) from above SHARED preserves it.
LEMMA UnlockDropAllStep ==
  ASSUME IInv, NEW f \in File, UnlockDropAll(f)
  PROVE  IInv'
<1>0. TypeOK /\ MutexOK /\ HandleOK BY DEF IInv
<1>1. closing' \in [File -> BOOLEAN] /\ closing[f] \in BOOLEAN
      BY <1>0 DEF TypeOK, UnlockDropAll
<1>2. open[f] BY <1>0 DEF HandleOK, HandleInv, UnlockDropAll
<1>3. \A g \in File \ {f} : ProcOf[g] = ProcOf[f] => pc[g] \notin InMutex
      BY <1>0 DEF MutexOK, InMutex, UnlockDropAll
<1>4. QED BY <1>1, <1>2, <1>3, ReleaseSharedStep DEF UnlockDropAll

\* The late assignment of pFile->eFileLock changes no level relied on.
LEMMA UnlockReturnStep ==
  ASSUME IInv, NEW f \in File, UnlockReturn(f)
  PROVE  IInv'
<1> USE DEF NO_LOCK, SHARED_LOCK, RESERVED_LOCK, PENDING_LOCK, EXCLUSIVE_LOCK,
            LockLevel, UnlockReturn, Goto, AfterCall, inodeVars, posixVars
<1>0. TypeOK /\ MutexOK /\ HandleOK /\ InodeOK /\ PosixOK /\ CountOK /\ WriterOK
      BY DEF IInv
<1>f. HandleInv(f) BY <1>0 DEF HandleOK
<1>l. pc'[f] \in {"idle", "close"} BY <1>0 DEF TypeOK
<1>1. TypeOK' BY <1>0 DEF TypeOK, Label
<1>2. MutexOK' BY <1>0 DEF MutexOK, InMutex, TypeOK
<1>3. HandleOK'
  <2> SUFFICES ASSUME NEW g \in File PROVE HandleInv(g)' BY DEF HandleOK
  <2>1. CASE g = f BY <1>0, <1>f, <1>l, <2>1 DEF HandleInv, TypeOK
  <2>2. CASE g # f BY <1>0, <2>2, HandleFrame DEF HandleOK, TypeOK
  <2>3. QED BY <2>1, <2>2
<1>4. InodeOK' BY <1>0 DEF InodeOK, InodeInv
<1>5. PosixOK' BY <1>0 DEF PosixOK, Compatible
<1>6. CountOK'
  <2>1. \A q \in Proc : Readers(q)' = Readers(q) /\ nShared'[q] = nShared[q]
        BY <1>0, <1>f, <1>l DEF Readers, Reader, TypeOK, HandleInv
  <2>2. QED BY <1>0, <2>1 DEF CountOK
<1>7. WriterOK'
  <2>1. \A g \in File : Held(g)' = Held(g) BY <1>0, <1>f, <1>l DEF Held, TypeOK, HandleInv
  <2>2. QED BY <1>0, <2>1 DEF WriterOK, WriterInv
<1>8. QED BY <1>1, <1>2, <1>3, <1>4, <1>5, <1>6, <1>7 DEF IInv

\* The rest of unixClose(): posix locks are dropped only if nobody needs them.
LEMMA CloseFileStep ==
  ASSUME IInv, NEW f \in File, CloseFile(f)
  PROVE  IInv'
<1> DEFINE p == ProcOf[f]
           lastRef == \A g \in File \ {f} : ProcOf[g] = p => ~open[g]
<1> USE DEF NO_LOCK, SHARED_LOCK, RESERVED_LOCK, PENDING_LOCK, EXCLUSIVE_LOCK,
            LockLevel
<1>0. TypeOK /\ MutexOK /\ HandleOK /\ InodeOK /\ PosixOK /\ CountOK /\ WriterOK
      BY DEF IInv
<1>p. p \in Proc /\ \A g \in File : ProcOf[g] \in Proc BY UnixLockAssumption
<1>s. \A g \in File : ProcOf[g] = p => pc[g] \notin InMutex
      BY DEF CloseFile, MutexFree
<1>f. HandleInv(f) /\ InodeInv(p) BY <1>0, <1>p DEF HandleOK, InodeOK
<1>a. /\ open' = [open EXCEPT ![f] = FALSE]
      /\ closing' = [closing EXCEPT ![f] = FALSE]
      /\ eFileLock' = [eFileLock EXCEPT ![f] = NO_LOCK]
      /\ pc' = [pc EXCEPT ![f] = "idle"] /\ pc[f] = "close"
      BY DEF CloseFile, Goto
<1>b. \/ /\ \A g \in File : ProcOf[g] = p => Held(g)' = NO_LOCK /\ ~Reader(g)'
         /\ iFileLock' = [iFileLock EXCEPT ![p] = NO_LOCK]
         /\ nShared' = [nShared EXCEPT ![p] = 0]
         /\ nLock' = [nLock EXCEPT ![p] = 0]
         /\ DropPosixLocks(p)
      \/ UNCHANGED <<iFileLock, nShared, nLock, posixVars>>
  <2>1. CASE lastRef
    <3>1. \A g \in File : ProcOf[g] = p => Held(g)' = NO_LOCK /\ ~Reader(g)'
          BY <1>0, <1>a, <2>1 DEF HandleOK, HandleInv, Held, Reader, TypeOK
    <3>2. QED BY <2>1, <3>1 DEF CloseFile
  <2>2. CASE ~lastRef /\ nLock[p] = 0
    <3>1. nShared[p] = 0 /\ iFileLock[p] = NO_LOCK BY <1>f, <2>2 DEF InodeInv
    <3>2. \A g \in File : ProcOf[g] = p => ~Reader(g) BY <3>1, Consequences
    <3>3. \A g \in File : ProcOf[g] = p => Held(g) = NO_LOCK BY <3>2, Consequences
    <3>4. \A g \in File : ProcOf[g] = p => Held(g)' = NO_LOCK /\ ~Reader(g)'
          BY <1>0, <1>a, <3>2, <3>3 DEF Held, Reader, TypeOK
    <3>5. /\ iFileLock' = [iFileLock EXCEPT ![p] = NO_LOCK]
          /\ nShared' = [nShared EXCEPT ![p] = 0]
          /\ nLock' = [nLock EXCEPT ![p] = 0]
          BY <1>0, <1>p, <2>2, <3>1 DEF CloseFile, DeferClose, TypeOK
    <3>6. DropPosixLocks(p) BY <1>0, <1>p, <2>2 DEF CloseFile, DeferClose, TypeOK
    <3>7. QED BY <3>4, <3>5, <3>6
  <2>3. CASE ~lastRef /\ nLock[p] # 0
    BY <1>0, <1>p, <2>3 DEF CloseFile, DeferClose, TypeOK, posixVars
  <2>4. QED BY <2>1, <2>2, <2>3
<1>n. nUnused' \in [Proc -> Nat] BY <1>0, <1>p DEF TypeOK, CloseFile
<1>o. /\ \A q \in Proc \ {p} : /\ iFileLock'[q] = iFileLock[q] /\ nShared'[q] = nShared[q]
                              /\ nLock'[q] = nLock[q]
                              /\ pendingByte'[q] = pendingByte[q]
                              /\ reservedByte'[q] = reservedByte[q]
                              /\ sharedRange'[q] = sharedRange[q]
      /\ \A q \in Proc : sharedRange[q] = "UN" => sharedRange'[q] = "UN"
      BY <1>0, <1>p, <1>b DEF TypeOK, DropPosixLocks, Grant, posixVars
<1>c. /\ \A g \in File \ {f} : Held(g)' = Held(g) /\ Reader(g)' = Reader(g)
      /\ Held(f)' = NO_LOCK /\ ~Reader(f)'
      BY <1>0, <1>a DEF Held, Reader, TypeOK
<1>1. TypeOK'
  <2>1. /\ iFileLock' \in [Proc -> LockLevel] /\ nShared' \in [Proc -> Nat]
        /\ nLock' \in [Proc -> Nat] /\ pendingByte' \in [Proc -> Mode]
        /\ reservedByte' \in [Proc -> Mode] /\ sharedRange' \in [Proc -> Mode]
        BY <1>0, <1>b DEF TypeOK, Mode, DropPosixLocks, Grant, posixVars
  <2>2. QED BY <1>0, <1>a, <1>n, <2>1 DEF TypeOK, Label
<1>2. MutexOK' BY <1>0, <1>a DEF MutexOK, InMutex, TypeOK
<1>3. HandleOK'
  <2> SUFFICES ASSUME NEW g \in File PROVE HandleInv(g)' BY DEF HandleOK
  <2>1. CASE g = f BY <1>0, <1>a, <2>1 DEF HandleInv, TypeOK
  <2>2. CASE g # f /\ ProcOf[g] = p
    BY <1>0, <1>a, <1>s, <2>2 DEF HandleOK, HandleInv, TypeOK, InMutex
  <2>3. CASE ProcOf[g] # p
    BY <1>0, <1>p, <1>a, <1>o, <2>3, HandleFrame DEF HandleOK, TypeOK
  <2>4. QED BY <2>1, <2>2, <2>3
<1>4. InodeOK'
  <2> SUFFICES ASSUME NEW q \in Proc PROVE InodeInv(q)' BY DEF InodeOK
  <2>1. CASE q = p
    BY <1>0, <1>p, <1>f, <1>b, <2>1 DEF InodeInv, TypeOK, DropPosixLocks, Grant, posixVars
  <2>2. CASE q # p BY <1>0, <1>o, <2>2 DEF InodeOK, InodeInv
  <2>3. QED BY <2>1, <2>2
<1>5. PosixOK'
  <2>1. CASE DropPosixLocks(p)
    BY <1>0, <1>p, <2>1 DEF PosixOK, Compatible, TypeOK, DropPosixLocks, Grant
  <2>2. CASE UNCHANGED posixVars
    BY <1>0, <2>2 DEF PosixOK, Compatible, posixVars
  <2>3. QED BY <1>b, <2>1, <2>2
<1>6. CountOK'
  <2>1. \A q \in Proc \ {p} : Readers(q)' = Readers(q) /\ nShared'[q] = nShared[q]
        BY <1>c, <1>o DEF Readers
  <2>2. \/ Readers(p)' = {}
        \/ Readers(p)' \in SUBSET Readers(p) /\ nShared'[p] >= nShared[p]
    <3>1. CASE \A g \in File : ProcOf[g] = p => Held(g)' = NO_LOCK /\ ~Reader(g)'
          BY <3>1 DEF Readers
    <3>2. CASE UNCHANGED <<iFileLock, nShared, nLock, posixVars>>
          BY <1>0, <1>p, <1>c, <3>2 DEF Readers, TypeOK
    <3>3. QED BY <1>b, <3>1, <3>2
  <2>3. QED BY <1>0, <1>1, <1>p, <2>1, <2>2, CountStep
<1>7. WriterOK'
  <2> SUFFICES ASSUME NEW g \in File PROVE WriterInv(g)' BY DEF WriterOK
  <2>1. CASE g = f BY <1>c, <2>1 DEF WriterInv
  <2>2. CASE g # f
    <3>1. Held(g)' > SHARED_LOCK => iFileLock'[ProcOf[g]] = iFileLock[ProcOf[g]]
          BY <1>b, <1>o, <1>p
    <3>2. QED BY <1>0, <1>c, <2>2, <3>1 DEF WriterOK, WriterInv
  <2>3. QED BY <2>1, <2>2
<1>8. QED BY <1>1, <1>2, <1>3, <1>4, <1>5, <1>6, <1>7 DEF IInv

\* The death of a process takes its handles, its inode and its locks.
LEMMA CrashStep ==
  ASSUME IInv, NEW p \in Proc, Crash(p)
  PROVE  IInv'
<1> USE DEF NO_LOCK, SHARED_LOCK, RESERVED_LOCK, PENDING_LOCK, EXCLUSIVE_LOCK,
            LockLevel, Crash, DropPosixLocks, Grant
<1>0. TypeOK /\ MutexOK /\ HandleOK /\ InodeOK /\ PosixOK /\ CountOK /\ WriterOK
      BY DEF IInv
<1>p. \A g \in File : ProcOf[g] \in Proc BY UnixLockAssumption
<1>a. \A g \in File : ProcOf[g] = p =>
        /\ eFileLock'[g] = NO_LOCK /\ pc'[g] = "idle" /\ ~open'[g]
        /\ Held(g)' = NO_LOCK /\ ~Reader(g)'
      BY DEF Held, Reader
<1>b. \A g \in File : ProcOf[g] # p =>
        /\ eFileLock'[g] = eFileLock[g] /\ pc'[g] = pc[g] /\ open'[g] = open[g]
        /\ Held(g)' = Held(g) /\ Reader(g)' = Reader(g)
  <2>1. \A g \in File : ProcOf[g] # p => eFileLock'[g] = eFileLock[g] /\ pc'[g] = pc[g]
        OBVIOUS
  <2>2. \A g \in File : ProcOf[g] # p => open'[g] = open[g] BY <1>0 DEF TypeOK
  <2>3. QED BY <2>1, <2>2 DEF Held, Reader
<1>o. \A q \in Proc \ {p} : /\ iFileLock'[q] = iFileLock[q] /\ nShared'[q] = nShared[q]
                           /\ nLock'[q] = nLock[q]
                           /\ pendingByte'[q] = pendingByte[q]
                           /\ reservedByte'[q] = reservedByte[q]
                           /\ sharedRange'[q] = sharedRange[q]
      BY <1>0 DEF TypeOK
<1>q. /\ iFileLock'[p] = NO_LOCK /\ nShared'[p] = 0 /\ nLock'[p] = 0
      /\ pendingByte'[p] = "UN" /\ reservedByte'[p] = "UN" /\ sharedRange'[p] = "UN"
      BY <1>0 DEF TypeOK
<1>1. TypeOK'
  <2>1. open' \in [File -> BOOLEAN] /\ closing' \in [File -> BOOLEAN] OBVIOUS
  <2>2. QED BY <1>0, <2>1 DEF TypeOK, Mode, Label
<1> HIDE DEF Crash
<1>2. MutexOK' BY <1>0, <1>a, <1>b DEF MutexOK, InMutex
<1>3. HandleOK'
  <2> SUFFICES ASSUME NEW g \in File PROVE HandleInv(g)' BY DEF HandleOK
  <2>1. CASE ProcOf[g] = p BY <1>a, <2>1 DEF HandleInv
  <2>2. CASE ProcOf[g] # p BY <1>0, <1>p, <1>b, <1>o, <2>2, HandleFrame DEF HandleOK
  <2>3. QED BY <2>1, <2>2
<1>4. InodeOK'
  <2> SUFFICES ASSUME NEW q \in Proc PROVE InodeInv(q)' BY DEF InodeOK
  <2>1. CASE q = p BY <1>q, <2>1 DEF InodeInv
  <2>2. CASE q # p BY <1>0, <1>o, <1>q, <2>2 DEF InodeOK, InodeInv
  <2>3. QED BY <2>1, <2>2
<1>5. PosixOK' BY <1>0, <1>o, <1>q DEF PosixOK, Compatible
<1>6. CountOK'
  <2>1. Readers(p)' = {} BY <1>a DEF Readers
  <2>2. ASSUME NEW q \in Proc, q # p
        PROVE  Readers(q)' = Readers(q) /\ nShared'[q] = nShared[q]
        BY <1>b, <1>o, <2>2 DEF Readers
  <2>3. Cardinality(Readers(p)') <= nShared'[p] BY <1>q, <2>1, FS_EmptySet
  <2>4. ASSUME NEW q \in Proc PROVE (Cardinality(Readers(q)) <= nShared[q])'
        BY <1>0, <2>2, <2>3 DEF CountOK
  <2>5. QED BY <2>4 DEF CountOK
<1>7. WriterOK'
  <2> SUFFICES ASSUME NEW g \in File PROVE WriterInv(g)' BY DEF WriterOK
  <2>1. CASE ProcOf[g] = p BY <1>a, <2>1 DEF WriterInv
  <2>2. CASE ProcOf[g] # p
    BY <1>0, <1>p, <1>b, <1>o, <2>2 DEF WriterOK, WriterInv
  <2>3. QED BY <2>1, <2>2
<1>8. QED BY <1>1, <1>2, <1>3, <1>4, <1>5, <1>6, <1>7 DEF IInv

\* Every step of the specification preserves the invariant.
LEMMA NextIInv == IInv /\ [Next]_vars => IInv'
<1> SUFFICES ASSUME IInv, [Next]_vars PROVE IInv' OBVIOUS
<1>1. CASE \E f \in File : \/ Open(f) \/ LockSharedLocal(f)
                           \/ LockPendingRead(f) \/ LockSharedRange(f)
                           \/ LockDropPending(f) \/ LockDropPendingFails(f)
                           \/ LockReserved(f)
                           \/ LockPendingWrite(f) \/ LockExclusiveRange(f)
  BY <1>1, OpenStep, LockSharedLocalStep, LockPendingReadStep,
     LockSharedRangeStep, LockDropPendingStep, LockDropPendingFailsStep,
     LockReservedStep, LockPendingWriteStep, LockExclusiveRangeStep
<1>2. CASE \E f \in File : \/ UnlockReadRange(f) \/ UnlockDropWrite(f)
                           \/ \E c \in BOOLEAN : UnlockDropHigh(f, c) \/ UnlockShared(f, c)
                           \/ UnlockDropAll(f) \/ UnlockReturn(f)
                           \/ CloseUnlocked(f) \/ CloseFile(f)
  BY <1>2, UnlockReadRangeStep, UnlockDropWriteStep, UnlockDropHighStep,
     UnlockSharedStep, UnlockDropAllStep, UnlockReturnStep, CloseUnlockedStep,
     CloseFileStep
<1>3. CASE \E p \in Proc : Crash(p) BY <1>3, CrashStep
<1>4. CASE UNCHANGED vars
  <2>1. \A p \in Proc : Readers(p)' = Readers(p) BY <1>4 DEF vars, Readers, Reader
  <2>2. \A f \in File : Held(f)' = Held(f) BY <1>4 DEF vars, Held
  <2>3. TypeOK' /\ MutexOK' /\ PosixOK'
        BY <1>4 DEF vars, IInv, TypeOK, MutexOK, PosixOK, Compatible
  <2>4. HandleOK' /\ InodeOK'
        BY <1>4 DEF vars, IInv, HandleOK, HandleInv, InodeOK, InodeInv
  <2>5. CountOK' /\ WriterOK'
        BY <1>4, <2>1, <2>2 DEF vars, IInv, CountOK, WriterOK, WriterInv
  <2>6. QED BY <2>3, <2>4, <2>5 DEF IInv
<1>5. QED BY <1>1, <1>2, <1>3, <1>4 DEF Next

-----------------------------------------------------------------------------
\* The bookkeeping of unixLock, posixUnlock and unixClose is consistent in
\* every reachable state, whatever the processes, handles and I/O errors.
THEOREM UnixLockInvariant == Spec => []IInv
<1>1. QED BY InitIInv, NextIInv, PTL DEF Spec

\* Every field keeps its type; in particular the counts never go negative.
THEOREM UnixLockTypeOK == Spec => []TypeOK
<1>1. IInv => TypeOK BY DEF IInv
<1>2. QED BY <1>1, UnixLockInvariant, PTL

\* os.h: "An EXCLUSIVE lock precludes all other locks", across processes and
\* across the handles of one process.
THEOREM UnixLockExclusion == Spec => []ExclusiveExcludesAll
<1>1. IInv => ExclusiveExcludesAll BY SafetyFromIInv
<1>2. QED BY <1>1, UnixLockInvariant, PTL

\* One RESERVED handle, one PENDING handle, one writer per process.
THEOREM UnixLockOneWriter == Spec => []OneWriter
<1>1. IInv => OneWriter BY SafetyFromIInv
<1>2. QED BY <1>1, UnixLockInvariant, PTL

\* No close() and no failed call drops the posix locks a handle relies on.
THEOREM UnixLockBacked == Spec => []LocksBacked
<1>1. IInv => LocksBacked BY SafetyFromIInv
<1>2. QED BY <1>1, UnixLockInvariant, PTL

\* unixCheckReservedLock() sees every RESERVED lock.
THEOREM UnixLockReservedVisible == Spec => []ReservedVisible
<1>1. IInv => ReservedVisible BY SafetyFromIInv
<1>2. QED BY <1>1, UnixLockInvariant, PTL

-----------------------------------------------------------------------------
(* UnixLock implements FileLock when no fcntl() fails: the contract that   *)
(* Pager relies on.  With it come two facts that need the step relation    *)
(* rather than a state: exact reference counts, and when descriptors are   *)
(* parked.                                                                 *)

-----------------------------------------------------------------------------
(* What each step does to the levels and to the readers. *)

\* Steps of f that neither change who is counted nor the count.
QuietStep(f) ==
  \/ Open(f) \/ LockPendingRead(f) \/ LockSharedRange(f)
  \/ (LockDropPending(f) /\ pc[f] = "rdFail")
  \/ LockReserved(f) \/ LockPendingWrite(f) \/ LockExclusiveRange(f)
  \/ UnlockReadRange(f) \/ UnlockDropWrite(f)
  \/ (\E c \in BOOLEAN : UnlockDropHigh(f, c))
  \/ UnlockReturn(f) \/ CloseUnlocked(f)

\* They leave every handle a reader or not, and all counts.
LEMMA QuietReaders ==
  ASSUME IInv, NEW f \in File, QuietStep(f)
  PROVE  /\ nShared' = nShared
         /\ \A q \in Proc : Readers(q)' = Readers(q)
<1> USE DEF NO_LOCK, SHARED_LOCK, RESERVED_LOCK, PENDING_LOCK, EXCLUSIVE_LOCK, LockLevel
<1>0. TypeOK /\ HandleInv(f) BY DEF IInv, HandleOK
<1>1. nShared' = nShared
  BY <1>0 DEF QuietStep, Open, LockPendingRead, LockSharedRange, LockDropPending,
     LockReserved, LockPendingWrite, LockExclusiveRange, UnlockReadRange,
     UnlockDropWrite, UnlockDropHigh, UnlockReturn, CloseUnlocked, inodeVars
<1>2. \A g \in File : Reader(g)' = Reader(g)
  <2>1. CASE \/ Open(f) \/ LockPendingRead(f) \/ LockSharedRange(f)
             \/ (LockDropPending(f) /\ pc[f] = "rdFail")
    BY <1>0, <2>1 DEF Open, LockPendingRead, LockSharedRange, LockDropPending,
       Goto, CanCall, Reader, TypeOK, HandleInv
  <2>2. CASE LockReserved(f) \/ LockPendingWrite(f) \/ LockExclusiveRange(f)
    BY <1>0, <2>2 DEF LockReserved, LockPendingWrite, LockExclusiveRange,
       Goto, CanCall, Reader, TypeOK, HandleInv
  <2>3. CASE UnlockReadRange(f) \/ UnlockDropWrite(f)
             \/ (\E c \in BOOLEAN : UnlockDropHigh(f, c))
    BY <1>0, <2>3 DEF UnlockReadRange, UnlockDropWrite, UnlockDropHigh,
       Goto, CanCall, Reader, TypeOK, HandleInv
  <2>4. CASE UnlockReturn(f) \/ CloseUnlocked(f)
    BY <1>0, <2>4 DEF UnlockReturn, CloseUnlocked, AfterCall,
       Goto, CanCall, Reader, TypeOK, HandleInv
  <2> QED BY <2>1, <2>2, <2>3, <2>4 DEF QuietStep
<1> QED BY <1>1, <1>2 DEF Readers

\* nShared-- with the reader that leaves.
LEMMA ReleaseReaders ==
  ASSUME IInv, NEW f \in File, NEW c \in BOOLEAN, ReleaseShared(f, c),
         (pc[f] = "idle" /\ eFileLock[f] = SHARED_LOCK) \/ pc[f] = "dropAll"
  PROVE  /\ f \in Readers(ProcOf[f])
         /\ nShared' = [nShared EXCEPT ![ProcOf[f]] = @ - 1]
         /\ Readers(ProcOf[f])' = Readers(ProcOf[f]) \ {f}
         /\ \A q \in Proc \ {ProcOf[f]} : Readers(q)' = Readers(q)
         /\ \A g \in File \ {f} : Reader(g)' = Reader(g) /\ Held(g)' = Held(g)
         /\ Held(f) = SHARED_LOCK /\ Held(f)' = NO_LOCK
<1> USE DEF NO_LOCK, SHARED_LOCK
<1>0. TypeOK /\ HandleInv(f) BY DEF IInv, HandleOK
<1>1. /\ \A g \in File \ {f} : pc'[g] = pc[g] /\ eFileLock'[g] = eFileLock[g]
      /\ \/ pc'[f] = "ret0" /\ eFileLock'[f] = eFileLock[f]
         \/ pc'[f] \in {"idle", "close"} /\ eFileLock'[f] = NO_LOCK
  BY <1>0 DEF TypeOK, ReleaseShared, Goto
<1>2. nShared' = [nShared EXCEPT ![ProcOf[f]] = @ - 1]
  BY DEF ReleaseShared
<1>3. Reader(f) BY <1>0 DEF Reader, HandleInv
<1> QED BY <1>0, <1>1, <1>2, <1>3 DEF Readers, Reader, Held

\* The other ways to become or to cease to be a reader.
LEMMA LocalReaders ==
  ASSUME IInv, NEW f \in File, LockSharedLocal(f)
  PROVE  /\ f \notin Readers(ProcOf[f])
         /\ nShared' = [nShared EXCEPT ![ProcOf[f]] = @ + 1]
         /\ Readers(ProcOf[f])' = Readers(ProcOf[f]) \cup {f}
         /\ \A q \in Proc \ {ProcOf[f]} : Readers(q)' = Readers(q)
<1> USE DEF NO_LOCK, SHARED_LOCK
<1>0. TypeOK BY DEF IInv
<1> QED BY <1>0 DEF LockSharedLocal, CanCall, Readers, Reader, TypeOK

\* The first reader of a process.
LEMMA FirstReader ==
  ASSUME IInv, NEW f \in File, LockDropPending(f), pc[f] = "rdDrop"
  PROVE  /\ Readers(ProcOf[f]) = {}
         /\ nShared' = [nShared EXCEPT ![ProcOf[f]] = 1]
         /\ Readers(ProcOf[f])' = {f}
         /\ \A q \in Proc \ {ProcOf[f]} : Readers(q)' = Readers(q)
<1> USE DEF NO_LOCK, SHARED_LOCK, EXCLUSIVE_LOCK, LockLevel
<1>0. TypeOK /\ HandleInv(f) /\ InodeOK /\ ProcOf[f] \in Proc
  BY UnixLockAssumption DEF IInv, HandleOK
<1>1. nShared[ProcOf[f]] = 0
  BY <1>0 DEF HandleInv, InodeOK, InodeInv
<1>2. Readers(ProcOf[f]) = {}
  BY <1>1, Consequences DEF Readers
<1>3. /\ eFileLock' = [eFileLock EXCEPT ![f] = SHARED_LOCK]
      /\ pc' = [pc EXCEPT ![f] = "idle"]
      /\ nShared' = [nShared EXCEPT ![ProcOf[f]] = 1]
  BY DEF LockDropPending, Goto
<1> QED BY <1>0, <1>2, <1>3 DEF Readers, Reader, TypeOK

-----------------------------------------------------------------------------
(* Exact books. *)

\* nShared stays the number of readers.
LEMMA ExactCountStep ==
  ASSUME IInv, ExactCount, ClosedUnlocked, ~IoErr, [Next]_vars
  PROVE  ExactCount'
<1> USE DEF NO_LOCK, SHARED_LOCK
<1>0. TypeOK /\ \A g \in File : ProcOf[g] \in Proc BY UnixLockAssumption DEF IInv
<1>1. ASSUME NEW f \in File, QuietStep(f) PROVE ExactCount'
  BY <1>1, QuietReaders DEF ExactCount
<1>2. ASSUME NEW f \in File, LockSharedLocal(f) PROVE ExactCount'
  <2> DEFINE p == ProcOf[f]
  <2>1. Cardinality(Readers(p) \cup {f}) = Cardinality(Readers(p)) + 1
    BY <1>2, LocalReaders, ReadersFinite, FS_AddElement
  <2>2. nShared'[p] = nShared[p] + 1 /\ \A q \in Proc \ {p} : nShared'[q] = nShared[q]
    BY <1>0, <1>2, LocalReaders DEF TypeOK
  <2> QED BY <1>0, <1>2, <2>1, <2>2, LocalReaders DEF ExactCount
<1>3. ASSUME NEW f \in File, LockDropPending(f), pc[f] = "rdDrop" PROVE ExactCount'
  <2>1. Cardinality({f}) = 1 BY FS_Singleton
  <2>2. /\ nShared'[ProcOf[f]] = 1
        /\ \A q \in Proc \ {ProcOf[f]} : nShared'[q] = nShared[q]
    BY <1>0, <1>3, FirstReader DEF TypeOK
  <2> QED BY <1>3, <2>1, <2>2, FirstReader DEF ExactCount
<1>4. ASSUME NEW f \in File, NEW c \in BOOLEAN, ReleaseShared(f, c),
             (pc[f] = "idle" /\ eFileLock[f] = SHARED_LOCK) \/ pc[f] = "dropAll"
      PROVE  ExactCount'
  <2> DEFINE p == ProcOf[f]
  <2>1. Cardinality(Readers(p) \ {f}) = Cardinality(Readers(p)) - 1
    BY <1>4, ReleaseReaders, ReadersFinite, FS_RemoveElement
  <2>2. nShared'[p] = nShared[p] - 1 /\ \A q \in Proc \ {p} : nShared'[q] = nShared[q]
    BY <1>0, <1>4, ReleaseReaders DEF TypeOK
  <2> QED BY <1>0, <1>4, <2>1, <2>2, ReleaseReaders DEF ExactCount
<1>5. ASSUME NEW f \in File, CloseFile(f) PROVE ExactCount'
  <2> DEFINE p == ProcOf[f]
  <2>1. /\ eFileLock' = eFileLock /\ pc' = [pc EXCEPT ![f] = "idle"]
        /\ pc[f] = "close" /\ eFileLock[f] = NO_LOCK
    BY <1>0, <1>5 DEF CloseFile, Goto, ClosedUnlocked, TypeOK
  <2>2. \A q \in Proc : Readers(q)' = Readers(q)
    BY <1>0, <2>1 DEF Readers, Reader, TypeOK
  <2>3. CASE \A g \in File \ {f} : ProcOf[g] = p => ~open[g]
    <3>1. Readers(p) = {}
      BY <2>1, <2>3 DEF Readers, Reader, IInv, HandleOK, HandleInv
    <3>2. nShared' = [nShared EXCEPT ![p] = 0]
      BY <1>5, <2>3 DEF CloseFile
    <3> QED BY <1>0, <2>2, <3>1, <3>2, FS_EmptySet DEF ExactCount, TypeOK
  <2>4. CASE ~ \A g \in File \ {f} : ProcOf[g] = p => ~open[g]
    <3>1. nShared' = nShared
      BY <1>5, <2>4 DEF CloseFile
    <3> QED BY <2>2, <3>1 DEF ExactCount
  <2> QED BY <2>3, <2>4
<1>6. ASSUME NEW p \in Proc, Crash(p) PROVE ExactCount'
  <2>1. /\ eFileLock' = [f \in File |-> IF ProcOf[f] = p THEN NO_LOCK ELSE eFileLock[f]]
        /\ pc' = [f \in File |-> IF ProcOf[f] = p THEN "idle" ELSE pc[f]]
        /\ nShared' = [nShared EXCEPT ![p] = 0]
    BY <1>6 DEF Crash
  <2>2. Readers(p)' = {} /\ \A q \in Proc \ {p} : Readers(q)' = Readers(q)
    BY <2>1 DEF Readers, Reader
  <2> QED BY <1>0, <2>1, <2>2, FS_EmptySet DEF ExactCount, TypeOK
<1>7. CASE UNCHANGED vars
  BY <1>7 DEF vars, ExactCount, Readers, Reader
<1>8. ASSUME NEW f \in File, NEW c \in BOOLEAN, UnlockShared(f, c) PROVE ExactCount'
  BY <1>4, <1>8 DEF UnlockShared, CanCall
<1>9. ASSUME NEW f \in File, UnlockDropAll(f) PROVE ExactCount'
  BY <1>0, <1>4, <1>9 DEF UnlockDropAll, TypeOK
<1> QED BY <1>1, <1>2, <1>3, <1>5, <1>6, <1>7, <1>8, <1>9
        DEF Next, QuietStep, LockDropPending, LockDropPendingFails

-----------------------------------------------------------------------------
(* What each step does to the levels that holders rely on. *)

\* Steps of f that change no level and leave the reserved byte alone.
LevelStep(f) ==
  \/ Open(f) \/ LockPendingRead(f) \/ LockSharedRange(f)
  \/ (LockDropPending(f) /\ pc[f] = "rdFail")
  \/ LockPendingWrite(f) \/ UnlockReadRange(f)
  \/ UnlockReturn(f) \/ CloseUnlocked(f)

\* In particular the late assignment of eFileLock changes no level.
LEMMA LevelKept ==
  ASSUME IInv, NEW f \in File, LevelStep(f)
  PROVE  reservedByte' = reservedByte /\ \A g \in File : Held(g)' = Held(g)
<1> USE DEF NO_LOCK, SHARED_LOCK, RESERVED_LOCK, PENDING_LOCK, EXCLUSIVE_LOCK, LockLevel
<1>0. TypeOK /\ HandleInv(f) BY DEF IInv, HandleOK
<1>1. CASE \/ Open(f) \/ LockPendingRead(f) \/ LockSharedRange(f)
           \/ (LockDropPending(f) /\ pc[f] = "rdFail")
  BY <1>0, <1>1 DEF Open, LockPendingRead, LockSharedRange, LockDropPending,
     Goto, CanCall, Held, TypeOK, HandleInv, posixVars
<1>2. CASE LockPendingWrite(f) \/ UnlockReadRange(f)
  BY <1>0, <1>2 DEF LockPendingWrite, UnlockReadRange, Goto, CanCall, Held, TypeOK
<1>3. CASE UnlockReturn(f) \/ CloseUnlocked(f)
  BY <1>0, <1>3 DEF UnlockReturn, CloseUnlocked, AfterCall, Goto, CanCall,
     Held, TypeOK, posixVars
<1> QED BY <1>1, <1>2, <1>3 DEF LevelStep

\* unixClose() of an unlocked handle takes nobody's reserved byte.
LEMMA CloseKept ==
  ASSUME IInv, ClosedUnlocked, NEW f \in File, CloseFile(f)
  PROVE  /\ \A g \in File : Held(g)' = Held(g)
         /\ \A g \in File : Held(g) > SHARED_LOCK =>
              reservedByte'[ProcOf[g]] = reservedByte[ProcOf[g]]
         /\ \A q \in Proc : reservedByte'[q] = "WR" => reservedByte[q] = "WR"
<1> DEFINE p == ProcOf[f]
<1> USE DEF NO_LOCK, SHARED_LOCK, RESERVED_LOCK, PENDING_LOCK, EXCLUSIVE_LOCK, LockLevel
<1>0. TypeOK /\ HandleOK /\ InodeOK /\ \A g \in File : ProcOf[g] \in Proc
  BY UnixLockAssumption DEF IInv
<1>1. /\ eFileLock' = eFileLock /\ pc' = [pc EXCEPT ![f] = "idle"]
      /\ pc[f] = "close" /\ eFileLock[f] = NO_LOCK
  BY <1>0 DEF CloseFile, Goto, ClosedUnlocked, TypeOK
<1>2. \A g \in File : Held(g)' = Held(g)
  BY <1>0, <1>1 DEF Held, TypeOK
<1>3. \/ UNCHANGED reservedByte
      \/ reservedByte' = [reservedByte EXCEPT ![p] = "UN"]
  BY DEF CloseFile, DropPosixLocks, Grant, posixVars
<1>4. ASSUME NEW g \in File, Held(g) > SHARED_LOCK, ProcOf[g] = p
      PROVE  reservedByte' = reservedByte
  <2>1. Reader(g) /\ nShared[p] >= 1 BY <1>0, <1>4, Consequences
  <2>2. g # f /\ open[g]
    BY <1>0, <1>1, <2>1 DEF Reader, HandleOK, HandleInv
  <2>3. nLock[p] > 0
    BY <1>0, <2>1 DEF InodeOK, InodeInv, TypeOK
  <2> QED BY <1>4, <2>2, <2>3 DEF CloseFile, DeferClose, posixVars
<1> QED BY <1>0, <1>2, <1>3, <1>4 DEF TypeOK

\* The steps that change levels, each with its change.
LEMMA AcquireLevels ==
  ASSUME IInv, NEW f \in File
  PROVE  /\ LockSharedLocal(f) \/ (LockDropPending(f) /\ pc[f] = "rdDrop") =>
              /\ reservedByte' = reservedByte
              /\ \A g \in File \ {f} : Held(g)' = Held(g)
              /\ Held(f) = NO_LOCK /\ Held(f)' = SHARED_LOCK
         /\ LockReserved(f) =>
              /\ reservedByte' = [reservedByte EXCEPT ![ProcOf[f]] = "WR"]
              /\ \A g \in File \ {f} : Held(g)' = Held(g)
              /\ Held(f) = SHARED_LOCK /\ Held(f)' = RESERVED_LOCK
         /\ LockExclusiveRange(f) =>
              /\ reservedByte' = reservedByte
              /\ \A g \in File \ {f} : Held(g)' = Held(g)
              /\ Held(f) \in {SHARED_LOCK, RESERVED_LOCK, PENDING_LOCK}
              /\ Held(f)' \in {PENDING_LOCK, EXCLUSIVE_LOCK}
<1> USE DEF NO_LOCK, SHARED_LOCK, RESERVED_LOCK, PENDING_LOCK, EXCLUSIVE_LOCK, LockLevel
<1>0. TypeOK /\ HandleInv(f) BY DEF IInv, HandleOK
<1>1. CASE LockSharedLocal(f)
  BY <1>0, <1>1 DEF LockSharedLocal, LockDropPending, LockReserved,
     LockExclusiveRange, CanCall, Held, TypeOK, posixVars
<1>2. CASE LockDropPending(f) /\ pc[f] = "rdDrop"
  BY <1>0, <1>2 DEF LockDropPending, LockReserved, LockExclusiveRange,
     LockSharedLocal, CanCall, Goto, Held, TypeOK, HandleInv
<1>3. CASE LockReserved(f)
  BY <1>0, <1>3 DEF LockReserved, LockDropPending, LockExclusiveRange,
     LockSharedLocal, CanCall, Held, TypeOK, Grant
<1>4. CASE LockExclusiveRange(f)
  BY <1>0, <1>4 DEF LockExclusiveRange, LockReserved, LockDropPending,
     LockSharedLocal, CanCall, Goto, Held, TypeOK, HandleInv
<1> QED BY <1>1, <1>2, <1>3, <1>4

\* posixUnlock() from above SHARED: the byte goes with the level.
LEMMA DowngradeLevels ==
  ASSUME IInv, ~IoErr, NEW f \in File,
         UnlockDropWrite(f) \/ (\E c \in BOOLEAN : UnlockDropHigh(f, c))
  PROVE  /\ reservedByte' = [reservedByte EXCEPT ![ProcOf[f]] = "UN"]
         /\ \A g \in File \ {f} : Held(g)' = Held(g)
         /\ Held(f) > SHARED_LOCK /\ Held(f)' = SHARED_LOCK
<1> USE DEF NO_LOCK, SHARED_LOCK
<1>0. TypeOK /\ HandleInv(f) BY DEF IInv, HandleOK
<1> QED BY <1>0 DEF UnlockDropWrite, UnlockDropHigh, CanCall, Goto, Held,
           TypeOK, HandleInv, Grant

\* The last reader of a process has no sibling that needs the reserved byte.
LEMMA ReleaseLevels ==
  ASSUME IInv, NEW f \in File, NEW c \in BOOLEAN, ReleaseShared(f, c),
         (pc[f] = "idle" /\ eFileLock[f] = SHARED_LOCK) \/ pc[f] = "dropAll"
  PROVE  /\ \A g \in File \ {f} : Held(g)' = Held(g)
         /\ Held(f) = SHARED_LOCK /\ Held(f)' = NO_LOCK
         /\ \A g \in File : Held(g) > SHARED_LOCK =>
              reservedByte'[ProcOf[g]] = reservedByte[ProcOf[g]]
         /\ \A q \in Proc : reservedByte'[q] = "WR" => reservedByte[q] = "WR"
<1> DEFINE p == ProcOf[f]
<1> USE DEF NO_LOCK, SHARED_LOCK, EXCLUSIVE_LOCK, LockLevel
<1>0. TypeOK /\ InodeOK /\ \A g \in File : ProcOf[g] \in Proc
  BY UnixLockAssumption DEF IInv
<1>1. \/ UNCHANGED reservedByte
      \/ /\ nShared[p] = 1 \/ nLock[p] = 1
         /\ reservedByte' = [reservedByte EXCEPT ![p] = "UN"]
  BY DEF ReleaseShared, DropPosixLocks, Grant, posixVars
<1>2. Reader(f) BY ReleaseReaders DEF Readers
<1>3. ASSUME NEW g \in File, Held(g) > SHARED_LOCK, ProcOf[g] = p
      PROVE  reservedByte' = reservedByte
  <2>1. g # f BY <1>3, ReleaseReaders
  <2>2. Held(g) \in LockLevel BY Consequences
  <2>3. Reader(g) BY <1>3, <2>2, Consequences
  <2>4. nShared[p] >= 2 /\ nLock[p] >= 2
    BY <1>0, <1>2, <1>3, <2>1, <2>3, Consequences DEF InodeOK, InodeInv
  <2> QED BY <1>0, <1>1, <2>4 DEF TypeOK
<1> QED BY <1>0, <1>1, <1>3, ReleaseReaders DEF TypeOK

-----------------------------------------------------------------------------
(* The exact books are an invariant. *)

\* The reserved byte is write-locked only for a handle above SHARED.
LEMMA ReservedUsedStep ==
  ASSUME IInv, ReservedUsed, ClosedUnlocked, ~IoErr, [Next]_vars
  PROVE  ReservedUsed'
<1> USE DEF NO_LOCK, SHARED_LOCK, RESERVED_LOCK, PENDING_LOCK, EXCLUSIVE_LOCK
<1>0. TypeOK /\ \A g \in File : ProcOf[g] \in Proc BY UnixLockAssumption DEF IInv
<1>1. ASSUME NEW f \in File, LevelStep(f) PROVE ReservedUsed'
  BY <1>1, LevelKept DEF ReservedUsed
<1>2. ASSUME NEW f \in File,
             LockSharedLocal(f) \/ (LockDropPending(f) /\ pc[f] = "rdDrop")
      PROVE  ReservedUsed'
  BY <1>2, AcquireLevels DEF ReservedUsed
<1>3. ASSUME NEW f \in File, LockReserved(f) PROVE ReservedUsed'
  <2>1. /\ reservedByte' = [reservedByte EXCEPT ![ProcOf[f]] = "WR"]
        /\ \A g \in File \ {f} : Held(g)' = Held(g)
        /\ Held(f)' = RESERVED_LOCK
    BY <1>3, AcquireLevels
  <2>2. \A g \in File : Held(g) > SHARED_LOCK => Held(g)' > SHARED_LOCK
    BY <2>1
  <2>3. \A q \in Proc \ {ProcOf[f]} : reservedByte'[q] = reservedByte[q]
    BY <1>0, <2>1 DEF TypeOK
  <2> QED BY <2>1, <2>2, <2>3 DEF ReservedUsed
<1>4. ASSUME NEW f \in File, LockExclusiveRange(f) PROVE ReservedUsed'
  <2>1. \A g \in File : Held(g) > SHARED_LOCK => Held(g)' > SHARED_LOCK
    BY <1>4, AcquireLevels
  <2> QED BY <1>4, <2>1, AcquireLevels DEF ReservedUsed
<1>5. ASSUME NEW f \in File,
             UnlockDropWrite(f) \/ (\E c \in BOOLEAN : UnlockDropHigh(f, c))
      PROVE  ReservedUsed'
  <2>1. /\ reservedByte' = [reservedByte EXCEPT ![ProcOf[f]] = "UN"]
        /\ \A g \in File \ {f} : Held(g)' = Held(g)
    BY <1>5, DowngradeLevels
  <2>2. ASSUME NEW q \in Proc, reservedByte'[q] = "WR"
        PROVE  q # ProcOf[f] /\ reservedByte[q] = "WR"
    BY <1>0, <2>1, <2>2 DEF TypeOK
  <2> QED BY <2>1, <2>2 DEF ReservedUsed
<1>6. ASSUME NEW f \in File, NEW c \in BOOLEAN, ReleaseShared(f, c),
             (pc[f] = "idle" /\ eFileLock[f] = SHARED_LOCK) \/ pc[f] = "dropAll"
      PROVE  ReservedUsed'
  <2>1. \A g \in File : Held(g) > SHARED_LOCK => Held(g)' = Held(g)
    BY <1>6, ReleaseLevels
  <2>2. \A q \in Proc : reservedByte'[q] = "WR" => reservedByte[q] = "WR"
    BY <1>6, ReleaseLevels
  <2> QED BY <2>1, <2>2 DEF ReservedUsed
<1>7. ASSUME NEW f \in File, CloseFile(f) PROVE ReservedUsed'
  BY <1>7, CloseKept DEF ReservedUsed
<1>8. ASSUME NEW p \in Proc, Crash(p) PROVE ReservedUsed'
  <2>1. /\ eFileLock' = [f \in File |-> IF ProcOf[f] = p THEN NO_LOCK ELSE eFileLock[f]]
        /\ pc' = [f \in File |-> IF ProcOf[f] = p THEN "idle" ELSE pc[f]]
        /\ reservedByte' = [reservedByte EXCEPT ![p] = "UN"]
    BY <1>8 DEF Crash, DropPosixLocks, Grant
  <2>2. \A g \in File : ProcOf[g] # p => Held(g)' = Held(g)
    BY <2>1 DEF Held
  <2>3. ASSUME NEW q \in Proc, reservedByte'[q] = "WR"
        PROVE  q # p /\ reservedByte[q] = "WR"
    BY <1>0, <2>1, <2>3 DEF TypeOK
  <2> QED BY <2>2, <2>3 DEF ReservedUsed
<1>9. CASE UNCHANGED vars
  BY <1>9 DEF vars, ReservedUsed, Held
<1>10. ASSUME NEW f \in File, NEW c \in BOOLEAN, UnlockShared(f, c) PROVE ReservedUsed'
  BY <1>6, <1>10 DEF UnlockShared, CanCall
<1>11. ASSUME NEW f \in File, UnlockDropAll(f) PROVE ReservedUsed'
  BY <1>0, <1>6, <1>11 DEF UnlockDropAll, TypeOK
<1> QED BY <1>1, <1>2, <1>3, <1>4, <1>5, <1>7, <1>8, <1>9, <1>10, <1>11
        DEF Next, LevelStep, LockDropPending, LockDropPendingFails

\* unixClose() gets past its unixUnlock() with no lock left.
LEMMA ClosedUnlockedStep ==
  ASSUME IInv, ClosedUnlocked, ~IoErr, [Next]_vars
  PROVE  ClosedUnlocked'
<1> USE DEF NO_LOCK, SHARED_LOCK
<1>0. TypeOK BY DEF IInv
<1>1. ASSUME NEW f \in File,
             \/ Open(f) \/ LockSharedLocal(f) \/ LockPendingRead(f)
             \/ LockSharedRange(f) \/ LockDropPending(f) \/ LockDropPendingFails(f)
             \/ LockReserved(f) \/ LockPendingWrite(f) \/ LockExclusiveRange(f)
      PROVE  ClosedUnlocked'
  BY <1>0, <1>1 DEF Open, LockSharedLocal, LockPendingRead, LockSharedRange,
     LockDropPending, LockDropPendingFails, LockReserved, LockPendingWrite,
     LockExclusiveRange, CanCall, Goto, ClosedUnlocked, TypeOK
<1>2. ASSUME NEW f \in File, UnlockReadRange(f) \/ UnlockDropWrite(f)
      PROVE  ClosedUnlocked'
  <2>1. /\ eFileLock' = eFileLock /\ closing' = closing
        /\ pc[f] \in {"idle", "dropWr"}
        /\ \E l \in {"dropWr", "ret1"} : pc' = [pc EXCEPT ![f] = l]
    BY <1>2 DEF UnlockReadRange, UnlockDropWrite, CanCall, Goto
  <2> QED BY <1>0, <2>1 DEF ClosedUnlocked, TypeOK
<1>3. ASSUME NEW f \in File, NEW c \in BOOLEAN, UnlockDropHigh(f, c)
      PROVE  ClosedUnlocked'
  BY <1>0, <1>3 DEF UnlockDropHigh, CanCall, Goto, ClosedUnlocked, TypeOK
<1>4. ASSUME NEW f \in File, NEW c \in BOOLEAN, ReleaseShared(f, c),
             closing' \in {closing, [closing EXCEPT ![f] = c]}
      PROVE  ClosedUnlocked'
  <2>1. pc' = [pc EXCEPT ![f] = "ret0"] /\ eFileLock' = eFileLock
    BY <1>4 DEF ReleaseShared, Goto
  <2> QED BY <1>0, <1>4, <2>1 DEF ClosedUnlocked, TypeOK
<1>5. ASSUME NEW f \in File, UnlockReturn(f) PROVE ClosedUnlocked'
  BY <1>0, <1>5 DEF UnlockReturn, Goto, AfterCall, ClosedUnlocked, TypeOK
<1>6. ASSUME NEW f \in File, CloseUnlocked(f) \/ CloseFile(f)
      PROVE  ClosedUnlocked'
  BY <1>0, <1>6 DEF CloseUnlocked, CloseFile, Goto, ClosedUnlocked, TypeOK
<1>7. ASSUME NEW p \in Proc, Crash(p) PROVE ClosedUnlocked'
  BY <1>0, <1>7 DEF Crash, ClosedUnlocked
<1>8. CASE UNCHANGED vars
  BY <1>8 DEF vars, ClosedUnlocked
<1> QED BY <1>0, <1>1, <1>2, <1>3, <1>4, <1>5, <1>6, <1>7, <1>8
        DEF Next, UnlockShared, UnlockDropAll, TypeOK

\* At the start nobody is counted and no byte is locked.
LEMMA InitExact == Init => ExactInv
<1> USE DEF NO_LOCK
<1>1. ASSUME Init PROVE ExactCount
  <2>1. \A p \in Proc : Readers(p) = {} /\ nShared[p] = 0
    BY <1>1 DEF Init, Readers, Reader
  <2> QED BY <2>1, FS_EmptySet DEF ExactCount
<1>2. Init => ReservedUsed /\ ClosedUnlocked
  BY DEF Init, ReservedUsed, ClosedUnlocked
<1> QED BY <1>1, <1>2 DEF ExactInv

\* Without failing fcntl() calls nShared counts exactly the readers, and the
\* reserved byte and the end of unixClose() mean what they should.
THEOREM UnixLockExact == Spec => []ExactInv
<1>1. IInv /\ ExactInv /\ [Next]_vars => ExactInv'
  BY ExactCountStep, ReservedUsedStep, ClosedUnlockedStep DEF ExactInv
<1> QED BY <1>1, InitExact, UnixLockInvariant, PTL DEF Spec

-----------------------------------------------------------------------------
(* The refinement. *)

\* The handles FileLock calls reserved.
ReservedFiles == {f \in File : Held(f) > SHARED_LOCK /\ reservedByte[ProcOf[f]] = "WR"}

\* A level that f raised is one that FileLock may raise.
LEMMA AcquireSimulation ==
  ASSUME IInv, IInv', ExactCount, ReservedUsed, NEW f \in File,
         \/ LockSharedLocal(f)
         \/ LockDropPending(f) /\ pc[f] = "rdDrop"
         \/ LockReserved(f)
         \/ LockExclusiveRange(f)
  PROVE  FL!Next \/ (/\ \A g \in File : Held(g)' = Held(g)
                     /\ ReservedFiles' = ReservedFiles)
<1> DEFINE p == ProcOf[f]
           H == [g \in File |-> Held(g)]
<1> USE DEF NO_LOCK, SHARED_LOCK, RESERVED_LOCK, PENDING_LOCK, EXCLUSIVE_LOCK, LockLevel
<1>0. TypeOK /\ HandleInv(f) /\ InodeOK /\ PosixOK /\ WriterOK /\ p \in Proc
  BY UnixLockAssumption DEF IInv, HandleOK
<1>t. /\ \A g \in File : ProcOf[g] \in Proc
      /\ \A g \in File : Held(g) \in LockLevel
      /\ \A g \in File : Held(g)' \in LockLevel
      /\ \A g \in File : Held(g) >= SHARED_LOCK => Reader(g) /\ nShared[ProcOf[g]] >= 1
  <2>1. \A g \in File : Held(g)' \in LockLevel
    BY DEF IInv, TypeOK, Held
  <2> QED BY <2>1, Consequences
<1>e. ExclusiveExcludesAll /\ OneWriter /\ LocksBacked
  BY SafetyFromIInv
<1>1. CASE LockSharedLocal(f)
  <2>1. /\ Held(f) = NO_LOCK /\ Held(f)' = SHARED_LOCK
        /\ \A g \in File \ {f} : Held(g)' = Held(g)
        /\ reservedByte' = reservedByte
    BY <1>1, AcquireLevels
  <2>2. iFileLock[p] \in {SHARED_LOCK, RESERVED_LOCK}
    BY <1>1 DEF LockSharedLocal
  <2>3. \A g \in File : ProcOf[g] = p => Held(g) < PENDING_LOCK
    BY <1>0, <1>t, <2>2 DEF WriterOK, WriterInv
  <2>4. PICK g \in File : ProcOf[g] = p /\ Reader(g)
    <3>1. nShared[p] # 0 BY <1>0, <2>2 DEF InodeOK, InodeInv
    <3>2. Readers(p) # {} BY <1>0, <3>1, FS_EmptySet DEF ExactCount
    <3> QED BY <3>2 DEF Readers
  <2>5. Held(g) >= SHARED_LOCK
    BY <1>0, <2>4 DEF Reader, Held, TypeOK
  <2>6. g # f /\ Held(g) \in {SHARED_LOCK, RESERVED_LOCK}
    BY <1>t, <2>1, <2>3, <2>4, <2>5
  <2>7. \A h \in File \ {f} : Held(h) < EXCLUSIVE_LOCK
    <3> SUFFICES ASSUME NEW h \in File \ {f}, Held(h) >= EXCLUSIVE_LOCK PROVE FALSE
      BY <1>t
    <3>1. Held(h) = EXCLUSIVE_LOCK BY <1>t
    <3>2. h # g BY <2>6, <3>1
    <3> QED BY <1>e, <2>6, <3>1, <3>2 DEF ExclusiveExcludesAll
  <2>8. H' = [H EXCEPT ![f] = SHARED_LOCK] BY <2>1
  <2>9. ReservedFiles' = ReservedFiles
    BY <2>1 DEF ReservedFiles
  <2>10. FL!AcquireShared(f)
    BY <2>1, <2>3, <2>4, <2>6, <2>7, <2>8, <2>9
       DEF FL!AcquireShared, FL!Others, FL!NO_LOCK, FL!SHARED_LOCK,
           FL!RESERVED_LOCK, FL!PENDING_LOCK, FL!EXCLUSIVE_LOCK, FL!Siblings, ReservedFiles
  <2> QED BY <2>10 DEF FL!Next
<1>2. CASE LockDropPending(f) /\ pc[f] = "rdDrop"
  <2>1. /\ Held(f) = NO_LOCK /\ Held(f)' = SHARED_LOCK
        /\ \A g \in File \ {f} : Held(g)' = Held(g)
        /\ reservedByte' = reservedByte
    BY <1>2, AcquireLevels
  <2>2. pendingByte[p] = "RD" BY <1>0, <1>2 DEF HandleInv
  <2>3. \A g \in File : Held(g) < PENDING_LOCK
    <3> SUFFICES ASSUME NEW g \in File, Held(g) >= PENDING_LOCK PROVE FALSE
      BY <1>t
    <3>1. pendingByte[ProcOf[g]] = "WR" BY <1>e DEF LocksBacked
    <3> QED BY <1>0, <1>t, <2>2, <3>1 DEF PosixOK, Compatible
  <2>4. H' = [H EXCEPT ![f] = SHARED_LOCK] BY <2>1
  <2>5. ReservedFiles' = ReservedFiles
    BY <2>1 DEF ReservedFiles
  <2>6. FL!AcquireShared(f)
    BY <2>1, <2>3, <2>4, <2>5
       DEF FL!AcquireShared, FL!Others, FL!NO_LOCK, FL!SHARED_LOCK,
           FL!RESERVED_LOCK, FL!PENDING_LOCK, FL!EXCLUSIVE_LOCK, FL!Siblings, ReservedFiles
  <2> QED BY <2>6 DEF FL!Next
<1>3. CASE LockReserved(f)
  <2>1. /\ Held(f) = SHARED_LOCK /\ Held(f)' = RESERVED_LOCK
        /\ \A g \in File \ {f} : Held(g)' = Held(g)
        /\ reservedByte' = [reservedByte EXCEPT ![p] = "WR"]
    BY <1>3, AcquireLevels
  <2>2. \A q \in Proc \ {p} : reservedByte[q] = "UN"
    BY <1>3 DEF LockReserved, CanLock
  <2>3. iFileLock[p] = SHARED_LOCK
    BY <1>3 DEF LockReserved, SiblingBusy
  <2>4. \A g \in File : ProcOf[g] = p => Held(g) <= SHARED_LOCK
    BY <1>0, <1>t, <2>3 DEF WriterOK, WriterInv
  <2>5. ReservedFiles = {}
    BY <1>t, <2>2, <2>4 DEF ReservedFiles
  <2>6. ReservedFiles' = {f}
    <3>1. reservedByte'[p] = "WR" /\ \A q \in Proc \ {p} : reservedByte'[q] = "UN"
      BY <1>0, <2>1, <2>2 DEF TypeOK
    <3>2. ASSUME NEW g \in File \ {f}, Held(g)' > SHARED_LOCK
          PROVE  reservedByte'[ProcOf[g]] # "WR"
      <4>1. ProcOf[g] # p BY <1>t, <2>1, <2>4, <3>2
      <4> QED BY <1>t, <3>1, <4>1
    <3> QED BY <2>1, <3>1, <3>2 DEF ReservedFiles
  <2>7. \A h \in File \ {f} : Held(h) < EXCLUSIVE_LOCK
    <3> SUFFICES ASSUME NEW h \in File \ {f}, Held(h) >= EXCLUSIVE_LOCK PROVE FALSE
      BY <1>t
    <3>1. Held(h) = EXCLUSIVE_LOCK BY <1>t
    <3> QED BY <1>e, <2>1, <3>1 DEF ExclusiveExcludesAll
  <2>8. H' = [H EXCEPT ![f] = RESERVED_LOCK] BY <2>1
  <2>9. FL!AcquireReserved(f)
    BY <2>1, <2>5, <2>6, <2>7, <2>8 DEF FL!AcquireReserved, FL!Others, FL!NO_LOCK, FL!SHARED_LOCK,
           FL!RESERVED_LOCK, FL!PENDING_LOCK, FL!EXCLUSIVE_LOCK, ReservedFiles
  <2> QED BY <2>9 DEF FL!Next
<1>4. CASE LockExclusiveRange(f)
  <2>1. /\ Held(f) \in {SHARED_LOCK, RESERVED_LOCK, PENDING_LOCK}
        /\ Held(f)' \in {PENDING_LOCK, EXCLUSIVE_LOCK}
        /\ \A g \in File \ {f} : Held(g)' = Held(g)
        /\ reservedByte' = reservedByte
    BY <1>4, AcquireLevels
  <2>2. ReservedFiles' = ReservedFiles
    <3>1. CASE Held(f) > SHARED_LOCK
      BY <2>1, <3>1 DEF ReservedFiles
    <3>2. CASE Held(f) = SHARED_LOCK
      <4>1. iFileLock[p] = SHARED_LOCK
        BY <1>0, <1>4, <3>2 DEF LockExclusiveRange, HandleInv, Held
      <4>2. \A g \in File : ProcOf[g] = p => Held(g) <= SHARED_LOCK
        BY <1>0, <1>t, <4>1 DEF WriterOK, WriterInv
      <4>3. reservedByte[p] # "WR"
        BY <1>0, <1>t, <4>2 DEF ReservedUsed
      <4> QED BY <2>1, <3>2, <4>3 DEF ReservedFiles
    <3> QED BY <2>1, <3>1, <3>2
  <2>e. ExclusiveExcludesAll' /\ OneWriter'
    <3>1. IInv => ExclusiveExcludesAll /\ OneWriter BY SafetyFromIInv
    <3> QED BY <3>1, SafetyFromIInv, PTL
  <2>3. CASE Held(f)' = EXCLUSIVE_LOCK
    <3>1. \A g \in File \ {f} : Held(g) = NO_LOCK
      BY <2>1, <2>3, <2>e DEF ExclusiveExcludesAll
    <3>2. H' = [H EXCEPT ![f] = EXCLUSIVE_LOCK] BY <2>1, <2>3
    <3>3. FL!AcquireExclusive(f)
      BY <2>1, <2>2, <3>1, <3>2 DEF FL!AcquireExclusive, FL!Others, FL!NO_LOCK, FL!SHARED_LOCK,
           FL!RESERVED_LOCK, FL!PENDING_LOCK, FL!EXCLUSIVE_LOCK, ReservedFiles
    <3> QED BY <3>3 DEF FL!Next
  <2>4. CASE Held(f)' = PENDING_LOCK /\ Held(f) # PENDING_LOCK
    <3>1. \A g \in File \ {f} : Held(g) < PENDING_LOCK
      BY <1>t, <2>1, <2>4, <2>e DEF OneWriter
    <3>2. H' = [H EXCEPT ![f] = PENDING_LOCK] BY <2>1, <2>4
    <3>3. FL!AcquirePending(f)
      BY <2>1, <2>2, <2>4, <3>1, <3>2 DEF FL!AcquirePending, FL!Others, FL!NO_LOCK, FL!SHARED_LOCK,
           FL!RESERVED_LOCK, FL!PENDING_LOCK, FL!EXCLUSIVE_LOCK, ReservedFiles
    <3> QED BY <3>3 DEF FL!Next
  <2>5. CASE Held(f)' = PENDING_LOCK /\ Held(f) = PENDING_LOCK
    BY <2>1, <2>2, <2>5
  <2> QED BY <2>1, <2>3, <2>4, <2>5
<1> QED BY <1>1, <1>2, <1>3, <1>4

\* A level that f gives up, and all that a dead process held.
LEMMA ReleaseSimulation ==
  ASSUME IInv, ClosedUnlocked, ~IoErr, [Next]_vars
  PROVE  /\ \A f \in File, l \in {NO_LOCK, SHARED_LOCK} :
              (/\ Held(f) > l /\ Held(f)' = l
               /\ \A g \in File \ {f} : Held(g)' = Held(g)
               /\ ReservedFiles' = ReservedFiles \ {f}) => FL!Next
         /\ \A p \in Proc : Crash(p) => FL!Next
<1> USE DEF NO_LOCK, SHARED_LOCK, RESERVED_LOCK, PENDING_LOCK, EXCLUSIVE_LOCK, LockLevel
<1> DEFINE H == [g \in File |-> Held(g)]
<1>0. TypeOK /\ \A g \in File : ProcOf[g] \in Proc /\ Held(g) \in LockLevel
  BY UnixLockAssumption, Consequences DEF IInv
<1>1. ASSUME NEW f \in File, NEW l \in {NO_LOCK, SHARED_LOCK},
             Held(f) > l, Held(f)' = l,
             \A g \in File \ {f} : Held(g)' = Held(g),
             ReservedFiles' = ReservedFiles \ {f}
      PROVE  FL!Next
  <2>1. H' = [H EXCEPT ![f] = l] BY <1>1
  <2>2. H[f] # NO_LOCK /\ l < H[f] /\ l \in {FL!NO_LOCK, FL!SHARED_LOCK}
    BY <1>0, <1>1 DEF FL!NO_LOCK, FL!SHARED_LOCK
  <2>3. FL!Release(f)
    BY <1>1, <2>1, <2>2 DEF FL!Release, FL!NO_LOCK, ReservedFiles
  <2> QED BY <2>3 DEF FL!Next
<1>2. ASSUME NEW p \in Proc, Crash(p) PROVE FL!Next
  <2>1. /\ eFileLock' = [f \in File |-> IF ProcOf[f] = p THEN NO_LOCK ELSE eFileLock[f]]
        /\ pc' = [f \in File |-> IF ProcOf[f] = p THEN "idle" ELSE pc[f]]
        /\ reservedByte' = [reservedByte EXCEPT ![p] = "UN"]
    BY <1>2 DEF Crash, DropPosixLocks, Grant
  <2>2. \A g \in File : Held(g)' = IF ProcOf[g] = p THEN NO_LOCK ELSE Held(g)
    BY <2>1 DEF Held
  <2>3. ReservedFiles' = {g \in ReservedFiles : ProcOf[g] # p}
    BY <1>0, <2>1, <2>2 DEF ReservedFiles, TypeOK
  <2>4. H' = [g \in File |-> IF ProcOf[g] = p THEN NO_LOCK ELSE H[g]]
    BY <2>2
  <2>5. FL!ReleaseAll(p)
    BY <2>3, <2>4 DEF FL!ReleaseAll, FL!NO_LOCK, ReservedFiles
  <2> QED BY <2>5 DEF FL!Next
<1> QED BY <1>1, <1>2

\* Every step of unixLock, posixUnlock and unixClose is a step of FileLock or
\* changes nothing there.
LEMMA LockSimulation ==
  ASSUME IInv, IInv', ExactInv, ~IoErr, [Next]_vars
  PROVE  FL!Next \/ (/\ \A g \in File : Held(g)' = Held(g)
                     /\ ReservedFiles' = ReservedFiles)
<1> USE DEF NO_LOCK, SHARED_LOCK, RESERVED_LOCK, PENDING_LOCK, EXCLUSIVE_LOCK, LockLevel
<1>0. TypeOK /\ WriterOK /\ \A g \in File : ProcOf[g] \in Proc /\ Held(g) \in LockLevel
  BY UnixLockAssumption, Consequences DEF IInv
<1>x. ExactCount /\ ReservedUsed /\ ClosedUnlocked BY DEF ExactInv
<1> DEFINE Same == /\ \A g \in File : Held(g)' = Held(g)
                   /\ ReservedFiles' = ReservedFiles
<1>1. ASSUME NEW f \in File, LevelStep(f) PROVE Same
  BY <1>1, LevelKept DEF ReservedFiles
<1>2. ASSUME NEW f \in File,
             \/ LockSharedLocal(f) \/ (LockDropPending(f) /\ pc[f] = "rdDrop")
             \/ LockReserved(f) \/ LockExclusiveRange(f)
      PROVE  FL!Next \/ Same
  BY <1>2, <1>x, AcquireSimulation
<1>3. ASSUME NEW f \in File,
             UnlockDropWrite(f) \/ (\E c \in BOOLEAN : UnlockDropHigh(f, c))
      PROVE  FL!Next
  <2>1. /\ reservedByte' = [reservedByte EXCEPT ![ProcOf[f]] = "UN"]
        /\ \A g \in File \ {f} : Held(g)' = Held(g)
        /\ Held(f) > SHARED_LOCK /\ Held(f)' = SHARED_LOCK
    BY <1>3, DowngradeLevels
  <2>2. \A g \in File \ {f} : ProcOf[g] = ProcOf[f] => Held(g) <= SHARED_LOCK
    BY <1>0, <2>1 DEF WriterOK, WriterInv
  <2>3. \A q \in Proc \ {ProcOf[f]} : reservedByte'[q] = reservedByte[q]
    BY <2>1, <1>0 DEF TypeOK
  <2>4. ASSUME NEW g \in File PROVE g \in ReservedFiles' <=> g \in ReservedFiles \ {f}
    <3>1. CASE g = f BY <2>1, <3>1 DEF ReservedFiles
    <3>2. CASE g # f /\ ProcOf[g] = ProcOf[f]
      BY <1>0, <2>1, <2>2, <3>2 DEF ReservedFiles
    <3>3. CASE ProcOf[g] # ProcOf[f]
      BY <1>0, <2>1, <2>3, <3>3 DEF ReservedFiles
    <3> QED BY <3>1, <3>2, <3>3
  <2>5. ReservedFiles' = ReservedFiles \ {f}
    BY <2>4 DEF ReservedFiles
  <2> QED BY <1>x, <2>1, <2>5, ReleaseSimulation
<1>4. ASSUME NEW f \in File, NEW c \in BOOLEAN, ReleaseShared(f, c),
             (pc[f] = "idle" /\ eFileLock[f] = SHARED_LOCK) \/ pc[f] = "dropAll"
      PROVE  FL!Next
  <2>1. /\ \A g \in File \ {f} : Held(g)' = Held(g)
        /\ Held(f) = SHARED_LOCK /\ Held(f)' = NO_LOCK
        /\ \A g \in File : Held(g) > SHARED_LOCK =>
             reservedByte'[ProcOf[g]] = reservedByte[ProcOf[g]]
    BY <1>4, ReleaseLevels
  <2>2. ReservedFiles' = ReservedFiles \ {f}
    BY <2>1 DEF ReservedFiles
  <2> QED BY <1>x, <2>1, <2>2, ReleaseSimulation
<1>5. ASSUME NEW f \in File, CloseFile(f) PROVE Same
  BY <1>5, <1>x, CloseKept DEF ReservedFiles
<1>6. ASSUME NEW p \in Proc, Crash(p) PROVE FL!Next
  BY <1>6, <1>x, ReleaseSimulation
<1>7. CASE UNCHANGED vars
  BY <1>7 DEF vars, ReservedFiles, Held
<1>8. ASSUME NEW f \in File, NEW c \in BOOLEAN, UnlockShared(f, c) PROVE FL!Next
  BY <1>4, <1>8 DEF UnlockShared, CanCall
<1>9. ASSUME NEW f \in File, UnlockDropAll(f) PROVE FL!Next
  BY <1>0, <1>4, <1>9 DEF UnlockDropAll, TypeOK
<1> QED BY <1>1, <1>2, <1>3, <1>5, <1>6, <1>7, <1>8, <1>9
        DEF Next, LevelStep, LockDropPending, LockDropPendingFails

\* Without I/O errors the posix implementation of the five lock levels is the
\* FileLock that the pager is written against, for any processes and handles.
THEOREM UnixLockImplements ==
  ASSUME ~IoErr
  PROVE  Spec => ImplementsFileLock
<1>1. Init => FL!Init
  BY DEF Init, FL!Init, FL!NO_LOCK, Held, NO_LOCK, SHARED_LOCK
<1>2. IInv /\ IInv' /\ ExactInv /\ [Next]_vars
        => [FL!Next]_(FL!vars)
  BY LockSimulation DEF FL!vars, ReservedFiles
<1> QED BY <1>1, <1>2, UnixLockInvariant, UnixLockExact, PTL
        DEF Spec, ImplementsFileLock, FL!Spec

-----------------------------------------------------------------------------
\* A descriptor is parked on pUnused only while the process has a lock on the
\* file and some handle that will close it.
THEOREM UnixLockParked == Spec => []ParkedFdsNeedLock
<1> USE DEF NO_LOCK, SHARED_LOCK
<1>1. Init => ParkedFdsNeedLock
  BY DEF Init, ParkedFdsNeedLock
<1>2. ASSUME IInv, ParkedFdsNeedLock, [Next]_vars PROVE ParkedFdsNeedLock'
  <2>0. TypeOK /\ InodeOK /\ HandleOK /\ \A g \in File : ProcOf[g] \in Proc
    BY <1>2, UnixLockAssumption DEF IInv
  <2>1. ASSUME NEW f \in File, Open(f) PROVE ParkedFdsNeedLock'
    BY <2>0, <2>1, <1>2 DEF Open, ParkedFdsNeedLock, TypeOK
  <2>2. ASSUME NEW f \in File,
               LockSharedLocal(f) \/ LockDropPending(f)
        PROVE  ParkedFdsNeedLock'
    BY <2>0, <2>2, <1>2 DEF LockSharedLocal, LockDropPending, ParkedFdsNeedLock, TypeOK
  <2>3. ASSUME NEW f \in File,
               \/ LockPendingRead(f) \/ LockSharedRange(f) \/ LockDropPendingFails(f)
               \/ LockReserved(f) \/ LockPendingWrite(f) \/ LockExclusiveRange(f)
               \/ UnlockReadRange(f) \/ UnlockDropWrite(f)
               \/ (\E c \in BOOLEAN : UnlockDropHigh(f, c))
               \/ UnlockReturn(f) \/ CloseUnlocked(f)
        PROVE  ParkedFdsNeedLock'
    <3>1. nUnused' = nUnused /\ nLock' = nLock /\ open' = open
      BY <2>3 DEF LockPendingRead, LockSharedRange, LockDropPendingFails,
         LockReserved, LockPendingWrite, LockExclusiveRange, UnlockReadRange,
         UnlockDropWrite, UnlockDropHigh, UnlockReturn, CloseUnlocked, inodeVars
    <3> QED BY <1>2, <3>1 DEF ParkedFdsNeedLock
  <2>4. ASSUME NEW f \in File, NEW c \in BOOLEAN, ReleaseShared(f, c), open' = open
        PROVE  ParkedFdsNeedLock'
    <3>1. /\ nLock' = [nLock EXCEPT ![ProcOf[f]] = @ - 1]
          /\ nUnused' = [nUnused EXCEPT ![ProcOf[f]] = IF nLock[ProcOf[f]] = 1 THEN 0 ELSE @]
      BY <2>4 DEF ReleaseShared
    <3> QED BY <1>2, <2>0, <2>4, <3>1 DEF ParkedFdsNeedLock, TypeOK
  <2>5. ASSUME NEW f \in File, CloseFile(f) PROVE ParkedFdsNeedLock'
    <3> DEFINE p == ProcOf[f]
    <3>1. CASE \A g \in File \ {f} : ProcOf[g] = p => ~open[g]
      <4>1. nUnused' = [nUnused EXCEPT ![p] = 0] /\ nLock' = [nLock EXCEPT ![p] = 0]
            /\ open' = [open EXCEPT ![f] = FALSE]
        BY <2>5, <3>1 DEF CloseFile
      <4> QED BY <1>2, <2>0, <4>1 DEF ParkedFdsNeedLock, TypeOK
    <3>2. CASE ~ \A g \in File \ {f} : ProcOf[g] = p => ~open[g]
      <4>1. /\ nUnused' = [nUnused EXCEPT ![p] = IF nLock[p] > 0 THEN @ + 1 ELSE @]
            /\ nLock' = nLock /\ open' = [open EXCEPT ![f] = FALSE]
        BY <2>5, <3>2 DEF CloseFile, DeferClose
      <4> QED BY <1>2, <2>0, <3>2, <4>1 DEF ParkedFdsNeedLock, TypeOK
    <3> QED BY <3>1, <3>2
  <2>6. ASSUME NEW p \in Proc, Crash(p) PROVE ParkedFdsNeedLock'
    <3>1. /\ nUnused' = [nUnused EXCEPT ![p] = 0] /\ nLock' = [nLock EXCEPT ![p] = 0]
          /\ \A g \in File : ProcOf[g] # p => open'[g] = open[g]
      BY <2>0, <2>6 DEF Crash, TypeOK
    <3> QED BY <1>2, <2>0, <3>1 DEF ParkedFdsNeedLock, TypeOK
  <2>7. CASE UNCHANGED vars
    BY <1>2, <2>7 DEF vars, ParkedFdsNeedLock
  <2> QED BY <1>2, <2>0, <2>1, <2>2, <2>3, <2>4, <2>5, <2>6, <2>7
          DEF Next, UnlockShared, UnlockDropAll, TypeOK
<1> QED BY <1>1, <1>2, UnixLockInvariant, PTL DEF Spec
=============================================================================
