------------------------- MODULE SharedCacheProofs -------------------------
(***************************************************************************)
(* Proofs about SharedCache, for any connections, tables and programs:     *)
(* IInv is inductive, and the safety properties follow from it.            *)
(***************************************************************************)
EXTENDS SharedCache, BoundedSets, FiniteSetTheorems, SequenceTheorems, TLAPS

(***************************************************************************)
(* Lists.                                                                  *)
(***************************************************************************)

\* What a filter leaves of a list.
LEMMA KeptFacts ==
  ASSUME NEW T, NEW s \in Seq(T), NEW S
  PROVE  /\ Kept(s, S) \in Seq(T)
         /\ Range(Kept(s, S)) = Range(s) \cap S
         /\ IsInjective(s) => IsInjective(Kept(s, S))
<1> DEFINE K == {i \in DOMAIN s : s[i] \in S}
           n == Cardinality(K)
           R == [i \in K |-> Cardinality({k \in K : k <= i})]
           P == [j \in 1 .. n |-> CHOOSE i \in K : Cardinality({k \in K : k <= i}) = j]
           r == [j \in 1 .. n |-> s[CHOOSE i \in K : Cardinality({k \in K : k <= i}) = j]]
<1>1. DOMAIN s = 1 .. Len(s) /\ Len(s) \in Nat /\ \A i \in DOMAIN s : s[i] \in T
  OBVIOUS
<1>2. K \in SUBSET (0 .. Len(s))
  BY <1>1
<1>3. n \in Nat /\ R \in Bijection(K, 1 .. n)
  BY <1>1, <1>2, Ranks
<1>4. \A j \in 1 .. n : P[j] \in K /\ R[P[j]] = j
  <2> SUFFICES ASSUME NEW j \in 1 .. n PROVE P[j] \in K /\ R[P[j]] = j
    OBVIOUS
  <2>1. \E i \in K : R[i] = j
    BY <1>3 DEF Bijection, Surjection
  <2>2. \E i \in K : Cardinality({k \in K : k <= i}) = j
    BY <2>1
  <2> QED BY <2>2
<1>5. \A i, j \in K : R[i] = R[j] => i = j
  BY <1>3 DEF Bijection, Injection, IsInjective
<1>6. \A i \in K : R[i] \in 1 .. n /\ P[R[i]] = i
  <2> SUFFICES ASSUME NEW i \in K PROVE R[i] \in 1 .. n /\ P[R[i]] = i
    OBVIOUS
  <2>1. R[i] \in 1 .. n
    BY <1>3 DEF Bijection, Injection
  <2> QED BY <2>1, <1>4, <1>5
<1>7. Kept(s, S) = r
  BY DEF Kept
<1>8. r = [j \in 1 .. n |-> s[P[j]]]
  OBVIOUS
<1> HIDE DEF n, R, P, r
<1>9. \A j \in 1 .. n : P[j] \in DOMAIN s /\ s[P[j]] \in S
  BY <1>4
<1>10. r \in Seq(T)
  <2>1. r \in [1 .. n -> T]
    BY <1>1, <1>8, <1>9
  <2> QED BY <2>1, <1>3
<1>11. Range(r) = Range(s) \cap S
  <2>1. Range(r) \subseteq Range(s) \cap S
    BY <1>8, <1>9 DEF Range
  <2>2. ASSUME NEW x \in Range(s) \cap S PROVE x \in Range(r)
    <3>1. PICK i \in DOMAIN s : s[i] = x
      BY DEF Range
    <3>2. i \in K
      BY <3>1
    <3>3. R[i] \in 1 .. n /\ r[R[i]] = x
      BY <3>1, <3>2, <1>6, <1>8
    <3> QED BY <3>3, <1>8 DEF Range
  <2> QED BY <2>1, <2>2
<1>12. ASSUME IsInjective(s) PROVE IsInjective(r)
  <2> SUFFICES ASSUME NEW i \in 1 .. n, NEW j \in 1 .. n, r[i] = r[j] PROVE i = j
    BY <1>8 DEF IsInjective
  <2>1. P[i] = P[j]
    BY <1>8, <1>9, <1>12 DEF IsInjective
  <2> QED BY <2>1, <1>4
<1> QED BY <1>7, <1>10, <1>11, <1>12

\* What an insertion makes of a list.
LEMMA InsertFacts ==
  ASSUME NEW T, NEW s \in Seq(T), NEW c \in T, NEW i \in 1 .. Len(s) + 1
  PROVE  /\ InsertAt(s, i, c) \in Seq(T)
         /\ Range(InsertAt(s, i, c)) = Range(s) \cup {c}
         /\ IsInjective(s) /\ c \notin Range(s) => IsInjective(InsertAt(s, i, c))
<1> DEFINE r == InsertAt(s, i, c)
           a == SubSeq(s, 1, i - 1)
           z == SubSeq(s, i, Len(s))
           y == <<c>>
<1>1. /\ a \in Seq(T) /\ Len(a) = i - 1
      /\ z \in Seq(T) /\ Len(z) = Len(s) + 1 - i
      /\ \A k \in 1 .. i - 1 : a[k] = s[k]
      /\ \A k \in 1 .. Len(s) + 1 - i : z[k] = s[k + i - 1]
  OBVIOUS
<1>0. y \in Seq(T) /\ Len(y) = 1 /\ y[1] = c
  OBVIOUS
<1>r. r = (a \o y) \o z
  BY DEF InsertAt
<1> HIDE DEF r, a, y, z
<1>a. /\ a \o y \in Seq(T) /\ Len(a \o y) = i
      /\ \A k \in 1 .. i : (a \o y)[k] = IF k <= i - 1 THEN a[k] ELSE y[k - (i - 1)]
  <2>1. /\ a \o y \in Seq(T) /\ Len(a \o y) = Len(a) + Len(y)
        /\ \A k \in 1 .. Len(a) + Len(y) :
             (a \o y)[k] = IF k <= Len(a) THEN a[k] ELSE y[k - Len(a)]
    <3>1. a \in Seq(T) /\ y \in Seq(T)
      BY <1>0, <1>1
    <3> QED BY <3>1, ConcatProperties, Zenon
  <2>2. Len(a) = i - 1 /\ Len(a) + Len(y) = i
    BY <1>1, <1>0
  <2> QED BY <2>1, <2>2
<1>b. /\ r \in Seq(T) /\ Len(r) = Len(s) + 1
      /\ \A k \in 1 .. Len(s) + 1 : r[k] = IF k <= i THEN (a \o y)[k] ELSE z[k - i]
  <2>1. /\ r \in Seq(T) /\ Len(r) = Len(a \o y) + Len(z)
        /\ \A k \in 1 .. Len(a \o y) + Len(z) :
             r[k] = IF k <= Len(a \o y) THEN (a \o y)[k] ELSE z[k - Len(a \o y)]
    <3>1. a \o y \in Seq(T) /\ z \in Seq(T)
      BY <1>1, <1>a
    <3> QED BY <3>1, <1>r, ConcatProperties, Zenon
  <2>2. Len(a \o y) = i /\ Len(a \o y) + Len(z) = Len(s) + 1
    BY <1>1, <1>a
  <2> QED BY <2>1, <2>2
<1>2. /\ r \in Seq(T) /\ Len(r) = Len(s) + 1
  BY <1>b
<1>3. \A k \in 1 .. Len(s) + 1 :
        r[k] = IF k < i THEN s[k] ELSE IF k = i THEN c ELSE s[k - 1]
  <2> SUFFICES ASSUME NEW k \in 1 .. Len(s) + 1
               PROVE  r[k] = IF k < i THEN s[k] ELSE IF k = i THEN c ELSE s[k - 1]
    OBVIOUS
  <2>1. CASE k < i
    <3>1. k \in 1 .. i /\ k \in 1 .. i - 1 /\ k <= i /\ k <= i - 1
      BY <2>1
    <3> QED BY <3>1, <2>1, <1>1, <1>a, <1>b
  <2>2. CASE k = i
    <3>1. k \in 1 .. i /\ k <= i /\ ~(k <= i - 1) /\ k - (i - 1) = 1 /\ ~(k < i)
      BY <2>2
    <3> QED BY <3>1, <2>2, <1>0, <1>a, <1>b
  <2>3. CASE k > i
    <3>1. /\ k - i \in 1 .. Len(s) + 1 - i /\ ~(k <= i) /\ ~(k < i) /\ k # i
          /\ (k - i) + i - 1 = k - 1
      BY <2>3
    <3> QED BY <3>1, <1>1, <1>b
  <2> QED BY <2>1, <2>2, <2>3
<1>4. DOMAIN r = 1 .. Len(s) + 1 /\ DOMAIN s = 1 .. Len(s)
  BY <1>2
<1>5. Range(r) \subseteq Range(s) \cup {c}
  <2> SUFFICES ASSUME NEW k \in 1 .. Len(s) + 1 PROVE r[k] \in Range(s) \cup {c}
    BY <1>4 DEF Range
  <2>1. CASE k < i
    BY <2>1, <1>3, <1>4 DEF Range
  <2>2. CASE k = i
    BY <2>2, <1>3
  <2>3. CASE k > i
    <3>1. k - 1 \in DOMAIN s /\ r[k] = s[k - 1]
      BY <2>3, <1>3, <1>4
    <3> QED BY <3>1 DEF Range
  <2> QED BY <2>1, <2>2, <2>3
<1>6. ASSUME NEW k \in 1 .. Len(s) PROVE s[k] \in Range(r)
  <2>1. CASE k < i
    <3>1. k \in DOMAIN r /\ r[k] = s[k]
      BY <2>1, <1>3, <1>4
    <3> QED BY <3>1 DEF Range
  <2>2. CASE k >= i
    <3>1. k + 1 \in DOMAIN r /\ r[k + 1] = s[k]
      BY <2>2, <1>3, <1>4
    <3> QED BY <3>1 DEF Range
  <2> QED BY <2>1, <2>2
<1>7. c \in Range(r)
  <2>1. i \in DOMAIN r /\ r[i] = c
    BY <1>3, <1>4
  <2> QED BY <2>1 DEF Range
<1>8. Range(r) = Range(s) \cup {c}
  BY <1>4, <1>5, <1>6, <1>7 DEF Range
<1>9. ASSUME IsInjective(s), c \notin Range(s) PROVE IsInjective(r)
  <2> DEFINE g(k) == IF k < i THEN k ELSE k - 1
  <2>1. \A k \in 1 .. Len(s) + 1 : k # i => g(k) \in DOMAIN s /\ r[k] = s[g(k)] /\ r[k] # c
    <3>1. \A k \in 1 .. Len(s) + 1 : k # i => g(k) \in DOMAIN s /\ r[k] = s[g(k)]
      BY <1>3, <1>4
    <3> QED BY <3>1, <1>9 DEF Range
  <2>2. \A k, l \in 1 .. Len(s) + 1 : k # i /\ l # i /\ g(k) = g(l) => k = l
    OBVIOUS
  <2>3. r[i] = c
    BY <1>3
  <2>4. \A k, l \in 1 .. Len(s) + 1 : r[k] = r[l] => k = l
    <3> HIDE DEF g
    <3> QED BY <2>1, <2>2, <2>3, <1>9 DEF IsInjective
  <2> QED BY <2>4, <1>4 DEF IsInjective
<1> QED BY <1>2, <1>8, <1>9 DEF r

(***************************************************************************)
(* Table locks.                                                            *)
(***************************************************************************)

\* The fields of a BtShared have their types.
LEMMA BtTypes ==
  ASSUME NEW b \in BtShared
  PROVE  /\ b.pWriter \in Conn \cup {NoConn}
         /\ b.exclusive \in BOOLEAN /\ b.pending \in BOOLEAN
         /\ b.nTransaction \in 0 .. Cardinality(Conn)
         /\ b.inTransaction \in 0 .. 2
         /\ b.inTrans \in [Conn -> 0 .. 2]
         /\ b.eLock \in [Conn -> [Table -> 0 .. 2]]
         /\ b.pLock \in Seq([conn: Conn, table: Table])
  BY DEF BtShared, TRANS_NONE, TRANS_WRITE, NO_LOCK, WRITE_LOCK

\* The owner FirstOwner() names has one of the conflicting entries, and there
\* is an owner if there is such an entry.
LEMMA FirstOwnerFacts ==
  ASSUME NEW b \in BtShared, NEW C \in SUBSET Range(b.pLock)
  PROVE  /\ FirstOwner(b, C) = {} => C = {}
         /\ \A d \in FirstOwner(b, C) : \E k \in C : k.conn = d
<1> DEFINE I == {i \in DOMAIN b.pLock : b.pLock[i] \in C}
<1>1. Len(b.pLock) \in Nat /\ I \in SUBSET (0 .. Len(b.pLock))
  BY BtTypes
<1>2. I = {} => C = {}
  BY DEF Range
<1>3. I # {} => b.pLock[Min(I)] \in C
  BY <1>1, MinFacts
<1> HIDE DEF I
<1>4. FirstOwner(b, C) = IF I = {} THEN {} ELSE {b.pLock[Min(I)].conn}
  BY DEF FirstOwner, I
<1> QED BY <1>2, <1>3, <1>4

\* querySharedCacheTableLock() grants a lock that no other lock on the table
\* conflicts with, and otherwise names another connection with a transaction.
LEMMA QueryFacts ==
  ASSUME NEW b, BtOK(b), NEW c \in Conn, NEW t \in Table, NEW e \in {READ_LOCK, WRITE_LOCK}
  PROVE  /\ querySharedCacheTableLock(b, c, t, e) = {} =>
              /\ b.exclusive => b.pWriter = c
              /\ \A d \in Conn : d # c => b.eLock[d][t] \in {NO_LOCK, e}
         /\ \A d \in querySharedCacheTableLock(b, c, t, e) :
              d \in InTransaction(b) /\ d # c
<1> DEFINE C == {k \in Range(b.pLock) : /\ k.conn # c /\ k.table = t
                                        /\ b.eLock[k.conn][t] # e}
<1>1. b \in BtShared /\ C \in SUBSET Range(b.pLock)
  BY DEF BtOK
<1>2. ASSUME C = {}, NEW d \in Conn, d # c PROVE b.eLock[d][t] \in {NO_LOCK, e}
  <2> DEFINE k == [conn |-> d, table |-> t]
  <2>1. b.eLock[d][t] # NO_LOCK => k \in Range(b.pLock)
    BY DEF BtOK, LocksExact
  <2>2. k.conn = d /\ k.table = t
    OBVIOUS
  <2> QED BY <1>2, <2>1, <2>2
<1>3. ASSUME NEW k \in C PROVE k.conn \in InTransaction(b) /\ k.conn # c
  BY <1>3 DEF BtOK, LocksExact, InTransaction
<1>4. CASE b.pWriter # c /\ b.exclusive
  <2>1. querySharedCacheTableLock(b, c, t, e) = {b.pWriter}
    BY <1>4 DEF querySharedCacheTableLock
  <2>2. b.pWriter \in Conn /\ b.inTrans[b.pWriter] = TRANS_WRITE
    BY <1>4, <1>1, BtTypes DEF BtOK, FlagsOfWriter, WriterExact
  <2> QED BY <1>4, <2>1, <2>2 DEF InTransaction, TRANS_WRITE, TRANS_NONE
<1>5. CASE ~(b.pWriter # c /\ b.exclusive)
  <2>1. querySharedCacheTableLock(b, c, t, e) = FirstOwner(b, C)
    BY <1>5 DEF querySharedCacheTableLock
  <2>2. /\ FirstOwner(b, C) = {} => C = {}
        /\ \A d \in FirstOwner(b, C) : \E k \in C : k.conn = d
    BY <1>1, FirstOwnerFacts
  <2> HIDE DEF C
  <2> QED BY <1>2, <1>3, <1>5, <2>1, <2>2
<1> QED BY <1>4, <1>5

\* The connection has the transaction that it asks for.
TransOpen(b, c, wr) == b.inTrans[c] = TRANS_WRITE \/ (b.inTrans[c] = TRANS_READ /\ wr = 0)

\* sqlite3BtreeBeginTrans() lets a transaction start when no writer is in its
\* way, and otherwise names a connection with a transaction.
LEMMA BeginFacts ==
  ASSUME NEW b, BtOK(b), NEW c \in Conn, NEW wr \in 0 .. 2
  PROVE  /\ BeginTransBlocker(b, c, wr) = {} /\ ~TransOpen(b, c, wr) =>
              /\ ~b.pending /\ ~b.exclusive
              /\ wr > 0 => b.pWriter = NoConn
              /\ wr > 1 => InTransaction(b) \subseteq {c}
              /\ \A d \in Conn : d # c => b.eLock[d][MASTER_ROOT] # WRITE_LOCK
         /\ \A d \in BeginTransBlocker(b, c, wr) : d \in InTransaction(b)
<1> DEFINE C == {k \in Range(b.pLock) : k.conn # c}
           Q == querySharedCacheTableLock(b, c, MASTER_ROOT, READ_LOCK)
<1>1. b \in BtShared /\ C \in SUBSET Range(b.pLock)
  BY DEF BtOK
<1>2. /\ FirstOwner(b, C) = {} => C = {}
      /\ \A d \in FirstOwner(b, C) : \E k \in C : k.conn = d
  BY <1>1, FirstOwnerFacts
<1>3. ASSUME NEW k \in C PROVE k.conn \in InTransaction(b)
  BY <1>3 DEF BtOK, LocksExact, InTransaction
<1>4. MASTER_ROOT \in Table /\ READ_LOCK \in {READ_LOCK, WRITE_LOCK}
  BY SharedCacheAssumption DEF MASTER_ROOT
<1>5. /\ Q = {} => /\ b.exclusive => b.pWriter = c
                   /\ \A d \in Conn : d # c => b.eLock[d][MASTER_ROOT] \in {NO_LOCK, READ_LOCK}
      /\ \A d \in Q : d \in InTransaction(b)
  BY <1>4, QueryFacts
<1>6. BeginTransBlocker(b, c, wr) =
        IF TransOpen(b, c, wr) THEN {}
        ELSE IF (wr > 0 /\ b.inTransaction = TRANS_WRITE) \/ b.pending THEN {b.pWriter}
        ELSE IF wr > 1 /\ FirstOwner(b, C) # {} THEN FirstOwner(b, C)
        ELSE Q
  BY DEF BeginTransBlocker, TransOpen
<1>7. b.inTransaction = TRANS_WRITE \/ b.pending => b.pWriter \in InTransaction(b)
  <2>1. b.inTransaction = TRANS_WRITE \/ b.pending => b.pWriter \in Conn
    BY <1>1, BtTypes DEF BtOK, WriterExact, FlagsOfWriter
  <2>2. b.pWriter \in Conn => b.inTrans[b.pWriter] = TRANS_WRITE
    BY DEF BtOK, WriterExact
  <2> QED BY <2>1, <2>2 DEF InTransaction, TRANS_WRITE, TRANS_NONE
<1>8. b.pWriter = c => TransOpen(b, c, wr)
  BY DEF BtOK, WriterExact, TransOpen
<1>9. C = {} => InTransaction(b) \subseteq {c}
  <2> SUFFICES ASSUME C = {}, NEW d \in InTransaction(b), d # c PROVE FALSE
    OBVIOUS
  <2> DEFINE k == [conn |-> d, table |-> MASTER_ROOT]
  <2>1. d \in Conn /\ b.eLock[d][MASTER_ROOT] # NO_LOCK
    BY DEF InTransaction, BtOK, LocksExact
  <2>2. k \in Range(b.pLock) /\ k.conn = d
    BY <2>1, <1>4 DEF BtOK, LocksExact
  <2> QED BY <2>2
<1>10. ASSUME BeginTransBlocker(b, c, wr) = {}, ~TransOpen(b, c, wr)
       PROVE  /\ ~b.pending /\ ~b.exclusive
              /\ wr > 0 => b.pWriter = NoConn
              /\ wr > 1 => InTransaction(b) \subseteq {c}
              /\ \A d \in Conn : d # c => b.eLock[d][MASTER_ROOT] # WRITE_LOCK
  <2> HIDE DEF C, Q
  <2>1. ~b.pending /\ (wr > 0 => b.inTransaction # TRANS_WRITE) /\ Q = {}
    BY <1>10, <1>6
  <2>2. wr > 1 => C = {}
    BY <1>10, <1>6, <1>2, <2>1
  <2>3. ~b.exclusive
    BY <1>10, <2>1, <1>5, <1>8
  <2>4. wr > 0 => b.pWriter = NoConn
    BY <2>1 DEF BtOK, WriterExact
  <2>5. \A d \in Conn : d # c => b.eLock[d][MASTER_ROOT] # WRITE_LOCK
    BY <2>1, <1>5 DEF NO_LOCK, READ_LOCK, WRITE_LOCK
  <2> QED BY <2>1, <2>2, <2>3, <2>4, <2>5, <1>9
<1>11. ASSUME NEW d \in BeginTransBlocker(b, c, wr) PROVE d \in InTransaction(b)
  <2> HIDE DEF C, Q
  <2> QED BY <1>11, <1>2, <1>3, <1>5, <1>6, <1>7
<1> QED BY <1>10, <1>11

\* A list with one more entry at its head.
LEMMA ConsFacts ==
  ASSUME NEW T, NEW s \in Seq(T), NEW x \in T
  PROVE  <<x>> \o s \in Seq(T) /\ Range(<<x>> \o s) = Range(s) \cup {x}
<1> DEFINE y == <<x>>
<1>1. y \in Seq(T) /\ Range(y) = {x}
  BY DEF Range
<1> HIDE DEF y
<1>2. y \o s \in Seq(T)
  BY <1>1
<1>3. Range(y \o s) = Range(y) \cup Range(s)
  BY <1>1, RangeConcatenation
<1> QED BY <1>1, <1>2, <1>3 DEF y

\* The locks of E, as entries of pLock.
Entries(E) == {k \in [conn: Conn, table: Table] : E[k.conn][k.table] # NO_LOCK}

\* setSharedCacheTableLock() field by field.
LockTaken(b, c, t, e, r) ==
  /\ r \in BtShared
  /\ r.inTrans = b.inTrans /\ r.pWriter = b.pWriter /\ r.nTransaction = b.nTransaction
  /\ r.inTransaction = b.inTransaction /\ r.exclusive = b.exclusive
  /\ r.pending = b.pending
  /\ r.eLock[c][t] # NO_LOCK /\ r.eLock[c][t] \in {e, b.eLock[c][t]}
  /\ e = WRITE_LOCK \/ b.eLock[c][t] = WRITE_LOCK => r.eLock[c][t] = WRITE_LOCK
  /\ \A d \in Conn, x \in Table : r.eLock[d][x] = b.eLock[d][x] \/ (d = c /\ x = t)
  /\ Range(r.pLock) = Entries(r.eLock)

\* What it leaves behind of a list that is in order.
LEMMA SetLockEffect ==
  ASSUME NEW b \in BtShared, Range(b.pLock) = Entries(b.eLock),
         NEW c \in Conn, NEW t \in Table, NEW e \in {READ_LOCK, WRITE_LOCK},
         NEW r, r = setSharedCacheTableLock(b, c, t, e)
  PROVE  LockTaken(b, c, t, e, r)
<1> USE DEF NO_LOCK, READ_LOCK, WRITE_LOCK
<1> DEFINE k == [conn |-> c, table |-> t]
           E == [b.eLock EXCEPT ![c][t] = IF e > @ THEN e ELSE @]
           L == IF b.eLock[c][t] = NO_LOCK THEN <<k>> \o b.pLock ELSE b.pLock
<1>1. /\ r = [b EXCEPT !.pLock = L, !.eLock = E]
  BY DEF setSharedCacheTableLock
<1>2. b.eLock \in [Conn -> [Table -> 0 .. 2]] /\ b.pLock \in Seq([conn: Conn, table: Table])
  BY BtTypes
<1>3. k \in [conn: Conn, table: Table] /\ k.conn = c /\ k.table = t
  OBVIOUS
<1>4. /\ E \in [Conn -> [Table -> 0 .. 2]]
      /\ E[c][t] # NO_LOCK /\ E[c][t] \in {e, b.eLock[c][t]}
      /\ e = WRITE_LOCK \/ b.eLock[c][t] = WRITE_LOCK => E[c][t] = WRITE_LOCK
      /\ \A d \in Conn, x \in Table : E[d][x] = b.eLock[d][x] \/ (d = c /\ x = t)
  BY <1>2
<1>5. L \in Seq([conn: Conn, table: Table]) /\ Range(L) = Range(b.pLock) \cup {k}
  <2>1. CASE b.eLock[c][t] = NO_LOCK
    <3> DEFINE T == [conn: Conn, table: Table]
    <3>1. k \in T /\ b.pLock \in Seq(T)
      BY <1>2, <1>3
    <3> HIDE DEF k, T
    <3>2. <<k>> \o b.pLock \in Seq(T) /\ Range(<<k>> \o b.pLock) = Range(b.pLock) \cup {k}
      BY <3>1, ConsFacts
    <3> QED BY <2>1, <3>2 DEF T
  <2>2. CASE b.eLock[c][t] # NO_LOCK
    <3>1. k \in Range(b.pLock)
      BY <2>2, <1>3 DEF Entries
    <3> QED BY <2>2, <3>1, <1>2
  <2> QED BY <2>1, <2>2
<1> HIDE DEF k, E, L
<1>6. /\ r \in BtShared /\ r.pLock = L /\ r.eLock = E
      /\ r.inTrans = b.inTrans /\ r.pWriter = b.pWriter /\ r.nTransaction = b.nTransaction
      /\ r.inTransaction = b.inTransaction /\ r.exclusive = b.exclusive /\ r.pending = b.pending
  BY <1>1, <1>2, <1>4, <1>5 DEF BtShared
<1>7. Range(L) = Entries(E)
  <2>1. ASSUME NEW x \in [conn: Conn, table: Table]
        PROVE  E[x.conn][x.table] # NO_LOCK <=> (b.eLock[x.conn][x.table] # NO_LOCK \/ x = k)
    <3>1. x.conn \in Conn /\ x.table \in Table /\ (x = k <=> x.conn = c /\ x.table = t)
      BY DEF k
    <3> QED BY <3>1, <1>4
  <2> QED BY <2>1, <1>3, <1>5 DEF Entries
<1> QED BY <1>4, <1>6, <1>7 DEF LockTaken

\* A lock that is taken by a connection with a transaction, a write lock by
\* the writer, leaves the BtShared in order.
LEMMA SetLockFacts ==
  ASSUME NEW b, BtOK(b), NEW c \in Conn, NEW t \in Table, NEW e \in {READ_LOCK, WRITE_LOCK},
         b.inTrans[c] # TRANS_NONE, e = WRITE_LOCK => b.inTrans[c] = TRANS_WRITE,
         NEW r, r = setSharedCacheTableLock(b, c, t, e)
  PROVE  /\ BtOK(r)
         /\ r.inTrans = b.inTrans /\ r.pWriter = b.pWriter
         /\ r.eLock[c][t] # NO_LOCK
         /\ e = WRITE_LOCK \/ b.eLock[c][t] = WRITE_LOCK => r.eLock[c][t] = WRITE_LOCK
         /\ \A d \in Conn, x \in Table : r.eLock[d][x] = b.eLock[d][x] \/ (d = c /\ x = t)
<1>1. b \in BtShared /\ Range(b.pLock) = Entries(b.eLock)
  BY DEF BtOK, LocksExact, Entries
<1>2. /\ r \in BtShared
      /\ r.inTrans = b.inTrans /\ r.pWriter = b.pWriter /\ r.nTransaction = b.nTransaction
      /\ r.inTransaction = b.inTransaction /\ r.exclusive = b.exclusive
      /\ r.pending = b.pending
      /\ r.eLock[c][t] # NO_LOCK /\ r.eLock[c][t] \in {e, b.eLock[c][t]}
      /\ e = WRITE_LOCK \/ b.eLock[c][t] = WRITE_LOCK => r.eLock[c][t] = WRITE_LOCK
      /\ \A d \in Conn, x \in Table : r.eLock[d][x] = b.eLock[d][x] \/ (d = c /\ x = t)
      /\ Range(r.pLock) = Entries(r.eLock)
  <2>1. LockTaken(b, c, t, e, r)
    BY <1>1, SetLockEffect
  <2> QED BY <2>1 DEF LockTaken
<1> USE DEF NO_LOCK, READ_LOCK, WRITE_LOCK
<1>3. MASTER_ROOT \in Table
  BY SharedCacheAssumption DEF MASTER_ROOT
<1>4. \A d \in Conn : r.inTrans[d] # TRANS_NONE => r.eLock[d][MASTER_ROOT] # NO_LOCK
  BY <1>2, <1>3 DEF LocksExact, BtOK
<1>5. ASSUME NEW d \in Conn, NEW x \in Table
      PROVE  /\ r.eLock[d][x] # NO_LOCK => r.inTrans[d] # TRANS_NONE
             /\ r.eLock[d][x] = WRITE_LOCK => r.inTrans[d] = TRANS_WRITE
  <2>1. CASE d = c /\ x = t
    BY <2>1, <1>2 DEF LocksExact, BtOK
  <2>2. CASE ~(d = c /\ x = t)
    BY <2>2, <1>2 DEF LocksExact, BtOK
  <2> QED BY <2>1, <2>2
<1>6. LocksExact(r)
  BY <1>2, <1>4, <1>5 DEF LocksExact, Entries
<1>7. WriterExact(r) /\ FlagsOfWriter(r)
  BY <1>2 DEF BtOK, WriterExact, FlagsOfWriter, InTransaction
<1> QED BY <1>2, <1>6, <1>7 DEF BtOK

\* The transaction a connection is let into leaves the BtShared in order.
LEMMA BeginTransFacts ==
  ASSUME NEW b, BtOK(b), NEW c \in Conn, NEW wr \in 0 .. 2,
         BeginTransBlocker(b, c, wr) = {},
         NEW r, r = sqlite3BtreeBeginTrans(b, c, wr)
  PROVE  /\ BtOK(r)
         /\ r.inTrans[c] # TRANS_NONE
         /\ \A d \in Conn : d # c => r.inTrans[d] = b.inTrans[d]
         /\ wr > 0 => r.pWriter = c /\ r.inTrans[c] = TRANS_WRITE
         /\ \A d \in Conn, x \in Table :
              \/ r.eLock[d][x] = b.eLock[d][x]
              \/ d = c /\ x = MASTER_ROOT /\ b.inTrans[c] = TRANS_NONE
         /\ r.eLock[c][MASTER_ROOT] # NO_LOCK
         /\ b.inTrans[c] = TRANS_NONE =>
              \A d \in Conn : d # c => b.eLock[d][MASTER_ROOT] # WRITE_LOCK
<1>0. MASTER_ROOT \in Table /\ IsFiniteSet(Conn) /\ NoConn \notin Conn
  BY SharedCacheAssumption DEF MASTER_ROOT
<1>1. b \in BtShared /\ Range(b.pLock) = Entries(b.eLock)
  BY DEF BtOK, LocksExact, Entries
<1>2. CASE TransOpen(b, c, wr)
  <2>1. r = b
    BY <1>2 DEF sqlite3BtreeBeginTrans, TransOpen
  <2>2. wr > 0 => b.inTrans[c] = TRANS_WRITE
    BY <1>2 DEF TransOpen
  <2>3. b.inTrans[c] # TRANS_NONE
    BY <1>2 DEF TransOpen, TRANS_NONE, TRANS_READ, TRANS_WRITE
  <2> QED BY <2>1, <2>2, <2>3 DEF BtOK, WriterExact, LocksExact
<1>3. CASE ~TransOpen(b, c, wr)
  <2> DEFINE new == b.inTrans[c] = TRANS_NONE
             kind == IF wr > 0 THEN TRANS_WRITE ELSE TRANS_READ
             b1 == IF new THEN setSharedCacheTableLock(b, c, MASTER_ROOT, READ_LOCK) ELSE b
  <2>1. /\ ~b.pending /\ ~b.exclusive
        /\ wr > 0 => b.pWriter = NoConn
        /\ wr > 1 => InTransaction(b) \subseteq {c}
        /\ \A d \in Conn : d # c => b.eLock[d][MASTER_ROOT] # WRITE_LOCK
    BY <1>3, BeginFacts
  <2>2. r = [b1 EXCEPT
            !.nTransaction = IF new THEN @ + 1 ELSE @,
            !.inTrans[c] = kind,
            !.inTransaction = IF kind > @ THEN kind ELSE @,
            !.pWriter = IF wr > 0 THEN c ELSE @,
            !.exclusive = IF wr > 0 THEN wr > 1 ELSE @]
    BY <1>3 DEF sqlite3BtreeBeginTrans, TransOpen
  <2>3. /\ b1 \in BtShared
        /\ b1.inTrans = b.inTrans /\ b1.pWriter = b.pWriter /\ b1.nTransaction = b.nTransaction
        /\ b1.inTransaction = b.inTransaction /\ b1.exclusive = b.exclusive
        /\ b1.pending = b.pending
        /\ b1.eLock[c][MASTER_ROOT] # NO_LOCK
        /\ b1.eLock[c][MASTER_ROOT] \in {READ_LOCK, b.eLock[c][MASTER_ROOT]}
        /\ \A d \in Conn, x \in Table :
             b1.eLock[d][x] = b.eLock[d][x] \/ (d = c /\ x = MASTER_ROOT /\ new)
        /\ Range(b1.pLock) = Entries(b1.eLock)
    <3>1. CASE new
      <4>1. LockTaken(b, c, MASTER_ROOT, READ_LOCK, b1)
        BY <3>1, <1>0, <1>1, SetLockEffect
      <4> QED BY <3>1, <4>1 DEF LockTaken
    <3>2. CASE ~new
      BY <3>2, <1>1 DEF BtOK, LocksExact
    <3> QED BY <3>1, <3>2
  <2> USE DEF NO_LOCK, READ_LOCK, WRITE_LOCK, TRANS_NONE, TRANS_READ, TRANS_WRITE
  <2> HIDE DEF b1
  <2>4. /\ b1.inTrans \in [Conn -> 0 .. 2] /\ b1.inTransaction \in 0 .. 2
        /\ b1.nTransaction \in 0 .. Cardinality(Conn)
        /\ b1.eLock \in [Conn -> [Table -> 0 .. 2]]
        /\ b1.pLock \in Seq([conn: Conn, table: Table])
        /\ b1.pWriter \in Conn \cup {NoConn}
        /\ b1.exclusive \in BOOLEAN /\ b1.pending \in BOOLEAN
    BY <2>3, BtTypes
  <2>5. /\ r.pLock = b1.pLock /\ r.eLock = b1.eLock /\ r.pending = b1.pending
        /\ r.nTransaction = (IF new THEN b1.nTransaction + 1 ELSE b1.nTransaction)
        /\ r.inTrans = [b1.inTrans EXCEPT ![c] = kind]
        /\ r.inTransaction = (IF kind > b1.inTransaction THEN kind ELSE b1.inTransaction)
        /\ r.pWriter = (IF wr > 0 THEN c ELSE b1.pWriter)
        /\ r.exclusive = (IF wr > 0 THEN wr > 1 ELSE b1.exclusive)
        /\ r = [pWriter |-> r.pWriter, exclusive |-> r.exclusive, pending |-> r.pending,
                nTransaction |-> r.nTransaction, inTransaction |-> r.inTransaction,
                inTrans |-> r.inTrans, eLock |-> r.eLock, pLock |-> r.pLock]
    BY <2>2, <2>3 DEF BtShared
  <2>6. /\ r.inTrans \in [Conn -> 0 .. 2] /\ r.inTrans[c] = kind
        /\ \A d \in Conn : d # c => r.inTrans[d] = b.inTrans[d]
        /\ b.inTrans \in [Conn -> 0 .. 2]
    BY <2>3, <2>4, <2>5
  <2>7. InTransaction(r) = InTransaction(b) \cup {c} /\ (new <=> c \notin InTransaction(b))
    BY <2>6 DEF InTransaction
  <2>8. r.nTransaction = Cardinality(InTransaction(r)) /\ r.nTransaction \in 0 .. Cardinality(Conn)
    <3>1. InTransaction(b) \subseteq Conn /\ InTransaction(r) \subseteq Conn
      BY DEF InTransaction
    <3>2. IsFiniteSet(InTransaction(b)) /\ IsFiniteSet(InTransaction(r))
      BY <3>1, <1>0, FS_Subset
    <3>3. Cardinality(InTransaction(r)) =
            IF new THEN Cardinality(InTransaction(b)) + 1 ELSE Cardinality(InTransaction(b))
      BY <3>2, <2>7, FS_AddElement
    <3>4. /\ Cardinality(InTransaction(r)) <= Cardinality(Conn)
          /\ Cardinality(InTransaction(r)) \in Nat /\ Cardinality(Conn) \in Nat
      BY <3>1, <3>2, <1>0, FS_Subset, FS_CardinalityType
    <3>5. r.nTransaction = Cardinality(InTransaction(r))
      BY <3>3, <2>3, <2>5 DEF BtOK, WriterExact
    <3> QED BY <3>4, <3>5
  <2>9. r \in BtShared
    <3>1. r.exclusive \in BOOLEAN /\ r.pending \in BOOLEAN
      <4>1. /\ r.exclusive = (IF wr > 0 THEN wr > 1 ELSE b1.exclusive)
            /\ b1.exclusive \in BOOLEAN
        BY <2>4, <2>5
      <4> DEFINE x == b1.exclusive
                 q == r.exclusive
      <4>2. x \in BOOLEAN /\ q = (IF wr > 0 THEN wr > 1 ELSE x)
        BY <4>1
      <4> HIDE DEF x, q
      <4>3. q = TRUE \/ q = FALSE
        BY <4>2
      <4>4. r.exclusive \in BOOLEAN
        BY <4>3 DEF q
      <4> QED BY <4>4, <2>4, <2>5
    <3>2. /\ r.pWriter \in Conn \cup {NoConn} /\ r.inTransaction \in 0 .. 2
          /\ r.eLock \in [Conn -> [Table -> 0 .. 2]]
          /\ r.pLock \in Seq([conn: Conn, table: Table])
      BY <2>4, <2>5
    <3>3. r = [pWriter |-> r.pWriter, exclusive |-> r.exclusive, pending |-> r.pending,
                nTransaction |-> r.nTransaction, inTransaction |-> r.inTransaction,
                inTrans |-> r.inTrans, eLock |-> r.eLock, pLock |-> r.pLock]
      BY <2>5
    <3> HIDE <2>5, <2>2
    <3> QED BY <3>1, <3>2, <3>3, <2>6, <2>8 DEF BtShared
  <2>10. /\ \A d \in Conn : r.inTrans[d] = TRANS_WRITE <=> r.pWriter = d
         /\ r.inTransaction = TRANS_WRITE <=> r.pWriter # NoConn
    <3>1. /\ \A d \in Conn : b.inTrans[d] = TRANS_WRITE <=> b.pWriter = d
          /\ b.inTransaction = TRANS_WRITE <=> b.pWriter # NoConn
      BY DEF BtOK, WriterExact
    <3>2. CASE wr > 0
      BY <3>1, <3>2, <2>1, <2>3, <2>4, <2>5, <2>6, <1>0
    <3>3. CASE wr = 0
      <4>1. b.inTrans[c] # TRANS_WRITE
        BY <1>3 DEF TransOpen
      <4> QED BY <3>1, <3>3, <4>1, <2>3, <2>4, <2>5, <2>6, <1>0
    <3> QED BY <3>2, <3>3
  <2>11. FlagsOfWriter(r)
    <3>1. ~r.pending
      BY <2>1, <2>3, <2>5
    <3>2. r.exclusive => wr > 1 /\ r.pWriter = c
      BY <2>1, <2>3, <2>5
    <3> QED BY <3>1, <3>2, <2>1, <2>7, <1>0 DEF FlagsOfWriter
  <2>12. LocksExact(r)
    <3>1. ASSUME NEW d \in Conn, NEW x \in Table
          PROVE  /\ r.eLock[d][x] # NO_LOCK => r.inTrans[d] # TRANS_NONE
                 /\ r.eLock[d][x] = WRITE_LOCK => r.inTrans[d] = TRANS_WRITE
      <4>1. CASE d # c
        BY <4>1, <2>3, <2>5, <2>6 DEF BtOK, LocksExact
      <4>2. CASE d = c
        <5>1. r.inTrans[c] # TRANS_NONE
          BY <2>6
        <5>2. r.eLock[c][x] # WRITE_LOCK
          <6>1. b.inTrans[c] # TRANS_WRITE
            BY <1>3 DEF TransOpen
          <6>2. b.eLock[c][x] # WRITE_LOCK
            BY <6>1 DEF BtOK, LocksExact
          <6>3. CASE x = MASTER_ROOT
            BY <6>2, <6>3, <2>3, <2>5
          <6>4. CASE x # MASTER_ROOT
            BY <6>2, <6>4, <2>3, <2>5
          <6> QED BY <6>3, <6>4
        <5> QED BY <4>2, <5>1, <5>2
      <4> QED BY <4>1, <4>2
    <3>2. ASSUME NEW d \in Conn, r.inTrans[d] # TRANS_NONE
          PROVE  r.eLock[d][MASTER_ROOT] # NO_LOCK
      <4>1. CASE d = c
        BY <4>1, <2>3, <2>5
      <4>2. CASE d # c
        BY <4>2, <3>2, <2>3, <2>5, <2>6, <1>0 DEF BtOK, LocksExact
      <4> QED BY <4>1, <4>2
    <3> QED BY <3>1, <3>2, <2>3, <2>5 DEF LocksExact, Entries
  <2>13. BtOK(r)
    BY <2>8, <2>9, <2>10, <2>11, <2>12 DEF BtOK, WriterExact
  <2>14. r.inTrans[c] # TRANS_NONE /\ (wr > 0 => r.pWriter = c /\ r.inTrans[c] = TRANS_WRITE)
    BY <2>5, <2>6
  <2> QED BY <2>1, <2>3, <2>5, <2>6, <2>13, <2>14
<1> QED BY <1>2, <1>3

\* The writer that waits for another connection's lock sets BTS_PENDING.
LEMMA PendingFacts ==
  ASSUME NEW b, BtOK(b), b.pWriter \in Conn,
         NEW d \in InTransaction(b), d # b.pWriter,
         NEW r, r = [b EXCEPT !.pending = TRUE]
  PROVE  BtOK(r) /\ r.inTrans = b.inTrans /\ r.eLock = b.eLock /\ r.pWriter = b.pWriter
<1>1. b \in BtShared /\ NoConn \notin Conn
  BY SharedCacheAssumption DEF BtOK
<1>2. /\ r \in BtShared /\ r.pLock = b.pLock /\ r.eLock = b.eLock
      /\ r.inTrans = b.inTrans /\ r.pWriter = b.pWriter /\ r.nTransaction = b.nTransaction
      /\ r.inTransaction = b.inTransaction /\ r.exclusive = b.exclusive
  BY <1>1 DEF BtShared
<1>3. InTransaction(r) = InTransaction(b)
  BY <1>2 DEF InTransaction
<1>4. FlagsOfWriter(r)
  BY <1>1, <1>2, <1>3 DEF BtOK, FlagsOfWriter
<1>5. LocksExact(r) /\ WriterExact(r)
  BY <1>2, <1>3 DEF BtOK, LocksExact, WriterExact
<1> QED BY <1>2, <1>4, <1>5 DEF BtOK

\* What the end of a transaction, or of the part of it that writes, leaves.
Concluded(b, c, r) ==
  /\ BtOK(r)
  /\ \A d \in Conn : d # c => r.inTrans[d] = b.inTrans[d]
  /\ b.inTrans[c] = TRANS_NONE => r.inTrans[c] = TRANS_NONE
  /\ \A d \in Conn, t \in Table : d # c => r.eLock[d][t] = b.eLock[d][t]
  /\ r.inTrans[c] # TRANS_NONE =>
       \A t \in Table : b.eLock[c][t] # NO_LOCK => r.eLock[c][t] # NO_LOCK

\* A record with the fields of a BtShared.
IsBt(r) ==
  r = [pWriter |-> r.pWriter, exclusive |-> r.exclusive, pending |-> r.pending,
       nTransaction |-> r.nTransaction, inTransaction |-> r.inTransaction,
       inTrans |-> r.inTrans, eLock |-> r.eLock, pLock |-> r.pLock]

\* It is a BtShared if its fields have their types.
LEMMA BtIntro ==
  ASSUME NEW r, IsBt(r),
         r.pWriter \in Conn \cup {NoConn}, r.exclusive \in BOOLEAN, r.pending \in BOOLEAN,
         r.nTransaction \in 0 .. Cardinality(Conn), r.inTransaction \in 0 .. 2,
         r.inTrans \in [Conn -> 0 .. 2], r.eLock \in [Conn -> [Table -> 0 .. 2]],
         r.pLock \in Seq([conn: Conn, table: Table])
  PROVE  r \in BtShared
  BY DEF IsBt, BtShared, TRANS_NONE, TRANS_WRITE, NO_LOCK, WRITE_LOCK

\* What downgradeAllSharedCacheTableLocks() and the end of a transaction that
\* goes on reading leave in each field.
Downgraded(b, c, r) ==
  /\ IsBt(r)
  /\ r.inTransaction = TRANS_READ /\ r.pWriter = NoConn
  /\ r.exclusive = FALSE /\ r.pending = FALSE
  /\ r.eLock = [d \in Conn |-> [t \in Table |->
                 IF b.eLock[d][t] = NO_LOCK THEN NO_LOCK ELSE READ_LOCK]]
  /\ r.inTrans = [b.inTrans EXCEPT ![c] = TRANS_READ]
  /\ r.nTransaction = b.nTransaction /\ r.pLock = b.pLock

\* Other statements of c still read: the write locks become read locks.
LEMMA DowngradeFacts ==
  ASSUME NEW b, BtOK(b), NEW c \in Conn, b.pWriter = c, NEW r, Downgraded(b, c, r)
  PROVE  Concluded(b, c, r)
<1> USE DEF NO_LOCK, READ_LOCK, WRITE_LOCK, TRANS_NONE, TRANS_READ, TRANS_WRITE
<1>0. MASTER_ROOT \in Table /\ IsFiniteSet(Conn) /\ NoConn \notin Conn
  BY SharedCacheAssumption DEF MASTER_ROOT
<1> DEFINE E == [d \in Conn |-> [t \in Table |->
                   IF b.eLock[d][t] = NO_LOCK THEN NO_LOCK ELSE READ_LOCK]]
<1>1. /\ b \in BtShared
      /\ b.inTrans \in [Conn -> 0 .. 2]
      /\ b.eLock \in [Conn -> [Table -> 0 .. 2]]
      /\ b.inTrans[c] = TRANS_WRITE
  BY BtTypes DEF BtOK, WriterExact
<1>3. /\ E \in [Conn -> [Table -> 0 .. 2]]
      /\ \A d \in Conn, t \in Table : /\ E[d][t] # NO_LOCK <=> b.eLock[d][t] # NO_LOCK
                                      /\ E[d][t] # WRITE_LOCK
  BY <1>1
<1> HIDE DEF E
<1>4. /\ r \in BtShared /\ r.pLock = b.pLock /\ r.eLock = E
      /\ r.inTrans = [b.inTrans EXCEPT ![c] = TRANS_READ] /\ r.pWriter = NoConn
      /\ r.nTransaction = b.nTransaction
      /\ r.inTransaction = TRANS_READ /\ r.exclusive = FALSE /\ r.pending = FALSE
  <2>1. /\ r.pLock = b.pLock /\ r.eLock = E /\ IsBt(r)
        /\ r.inTrans = [b.inTrans EXCEPT ![c] = TRANS_READ] /\ r.pWriter = NoConn
        /\ r.nTransaction = b.nTransaction
        /\ r.inTransaction = TRANS_READ /\ r.exclusive = FALSE /\ r.pending = FALSE
    BY DEF Downgraded, E
  <2>2. /\ b.nTransaction \in 0 .. Cardinality(Conn)
        /\ b.pLock \in Seq([conn: Conn, table: Table])
    BY <1>1, BtTypes
  <2>3. r.inTrans \in [Conn -> 0 .. 2] /\ r.inTransaction \in 0 .. 2
    BY <1>1, <2>1
  <2>4. r \in BtShared
    BY <1>3, <2>1, <2>2, <2>3, BtIntro
  <2> QED BY <2>1, <2>4
<1>5. \A d \in Conn : r.inTrans[d] = IF d = c THEN TRANS_READ ELSE b.inTrans[d]
  BY <1>1, <1>4
<1>6. InTransaction(r) = InTransaction(b)
  BY <1>1, <1>5 DEF InTransaction
<1>7. FlagsOfWriter(r)
  BY <1>4 DEF FlagsOfWriter
<1>8. WriterExact(r)
  <2>1. \A d \in Conn : r.inTrans[d] # TRANS_WRITE
    BY <1>5 DEF BtOK, WriterExact
  <2> QED BY <2>1, <1>0, <1>4, <1>6 DEF BtOK, WriterExact
<1>9. LocksExact(r)
  <2>1. Entries(E) = Entries(b.eLock)
    BY <1>3 DEF Entries
  <2>2. Range(r.pLock) = Entries(r.eLock)
    BY <2>1, <1>4 DEF BtOK, LocksExact, Entries
  <2>3. \A d \in Conn, t \in Table : r.eLock[d][t] # NO_LOCK => r.inTrans[d] # TRANS_NONE
    BY <1>3, <1>4, <1>5 DEF BtOK, LocksExact
  <2>4. \A d \in Conn : r.inTrans[d] # TRANS_NONE => r.eLock[d][MASTER_ROOT] # NO_LOCK
    BY <1>0, <1>1, <1>3, <1>4, <1>5 DEF BtOK, LocksExact
  <2> QED BY <2>2, <2>3, <2>4, <1>3, <1>4 DEF LocksExact, Entries
<1>10. \A d \in Conn, t \in Table : d # c => r.eLock[d][t] = b.eLock[d][t]
  <2> SUFFICES ASSUME NEW d \in Conn, NEW t \in Table, d # c
               PROVE  r.eLock[d][t] = b.eLock[d][t]
    OBVIOUS
  <2>1. b.eLock[d][t] # WRITE_LOCK
    BY DEF BtOK, LocksExact, WriterExact
  <2> QED BY <2>1, <1>1, <1>4 DEF E
<1> QED BY <1>1, <1>3, <1>4, <1>5, <1>7, <1>8, <1>9, <1>10 DEF Concluded, BtOK

\* What clearAllSharedCacheTableLocks() and the end of a transaction leave.
Ended(b, c, r) ==
  /\ IsBt(r)
  /\ r.eLock = [b.eLock EXCEPT ![c] = [t \in Table |-> NO_LOCK]]
  /\ r.pLock = Kept(b.pLock, [conn: Conn \ {c}, table: Table])
  /\ r.pWriter = (IF b.pWriter = c THEN NoConn ELSE b.pWriter)
  /\ r.exclusive = (IF b.pWriter = c THEN FALSE ELSE b.exclusive)
  /\ r.pending = (IF b.pWriter = c \/ b.nTransaction = 2 THEN FALSE ELSE b.pending)
  /\ r.nTransaction = b.nTransaction - 1
  /\ r.inTransaction = (IF b.nTransaction = 1 THEN TRANS_NONE
                        ELSE IF b.inTrans[c] = TRANS_WRITE THEN TRANS_READ
                        ELSE b.inTransaction)
  /\ r.inTrans = [b.inTrans EXCEPT ![c] = TRANS_NONE]

\* The transaction of c ends and its locks go.
LEMMA EndTransFacts ==
  ASSUME NEW b, BtOK(b), NEW c \in Conn, b.inTrans[c] # TRANS_NONE,
         NEW r, Ended(b, c, r)
  PROVE  Concluded(b, c, r)
<1> USE DEF NO_LOCK, READ_LOCK, WRITE_LOCK, TRANS_NONE, TRANS_READ, TRANS_WRITE
<1>0. MASTER_ROOT \in Table /\ IsFiniteSet(Conn) /\ NoConn \notin Conn
  BY SharedCacheAssumption DEF MASTER_ROOT
<1> DEFINE E == [b.eLock EXCEPT ![c] = [t \in Table |-> NO_LOCK]]
           T == [conn: Conn, table: Table]
           L == Kept(b.pLock, [conn: Conn \ {c}, table: Table])
           m == IF b.inTrans[c] = TRANS_WRITE THEN TRANS_READ ELSE b.inTransaction
           p == IF b.pWriter = c \/ b.nTransaction = 2 THEN FALSE ELSE b.pending
           x == IF b.pWriter = c THEN FALSE ELSE b.exclusive
<1>1. /\ b \in BtShared
      /\ b.pWriter \in Conn \cup {NoConn} /\ b.inTransaction \in 0 .. 2
      /\ b.inTrans \in [Conn -> 0 .. 2]
      /\ b.eLock \in [Conn -> [Table -> 0 .. 2]]
      /\ b.nTransaction \in 0 .. Cardinality(Conn)
      /\ b.pLock \in Seq(T)
      /\ b.pending \in BOOLEAN /\ b.exclusive \in BOOLEAN
  BY BtTypes DEF BtOK
<1>3. /\ E \in [Conn -> [Table -> 0 .. 2]]
      /\ \A t \in Table : E[c][t] = NO_LOCK
      /\ \A d \in Conn, t \in Table : d # c => E[d][t] = b.eLock[d][t]
  BY <1>1
<1>4. L \in Seq(T) /\ Range(L) = Range(b.pLock) \cap [conn: Conn \ {c}, table: Table]
  <2> DEFINE S == [conn: Conn \ {c}, table: Table]
  <2>1. b.pLock \in Seq(T)
    BY <1>1
  <2> HIDE DEF S, T
  <2>2. Kept(b.pLock, S) \in Seq(T) /\ Range(Kept(b.pLock, S)) = Range(b.pLock) \cap S
    BY <2>1, KeptFacts, Zenon
  <2> QED BY <2>2 DEF S
<1>5. p \in BOOLEAN /\ x \in BOOLEAN /\ m \in 0 .. 2
  <2>1. p \in BOOLEAN /\ x \in BOOLEAN
    BY <1>1, Zenon
  <2>2. m \in 0 .. 2
    BY <1>1
  <2> QED BY <2>1, <2>2
<1>6. /\ InTransaction(b) \subseteq Conn /\ c \in InTransaction(b)
      /\ IsFiniteSet(InTransaction(b))
      /\ b.nTransaction = Cardinality(InTransaction(b))
  <2>1. InTransaction(b) \subseteq Conn /\ c \in InTransaction(b)
    BY DEF InTransaction
  <2>2. IsFiniteSet(InTransaction(b))
    BY <2>1, <1>0, FS_Subset
  <2> QED BY <2>1, <2>2 DEF BtOK, WriterExact
<1>7. b.nTransaction >= 1
  <2>1. b.nTransaction # 0
    BY <1>6, FS_EmptySet
  <2> QED BY <2>1, <1>1
<1> HIDE DEF E, L, m, p, x
<1>8. /\ r.pLock = L /\ r.eLock = E
      /\ r.inTrans = [b.inTrans EXCEPT ![c] = TRANS_NONE]
      /\ r.pWriter = (IF b.pWriter = c THEN NoConn ELSE b.pWriter)
      /\ r.nTransaction = b.nTransaction - 1
      /\ r.inTransaction = (IF b.nTransaction = 1 THEN TRANS_NONE ELSE m)
      /\ r.exclusive = x /\ r.pending = p
  BY DEF Ended, E, L, m, x, p
<1>9. r \in BtShared
  <2>1. /\ r.inTrans \in [Conn -> 0 .. 2] /\ r.pWriter \in Conn \cup {NoConn}
        /\ r.nTransaction \in 0 .. Cardinality(Conn) /\ r.inTransaction \in 0 .. 2
    <3>1. Cardinality(Conn) \in Nat
      BY <1>0, FS_CardinalityType
    <3> QED BY <3>1, <1>1, <1>5, <1>7, <1>8
  <2>2. IsBt(r)
    BY DEF Ended
  <2>3. r.pLock \in Seq([conn: Conn, table: Table]) /\ r.eLock \in [Conn -> [Table -> 0 .. 2]]
        /\ r.exclusive \in BOOLEAN /\ r.pending \in BOOLEAN
    BY <1>3, <1>4, <1>5, <1>8
  <2> QED BY <2>1, <2>2, <2>3, BtIntro
<1>10. \A d \in Conn : r.inTrans[d] = IF d = c THEN TRANS_NONE ELSE b.inTrans[d]
  BY <1>1, <1>8
<1>11. InTransaction(r) = InTransaction(b) \ {c}
  BY <1>1, <1>10 DEF InTransaction
<1>12. r.nTransaction = Cardinality(InTransaction(r))
  BY <1>6, <1>8, <1>11, FS_RemoveElement
<1>13. b.nTransaction = 1 => InTransaction(b) = {c}
  <2>1. b.nTransaction = 1 => \E y : InTransaction(b) = {y}
    BY <1>6, FS_Singleton
  <2> QED BY <2>1, <1>6
<1>14. b.nTransaction # 2 /\ b.pWriter \in InTransaction(b) /\ b.pWriter # c =>
         \E d \in InTransaction(b) : d # c /\ d # b.pWriter
  <2> SUFFICES ASSUME b.pWriter \in InTransaction(b), b.pWriter # c,
                      \A d \in InTransaction(b) : d = c \/ d = b.pWriter
               PROVE  b.nTransaction = 2
    OBVIOUS
  <2> DEFINE w == b.pWriter
  <2>1. InTransaction(b) = {c} \cup {w} /\ w # c
    BY <1>6
  <2> HIDE DEF w
  <2>2. IsFiniteSet({c}) /\ Cardinality({c}) = 1
    BY FS_Singleton
  <2>3. Cardinality({c} \cup {w}) = 2
    <3> DEFINE C == {c}
    <3>1. IsFiniteSet(C) /\ Cardinality(C) = 1 /\ w \notin C
      BY <2>1, <2>2
    <3> HIDE DEF C
    <3>2. Cardinality(C \cup {w}) = IF w \in C THEN Cardinality(C) ELSE Cardinality(C) + 1
      BY <3>1, FS_AddElement, Zenon
    <3>3. Cardinality(C \cup {w}) = 2
      BY <3>1, <3>2
    <3> QED BY <3>3 DEF C
  <2> QED BY <2>1, <2>3, <1>6
<1>15. /\ \A d \in Conn : b.inTrans[d] = TRANS_WRITE <=> b.pWriter = d
       /\ b.inTransaction = TRANS_WRITE <=> b.pWriter # NoConn
  BY DEF BtOK, WriterExact
<1>16. WriterExact(r)
  <2>1. \A d \in Conn : r.inTrans[d] = TRANS_WRITE <=> r.pWriter = d
    BY <1>0, <1>8, <1>10, <1>15
  <2>2. r.inTransaction = TRANS_WRITE <=> r.pWriter # NoConn
    <3>1. CASE b.nTransaction = 1
      <4>1. b.pWriter # NoConn => b.pWriter = c
        BY <3>1, <1>1, <1>13, <1>15 DEF InTransaction
      <4> QED BY <3>1, <4>1, <1>0, <1>8
    <3>2. CASE b.nTransaction # 1 /\ b.pWriter = c
      BY <3>2, <1>8, <1>15 DEF m
    <3>3. CASE b.nTransaction # 1 /\ b.pWriter # c
      BY <3>3, <1>8, <1>15 DEF m
    <3> QED BY <3>1, <3>2, <3>3
  <2> QED BY <2>1, <2>2, <1>12 DEF WriterExact
<1>17. FlagsOfWriter(r)
  <2>1. b.pWriter # NoConn => b.pWriter \in InTransaction(b)
    BY <1>1, <1>15 DEF InTransaction
  <2>2. ASSUME r.exclusive
        PROVE  r.pWriter # NoConn /\ InTransaction(r) \subseteq {r.pWriter}
    BY <2>2, <1>8, <1>11 DEF x, BtOK, FlagsOfWriter
  <2>3. ASSUME r.pending
        PROVE  r.pWriter # NoConn /\ \E d \in InTransaction(r) : d # r.pWriter
    <3>1. b.pWriter # c /\ b.nTransaction # 2 /\ b.pending
      BY <2>3, <1>8 DEF p
    <3>2. b.pWriter # NoConn
      BY <3>1 DEF BtOK, FlagsOfWriter
    <3>3. PICK d \in InTransaction(b) : d # c /\ d # b.pWriter
      BY <3>1, <3>2, <2>1, <1>14
    <3> QED BY <3>1, <3>2, <3>3, <1>8, <1>11
  <2> QED BY <2>2, <2>3 DEF FlagsOfWriter
<1>18. LocksExact(r)
  <2>1. Range(b.pLock) = Entries(b.eLock)
    BY DEF BtOK, LocksExact, Entries
  <2>2. Range(r.pLock) = Entries(r.eLock)
    <3>1. ASSUME NEW k \in T PROVE k \in Range(L) <=> E[k.conn][k.table] # NO_LOCK
      <4>1. k.conn \in Conn /\ k.table \in Table
            /\ (k \in [conn: Conn \ {c}, table: Table] <=> k.conn # c)
        OBVIOUS
      <4> QED BY <4>1, <2>1, <1>3, <1>4 DEF Entries
    <3>2. Range(L) \subseteq T
      BY <1>4
    <3> QED BY <3>1, <3>2, <1>8 DEF Entries
  <2>3. ASSUME NEW d \in Conn, NEW t \in Table
        PROVE  /\ r.eLock[d][t] # NO_LOCK => r.inTrans[d] # TRANS_NONE
               /\ r.eLock[d][t] = WRITE_LOCK => r.inTrans[d] = TRANS_WRITE
    BY <1>3, <1>8, <1>10 DEF BtOK, LocksExact
  <2>4. \A d \in Conn : r.inTrans[d] # TRANS_NONE => r.eLock[d][MASTER_ROOT] # NO_LOCK
    BY <1>0, <1>3, <1>8, <1>10 DEF BtOK, LocksExact
  <2> QED BY <2>2, <2>3, <2>4 DEF LocksExact, Entries
<1> QED BY <1>3, <1>8, <1>9, <1>10, <1>16, <1>17, <1>18 DEF Concluded, BtOK

\* COMMIT and ROLLBACK, in either case.
LEMMA ConcludeFacts ==
  ASSUME NEW b, BtOK(b), NEW c \in Conn, NEW others \in BOOLEAN
  PROVE  Concluded(b, c, ConcludeTrans(b, c, others))
<1> DEFINE b0 == [b EXCEPT !.inTransaction = IF b.inTrans[c] = TRANS_WRITE THEN TRANS_READ ELSE @]
           r == btreeEndTransaction(b0, c, others)
<1>0. ConcludeTrans(b, c, others) = r
  BY DEF ConcludeTrans
<1>1. b \in BtShared /\ b.inTrans \in [Conn -> 0 .. 2]
  BY BtTypes DEF BtOK
<1>2. /\ b0.inTrans = b.inTrans /\ b0.pWriter = b.pWriter /\ b0.nTransaction = b.nTransaction
      /\ b0.eLock = b.eLock /\ b0.pLock = b.pLock
      /\ b0.exclusive = b.exclusive /\ b0.pending = b.pending
      /\ b0.inTransaction = IF b.inTrans[c] = TRANS_WRITE THEN TRANS_READ ELSE b.inTransaction
  BY <1>1 DEF BtShared
<1>b. IsBt(b0)
  <2> DEFINE m == IF b.inTrans[c] = TRANS_WRITE THEN TRANS_READ ELSE b.inTransaction
  <2>1. b0 = [b EXCEPT !.inTransaction = m]
    OBVIOUS
  <2>2. IsBt(b)
    BY <1>1 DEF BtShared, IsBt
  <2> HIDE DEF b0, m
  <2> QED BY <2>1, <2>2 DEF IsBt
<1>3. b.inTrans[c] # TRANS_WRITE => b0 = b
  BY <1>1 DEF BtShared
<1> USE DEF TRANS_NONE, TRANS_READ, TRANS_WRITE
<1>4. CASE b.inTrans[c] = TRANS_NONE
  <2>1. r = b
    BY <1>3, <1>4 DEF btreeEndTransaction
  <2> QED BY <1>0, <1>4, <2>1 DEF Concluded
<1>5. CASE b.inTrans[c] = TRANS_READ /\ others
  <2>1. b.pWriter # c /\ b0 = b
    BY <1>3, <1>5 DEF BtOK, WriterExact
  <2>2. downgradeAllSharedCacheTableLocks(b0, c) = b
    BY <2>1 DEF downgradeAllSharedCacheTableLocks
  <2>3. r = [b EXCEPT !.inTrans[c] = TRANS_READ]
    BY <1>5, <2>1, <2>2 DEF btreeEndTransaction
  <2>4. r = b
    <3> HIDE DEF r
    <3> QED BY <1>1, <1>5, <2>3 DEF BtShared
  <2> QED BY <1>0, <2>4 DEF Concluded
<1>6. CASE b.inTrans[c] = TRANS_WRITE /\ others
  <2>1. b.pWriter = c
    BY <1>6 DEF BtOK, WriterExact
  <2> DEFINE d == downgradeAllSharedCacheTableLocks(b0, c)
  <2>2. r = [d EXCEPT !.inTrans[c] = TRANS_READ]
    BY <1>2, <1>6 DEF btreeEndTransaction
  <2>3. d = [b0 EXCEPT
               !.pWriter = NoConn, !.exclusive = FALSE, !.pending = FALSE,
               !.eLock = [a \in Conn |-> [t \in Table |->
                     IF b0.eLock[a][t] = NO_LOCK THEN NO_LOCK ELSE READ_LOCK]]]
    BY <2>1, <1>2 DEF downgradeAllSharedCacheTableLocks
  <2> HIDE DEF b0, r, d
  <2>4. /\ IsBt(d) /\ d.pWriter = NoConn /\ d.exclusive = FALSE /\ d.pending = FALSE
        /\ d.inTransaction = b0.inTransaction /\ d.inTrans = b0.inTrans
        /\ d.nTransaction = b0.nTransaction /\ d.pLock = b0.pLock
        /\ d.eLock = [a \in Conn |-> [t \in Table |->
                     IF b0.eLock[a][t] = NO_LOCK THEN NO_LOCK ELSE READ_LOCK]]
    BY <1>b, <2>3 DEF IsBt
  <2>5. /\ IsBt(r) /\ r.pWriter = d.pWriter /\ r.exclusive = d.exclusive /\ r.pending = d.pending
        /\ r.inTransaction = d.inTransaction /\ r.inTrans = [d.inTrans EXCEPT ![c] = TRANS_READ]
        /\ r.nTransaction = d.nTransaction /\ r.pLock = d.pLock /\ r.eLock = d.eLock
    BY <2>2, <2>4 DEF IsBt
  <2>6. Downgraded(b, c, r)
    BY <2>4, <2>5, <1>2, <1>6 DEF Downgraded
  <2> QED BY <1>0, <2>1, <2>6, DowngradeFacts
<1>7. CASE b.inTrans[c] # TRANS_NONE /\ ~others
  <2> DEFINE d == clearAllSharedCacheTableLocks(b0, c)
  <2>1. r = [d EXCEPT !.nTransaction = @ - 1,
                      !.inTransaction = IF d.nTransaction = 1 THEN TRANS_NONE ELSE @,
                      !.inTrans[c] = TRANS_NONE]
    BY <1>2, <1>7 DEF btreeEndTransaction
  <2>2. d = [b0 EXCEPT
              !.eLock[c] = [t \in Table |-> NO_LOCK],
              !.pLock = Kept(b0.pLock, [conn: Conn \ {c}, table: Table]),
              !.pWriter = IF b0.pWriter = c THEN NoConn ELSE b0.pWriter,
              !.exclusive = IF b0.pWriter = c THEN FALSE ELSE b0.exclusive,
              !.pending = IF b0.pWriter = c \/ b0.nTransaction = 2 THEN FALSE ELSE b0.pending]
    BY DEF clearAllSharedCacheTableLocks
  <2> HIDE DEF b0, r, d
  <2>3. /\ IsBt(d)
        /\ d.eLock = [b0.eLock EXCEPT ![c] = [t \in Table |-> NO_LOCK]]
        /\ d.pLock = Kept(b0.pLock, [conn: Conn \ {c}, table: Table])
        /\ d.pWriter = (IF b0.pWriter = c THEN NoConn ELSE b0.pWriter)
        /\ d.exclusive = (IF b0.pWriter = c THEN FALSE ELSE b0.exclusive)
        /\ d.pending = (IF b0.pWriter = c \/ b0.nTransaction = 2 THEN FALSE ELSE b0.pending)
        /\ d.nTransaction = b0.nTransaction /\ d.inTransaction = b0.inTransaction
        /\ d.inTrans = b0.inTrans
    BY <1>b, <2>2 DEF IsBt
  <2>4. /\ IsBt(r) /\ r.eLock = d.eLock /\ r.pLock = d.pLock /\ r.pWriter = d.pWriter
        /\ r.exclusive = d.exclusive /\ r.pending = d.pending
        /\ r.nTransaction = d.nTransaction - 1
        /\ r.inTransaction = (IF d.nTransaction = 1 THEN TRANS_NONE ELSE d.inTransaction)
        /\ r.inTrans = [d.inTrans EXCEPT ![c] = TRANS_NONE]
    BY <2>1, <2>3 DEF IsBt
  <2>5. Ended(b, c, r)
    BY <2>3, <2>4, <1>2 DEF Ended
  <2> QED BY <1>0, <1>7, <2>5, EndTransFacts
<1> QED BY <1>1, <1>4, <1>5, <1>6, <1>7

(***************************************************************************)
(* Unlock-notify.                                                          *)
(***************************************************************************)

\* The fields of the unlock-notify state have their types.
LEMMA UnTypes ==
  ASSUME NEW u \in Notify
  PROVE  /\ u.blocking \in [Conn -> Conn \cup {NoConn}]
         /\ u.unlock \in [Conn -> Conn \cup {NoConn}]
         /\ u.list \in Seq(Conn)
         /\ u = [blocking |-> u.blocking, unlock |-> u.unlock, list |-> u.list]
  BY DEF Notify

\* Fewer waits close no cycle.
LEMMA AcyclicShrinks ==
  ASSUME NEW u, Acyclic(u), NEW r,
         \A p \in Conn : r.unlock[p] = u.unlock[p] \/ r.unlock[p] = NoConn
  PROVE  Acyclic(r)
<1> SUFFICES ASSUME NEW c \in Conn, r.unlock[c] # NoConn
             PROVE  ~WaitsFor(r, r.unlock[c], c)
  BY DEF Acyclic
<1>1. r.unlock[c] = u.unlock[c]
  OBVIOUS
<1>2. ~WaitsFor(u, u.unlock[c], c)
  BY <1>1 DEF Acyclic
<1>3. PICK S \in SUBSET Conn : /\ u.unlock[c] \in S /\ c \notin S
                               /\ \A p \in S : u.unlock[p] \in S \cup {NoConn}
  BY <1>2 DEF WaitsFor
<1>4. \A p \in S : r.unlock[p] \in S \cup {NoConn}
  BY <1>3
<1> QED BY <1>1, <1>3, <1>4 DEF WaitsFor

\* A wait for a connection that does not wait for c closes no cycle: this is
\* the test that sqlite3_unlock_notify() makes.
LEMMA AcyclicGrows ==
  ASSUME NEW u, Acyclic(u), NEW c \in Conn, NEW d \in Conn, ~WaitsFor(u, d, c), NEW r,
         r.unlock[c] = d, \A p \in Conn : p # c => r.unlock[p] = u.unlock[p]
  PROVE  Acyclic(r)
<1>1. PICK D \in SUBSET Conn : /\ d \in D /\ c \notin D
                               /\ \A p \in D : u.unlock[p] \in D \cup {NoConn}
  BY DEF WaitsFor
<1>2. \A p \in D : r.unlock[p] \in D \cup {NoConn}
  BY <1>1
<1> SUFFICES ASSUME NEW x \in Conn, r.unlock[x] # NoConn
             PROVE  ~WaitsFor(r, r.unlock[x], x)
  BY DEF Acyclic
<1>3. CASE x = c
  BY <1>1, <1>2, <1>3 DEF WaitsFor
<1>4. CASE x # c
  <2>1. r.unlock[x] = u.unlock[x] /\ ~WaitsFor(u, u.unlock[x], x)
    BY <1>4 DEF Acyclic
  <2>2. PICK S \in SUBSET Conn : /\ u.unlock[x] \in S /\ x \notin S
                                 /\ \A p \in S : u.unlock[p] \in S \cup {NoConn}
    BY <2>1 DEF WaitsFor
  <2>3. CASE x \in D
    <3>1. u.unlock[x] \in D \cap S
      BY <2>1, <2>2, <2>3, <1>1
    <3>2. \A p \in D \cap S : r.unlock[p] \in (D \cap S) \cup {NoConn}
      BY <2>2, <1>1
    <3> QED BY <3>1, <3>2, <2>1, <2>2 DEF WaitsFor
  <2>4. CASE x \notin D
    <3>1. \A p \in D \cup S : r.unlock[p] \in (D \cup S) \cup {NoConn}
      BY <2>2, <1>1, <1>2
    <3> QED BY <3>1, <2>1, <2>2, <2>4 DEF WaitsFor
  <2> QED BY <2>3, <2>4
<1> QED BY <1>3, <1>4

\* A connection leaves the blocked list.
LEMMA RemoveFacts ==
  ASSUME NEW u \in Notify, NEW c \in Conn, NEW r, r = removeFromBlockedList(u, c)
  PROVE  /\ r \in Notify /\ r.blocking = u.blocking /\ r.unlock = u.unlock
         /\ Range(r.list) = Range(u.list) \ {c}
         /\ IsInjective(u.list) => IsInjective(r.list)
<1> DEFINE L == Kept(u.list, Conn \ {c})
<1>1. u.list \in Seq(Conn) /\ Range(u.list) \subseteq Conn
  BY UnTypes DEF Range
<1>2. /\ L \in Seq(Conn) /\ Range(L) = Range(u.list) \cap (Conn \ {c})
      /\ IsInjective(u.list) => IsInjective(L)
  BY <1>1, KeptFacts, Zenon
<1>3. r = [u EXCEPT !.list = L]
  BY DEF removeFromBlockedList
<1> HIDE DEF L
<1>4. r \in Notify /\ r.blocking = u.blocking /\ r.unlock = u.unlock /\ r.list = L
  BY <1>2, <1>3 DEF Notify
<1> QED BY <1>1, <1>2, <1>4

\* A connection that is not on the blocked list is put there.
LEMMA AddFacts ==
  ASSUME NEW u \in Notify, NEW c \in Conn, NEW r, r = addToBlockedList(u, c)
  PROVE  /\ r \in Notify /\ r.blocking = u.blocking /\ r.unlock = u.unlock
         /\ Range(r.list) = Range(u.list) \cup {c}
         /\ IsInjective(u.list) /\ c \notin Range(u.list) => IsInjective(r.list)
<1> DEFINE I == {i \in DOMAIN u.list : HasCallback(u, u.list[i]) = HasCallback(u, c)}
           i == IF I = {} THEN Len(u.list) + 1 ELSE Min(I)
           L == InsertAt(u.list, i, c)
<1>1. u.list \in Seq(Conn)
  BY UnTypes
<1>2. Len(u.list) \in Nat /\ I \in SUBSET (1 .. Len(u.list))
  BY <1>1
<1>3. r = [u EXCEPT !.list = L]
  BY DEF addToBlockedList
<1> HIDE DEF I
<1>4. i \in 1 .. Len(u.list) + 1
  <2>1. CASE I = {}
    BY <2>1, <1>2
  <2>2. CASE I # {}
    <3>1. Min(I) \in I
      <4>1. I \in SUBSET (0 .. Len(u.list))
        BY <1>2
      <4> QED BY <4>1, <1>2, <2>2, MinFacts
    <3>2. Min(I) \in 1 .. Len(u.list)
      BY <3>1, <1>2
    <3>3. i = Min(I)
      BY <2>2
    <3> HIDE DEF i
    <3> QED BY <3>2, <3>3, <1>2
  <2> QED BY <2>1, <2>2
<1> HIDE DEF i
<1>5. /\ L \in Seq(Conn) /\ Range(L) = Range(u.list) \cup {c}
      /\ IsInjective(u.list) /\ c \notin Range(u.list) => IsInjective(L)
  BY <1>1, <1>4, InsertFacts
<1> HIDE DEF L
<1>6. r \in Notify /\ r.blocking = u.blocking /\ r.unlock = u.unlock /\ r.list = L
  BY <1>3, <1>5 DEF Notify
<1> QED BY <1>5, <1>6

\* The list is in order again once c is on it for what has been recorded of c.
LEMMA ListExactFacts ==
  ASSUME NEW u, ListExact(u), NEW c \in Conn, NEW r, IsInjective(r.list),
         \A p \in Conn : p # c => r.blocking[p] = u.blocking[p] /\ r.unlock[p] = u.unlock[p]
  PROVE  /\ (r.blocking[c] # NoConn \/ r.unlock[c] # NoConn)
              /\ Range(r.list) = Range(u.list) \cup {c} => ListExact(r)
         /\ r.blocking[c] = NoConn /\ r.unlock[c] = NoConn
              /\ Range(r.list) = Range(u.list) \ {c} => ListExact(r)
<1>1. Range(u.list) = Blocked(u)
  BY DEF ListExact
<1>2. ASSUME r.blocking[c] # NoConn \/ r.unlock[c] # NoConn PROVE Blocked(r) = Blocked(u) \cup {c}
  BY <1>2 DEF Blocked
<1>3. ASSUME r.blocking[c] = NoConn, r.unlock[c] = NoConn PROVE Blocked(r) = Blocked(u) \ {c}
  BY <1>3 DEF Blocked
<1> QED BY <1>1, <1>2, <1>3 DEF ListExact

\* sqlite3ConnectionBlocked() records the blocker and nothing else.
LEMMA BlockedFacts ==
  ASSUME NEW u, UnOK(u), NEW c \in Conn, NEW d \in Conn,
         NEW r, r = sqlite3ConnectionBlocked(u, c, d)
  PROVE  /\ UnOK(r)
         /\ r.blocking[c] = d /\ r.unlock = u.unlock
         /\ \A p \in Conn : p # c => r.blocking[p] = u.blocking[p]
<1>0. NoConn \notin Conn
  BY SharedCacheAssumption
<1>1. u \in Notify /\ ListExact(u) /\ Acyclic(u)
  BY DEF UnOK
<1> DEFINE u1 == IF u.blocking[c] = NoConn /\ u.unlock[c] = NoConn
                 THEN addToBlockedList(u, c) ELSE u
<1>2. /\ u1 \in Notify /\ u1.blocking = u.blocking /\ u1.unlock = u.unlock
      /\ Range(u1.list) = Range(u.list) \cup {c} /\ IsInjective(u1.list)
  <2>1. CASE u.blocking[c] = NoConn /\ u.unlock[c] = NoConn
    <3>1. c \notin Range(u.list) /\ IsInjective(u.list)
      BY <1>1, <2>1 DEF ListExact, Blocked
    <3> QED BY <1>1, <2>1, <3>1, AddFacts
  <2>2. CASE ~(u.blocking[c] = NoConn /\ u.unlock[c] = NoConn)
    <3>1. c \in Range(u.list) /\ IsInjective(u.list)
      BY <1>1, <2>2 DEF ListExact, Blocked
    <3> QED BY <1>1, <2>2, <3>1
  <2> QED BY <2>1, <2>2
<1>3. r = [u1 EXCEPT !.blocking[c] = d]
  BY DEF sqlite3ConnectionBlocked
<1> HIDE DEF u1
<1>4. /\ r \in Notify /\ r.unlock = u.unlock /\ r.list = u1.list
      /\ r.blocking = [u.blocking EXCEPT ![c] = d]
  BY <1>2, <1>3 DEF Notify
<1>5. r.blocking[c] = d /\ \A p \in Conn : p # c => r.blocking[p] = u.blocking[p]
  BY <1>1, <1>4, UnTypes
<1>6. ListExact(r)
  BY <1>0, <1>1, <1>2, <1>4, <1>5, ListExactFacts
<1>7. Acyclic(r)
  BY <1>1, <1>4, AcyclicShrinks
<1> QED BY <1>4, <1>5, <1>6, <1>7 DEF UnOK

\* sqlite3ConnectionUnlocked() clears every mention of c, and no other.
LEMMA UnlockedFacts ==
  ASSUME NEW u, UnOK(u), NEW c \in Conn, NEW r, r = sqlite3ConnectionUnlocked(u, c)
  PROVE  /\ UnOK(r)
         /\ \A p \in Conn :
              /\ r.blocking[p] = IF u.blocking[p] = c THEN NoConn ELSE u.blocking[p]
              /\ r.unlock[p] = IF u.unlock[p] = c THEN NoConn ELSE u.unlock[p]
<1>0. NoConn \notin Conn
  BY SharedCacheAssumption
<1>1. /\ u \in Notify /\ ListExact(u) /\ Acyclic(u)
      /\ u.blocking \in [Conn -> Conn \cup {NoConn}] /\ u.unlock \in [Conn -> Conn \cup {NoConn}]
      /\ u.list \in Seq(Conn)
  BY UnTypes DEF UnOK
<1> DEFINE B == [p \in Conn |-> IF p \in Range(u.list) /\ u.blocking[p] = c
                                THEN NoConn ELSE u.blocking[p]]
           U == [p \in Conn |-> IF p \in Range(u.list) /\ u.unlock[p] = c
                                THEN NoConn ELSE u.unlock[p]]
           S == {p \in Conn : B[p] # NoConn \/ U[p] # NoConn}
           L == Kept(u.list, S)
<1>2. r = [blocking |-> B, unlock |-> U, list |-> L]
  BY DEF sqlite3ConnectionUnlocked
<1>3. \A p \in Conn : u.blocking[p] = c \/ u.unlock[p] = c => p \in Range(u.list)
  BY <1>0, <1>1 DEF ListExact, Blocked
<1>4. \A p \in Conn : /\ B[p] = IF u.blocking[p] = c THEN NoConn ELSE u.blocking[p]
                      /\ U[p] = IF u.unlock[p] = c THEN NoConn ELSE u.unlock[p]
  BY <1>3
<1>5. B \in [Conn -> Conn \cup {NoConn}] /\ U \in [Conn -> Conn \cup {NoConn}]
  BY <1>1
<1>6. S \subseteq Range(u.list)
  BY <1>1, <1>4 DEF ListExact, Blocked
<1> HIDE DEF B, U
<1>7. S = {p \in Conn : B[p] # NoConn \/ U[p] # NoConn}
  OBVIOUS
<1> HIDE DEF S
<1>8. L \in Seq(Conn) /\ Range(L) = Range(u.list) \cap S /\ (IsInjective(u.list) => IsInjective(L))
  BY <1>1, KeptFacts, Zenon
<1> HIDE DEF L
<1>9. r.blocking = B /\ r.unlock = U /\ r.list = L
  BY <1>2
<1>10. r \in Notify
  BY <1>2, <1>5, <1>8 DEF Notify
<1>11. ListExact(r)
  BY <1>1, <1>6, <1>7, <1>8, <1>9 DEF ListExact, Blocked
<1>12. Acyclic(r)
  <2>1. \A p \in Conn : r.unlock[p] = u.unlock[p] \/ r.unlock[p] = NoConn
    BY <1>4, <1>9
  <2> QED BY <2>1, <1>1, AcyclicShrinks
<1> QED BY <1>4, <1>9, <1>10, <1>11, <1>12 DEF UnOK

\* What is recorded of c is forgotten.
Cleared(u, c) == [u EXCEPT !.blocking[c] = NoConn, !.unlock[c] = NoConn]

\* r is u without what is recorded of c.
Cancelled(u, c, r) ==
  /\ UnOK(r)
  /\ r.blocking[c] = NoConn /\ r.unlock[c] = NoConn
  /\ \A p \in Conn : p # c => r.blocking[p] = u.blocking[p] /\ r.unlock[p] = u.unlock[p]

\* What is recorded of c goes: sqlite3_unlock_notify() without a callback.
LEMMA CancelFacts ==
  ASSUME NEW u, UnOK(u), NEW c \in Conn, NEW u1, u1 = removeFromBlockedList(u, c), NEW r,
         r = Cleared(u1, c)
  PROVE  Cancelled(u, c, r)
<1>1. /\ u \in Notify /\ ListExact(u) /\ Acyclic(u)
      /\ u.blocking \in [Conn -> Conn \cup {NoConn}] /\ u.unlock \in [Conn -> Conn \cup {NoConn}]
  BY UnTypes DEF UnOK
<1>2. /\ u1 \in Notify /\ u1.blocking = u.blocking /\ u1.unlock = u.unlock
      /\ Range(u1.list) = Range(u.list) \ {c} /\ IsInjective(u1.list)
  <2>1. IsInjective(u.list)
    BY <1>1 DEF ListExact
  <2> QED BY <1>1, <2>1, RemoveFacts, Zenon
<1>4. /\ r \in Notify /\ r.list = u1.list
      /\ r.blocking = [u1.blocking EXCEPT ![c] = NoConn]
      /\ r.unlock = [u1.unlock EXCEPT ![c] = NoConn]
  <2>1. u1 \in Notify
    BY <1>2
  <2> QED BY <2>1 DEF Notify, Cleared
<1>5. /\ r.blocking[c] = NoConn /\ r.unlock[c] = NoConn
      /\ \A p \in Conn : p # c => r.blocking[p] = u.blocking[p] /\ r.unlock[p] = u.unlock[p]
  <2>1. /\ r.blocking = [u.blocking EXCEPT ![c] = NoConn]
        /\ r.unlock = [u.unlock EXCEPT ![c] = NoConn]
    BY <1>2, <1>4, Zenon
  <2> DEFINE B == r.blocking
             U == r.unlock
             b == u.blocking
             v == u.unlock
  <2>2. /\ B = [b EXCEPT ![c] = NoConn] /\ U = [v EXCEPT ![c] = NoConn]
        /\ b \in [Conn -> Conn \cup {NoConn}] /\ v \in [Conn -> Conn \cup {NoConn}]
    BY <2>1, <1>1
  <2> HIDE DEF B, U, b, v
  <2>3. /\ B[c] = NoConn /\ U[c] = NoConn
        /\ \A p \in Conn : p # c => B[p] = b[p] /\ U[p] = v[p]
    BY <2>2
  <2> QED BY <2>3 DEF B, U, b, v
<1>6. ListExact(r)
  <2>1. IsInjective(r.list) /\ Range(r.list) = Range(u.list) \ {c}
    BY <1>2, <1>4, Zenon
  <2> QED BY <1>1, <1>5, <2>1, ListExactFacts
<1>7. Acyclic(r)
  <2>1. \A p \in Conn : r.unlock[p] = u.unlock[p] \/ r.unlock[p] = NoConn
    BY <1>5
  <2> QED BY <2>1, <1>1, AcyclicShrinks
<1> QED BY <1>4, <1>5, <1>6, <1>7 DEF UnOK, Cancelled

\* sqlite3_unlock_notify() registers c with its blocker d.
LEMMA RegisterFacts ==
  ASSUME NEW u, UnOK(u), NEW c \in Conn, NEW d \in Conn,
         u.blocking[c] = d, ~WaitsFor(u, d, c), NEW r,
         r = addToBlockedList(removeFromBlockedList([u EXCEPT !.unlock[c] = d], c), c)
  PROVE  /\ UnOK(r)
         /\ r.blocking = u.blocking /\ r.unlock[c] = d
         /\ \A p \in Conn : p # c => r.unlock[p] = u.unlock[p]
<1> DEFINE u0 == [u EXCEPT !.unlock[c] = d]
           u1 == removeFromBlockedList(u0, c)
<1>0. NoConn \notin Conn
  BY SharedCacheAssumption
<1>1. /\ u \in Notify /\ ListExact(u) /\ Acyclic(u)
      /\ u.unlock \in [Conn -> Conn \cup {NoConn}]
  BY UnTypes DEF UnOK
<1>2. /\ u0 \in Notify /\ u0.blocking = u.blocking /\ u0.list = u.list
      /\ u0.unlock = [u.unlock EXCEPT ![c] = d]
  BY <1>1 DEF Notify
<1> HIDE DEF u0
<1>3. /\ u1 \in Notify /\ u1.blocking = u0.blocking /\ u1.unlock = u0.unlock
      /\ Range(u1.list) = Range(u0.list) \ {c} /\ IsInjective(u1.list)
  <2>1. IsInjective(u0.list)
    BY <1>1, <1>2 DEF ListExact
  <2> QED BY <1>2, <2>1, RemoveFacts, Zenon
<1>4. r = addToBlockedList(u1, c)
  BY DEF u0
<1> HIDE DEF u1
<1>5. /\ r \in Notify /\ r.blocking = u1.blocking /\ r.unlock = u1.unlock
      /\ Range(r.list) = Range(u1.list) \cup {c} /\ IsInjective(r.list)
  <2>1. c \notin Range(u1.list)
    BY <1>3
  <2>2. /\ r \in Notify /\ r.blocking = u1.blocking /\ r.unlock = u1.unlock
        /\ Range(r.list) = Range(u1.list) \cup {c}
        /\ IsInjective(u1.list) /\ c \notin Range(u1.list) => IsInjective(r.list)
    <3>1. u1 \in Notify
      BY <1>3
    <3> QED BY <3>1, <1>4, AddFacts, Zenon
  <2> QED BY <1>3, <2>1, <2>2
<1>6. /\ r.blocking = u.blocking /\ r.unlock[c] = d
      /\ \A p \in Conn : p # c => r.unlock[p] = u.unlock[p]
      /\ Range(r.list) = Range(u.list) \cup {c}
  BY <1>1, <1>2, <1>3, <1>5
<1>7. ListExact(r)
  BY <1>0, <1>1, <1>5, <1>6, ListExactFacts
<1>8. Acyclic(r)
  BY <1>1, <1>6, AcyclicGrows
<1> QED BY <1>5, <1>6, <1>7, <1>8 DEF UnOK

\* sqlite3ConnectionClosed(): nobody names c and c names nobody.
LEMMA ClosedFacts ==
  ASSUME NEW u, UnOK(u), NEW c \in Conn, NEW r, r = sqlite3ConnectionClosed(u, c)
  PROVE  /\ UnOK(r)
         /\ \A p \in Conn :
              /\ r.blocking[p] = NoConn \/ (r.blocking[p] = u.blocking[p] /\ r.blocking[p] # c)
              /\ r.unlock[p] = NoConn \/ (r.unlock[p] = u.unlock[p] /\ r.unlock[p] # c)
<1> DEFINE v == sqlite3ConnectionUnlocked(u, c)
           v1 == removeFromBlockedList(v, c)
<1>1. r = Cleared(v1, c)
  BY DEF sqlite3ConnectionClosed, Cleared
<1>2. /\ UnOK(v)
      /\ \A p \in Conn :
           /\ v.blocking[p] = IF u.blocking[p] = c THEN NoConn ELSE u.blocking[p]
           /\ v.unlock[p] = IF u.unlock[p] = c THEN NoConn ELSE u.unlock[p]
  BY UnlockedFacts
<1>a. v1 = removeFromBlockedList(v, c)
  OBVIOUS
<1> HIDE DEF v, v1
<1>3. /\ UnOK(r)
      /\ r.blocking[c] = NoConn /\ r.unlock[c] = NoConn
      /\ \A p \in Conn : p # c => r.blocking[p] = v.blocking[p] /\ r.unlock[p] = v.unlock[p]
  <2>1. UnOK(v)
    BY <1>2
  <2>2. Cancelled(v, c, r)
    BY <1>a, <1>1, <2>1, CancelFacts
  <2> QED BY <2>2 DEF Cancelled
<1> QED BY <1>2, <1>3

(***************************************************************************)
(* The observers.                                                          *)
(***************************************************************************)
\* The types of the observers.
SeenType == [Conn -> [Table -> {"unread", "clean", "changed"}]]
DirtyType == [Table -> Conn \cup {NoConn}]

\* A step that takes no lock away leaves what is known as it was.
LEMMA ObserversKept ==
  ASSUME NEW b, NEW r, NEW s, NEW w, ObserversLocked(b, s, w),
         \A d \in Conn, t \in Table :
           /\ b.eLock[d][t] # NO_LOCK => r.eLock[d][t] # NO_LOCK
           /\ b.eLock[d][t] = WRITE_LOCK => r.eLock[d][t] = WRITE_LOCK
  PROVE  ObserversLocked(r, s, w)
  BY DEF ObserversLocked

\* A read under a lock that no write lock stands beside.
LEMMA ReadFacts ==
  ASSUME NEW b, NEW s \in SeenType, dirty \in DirtyType, ObserversLocked(b, s, dirty),
         NEW c \in Conn, NEW t \in Table, b.eLock[c][t] # NO_LOCK,
         \A d \in Conn : d # c => b.eLock[d][t] # WRITE_LOCK
  PROVE  AfterRead(s, c, t) \in SeenType /\ ObserversLocked(b, AfterRead(s, c, t), dirty)
<1>1. dirty[t] \in {NoConn, c}
  BY DEF ObserversLocked, DirtyType
<1>2. s[c][t] # "changed"
  BY DEF ObserversLocked
<1>3. AfterRead(s, c, t) = [s EXCEPT ![c][t] = "clean"]
  BY <1>1, <1>2 DEF AfterRead, SeenType
<1>4. AfterRead(s, c, t) \in SeenType
  BY <1>3 DEF SeenType
<1>5. \A d \in Conn, x \in Table :
        AfterRead(s, c, t)[d][x] = IF d = c /\ x = t THEN "clean" ELSE s[d][x]
  BY <1>3 DEF SeenType
<1> QED BY <1>4, <1>5 DEF ObserversLocked

\* A write under the only lock on the table.
LEMMA WriteFacts ==
  ASSUME NEW b, NEW s \in SeenType, NEW w \in DirtyType, ObserversLocked(b, s, w),
         NEW c \in Conn, NEW t \in Table, b.eLock[c][t] = WRITE_LOCK,
         \A d \in Conn : d # c => b.eLock[d][t] = NO_LOCK
  PROVE  /\ AfterWrite(s, c, t) \in SeenType /\ [w EXCEPT ![t] = c] \in DirtyType
         /\ ObserversLocked(b, AfterWrite(s, c, t), [w EXCEPT ![t] = c])
<1>1. \A d \in Conn : d # c => s[d][t] # "clean"
  BY DEF ObserversLocked
<1>2. AfterWrite(s, c, t) = s
  BY <1>1 DEF AfterWrite, SeenType
<1>3. [w EXCEPT ![t] = c] \in DirtyType
  BY DEF DirtyType
<1>4. \A x \in Table : [w EXCEPT ![t] = c][x] = IF x = t THEN c ELSE w[x]
  BY DEF DirtyType
<1>5. ObserversLocked(b, s, [w EXCEPT ![t] = c])
  BY <1>4 DEF ObserversLocked
<1> QED BY <1>2, <1>3, <1>5

\* The uncommitted changes w without those of c.
CleanedOf(w, c) == [t \in Table |-> IF w[t] = c THEN NoConn ELSE w[t]]

\* The end of a transaction, or of its writing part.
LEMMA ConcludedObservers ==
  ASSUME NEW b, NEW c \in Conn, NEW r, Concluded(b, c, r),
         NEW s \in SeenType, NEW w \in DirtyType, ObserversLocked(b, s, w)
  PROVE  /\ Known(s, r) \in SeenType /\ CleanedOf(w, c) \in DirtyType
         /\ ObserversLocked(r, Known(s, r), CleanedOf(w, c))
<1>0. NoConn \notin Conn
  BY SharedCacheAssumption
<1>1. Known(s, r) \in SeenType
  BY DEF Known, SeenType
<1>2. CleanedOf(w, c) \in DirtyType
  BY DEF CleanedOf, DirtyType
<1>3. ASSUME NEW d \in Conn, NEW t \in Table
      PROVE  /\ Known(s, r)[d][t] # "changed"
             /\ Known(s, r)[d][t] = "clean" => r.eLock[d][t] # NO_LOCK
  <2>1. CASE r.inTrans[d] = TRANS_NONE
    <3>1. Known(s, r)[d][t] = "unread"
      BY <2>1 DEF Known
    <3> QED BY <3>1
  <2>2. CASE r.inTrans[d] # TRANS_NONE
    <3>1. Known(s, r)[d] = s[d]
      BY <2>2 DEF Known
    <3>2. s[d][t] # "changed" /\ (s[d][t] = "clean" => b.eLock[d][t] # NO_LOCK)
      BY DEF ObserversLocked
    <3>3. b.eLock[d][t] # NO_LOCK => r.eLock[d][t] # NO_LOCK
      BY <2>2 DEF Concluded
    <3> QED BY <3>1, <3>2, <3>3
  <2> QED BY <2>1, <2>2
<1>4. ASSUME NEW d \in Conn, NEW t \in Table, CleanedOf(w, c)[t] = d
      PROVE  r.eLock[d][t] = WRITE_LOCK
  <2>1. w[t] = d /\ d # c
    BY <1>0, <1>4 DEF CleanedOf
  <2> QED BY <2>1 DEF ObserversLocked, Concluded
<1> QED BY <1>1, <1>2, <1>3, <1>4 DEF ObserversLocked

(***************************************************************************)
(* Blockers.                                                               *)
(***************************************************************************)
\* sqlite3ConnectionUnlocked() or sqlite3ConnectionClosed() is still to come.
Leaving == {"unlock", "abortunlock", "close"}

\* BlockersLive of a state that a call is still putting together.
LiveBlockers(b, u, ph) ==
  \A p \in Conn : \A d \in {u.blocking[p], u.unlock[p]} \ {NoConn} :
    d \in InTransaction(b) \/ ph[d] \in Leaving

\* The transaction ends and sqlite3ConnectionUnlocked() follows at once.
LEMMA UnlockedLive ==
  ASSUME NEW b, NEW c \in Conn, NEW r, Concluded(b, c, r), NEW u, UnOK(u), NEW ph,
         LiveBlockers(b, u, ph)
  PROVE  LiveBlockers(r, sqlite3ConnectionUnlocked(u, c), ph)
<1> DEFINE v == sqlite3ConnectionUnlocked(u, c)
<1>1. \A p \in Conn : /\ v.blocking[p] = IF u.blocking[p] = c THEN NoConn ELSE u.blocking[p]
                      /\ v.unlock[p] = IF u.unlock[p] = c THEN NoConn ELSE u.unlock[p]
  BY UnlockedFacts
<1> HIDE DEF v
<1>2. ASSUME NEW p \in Conn, NEW d \in {v.blocking[p], v.unlock[p]} \ {NoConn}
      PROVE  d \in InTransaction(r) \/ ph[d] \in Leaving
  <2>1. d # c /\ d \in {u.blocking[p], u.unlock[p]} \ {NoConn}
    BY <1>1
  <2>2. d \in InTransaction(b) \/ ph[d] \in Leaving
    BY <2>1 DEF LiveBlockers
  <2> QED BY <2>1, <2>2 DEF InTransaction, Concluded
<1>3. LiveBlockers(r, v, ph)
  BY <1>2 DEF LiveBlockers
<1> QED BY <1>3 DEF v

\* The transaction ends and sqlite3ConnectionUnlocked() is still to come.
LEMMA LeavingLive ==
  ASSUME NEW b, NEW c \in Conn, NEW r, Concluded(b, c, r), NEW u,
         NEW ph, LiveBlockers(b, u, ph), NEW q, q[c] \in Leaving,
         \A d \in Conn : d # c => q[d] = ph[d], u \in Notify
  PROVE  LiveBlockers(r, u, q)
<1>1. u.blocking \in [Conn -> Conn \cup {NoConn}] /\ u.unlock \in [Conn -> Conn \cup {NoConn}]
  BY UnTypes
<1>2. ASSUME NEW p \in Conn, NEW d \in {u.blocking[p], u.unlock[p]} \ {NoConn}
      PROVE  d \in InTransaction(r) \/ q[d] \in Leaving
  <2>1. d \in Conn /\ (d \in InTransaction(b) \/ ph[d] \in Leaving)
    BY <1>1 DEF LiveBlockers
  <2> QED BY <2>1 DEF InTransaction, Concluded
<1> QED BY <1>2 DEF LiveBlockers

\* A connection that is not leaving may do anything but end its transaction.
LEMMA StayingLive ==
  ASSUME NEW b, NEW c \in Conn, NEW r, InTransaction(b) \subseteq InTransaction(r),
         NEW u \in Notify, NEW ph, LiveBlockers(b, u, ph), NEW q, ph[c] \notin Leaving,
         \A d \in Conn : d # c => q[d] = ph[d]
  PROVE  LiveBlockers(r, u, q)
<1>1. u.blocking \in [Conn -> Conn \cup {NoConn}] /\ u.unlock \in [Conn -> Conn \cup {NoConn}]
  BY UnTypes
<1>2. ASSUME NEW p \in Conn, NEW d \in {u.blocking[p], u.unlock[p]} \ {NoConn}
      PROVE  d \in InTransaction(r) \/ q[d] \in Leaving
  <2>1. d \in Conn /\ (d \in InTransaction(b) \/ ph[d] \in Leaving)
    BY <1>1 DEF LiveBlockers
  <2> QED BY <2>1
<1> QED BY <1>2 DEF LiveBlockers

(***************************************************************************)
(* The inductive invariant.                                                *)
(***************************************************************************)

\* The part of it that says how the BtShared, the blocked list and the
\* observers belong together.
Together(b, u, s, w, ph) ==
  /\ BtOK(b) /\ UnOK(u) /\ s \in SeenType /\ w \in DirtyType
  /\ ObserversLocked(b, s, w) /\ LiveBlockers(b, u, ph)

\* The part that says where the programs are.
Programs ==
  /\ autoCommit \in [Conn -> BOOLEAN] /\ nVdbeRead \in [Conn -> 0 .. MaxActive]
  /\ phase \in [Conn -> Phase] /\ left \in [Conn -> Nat] /\ nested \in BOOLEAN
  /\ LockedHasLeft

\* The invariant is these two parts.
LEMMA IInvParts == IInv <=> Together(bt, un, seen, dirty, phase) /\ Programs
<1>1. ASSUME un \in Notify PROVE BlockersLive <=> LiveBlockers(bt, un, phase)
  <2>1. \A p \in Conn : {un.blocking[p], un.unlock[p]} \ {NoConn} \subseteq Conn
    BY <1>1, UnTypes
  <2> QED BY <2>1 DEF BlockersLive, LiveBlockers, InTransaction, Leaving
<1> QED BY <1>1 DEF IInv, Together, Programs, TypeOK, SeenType, DirtyType, BtOK, UnOK

\* The end of a statement: nothing, or the end of its transaction.
LEMMA HaltFacts ==
  ASSUME NEW c \in Conn, NEW b, NEW u, NEW s, NEW w, NEW others \in BOOLEAN, NEW ph,
         Together(b, u, s, w, ph), sqlite3VdbeHalt(c, b, u, s, w, others)
  PROVE  Together(bt', un', seen', dirty', ph)
<1>1. CASE autoCommit[c]
  <2> DEFINE r == ConcludeTrans(b, c, others)
  <2>1. /\ bt' = r /\ un' = sqlite3ConnectionUnlocked(u, c)
        /\ seen' = Known(s, r) /\ dirty' = CleanedOf(w, c)
    BY <1>1 DEF sqlite3VdbeHalt, CleanedOf
  <2>2. Concluded(b, c, r)
    BY ConcludeFacts DEF Together
  <2> HIDE DEF r
  <2>3. BtOK(bt')
    BY <2>1, <2>2 DEF Concluded
  <2>4. UnOK(un')
    BY <2>1, UnlockedFacts DEF Together
  <2>5. seen' \in SeenType /\ dirty' \in DirtyType /\ ObserversLocked(bt', seen', dirty')
    BY <2>1, <2>2, ConcludedObservers DEF Together
  <2>6. LiveBlockers(bt', un', ph)
    BY <2>1, <2>2, UnlockedLive DEF Together
  <2> QED BY <2>3, <2>4, <2>5, <2>6 DEF Together
<1>2. CASE ~autoCommit[c]
  BY <1>2 DEF sqlite3VdbeHalt
<1> QED BY <1>1, <1>2

\* A connection that is not leaving goes on to another phase.
LEMMA PhaseMoves ==
  ASSUME NEW b, NEW u, NEW s, NEW w, NEW ph, Together(b, u, s, w, ph),
         NEW c \in Conn, ph[c] \notin Leaving, NEW q,
         \A d \in Conn : d # c => q[d] = ph[d]
  PROVE  Together(b, u, s, w, q)
  BY StayingLive DEF Together, UnOK

\* The blocker that is recorded has a transaction.
LEMMA BlockerRecorded ==
  ASSUME NEW b, NEW u, NEW s, NEW w, NEW ph, Together(b, u, s, w, ph),
         NEW c \in Conn, NEW d \in InTransaction(b)
  PROVE  Together(b, sqlite3ConnectionBlocked(u, c, d), s, w, ph)
<1> DEFINE v == sqlite3ConnectionBlocked(u, c, d)
<1>1. d \in Conn
  BY DEF InTransaction
<1>2. /\ UnOK(v)
      /\ v.blocking[c] = d /\ v.unlock = u.unlock
      /\ \A p \in Conn : p # c => v.blocking[p] = u.blocking[p]
  BY <1>1, BlockedFacts DEF Together
<1> HIDE DEF v
<1>3. LiveBlockers(b, v, ph)
  <2> SUFFICES ASSUME NEW p \in Conn, NEW x \in {v.blocking[p], v.unlock[p]} \ {NoConn}
               PROVE  x \in InTransaction(b) \/ ph[x] \in Leaving
    BY DEF LiveBlockers
  <2>1. x = d \/ x \in {u.blocking[p], u.unlock[p]} \ {NoConn}
    BY <1>2
  <2> QED BY <2>1 DEF Together, LiveBlockers
<1>4. Together(b, v, s, w, ph)
  BY <1>2, <1>3 DEF Together
<1> QED BY <1>4 DEF v

\* The transaction that c is let into, and the schema that it has read then.
LEMMA BeganTogether ==
  ASSUME Together(bt, un, seen, dirty, phase), NEW c \in Conn, NEW wr \in 0 .. 2,
         BeginTransBlocker(bt, c, wr) = {},
         NEW b, b = sqlite3BtreeBeginTrans(bt, c, wr), NEW s,
         s = IF bt.inTrans[c] = TRANS_NONE THEN AfterRead(seen, c, MASTER_ROOT) ELSE seen
  PROVE  /\ Together(b, un, s, dirty, phase) /\ b.inTrans[c] # TRANS_NONE
         /\ wr > 0 => b.pWriter = c /\ b.inTrans[c] = TRANS_WRITE
<1>0. MASTER_ROOT \in Table
  BY SharedCacheAssumption DEF MASTER_ROOT
<1>1. /\ BtOK(bt) /\ un \in Notify /\ seen \in SeenType /\ dirty \in DirtyType
      /\ ObserversLocked(bt, seen, dirty) /\ LiveBlockers(bt, un, phase)
  BY DEF Together, UnOK
<1>2. /\ BtOK(b)
      /\ b.inTrans[c] # TRANS_NONE
      /\ \A d \in Conn : d # c => b.inTrans[d] = bt.inTrans[d]
      /\ wr > 0 => b.pWriter = c /\ b.inTrans[c] = TRANS_WRITE
      /\ \A d \in Conn, x \in Table :
           \/ b.eLock[d][x] = bt.eLock[d][x]
           \/ d = c /\ x = MASTER_ROOT /\ bt.inTrans[c] = TRANS_NONE
      /\ b.eLock[c][MASTER_ROOT] # NO_LOCK
      /\ bt.inTrans[c] = TRANS_NONE =>
           \A d \in Conn : d # c => bt.eLock[d][MASTER_ROOT] # WRITE_LOCK
  BY <1>1, BeginTransFacts
<1>3. \A t \in Table : bt.inTrans[c] = TRANS_NONE => bt.eLock[c][t] = NO_LOCK
  BY <1>1 DEF BtOK, LocksExact
<1>4. ObserversLocked(b, seen, dirty)
  <2>1. \A d \in Conn, t \in Table :
           /\ bt.eLock[d][t] # NO_LOCK => b.eLock[d][t] # NO_LOCK
           /\ bt.eLock[d][t] = WRITE_LOCK => b.eLock[d][t] = WRITE_LOCK
    BY <1>2, <1>3 DEF NO_LOCK, WRITE_LOCK
  <2> QED BY <1>1, <2>1, ObserversKept
<1>5. s \in SeenType /\ ObserversLocked(b, s, dirty)
  <2>1. CASE bt.inTrans[c] = TRANS_NONE
    <3>1. \A d \in Conn : d # c => b.eLock[d][MASTER_ROOT] # WRITE_LOCK
      BY <2>1, <1>0, <1>2
    <3> QED BY <2>1, <3>1, <1>0, <1>1, <1>2, <1>4, ReadFacts
  <2>2. CASE bt.inTrans[c] # TRANS_NONE
    BY <2>2, <1>1, <1>4
  <2> QED BY <2>1, <2>2
<1>6. InTransaction(bt) \subseteq InTransaction(b)
  BY <1>2 DEF InTransaction
<1>7. LiveBlockers(b, un, phase)
  BY <1>1, <1>6 DEF LiveBlockers
<1> QED BY <1>1, <1>2, <1>5, <1>7 DEF Together

\* A statement that cannot have its lock.
LEMMA StatementBlockedStep ==
  ASSUME Programs, NEW c \in Conn, phase[c] = "run", left[c] > 0, nested' \in BOOLEAN,
         NEW b, NEW s,
         s = IF b.inTrans[c] # TRANS_NONE /\ bt.inTrans[c] = TRANS_NONE
             THEN AfterRead(seen, c, MASTER_ROOT) ELSE seen,
         Together(b, un, s, dirty, phase),
         NEW d \in InTransaction(b), StatementBlocked(c, b, d)
  PROVE  Together(bt', un', seen', dirty', phase') /\ Programs'
<1> DEFINE v == sqlite3ConnectionBlocked(un, c, d)
           o == nVdbeRead[c] > 0
<1>1. /\ sqlite3VdbeHalt(c, b, v, s, dirty, o)
      /\ phase' = [phase EXCEPT ![c] = "locked"]
      /\ autoCommit' = autoCommit /\ nVdbeRead' = nVdbeRead /\ left' = left
  BY DEF StatementBlocked
<1>2. Together(b, v, s, dirty, phase)
  BY BlockerRecorded
<1>3. o \in BOOLEAN
  OBVIOUS
<1> HIDE DEF v, o
<1>4. Together(bt', un', seen', dirty', phase)
  BY <1>1, <1>2, <1>3, HaltFacts
<1>5. phase' \in [Conn -> Phase] /\ phase[c] \notin Leaving
      /\ \A x \in Conn : x # c => phase'[x] = phase[x]
  BY <1>1 DEF Programs, Phase, Leaving
<1>6. Together(bt', un', seen', dirty', phase')
  BY <1>4, <1>5, PhaseMoves
<1>7. LockedHasLeft'
  BY <1>1 DEF Programs, LockedHasLeft
<1> QED BY <1>1, <1>5, <1>6, <1>7 DEF Programs

\* A statement that has its locks; s and w are what it knows and has written.
LEMMA StatementRunsStep ==
  ASSUME Programs, NEW c \in Conn, phase[c] = "run", left[c] > 0, nested' \in BOOLEAN,
         NEW b, NEW t \in Table, NEW w \in BOOLEAN, NEW s, NEW v,
         s = LET s1 == IF bt.inTrans[c] = TRANS_NONE THEN AfterRead(seen, c, MASTER_ROOT)
                       ELSE seen
             IN IF w THEN AfterWrite(s1, c, t)
                ELSE IF c \in ReadUncommit THEN s1 ELSE AfterRead(s1, c, t),
         v = IF w THEN [dirty EXCEPT ![t] = c] ELSE dirty,
         Together(b, un, s, v, phase), StatementRuns(c, b, t, w)
  PROVE  Together(bt', un', seen', dirty', phase') /\ Programs'
<1>0. /\ left' = [left EXCEPT ![c] = @ - 1] /\ autoCommit' = autoCommit /\ phase' = phase
  BY DEF StatementRuns
<1>1. left' \in [Conn -> Nat] /\ \A x \in Conn : x # c => left'[x] = left[x]
  BY <1>0 DEF Programs
<1>2. LockedHasLeft'
  BY <1>0, <1>1 DEF Programs, LockedHasLeft
<1>3. CASE /\ ~w /\ nVdbeRead[c] < MaxActive
           /\ nVdbeRead' = [nVdbeRead EXCEPT ![c] = @ + 1]
           /\ bt' = b /\ seen' = s
           /\ un' = un /\ dirty' = dirty
  <2>1. nVdbeRead' \in [Conn -> 0 .. MaxActive]
    BY <1>3, SharedCacheAssumption DEF Programs
  <2>2. v = dirty
    BY <1>3
  <2> QED BY <1>0, <1>1, <1>2, <1>3, <2>1, <2>2 DEF Programs
<1>4. CASE /\ sqlite3VdbeHalt(c, b, un, s, v, nVdbeRead[c] > 0)
           /\ nVdbeRead' = nVdbeRead
  <2> DEFINE o == nVdbeRead[c] > 0
  <2>1. o \in BOOLEAN /\ sqlite3VdbeHalt(c, b, un, s, v, o)
    BY <1>4
  <2> HIDE DEF o
  <2>2. Together(bt', un', seen', dirty', phase)
    BY <2>1, HaltFacts
  <2> QED BY <1>0, <1>1, <1>2, <1>4, <2>2 DEF Programs
<1> QED BY <1>3, <1>4 DEF StatementRuns

\* A statement: OP_Transaction, OP_TableLock and its end.
LEMMA StatementStep ==
  ASSUME Programs, Together(bt, un, seen, dirty, phase),
         NEW c \in Conn, NEW t \in Table, NEW w \in BOOLEAN, Statement(c, t, w)
  PROVE  Together(bt', un', seen', dirty', phase') /\ Programs'
<1> DEFINE wr == IF w THEN 1 ELSE 0
           e == IF w THEN WRITE_LOCK ELSE READ_LOCK
           locks == w \/ c \notin ReadUncommit
           begin == BeginTransBlocker(bt, c, wr)
           b1 == sqlite3BtreeBeginTrans(bt, c, wr)
           query == IF locks THEN querySharedCacheTableLock(b1, c, t, e) ELSE {}
           s1 == IF bt.inTrans[c] = TRANS_NONE THEN AfterRead(seen, c, MASTER_ROOT) ELSE seen
<1>0. /\ phase[c] = "run" /\ left[c] > 0
      /\ nested' = (nested \/ (autoCommit[c] /\ nVdbeRead[c] > 0))
      /\ \/ \E d \in begin : StatementBlocked(c, bt, d)
         \/ /\ begin = {}
            /\ \E d \in query :
                StatementBlocked(c, IF w THEN [b1 EXCEPT !.pending = TRUE] ELSE b1, d)
         \/ /\ begin = {} /\ query = {}
            /\ StatementRuns(c, IF locks THEN setSharedCacheTableLock(b1, c, t, e) ELSE b1,
                            t, w)
  BY DEF Statement
<1>1. nested' \in BOOLEAN
  BY <1>0
<1>2. wr \in 0 .. 2 /\ e \in {READ_LOCK, WRITE_LOCK} /\ BtOK(bt) /\ (w => wr > 0)
      /\ (e = WRITE_LOCK => w)
  BY DEF Together, READ_LOCK, WRITE_LOCK
<1>3. CASE \E d \in begin : StatementBlocked(c, bt, d)
  <2>1. PICK d \in begin : StatementBlocked(c, bt, d)
    BY <1>3
  <2>2. d \in InTransaction(bt)
    BY <1>2, BeginFacts
  <2> DEFINE s == IF bt.inTrans[c] # TRANS_NONE /\ bt.inTrans[c] = TRANS_NONE
                  THEN AfterRead(seen, c, MASTER_ROOT) ELSE seen
  <2>3. s = seen
    OBVIOUS
  <2> QED BY <1>0, <1>1, <2>1, <2>2, <2>3, StatementBlockedStep
<1>4. ASSUME begin = {}
      PROVE  /\ Together(b1, un, s1, dirty, phase) /\ b1.inTrans[c] # TRANS_NONE /\ BtOK(b1)
             /\ w => b1.pWriter = c /\ b1.inTrans[c] = TRANS_WRITE
  BY <1>2, <1>4, BeganTogether DEF Together
<1>5. ASSUME begin = {}
      PROVE  /\ \A d \in query : d \in InTransaction(b1) /\ d # c
             /\ locks /\ query = {} =>
                  \A d \in Conn : d # c => b1.eLock[d][t] \in {NO_LOCK, e}
  BY <1>2, <1>4, <1>5, QueryFacts
<1>6. CASE /\ begin = {}
           /\ \E d \in query :
                StatementBlocked(c, IF w THEN [b1 EXCEPT !.pending = TRUE] ELSE b1, d)
  <2> DEFINE b == IF w THEN [b1 EXCEPT !.pending = TRUE] ELSE b1
             s == IF b.inTrans[c] # TRANS_NONE /\ bt.inTrans[c] = TRANS_NONE
                  THEN AfterRead(seen, c, MASTER_ROOT) ELSE seen
  <2>1. PICK d \in query : StatementBlocked(c, b, d)
    BY <1>6
  <2>2. d \in InTransaction(b1) /\ d # c
    BY <1>5, <1>6
  <2> HIDE DEF b1, query
  <2>3. BtOK(b) /\ b.inTrans = b1.inTrans /\ b.eLock = b1.eLock
    <3>1. CASE w
      <4>1. b = [b1 EXCEPT !.pending = TRUE]
        BY <3>1
      <4>2. b1.pWriter = c /\ BtOK(b1)
        BY <3>1, <1>4, <1>6
      <4> HIDE DEF b
      <4> QED BY <4>1, <4>2, <2>2, PendingFacts
    <3>2. CASE ~w
      BY <3>2, <1>4, <1>6
    <3> QED BY <3>1, <3>2
  <2> HIDE DEF b
  <2>4. InTransaction(b) = InTransaction(b1)
    BY <2>3 DEF InTransaction
  <2>5. s = s1
    BY <2>3, <1>4, <1>6
  <2>6. Together(b, un, s, dirty, phase)
    BY <1>4, <1>6, <2>3, <2>4, <2>5 DEF Together, ObserversLocked, LiveBlockers
  <2> QED BY <1>0, <1>1, <2>1, <2>2, <2>4, <2>6, StatementBlockedStep
<1>7. CASE /\ begin = {} /\ query = {}
           /\ StatementRuns(c, IF locks THEN setSharedCacheTableLock(b1, c, t, e) ELSE b1, t, w)
  <2> DEFINE b == IF locks THEN setSharedCacheTableLock(b1, c, t, e) ELSE b1
             s == IF w THEN AfterWrite(s1, c, t)
                  ELSE IF c \in ReadUncommit THEN s1 ELSE AfterRead(s1, c, t)
             v == IF w THEN [dirty EXCEPT ![t] = c] ELSE dirty
  <2> HIDE DEF b1, query
  <2>1. /\ Together(b1, un, s1, dirty, phase) /\ b1.inTrans[c] # TRANS_NONE /\ BtOK(b1)
        /\ w => b1.pWriter = c /\ b1.inTrans[c] = TRANS_WRITE
        /\ locks => \A d \in Conn : d # c => b1.eLock[d][t] \in {NO_LOCK, e}
    BY <1>4, <1>5, <1>7
  <2>2. /\ BtOK(b) /\ b.inTrans = b1.inTrans
        /\ locks => b.eLock[c][t] # NO_LOCK
        /\ w => b.eLock[c][t] = WRITE_LOCK
        /\ \A d \in Conn, x \in Table : b.eLock[d][x] = b1.eLock[d][x] \/ (d = c /\ x = t /\ locks)
        /\ b1.eLock[c][t] = WRITE_LOCK => b.eLock[c][t] = WRITE_LOCK
    <3>1. CASE locks
      <4>1. e = WRITE_LOCK => b1.inTrans[c] = TRANS_WRITE
        BY <1>2, <2>1
      <4>2. b = setSharedCacheTableLock(b1, c, t, e)
        BY <3>1
      <4>3. w => e = WRITE_LOCK
        OBVIOUS
      <4> HIDE DEF b, e
      <4>4. /\ BtOK(b) /\ b.inTrans = b1.inTrans
            /\ b.eLock[c][t] # NO_LOCK
            /\ e = WRITE_LOCK \/ b1.eLock[c][t] = WRITE_LOCK => b.eLock[c][t] = WRITE_LOCK
            /\ \A d \in Conn, x \in Table : b.eLock[d][x] = b1.eLock[d][x] \/ (d = c /\ x = t)
        BY <1>2, <2>1, <4>1, <4>2, SetLockFacts
      <4> QED BY <3>1, <4>3, <4>4
    <3>2. CASE ~locks
      BY <3>2, <2>1
    <3> QED BY <3>1, <3>2
  <2> HIDE DEF b
  <2>3. ObserversLocked(b, s1, dirty)
    <3>1. \A d \in Conn, x \in Table :
           /\ b1.eLock[d][x] # NO_LOCK => b.eLock[d][x] # NO_LOCK
           /\ b1.eLock[d][x] = WRITE_LOCK => b.eLock[d][x] = WRITE_LOCK
      BY <2>2
    <3>2. ObserversLocked(b1, s1, dirty)
      BY <2>1 DEF Together
    <3> HIDE DEF s1
    <3> QED BY <3>1, <3>2, ObserversKept
  <2>4. s1 \in SeenType /\ dirty \in DirtyType /\ UnOK(un)
    BY <2>1 DEF Together
  <2>5. InTransaction(b) = InTransaction(b1)
    BY <2>2 DEF InTransaction
  <2>6. LiveBlockers(b, un, phase)
    BY <2>1, <2>5 DEF Together, LiveBlockers
  <2>7. s \in SeenType /\ v \in DirtyType /\ ObserversLocked(b, s, v)
    <3> HIDE DEF s1
    <3>1. CASE w
      <4>1. \A d \in Conn : d # c => b.eLock[d][t] = NO_LOCK
        <5> SUFFICES ASSUME NEW d \in Conn, d # c PROVE b1.eLock[d][t] = NO_LOCK
          BY <2>2
        <5>1. b1.eLock[d][t] \in {NO_LOCK, WRITE_LOCK}
          BY <3>1, <2>1
        <5>2. b1.eLock[d][t] = WRITE_LOCK => b1.pWriter = d
          BY <2>1 DEF BtOK, LocksExact, WriterExact
        <5> QED BY <5>1, <5>2, <2>1, <3>1
      <4> QED BY <3>1, <4>1, <2>2, <2>3, <2>4, WriteFacts
    <3>2. CASE ~w /\ c \in ReadUncommit
      BY <3>2, <2>3, <2>4
    <3>3. CASE ~w /\ c \notin ReadUncommit
      <4>1. \A d \in Conn : d # c => b.eLock[d][t] # WRITE_LOCK
        BY <3>3, <2>1, <2>2 DEF NO_LOCK, READ_LOCK, WRITE_LOCK
      <4>2. b.eLock[c][t] # NO_LOCK
        BY <3>3, <2>2
      <4> QED BY <3>3, <4>1, <4>2, <2>3, <2>4, ReadFacts
    <3> QED BY <3>1, <3>2, <3>3
  <2>8. Together(b, un, s, v, phase)
    BY <2>2, <2>4, <2>6, <2>7 DEF Together
  <2>9. StatementRuns(c, b, t, w)
    BY <1>7 DEF b
  <2> QED BY <1>0, <1>1, <2>8, <2>9, StatementRunsStep
<1> QED BY <1>0, <1>3, <1>6, <1>7

\* BEGIN, BEGIN IMMEDIATE and BEGIN EXCLUSIVE.
LEMMA BeginStep ==
  ASSUME Programs, Together(bt, un, seen, dirty, phase),
         NEW c \in Conn, NEW wr \in 0 .. 2, Begin(c, wr)
  PROVE  Together(bt', un', seen', dirty', phase') /\ Programs'
<1> DEFINE begin == IF wr = 0 THEN {} ELSE BeginTransBlocker(bt, c, wr)
<1>0. /\ phase[c] = "run" /\ left[c] > 0 /\ autoCommit[c]
      /\ nested' = (nested \/ nVdbeRead[c] > 0)
      /\ \/ \E d \in begin : StatementBlocked(c, bt, d)
         \/ /\ begin = {}
            /\ bt' = IF wr = 0 THEN bt ELSE sqlite3BtreeBeginTrans(bt, c, wr)
            /\ autoCommit' = [autoCommit EXCEPT ![c] = FALSE]
            /\ seen' = IF bt'.inTrans[c] # TRANS_NONE /\ bt.inTrans[c] = TRANS_NONE
                       THEN AfterRead(seen, c, MASTER_ROOT) ELSE seen
            /\ left' = [left EXCEPT ![c] = @ - 1]
            /\ un' = un /\ nVdbeRead' = nVdbeRead /\ phase' = phase /\ dirty' = dirty
  BY DEF Begin
<1>1. nested' \in BOOLEAN /\ BtOK(bt)
  BY <1>0 DEF Together
<1>2. CASE \E d \in begin : StatementBlocked(c, bt, d)
  <2>1. PICK d \in BeginTransBlocker(bt, c, wr) : StatementBlocked(c, bt, d)
    BY <1>2
  <2>2. d \in InTransaction(bt)
    BY <1>1, <2>1, BeginFacts
  <2> DEFINE s == IF bt.inTrans[c] # TRANS_NONE /\ bt.inTrans[c] = TRANS_NONE
                  THEN AfterRead(seen, c, MASTER_ROOT) ELSE seen
  <2>3. s = seen
    OBVIOUS
  <2> QED BY <1>0, <1>1, <2>1, <2>2, <2>3, StatementBlockedStep
<1>3. CASE /\ begin = {}
           /\ bt' = IF wr = 0 THEN bt ELSE sqlite3BtreeBeginTrans(bt, c, wr)
           /\ autoCommit' = [autoCommit EXCEPT ![c] = FALSE]
           /\ seen' = IF bt'.inTrans[c] # TRANS_NONE /\ bt.inTrans[c] = TRANS_NONE
                      THEN AfterRead(seen, c, MASTER_ROOT) ELSE seen
           /\ left' = [left EXCEPT ![c] = @ - 1]
           /\ un' = un /\ nVdbeRead' = nVdbeRead /\ phase' = phase /\ dirty' = dirty
  <2>1. autoCommit' \in [Conn -> BOOLEAN] /\ left' \in [Conn -> Nat]
        /\ \A x \in Conn : x # c => left'[x] = left[x]
    BY <1>0, <1>3 DEF Programs
  <2>2. LockedHasLeft'
    BY <1>0, <1>3, <2>1 DEF Programs, LockedHasLeft
  <2>3. Programs'
    BY <1>1, <1>3, <2>1, <2>2 DEF Programs
  <2>4. Together(bt', un', seen', dirty', phase')
    <3>1. CASE wr = 0
      BY <3>1, <1>3
    <3>2. CASE wr # 0
      <4> DEFINE b == sqlite3BtreeBeginTrans(bt, c, wr)
                 s == IF bt.inTrans[c] = TRANS_NONE
                      THEN AfterRead(seen, c, MASTER_ROOT) ELSE seen
      <4>1. Together(b, un, s, dirty, phase) /\ b.inTrans[c] # TRANS_NONE
        BY <3>2, <1>3, BeganTogether
      <4>2. bt' = b
        BY <3>2, <1>3
      <4> HIDE DEF b
      <4>3. seen' = s
        BY <4>1, <4>2, <1>3
      <4> QED BY <4>1, <4>2, <4>3, <1>3
    <3> QED BY <3>1, <3>2
  <2> QED BY <2>3, <2>4
<1> QED BY <1>0, <1>2, <1>3

\* sqlite3_prepare() finds the schema locked.
LEMMA PrepareStep ==
  ASSUME Programs, Together(bt, un, seen, dirty, phase), NEW c \in Conn, Prepare(c)
  PROVE  Together(bt', un', seen', dirty', phase') /\ Programs'
<1>1. PICK d \in querySharedCacheTableLock(bt, c, MASTER_ROOT, READ_LOCK) :
        un' = sqlite3ConnectionBlocked(un, c, d)
  BY DEF Prepare
<1>2. /\ phase[c] = "run" /\ left[c] > 0 /\ phase' = [phase EXCEPT ![c] = "locked"]
      /\ bt' = bt /\ autoCommit' = autoCommit /\ nVdbeRead' = nVdbeRead /\ left' = left
      /\ seen' = seen /\ dirty' = dirty /\ nested' = nested
  BY DEF Prepare
<1>3. MASTER_ROOT \in Table /\ READ_LOCK \in {READ_LOCK, WRITE_LOCK} /\ BtOK(bt)
  BY SharedCacheAssumption DEF MASTER_ROOT, Together
<1>4. d \in InTransaction(bt)
  BY <1>3, QueryFacts
<1>5. Together(bt, un', seen, dirty, phase)
  BY <1>1, <1>4, BlockerRecorded
<1>6. /\ phase' \in [Conn -> Phase] /\ phase[c] \notin Leaving
      /\ \A x \in Conn : x # c => phase'[x] = phase[x]
  BY <1>2 DEF Programs, Phase, Leaving
<1>7. Together(bt', un', seen', dirty', phase')
  BY <1>2, <1>5, <1>6, PhaseMoves
<1>8. LockedHasLeft'
  BY <1>2, <1>6 DEF Programs, LockedHasLeft
<1> QED BY <1>2, <1>6, <1>7, <1>8 DEF Programs

\* The last step of a SELECT under way.
LEMMA StepDoneStep ==
  ASSUME Programs, Together(bt, un, seen, dirty, phase), NEW c \in Conn, StepDone(c)
  PROVE  Together(bt', un', seen', dirty', phase') /\ Programs'
<1> DEFINE o == nVdbeRead[c] > 1
<1>1. /\ phase[c] = "run" /\ nVdbeRead[c] > 0
      /\ nVdbeRead' = [nVdbeRead EXCEPT ![c] = @ - 1]
      /\ sqlite3VdbeHalt(c, bt, un, seen, dirty, o)
      /\ autoCommit' = autoCommit /\ phase' = phase /\ left' = left /\ nested' = nested
  BY DEF StepDone
<1>2. nVdbeRead' \in [Conn -> 0 .. MaxActive]
  BY <1>1, SharedCacheAssumption DEF Programs
<1>3. LockedHasLeft'
  BY <1>1 DEF Programs, LockedHasLeft
<1>4. o \in BOOLEAN
  OBVIOUS
<1> HIDE DEF o
<1>5. Together(bt', un', seen', dirty', phase)
  BY <1>1, <1>4, HaltFacts
<1> QED BY <1>1, <1>2, <1>3, <1>5 DEF Programs

\* The transaction of c ends, and c goes on to sqlite3ConnectionUnlocked() or
\* sqlite3ConnectionClosed().
LEMMA LeavingStep ==
  ASSUME Together(bt, un, seen, dirty, phase), NEW c \in Conn, NEW others \in BOOLEAN,
         bt' = ConcludeTrans(bt, c, others), seen' = Known(seen, bt'), dirty' = CleanOf(c),
         un' = un, phase'[c] \in Leaving, \A d \in Conn : d # c => phase'[d] = phase[d]
  PROVE  Together(bt', un', seen', dirty', phase')
<1> DEFINE r == ConcludeTrans(bt, c, others)
<1>1. /\ BtOK(bt) /\ UnOK(un) /\ un \in Notify /\ seen \in SeenType /\ dirty \in DirtyType
      /\ ObserversLocked(bt, seen, dirty) /\ LiveBlockers(bt, un, phase)
  BY DEF Together, UnOK
<1>2. Concluded(bt, c, r)
  BY <1>1, ConcludeFacts
<1>3. bt' = r /\ seen' = Known(seen, r) /\ dirty' = CleanedOf(dirty, c)
  BY DEF CleanOf, CleanedOf
<1> HIDE DEF r
<1>4. BtOK(bt')
  BY <1>2, <1>3 DEF Concluded
<1>5. seen' \in SeenType /\ dirty' \in DirtyType /\ ObserversLocked(bt', seen', dirty')
  BY <1>1, <1>2, <1>3, ConcludedObservers
<1>6. LiveBlockers(bt', un', phase')
  BY <1>1, <1>2, <1>3, LeavingLive
<1> QED BY <1>1, <1>4, <1>5, <1>6 DEF Together

\* sqlite3_reset() of a SELECT under way.
LEMMA ResetStep ==
  ASSUME Programs, Together(bt, un, seen, dirty, phase), NEW c \in Conn, Reset(c)
  PROVE  Together(bt', un', seen', dirty', phase') /\ Programs'
<1> DEFINE o == nVdbeRead[c] > 1
<1>1. /\ phase[c] \in {"run", "abort"} /\ nVdbeRead[c] > 0
      /\ nVdbeRead' = [nVdbeRead EXCEPT ![c] = @ - 1]
      /\ un' = un /\ autoCommit' = autoCommit /\ left' = left /\ nested' = nested
  BY DEF Reset
<1>2. nVdbeRead' \in [Conn -> 0 .. MaxActive]
  BY <1>1, SharedCacheAssumption DEF Programs
<1>3. CASE autoCommit[c]
  <2>1. /\ bt' = ConcludeTrans(bt, c, o) /\ seen' = Known(seen, bt') /\ dirty' = CleanOf(c)
        /\ phase' = [phase EXCEPT ![c] = IF @ = "abort" THEN "abortunlock" ELSE "unlock"]
    BY <1>3 DEF Reset, Release
  <2>2. /\ phase' \in [Conn -> Phase] /\ phase'[c] \in Leaving
        /\ phase'[c] \notin {"locked", "abort"}
        /\ phase'[c] = "abortunlock" => phase[c] = "abort"
        /\ \A x \in Conn : x # c => phase'[x] = phase[x]
    BY <2>1, <1>1 DEF Programs, Phase, Leaving
  <2>3. o \in BOOLEAN
    OBVIOUS
  <2> HIDE DEF o
  <2>4. Together(bt', un', seen', dirty', phase')
    BY <1>1, <2>1, <2>2, <2>3, LeavingStep
  <2>5. LockedHasLeft'
    BY <1>1, <2>2 DEF Programs, LockedHasLeft
  <2> QED BY <1>1, <1>2, <2>2, <2>4, <2>5 DEF Programs
<1>4. CASE ~autoCommit[c]
  <2>1. bt' = bt /\ seen' = seen /\ dirty' = dirty /\ phase' = phase
    BY <1>4 DEF Reset
  <2>2. LockedHasLeft'
    BY <1>1, <2>1 DEF Programs, LockedHasLeft
  <2> QED BY <1>1, <1>2, <2>1, <2>2 DEF Programs
<1> QED BY <1>3, <1>4

\* COMMIT and ROLLBACK.
LEMMA EndTransactionStep ==
  ASSUME Programs, Together(bt, un, seen, dirty, phase), NEW c \in Conn, EndTransaction(c)
  PROVE  Together(bt', un', seen', dirty', phase') /\ Programs'
<1> DEFINE o == nVdbeRead[c] > 0
<1>1. /\ phase[c] \in {"run", "abort"}
      /\ autoCommit' = [autoCommit EXCEPT ![c] = TRUE]
      /\ bt' = ConcludeTrans(bt, c, o) /\ seen' = Known(seen, bt') /\ dirty' = CleanOf(c)
      /\ phase' = [phase EXCEPT ![c] = IF @ = "abort" THEN "abortunlock" ELSE "unlock"]
      /\ un' = un /\ nVdbeRead' = nVdbeRead /\ left' = left /\ nested' = nested
  BY DEF EndTransaction, Release
<1>2. /\ phase' \in [Conn -> Phase] /\ phase'[c] \in Leaving
      /\ phase'[c] \notin {"locked", "abort"}
      /\ phase'[c] = "abortunlock" => phase[c] = "abort"
      /\ \A x \in Conn : x # c => phase'[x] = phase[x]
  BY <1>1 DEF Programs, Phase, Leaving
<1>3. autoCommit' \in [Conn -> BOOLEAN]
  BY <1>1 DEF Programs
<1>4. o \in BOOLEAN
  OBVIOUS
<1> HIDE DEF o
<1>5. Together(bt', un', seen', dirty', phase')
  BY <1>1, <1>2, <1>4, LeavingStep
<1>6. LockedHasLeft'
  BY <1>1, <1>2 DEF Programs, LockedHasLeft
<1> QED BY <1>1, <1>2, <1>3, <1>5, <1>6 DEF Programs

\* sqlite3_close() up to sqlite3ConnectionClosed().
LEMMA CloseStep ==
  ASSUME Programs, Together(bt, un, seen, dirty, phase), NEW c \in Conn, Close(c)
  PROVE  Together(bt', un', seen', dirty', phase') /\ Programs'
<1> DEFINE o == FALSE
<1>1. /\ bt' = ConcludeTrans(bt, c, o) /\ seen' = Known(seen, bt') /\ dirty' = CleanOf(c)
      /\ phase' = [phase EXCEPT ![c] = "close"] /\ autoCommit' = autoCommit
      /\ un' = un /\ nVdbeRead' = nVdbeRead /\ left' = left /\ nested' = nested
  BY DEF Close
<1>2. /\ phase' \in [Conn -> Phase] /\ phase'[c] = "close"
      /\ \A x \in Conn : x # c => phase'[x] = phase[x]
  BY <1>1 DEF Programs, Phase
<1>3. o \in BOOLEAN /\ phase'[c] \in Leaving
  BY <1>2 DEF Leaving
<1> HIDE DEF o
<1>4. Together(bt', un', seen', dirty', phase')
  BY <1>1, <1>2, <1>3, LeavingStep
<1>5. LockedHasLeft'
  BY <1>1, <1>2 DEF Programs, LockedHasLeft
<1> QED BY <1>1, <1>2, <1>4, <1>5 DEF Programs

\* What the blocked list no longer names may do as it likes.
LEMMA UnnamedLive ==
  ASSUME NEW b, NEW u \in Notify, NEW v \in Notify, NEW ph, LiveBlockers(b, u, ph),
         NEW c \in Conn, NEW q, \A d \in Conn : d # c => q[d] = ph[d],
         \A p \in Conn :
           /\ v.blocking[p] = NoConn \/ (v.blocking[p] = u.blocking[p] /\ v.blocking[p] # c)
           /\ v.unlock[p] = NoConn \/ (v.unlock[p] = u.unlock[p] /\ v.unlock[p] # c)
  PROVE  LiveBlockers(b, v, q)
<1> SUFFICES ASSUME NEW p \in Conn, NEW d \in {v.blocking[p], v.unlock[p]} \ {NoConn}
             PROVE  d \in InTransaction(b) \/ q[d] \in Leaving
  BY DEF LiveBlockers
<1>1. d \in {u.blocking[p], u.unlock[p]} \ {NoConn} /\ d # c
  OBVIOUS
<1>2. d \in Conn
  BY UnTypes
<1>3. d \in InTransaction(b) \/ ph[d] \in Leaving
  BY <1>1 DEF LiveBlockers
<1> QED BY <1>1, <1>2, <1>3

\* sqlite3ConnectionUnlocked() after the mutex of the BtShared was dropped.
LEMMA ConnectionUnlockedStep ==
  ASSUME Programs, Together(bt, un, seen, dirty, phase), NEW c \in Conn, ConnectionUnlocked(c)
  PROVE  Together(bt', un', seen', dirty', phase') /\ Programs'
<1>1. /\ phase[c] \in {"unlock", "abortunlock"} /\ un' = sqlite3ConnectionUnlocked(un, c)
      /\ phase' = [phase EXCEPT ![c] = IF @ = "unlock" THEN "run" ELSE "abort"]
      /\ bt' = bt /\ autoCommit' = autoCommit /\ nVdbeRead' = nVdbeRead /\ left' = left
      /\ seen' = seen /\ dirty' = dirty /\ nested' = nested
  BY DEF ConnectionUnlocked
<1>2. /\ phase' \in [Conn -> Phase]
      /\ phase'[c] \in {"run", "abort"} /\ (phase'[c] = "abort" => phase[c] = "abortunlock")
      /\ \A x \in Conn : x # c => phase'[x] = phase[x]
  BY <1>1 DEF Programs, Phase
<1>3. LockedHasLeft'
  BY <1>1, <1>2 DEF Programs, LockedHasLeft
<1>4. UnOK(un) /\ un \in Notify /\ LiveBlockers(bt, un, phase)
  BY DEF Together, UnOK
<1>5. /\ UnOK(un')
      /\ \A p \in Conn :
           /\ un'.blocking[p] = IF un.blocking[p] = c THEN NoConn ELSE un.blocking[p]
           /\ un'.unlock[p] = IF un.unlock[p] = c THEN NoConn ELSE un.unlock[p]
  BY <1>1, <1>4, UnlockedFacts
<1>6. un' \in Notify
  BY <1>5 DEF UnOK
<1>7. \A p \in Conn :
        /\ un'.blocking[p] = NoConn \/ (un'.blocking[p] = un.blocking[p] /\ un'.blocking[p] # c)
        /\ un'.unlock[p] = NoConn \/ (un'.unlock[p] = un.unlock[p] /\ un'.unlock[p] # c)
  BY <1>5
<1>8. LiveBlockers(bt, un', phase')
  BY <1>2, <1>4, <1>6, <1>7, UnnamedLive
<1>9. Together(bt', un', seen', dirty', phase')
  BY <1>1, <1>5, <1>8 DEF Together
<1> QED BY <1>1, <1>2, <1>3, <1>9 DEF Programs

\* sqlite3ConnectionClosed().
LEMMA ConnectionClosedStep ==
  ASSUME Programs, Together(bt, un, seen, dirty, phase), NEW c \in Conn, ConnectionClosed(c)
  PROVE  Together(bt', un', seen', dirty', phase') /\ Programs'
<1>1. /\ un' = sqlite3ConnectionClosed(un, c) /\ phase' = [phase EXCEPT ![c] = "closed"]
      /\ bt' = bt /\ autoCommit' = autoCommit /\ nVdbeRead' = nVdbeRead /\ left' = left
      /\ seen' = seen /\ dirty' = dirty /\ nested' = nested
  BY DEF ConnectionClosed
<1>2. /\ phase' \in [Conn -> Phase] /\ phase'[c] = "closed"
      /\ \A x \in Conn : x # c => phase'[x] = phase[x]
  BY <1>1 DEF Programs, Phase
<1>3. LockedHasLeft'
  BY <1>1, <1>2 DEF Programs, LockedHasLeft
<1>4. UnOK(un) /\ un \in Notify /\ LiveBlockers(bt, un, phase)
  BY DEF Together, UnOK
<1>5. /\ UnOK(un')
      /\ \A p \in Conn :
        /\ un'.blocking[p] = NoConn \/ (un'.blocking[p] = un.blocking[p] /\ un'.blocking[p] # c)
        /\ un'.unlock[p] = NoConn \/ (un'.unlock[p] = un.unlock[p] /\ un'.unlock[p] # c)
  BY <1>1, <1>4, ClosedFacts
<1>6. un' \in Notify
  BY <1>5 DEF UnOK
<1>7. LiveBlockers(bt, un', phase')
  BY <1>2, <1>4, <1>5, <1>6, UnnamedLive
<1>8. Together(bt', un', seen', dirty', phase')
  BY <1>1, <1>5, <1>7 DEF Together
<1> QED BY <1>1, <1>2, <1>3, <1>8 DEF Programs


\* sqlite3_unlock_notify(): the callback at once, or a deadlock, or a wait for
\* a connection that is a blocker already.
LEMMA UnlockNotifyStep ==
  ASSUME Programs, Together(bt, un, seen, dirty, phase), NEW c \in Conn, UnlockNotify(c)
  PROVE  Together(bt', un', seen', dirty', phase') /\ Programs'
<1> DEFINE d == un.blocking[c]
<1>1. /\ phase[c] = "locked"
      /\ bt' = bt /\ autoCommit' = autoCommit /\ nVdbeRead' = nVdbeRead /\ left' = left
      /\ seen' = seen /\ dirty' = dirty /\ nested' = nested
      /\ phase' \in {[phase EXCEPT ![c] = "run"], [phase EXCEPT ![c] = "abort"]}
  BY DEF UnlockNotify
<1>2. /\ phase' \in [Conn -> Phase] /\ phase[c] \notin Leaving
      /\ \A x \in Conn : x # c => phase'[x] = phase[x]
  BY <1>1 DEF Programs, Phase, Leaving
<1>3. LockedHasLeft'
  BY <1>1, <1>2 DEF Programs, LockedHasLeft
<1>4. Together(bt, un', seen, dirty, phase)
  <2>1. CASE un' = un
    BY <2>1
  <2>2. CASE /\ d # NoConn /\ ~WaitsFor(un, d, c)
             /\ un' = addToBlockedList(removeFromBlockedList([un EXCEPT !.unlock[c] = d], c), c)
    <3>1. UnOK(un) /\ un \in Notify /\ LiveBlockers(bt, un, phase)
      BY DEF Together, UnOK
    <3>2. d \in Conn
      BY <2>2, <3>1, UnTypes
    <3>3. /\ UnOK(un')
          /\ un'.blocking = un.blocking /\ un'.unlock[c] = d
          /\ \A p \in Conn : p # c => un'.unlock[p] = un.unlock[p]
      BY <2>2, <3>1, <3>2, RegisterFacts
    <3>4. LiveBlockers(bt, un', phase)
      <4> SUFFICES ASSUME NEW p \in Conn, NEW x \in {un'.blocking[p], un'.unlock[p]} \ {NoConn}
                   PROVE  x \in InTransaction(bt) \/ phase[x] \in Leaving
        BY DEF LiveBlockers
      <4>1. x \in {un.blocking[p], un.unlock[p]} \ {NoConn}
        BY <3>3
      <4> QED BY <3>1, <4>1 DEF LiveBlockers
    <3> QED BY <3>3, <3>4 DEF Together
  <2> QED BY <2>1, <2>2 DEF UnlockNotify
<1>5. Together(bt', un', seen', dirty', phase')
  BY <1>1, <1>2, <1>4, PhaseMoves
<1> QED BY <1>1, <1>2, <1>3, <1>5 DEF Programs

\* A step of the application after which c runs again and has one statement
\* less to start.
LEMMA GoesOn ==
  ASSUME Programs, NEW c \in Conn, phase[c] \notin Leaving, left[c] > 0,
         Together(bt, un', seen, dirty, phase),
         phase' = [phase EXCEPT ![c] = "run"], left' = [left EXCEPT ![c] = @ - 1],
         UNCHANGED <<bt, autoCommit, nVdbeRead, seen, dirty, nested>>
  PROVE  Together(bt', un', seen', dirty', phase') /\ Programs'
<1>1. /\ phase' \in [Conn -> Phase] /\ phase'[c] = "run"
      /\ \A x \in Conn : x # c => phase'[x] = phase[x]
  BY DEF Programs, Phase
<1>2. left' \in [Conn -> Nat] /\ \A x \in Conn : x # c => left'[x] = left[x]
  BY DEF Programs
<1>3. LockedHasLeft'
  BY <1>1, <1>2 DEF Programs, LockedHasLeft
<1>4. Together(bt, un', seen, dirty, phase')
  BY <1>1, PhaseMoves
<1> QED BY <1>1, <1>2, <1>3, <1>4 DEF Programs

\* sqlite3_unlock_notify() without a callback.
LEMMA CancelNotifyStep ==
  ASSUME Programs, Together(bt, un, seen, dirty, phase), NEW c \in Conn, CancelNotify(c)
  PROVE  Together(bt', un', seen', dirty', phase') /\ Programs'
<1> DEFINE u1 == removeFromBlockedList(un, c)
<1>1. /\ phase[c] \in {"run", "locked"} /\ left[c] > 0 /\ un' = Cleared(u1, c)
      /\ phase' = [phase EXCEPT ![c] = "run"] /\ left' = [left EXCEPT ![c] = @ - 1]
      /\ UNCHANGED <<bt, autoCommit, nVdbeRead, seen, dirty, nested>>
  BY DEF CancelNotify, Cleared
<1>2. UnOK(un) /\ un \in Notify /\ LiveBlockers(bt, un, phase)
  BY DEF Together, UnOK
<1>3. Cancelled(un, c, un')
  BY <1>1, <1>2, CancelFacts
<1> HIDE DEF u1
<1>4. LiveBlockers(bt, un', phase)
  <2> SUFFICES ASSUME NEW p \in Conn, NEW x \in {un'.blocking[p], un'.unlock[p]} \ {NoConn}
               PROVE  x \in InTransaction(bt) \/ phase[x] \in Leaving
    BY DEF LiveBlockers
  <2>1. x \in {un.blocking[p], un.unlock[p]} \ {NoConn}
    BY <1>3 DEF Cancelled
  <2> QED BY <1>2, <2>1 DEF LiveBlockers
<1>5. Together(bt, un', seen, dirty, phase)
  BY <1>3, <1>4 DEF Together, Cancelled
<1>6. phase[c] \notin Leaving
  BY <1>1 DEF Leaving
<1> QED BY <1>1, <1>5, <1>6, GoesOn

\* The application gives up what met SQLITE_LOCKED, or has rolled it back.
LEMMA GiveUpStep ==
  ASSUME Programs, Together(bt, un, seen, dirty, phase), NEW c \in Conn,
         GiveUp(c) \/ Aborted(c)
  PROVE  Together(bt', un', seen', dirty', phase') /\ Programs'
<1>1. phase[c] \in {"locked", "abort"} /\ left[c] > 0
  BY DEF GiveUp, Aborted, Programs, LockedHasLeft
<1>2. phase[c] \notin Leaving
  BY <1>1 DEF Leaving
<1>3. /\ un' = un /\ phase' = [phase EXCEPT ![c] = "run"] /\ left' = [left EXCEPT ![c] = @ - 1]
      /\ UNCHANGED <<bt, autoCommit, nVdbeRead, seen, dirty, nested>>
  BY DEF GiveUp, Aborted
<1>4. Together(bt, un', seen, dirty, phase)
  BY <1>3
<1> QED BY <1>1, <1>2, <1>3, <1>4, GoesOn

\* No lock, no transaction and nobody blocked at first.
LEMMA InitIInv == Init => IInv
<1> SUFFICES ASSUME Init PROVE IInv
  OBVIOUS
<1>0. NoConn \notin Conn /\ IsFiniteSet(Conn) /\ Budget \subseteq [Conn -> Nat] /\ MaxActive \in Nat
  BY SharedCacheAssumption
<1>1. /\ IsBt(bt) /\ bt.pWriter = NoConn /\ bt.exclusive = FALSE /\ bt.pending = FALSE
      /\ bt.nTransaction = 0 /\ bt.inTransaction = TRANS_NONE
      /\ bt.inTrans = [c \in Conn |-> TRANS_NONE]
      /\ bt.eLock = [c \in Conn |-> [t \in Table |-> NO_LOCK]] /\ bt.pLock = <<>>
  BY DEF Init, IsBt
<1>2. InTransaction(bt) = {}
  BY <1>1 DEF InTransaction
<1>3. Cardinality(InTransaction(bt)) = 0 /\ Cardinality(Conn) \in Nat
  BY <1>0, <1>2, FS_EmptySet, FS_CardinalityType
<1>4. bt \in BtShared
  <2>1. bt.nTransaction \in 0 .. Cardinality(Conn)
    BY <1>1, <1>3
  <2>2. /\ bt.inTrans \in [Conn -> 0 .. 2] /\ bt.inTransaction \in 0 .. 2
        /\ bt.eLock \in [Conn -> [Table -> 0 .. 2]]
    BY <1>1 DEF TRANS_NONE, NO_LOCK
  <2>3. bt.pLock \in Seq([conn: Conn, table: Table])
    BY <1>1
  <2>4. bt.exclusive \in BOOLEAN /\ bt.pending \in BOOLEAN /\ bt.pWriter \in Conn \cup {NoConn}
    BY <1>1
  <2> QED BY <1>1, <2>1, <2>2, <2>3, <2>4, BtIntro
<1>5. LocksExact(bt)
  <2>1. \A c \in Conn : bt.inTrans[c] = TRANS_NONE
    BY <1>1
  <2>2. \A c \in Conn, t \in Table : bt.eLock[c][t] = NO_LOCK
    BY <1>1
  <2>3. Range(bt.pLock) = {}
    BY <1>1 DEF Range
  <2>4. {k \in [conn: Conn, table: Table] : bt.eLock[k.conn][k.table] # NO_LOCK} = {}
    BY <2>2
  <2> QED BY <2>1, <2>2, <2>3, <2>4 DEF LocksExact, NO_LOCK, WRITE_LOCK
<1>6. WriterExact(bt) /\ FlagsOfWriter(bt)
  <2>1. \A c \in Conn : bt.inTrans[c] = TRANS_NONE
    BY <1>1
  <2> QED BY <2>1, <1>0, <1>1, <1>3 DEF WriterExact, FlagsOfWriter, TRANS_NONE, TRANS_WRITE
<1>7. /\ un.blocking = [c \in Conn |-> NoConn] /\ un.unlock = [c \in Conn |-> NoConn]
      /\ un.list = <<>> /\ un \in Notify
  BY DEF Init, Notify
<1>8. UnOK(un)
  <2>1. \A c \in Conn : un.blocking[c] = NoConn /\ un.unlock[c] = NoConn
    BY <1>7
  <2>2. Range(un.list) = {} /\ IsInjective(un.list)
    BY <1>7 DEF Range, IsInjective
  <2> QED BY <2>1, <2>2, <1>7 DEF UnOK, ListExact, Blocked, Acyclic
<1>9. seen \in SeenType /\ dirty \in DirtyType
  BY DEF Init, SeenType, DirtyType
<1>10. ObserversLocked(bt, seen, dirty)
  BY <1>0 DEF Init, ObserversLocked
<1>11. LiveBlockers(bt, un, phase)
  BY <1>7 DEF LiveBlockers
<1>12. Programs
  <2>1. phase \in [Conn -> Phase] /\ \A c \in Conn : phase[c] \in {"run", "closed"}
    BY DEF Init, Phase
  <2>2. nVdbeRead \in [Conn -> 0 .. MaxActive] /\ left \in [Conn -> Nat]
    BY <1>0 DEF Init
  <2>3. autoCommit \in [Conn -> BOOLEAN] /\ nested \in BOOLEAN
    BY Zenon DEF Init
  <2> QED BY <2>1, <2>2, <2>3 DEF Programs, LockedHasLeft
<1> QED BY <1>4, <1>5, <1>6, <1>8, <1>9, <1>10, <1>11, <1>12, IInvParts DEF Together, BtOK

\* Every call keeps the invariant, whoever makes it.
LEMMA NextIInv == IInv /\ [Next]_vars => IInv'
<1> SUFFICES ASSUME IInv, [Next]_vars PROVE IInv'
  OBVIOUS
<1>1. Together(bt, un, seen, dirty, phase) /\ Programs
  BY IInvParts
<1>2. (Together(bt, un, seen, dirty, phase) /\ Programs)' <=> IInv'
  BY IInvParts, PTL
<1>3. CASE UNCHANGED vars
  BY <1>1, <1>2, <1>3 DEF vars, Programs, LockedHasLeft
<1>4. CASE \E c \in Conn : Call(c)
  <2>1. PICK c \in Conn : Call(c)
    BY <1>4
  <2>2. CASE \E t \in Table, w \in BOOLEAN : Statement(c, t, w)
    BY <1>1, <1>2, <2>2, StatementStep
  <2>3. CASE \E wr \in 0 .. 2 : Begin(c, wr)
    BY <1>1, <1>2, <2>3, BeginStep
  <2>4. CASE Prepare(c)
    BY <1>1, <1>2, <2>4, PrepareStep
  <2>5. CASE StepDone(c)
    BY <1>1, <1>2, <2>5, StepDoneStep
  <2>6. CASE Reset(c)
    BY <1>1, <1>2, <2>6, ResetStep
  <2>7. CASE EndTransaction(c)
    BY <1>1, <1>2, <2>7, EndTransactionStep
  <2>8. CASE Close(c)
    BY <1>1, <1>2, <2>8, CloseStep
  <2> QED BY <2>1, <2>2, <2>3, <2>4, <2>5, <2>6, <2>7, <2>8 DEF Call
<1>5. ASSUME NEW c \in Conn, Aborted(c) \/ GiveUp(c) PROVE IInv'
  BY <1>1, <1>2, <1>5, GiveUpStep
<1>6. ASSUME NEW c \in Conn, UnlockNotify(c) PROVE IInv'
  BY <1>1, <1>2, <1>6, UnlockNotifyStep
<1>7. ASSUME NEW c \in Conn, CancelNotify(c) PROVE IInv'
  BY <1>1, <1>2, <1>7, CancelNotifyStep
<1>8. ASSUME NEW c \in Conn, ConnectionUnlocked(c) PROVE IInv'
  BY <1>1, <1>2, <1>8, ConnectionUnlockedStep
<1>9. ASSUME NEW c \in Conn, ConnectionClosed(c) PROVE IInv'
  BY <1>1, <1>2, <1>9, ConnectionClosedStep
<1> QED BY <1>3, <1>4, <1>5, <1>6, <1>7, <1>8, <1>9 DEF Next

(***************************************************************************)
(* The theorems.                                                           *)
(***************************************************************************)

\* The invariant behind the others: pLock, the transaction counter, pWriter
\* and the flags BTS_EXCLUSIVE and BTS_PENDING of the BtShared, the blocked
\* list of notify.c and what the transactions have read always agree.
THEOREM SharedCacheInvariant == Spec => []IInv
  BY InitIInv, NextIInv, PTL DEF Spec

\* Every variable of the shared cache keeps its type; in particular
\* nTransaction never leaves 0 .. the number of connections.
THEOREM SharedCacheTypeOK == Spec => []TypeOK
<1>1. IInv => TypeOK
  BY DEF IInv
<1> QED BY <1>1, SharedCacheInvariant, PTL

\* Isolation: whatever the connections do, no transaction sees a table change
\* under it or another connection's uncommitted changes (the table locks of
\* btree.c).
THEOREM SharedCacheIsolation == Spec => []Isolation
<1>1. IInv => Isolation
  BY DEF IInv, ObserversLocked, Isolation
<1> QED BY <1>1, SharedCacheInvariant, PTL

\* FlagsJustified: BTS_EXCLUSIVE is set only while no connection but the writer
\* has a transaction (the assertion in clearAllSharedCacheTableLocks());
\* sqlite3BtreeBeginTrans() finds a writer to name, and BTS_PENDING is set only
\* while the writer has a reader to wait for.
THEOREM SharedCacheFlagsJustified == Spec => []FlagsJustified
<1>1. IInv => FlagsJustified
  BY DEF IInv, BtOK, WriterExact, FlagsOfWriter, InTransaction, FlagsJustified
<1> QED BY <1>1, SharedCacheInvariant, PTL

\* BlockersLive: whoever is named as a blocker has a transaction or is on its
\* way to sqlite3ConnectionUnlocked(), so no callback is lost and no pointer
\* names a closed connection.
THEOREM SharedCacheBlockersLive == Spec => []BlockersLive
<1>1. IInv => BlockersLive
  BY DEF IInv
<1> QED BY <1>1, SharedCacheInvariant, PTL

\* WaitsAcyclic: the callbacks registered with sqlite3_unlock_notify() never
\* wait for each other in a circle.
THEOREM SharedCacheWaitsAcyclic == Spec => []WaitsAcyclic
<1>1. IInv => WaitsAcyclic
  BY DEF IInv, UnOK, Acyclic, WaitsAcyclic
<1> QED BY <1>1, SharedCacheInvariant, PTL

\* A list without repetitions is as long as the set of its entries is large.
LEMMA InjectiveLength ==
  ASSUME NEW s \in Seq(Conn), IsInjective(s)
  PROVE  Len(s) = Cardinality(Range(s))
<1> DEFINE I == 1 .. Len(s)
           R == Range(s)
<1>1. Len(s) \in Nat /\ DOMAIN s = I /\ s \in [I -> R]
  BY DEF Range
<1>2. IsFiniteSet(I) /\ Cardinality(I) = Len(s)
  BY <1>1, FS_Interval
<1>3. s \in Bijection(I, R)
  <2>1. \A a, b \in I : s[a] = s[b] => a = b
    BY <1>1 DEF IsInjective
  <2>2. \A r \in R : \E a \in I : s[a] = r
    BY <1>1 DEF Range
  <2> QED BY <1>1, <2>1, <2>2 DEF Bijection, Injection, Surjection
<1> HIDE DEF I, R
<1>4. ExistsBijection(I, R)
  BY <1>3 DEF ExistsBijection
<1>5. Cardinality(R) = Cardinality(I)
  BY <1>2, <1>4, FS_Bijection
<1> QED BY <1>2, <1>5 DEF R

\* BlockedListExact: the blocked list of notify.c holds each connection that
\* has a blocker or a callback, once, and no other.
THEOREM SharedCacheBlockedListExact == Spec => []BlockedListExact
<1>1. IInv => BlockedListExact
  <2> SUFFICES ASSUME IInv PROVE BlockedListExact
    OBVIOUS
  <2>1. un \in Notify /\ IsInjective(un.list) /\ Range(un.list) = Blocked(un)
    BY DEF IInv, UnOK, ListExact
  <2>2. Len(un.list) = Cardinality(Range(un.list))
    BY <2>1, UnTypes, InjectiveLength
  <2> QED BY <2>1, <2>2 DEF BlockedListExact, Blocked
<1> QED BY <1>1, SharedCacheInvariant, PTL

=============================================================================
