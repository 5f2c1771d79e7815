----------------------------- MODULE WalLogProofs -----------------------------
(***************************************************************************)
(* Theorems about WalLog: what recovery finds after a process crash or a    *)
(* power loss, and what the connection reads, for applications that open no *)
(* savepoint.                                                               *)
(***************************************************************************)
EXTENDS WalLog, BoundedSets, SequenceTheorems, TLAPS

-----------------------------------------------------------------------------
(* Frames that a slot may hold                                              *)

\* What slot i holds, or held at the last sync, or was told to hold since.
Known(i) == {wal[i]} \cup pend[i] \cup {b[i] : b \in bases}

\* A checksum covers the header and the frames up to its own.
CkEntry == (Nat \X Nat) \cup (Nat \X Nat \X BOOLEAN)

\* The checksum of f covers g as frame j, and g is what was checksummed then.
Content(f) == <<f.pg, f.val, f.commit>>
Own(g, j) == Len(g.ck) = j + 1 /\ g.ck[j + 1] = Content(g) /\ g.pg # 0
Covers(f, g, j) == g.salt = f.salt /\ \A k \in 1 .. j + 1 : g.ck[k] = f.ck[k]

\* Frame f of slot i is unreachable: one of the frames before it is gone.
Dead(f, i) == \E j \in 1 .. i : \A g \in Known(j) : ~(Own(g, j) /\ Covers(f, g, j))

\* f ends a transaction of the log with this header.
CommitOf(f, salt, nCkpt) ==
  f.commit /\ f.ck # <<>> /\ f.salt = salt /\ f.ck[1] = <<salt, nCkpt>>
DeadUnder(salt, nCkpt) ==
  \A i \in 1 .. MaxFrame : \A f \in Known(i) : CommitOf(f, salt, nCkpt) => Dead(f, i)

\* What makes the checksums of a log file comparable.
Chained(w) ==
  /\ w[0].salt \in Nat /\ w[0].nCkpt \in Nat
  /\ \A i \in 1 .. MaxFrame :
       /\ w[i].pg \in Nat /\ w[i].val \in Nat /\ w[i].commit \in BOOLEAN
       /\ w[i].ck \in Seq(CkEntry)
       /\ w[i].ck # <<>> => Len(w[i].ck) = i + 1

-----------------------------------------------------------------------------
(* Where the log and the open transaction end                               *)

Top == RecoveredMx(wal)
Mx == IF pc = "down" THEN Top ELSE live.mx
Writing == pc \in {"frames", "recksum", "sync", "publish"}
InTrans == Writing \/ pc \in {"write", "synchdr"}
End == IF Writing THEN call.iFrame ELSE h.mx

\* The commit frame is in the log; recovery would find it.
Committed == Writing /\ call.commit /\ call.list = <<>>
Pending == Committed /\ wc.iReCksum = 0

\* There are frames under the header of the log.
InLog == Mx > 0 \/ h.mx > 0 \/ Writing
Spilled == Writing \/ h.mx > live.mx

-----------------------------------------------------------------------------
(* The inductive invariant                                                  *)

Frame == [pg : 0 .. MaxPage, val : Nat, commit : BOOLEAN, salt : Nat, ck : Seq(CkEntry)]
Header == [ok : BOOLEAN, salt : Nat, nCkpt : Nat]
IndexHdr == [mx : Slot, salt : Nat, ck : Seq(CkEntry)]
Call == [list : Seq(Page), commit : BOOLEAN, iFirst : Nat, iFrame : Slot,
         todo : SUBSET Page, after : Afters]

\* Every checksum is as long as the log was, and names values written so far.
FrameOK(i, f) ==
  /\ f \in Frame
  /\ f.salt <= nSalt
  /\ f.ck # <<>> => Len(f.ck) = i + 1
  /\ f.pg # 0 => f.val <= nWrite
  /\ f.pg = 0 => f.val \in {0, Torn}
  /\ \A j \in 2 .. Len(f.ck) : f.ck[j][2] <= nWrite
HeaderOK(x) == x \in Header /\ x.salt <= nSalt
LogOK ==
  /\ \A i \in 1 .. MaxFrame : \A f \in Known(i) : FrameOK(i, f)
  /\ \A x \in Known(0) : HeaderOK(x)

Types ==
  /\ wal = [i \in Slot |-> wal[i]] /\ pend = [i \in Slot |-> pend[i]]
  /\ db \in [Page -> Val \cup {Torn}] /\ dbDisk \in [Page -> Val \cup {Torn}]
  /\ dbPend \in [Page -> SUBSET Val]
  /\ live \in IndexHdr /\ h \in IndexHdr /\ nBackfill \in Slot
  /\ wc \in WalObject /\ call \in Call /\ pc \in PCs
  /\ DOMAIN pager = {"img", "dirty", "modified", "savepoint", "sp"}
  /\ pager.img \in Image /\ pager.dirty \in SUBSET Page /\ pager.modified \in BOOLEAN
  /\ pager.savepoint = FALSE /\ pager.sp = NoSavepoint
  /\ hist \in Seq(Image)
  /\ synced \in Nat \ {0} /\ acked \in Nat /\ floor \in 1 .. Len(hist)
  /\ synced <= acked /\ acked <= Len(hist)
  /\ nWrite \in Val /\ nSalt \in Nat /\ nCrash \in Nat
  /\ sc \in Scenario /\ ~sc.savepoints

\* Values are given once.
Values ==
  /\ \A k \in 1 .. Len(hist) : \A p \in Page : hist[k][p] <= nWrite
  /\ \A p \in Page : pager.img[p] <= nWrite

\* A commit frame of the log is part of the valid prefix, or dead.
Classified ==
  wal[0].ok \/ wal[0].nCkpt > 0 =>
    \A i \in 1 .. MaxFrame : \A f \in Known(i) :
      CommitOf(f, wal[0].salt, wal[0].nCkpt) => (i <= Top /\ f.ck = wal[i].ck) \/ Dead(f, i)

\* The first n frames are on the disk, and what a sync of the database may still
\* change is in them; m frames hold commit K, and every commit from n on is known.
Img(m) == Overlay(wal, db, 1, m)
OnDisk(n) ==
  /\ n = 0 \/ wal[n].commit
  /\ \A i \in 0 .. n : pend[i] = {} /\ \A b \in bases : b[i] = wal[i]
  /\ \A p \in Page : dbPend[p] # {} \/ dbDisk[p] # db[p] => FindFrame(wal, p, 1, n) # 0
Images(n, m, K) ==
  /\ hist[K] = Img(m)
  /\ \A i \in n .. m : i = 0 \/ wal[i].commit => \E k \in synced .. K : hist[k] = Img(i)
LastIs(K) == IF pc = "down" THEN K \in synced .. Len(hist) /\ K >= floor ELSE K = acked
LogInv ==
  InLog => /\ wal[0].ok
           /\ \E n \in 0 .. Mx : \E K \in Nat : LastIs(K) /\ OnDisk(n) /\ Images(n, Mx, K)

\* Without frames the database is everything: what may be left of older logs has
\* lost its commits or says the same as the database.
Settled == \A p \in Page : dbPend[p] = {} /\ dbDisk[p] = db[p]
Retired(b) ==
  /\ \A i \in 1 .. MaxFrame : pend[i] = {}
  /\ Overlay(b, db, 1, RecoveredMx(b)) = db
DbInv ==
  ~InLog =>
    /\ Settled /\ Top = 0
    /\ \E K \in Nat : LastIs(K) /\ hist[K] = db
    /\ \A x \in pend[0] : DeadUnder(x.salt, x.nCkpt)
    /\ \A b \in bases : ~b[0].ok \/ DeadUnder(b[0].salt, b[0].nCkpt) \/ Retired(b)
    /\ pc \in {"idle", "write"} /\ wc.nCkpt > 0 => DeadUnder(live.salt, wc.nCkpt)

\* The running connection knows where the log ends and reads the last commit.
LiveInv ==
  pc # "down" =>
    /\ nBackfill <= live.mx
    /\ Top = IF Pending THEN End ELSE live.mx
    /\ live.salt <= nSalt
    /\ live.mx > 0 =>
         live.salt = wal[0].salt /\ live.ck = wal[live.mx].ck /\ wal[live.mx].commit
    /\ Visible = hist[acked] /\ Img(live.mx) = hist[acked]
    /\ nBackfill = live.mx => Settled
    /\ Len(hist) = IF call.commit THEN acked + 1 ELSE acked
    /\ InLog /\ live.mx = 0 /\ wc.nCkpt > 0 => live.salt = wal[0].salt /\ wc.nCkpt = wal[0].nCkpt
    /\ call.commit => Writing \/ pc = "synchdr"

AllSynced == bases = {wal} /\ \A i \in Slot : pend[i] = {}
SyncInv ==
  /\ pc = "backfill" => AllSynced
  /\ pc \in {"idle", "write", "truncate", "delete"} /\ nBackfill = live.mx /\ nBackfill > 0 => AllSynced
  /\ pc = "publish" /\ call.commit /\ sc.fullSync => AllSynced

\* Between transactions, and during a checkpoint.
RestInv ==
  /\ pc \in {"idle", "backfill", "truncate", "delete"} => h = live /\ wc.iReCksum = 0
  /\ pc = "backfill" =>
       /\ nBackfill < live.mx
       /\ \A p \in Page \ call.todo : db[p] = Visible[p]
       /\ \A p \in call.todo : FindFrame(wal, p, nBackfill + 1, live.mx) # 0
  /\ pc \in {"truncate", "delete"} => nBackfill = live.mx
  /\ pc = "down" => live = ZeroHdr /\ h = ZeroHdr /\ nBackfill = 0 /\ ~call.commit

\* The frames of the open transaction follow the last commit; those from
\* iReCksum on await their checksums.
EndInv ==
  InTrans =>
    /\ live.mx <= h.mx /\ h.mx <= End /\ End <= MaxFrame
    /\ wc.readLock0 => pc = "write" /\ nBackfill = live.mx /\ h.mx = live.mx
    /\ ~wc.readLock0 => wc.minFrame = nBackfill + 1
    /\ nBackfill = live.mx /\ live.mx > 0 => wc.readLock0
    /\ pc = "write" /\ h.mx = live.mx => h = live
    /\ pc = "synchdr" => /\ live.mx = 0 /\ h.mx = 0 /\ call.iFrame = 0 /\ wc.iReCksum = 0
                         /\ wal[0].ok /\ h.salt = wal[0].salt
                         /\ h.ck = HdrCk(wal[0].salt, wal[0].nCkpt)
                         /\ wc.nCkpt > 0 => live.salt = wal[0].salt /\ wc.nCkpt = wal[0].nCkpt
    /\ wc.iReCksum # 0 => live.mx < wc.iReCksum /\ wc.iReCksum <= End
    /\ End > live.mx \/ call.list # <<>> \/ pc = "write"
    /\ pc = "recksum" => wc.iReCksum # 0 /\ Committed
    /\ pc \in {"sync", "publish"} => call.list = <<>> /\ (call.commit => wc.iReCksum = 0)
ChainInv ==
  InTrans /\ Spilled =>
    /\ h.salt = wal[0].salt
    /\ wc.iReCksum = 0 => /\ End = 0 \/ End \in ValidFrames(wal)
                          /\ h.ck = ChecksumAfter(wal, End)
    /\ wc.iReCksum > 1 => wc.iReCksum - 1 \in ValidFrames(wal)
    /\ \A i \in live.mx + 1 .. End : wal[i].pg # 0 /\ (wal[i].commit <=> Committed /\ i = End)
    /\ Committed /\ wc.iReCksum # 0 => wal[End].ck = <<>>

\* The pager: dirty pages have values of their own, the others are in the log.
PagerInv ==
  InTrans =>
    /\ pager.dirty # {} => pager.modified
    /\ pc = "write" /\ pager.modified /\ pager.dirty = {} => h.mx > live.mx
    /\ call.commit => hist[Len(hist)] = pager.img
    /\ \A p \in Page \ pager.dirty : Overlay(wal, db, nBackfill + 1, End)[p] = pager.img[p]
    /\ \A p \in pager.dirty : \A q \in Page \ {p} : pager.img[q] # pager.img[p]
FreshInv ==
  InTrans =>
    \A p \in pager.dirty : \A i \in 1 .. MaxFrame : \A g \in Known(i) :
      g.val # pager.img[p] /\ \A j \in 2 .. Len(g.ck) : g.ck[j][2] # pager.img[p]

\* The list of pages that the call has still to write.
ListInv ==
  /\ pc \in {"synchdr", "frames"} =>
       /\ \A k \in 1 .. Len(call.list) :
            /\ call.list[k] \in pager.dirty \/ (call.commit /\ Len(call.list) = 1 /\ End > live.mx)
            /\ FindFrame(wal, call.list[k], h.mx + 1, End) = 0
            /\ \A l \in 1 .. Len(call.list) : call.list[l] = call.list[k] => l = k
       /\ call.commit => \A p \in pager.dirty : \E k \in 1 .. Len(call.list) : call.list[k] = p
       /\ call.iFirst = IF h.mx > live.mx THEN live.mx + 1 ELSE 0
       /\ call.iFrame + Len(call.list) <= MaxFrame
  /\ Committed => pager.dirty = {}

\* Older commit frames do not fit the first frame of the open transaction.
StaleInv ==
  InTrans /\ End > live.mx =>
    \A i \in live.mx + 1 .. MaxFrame : \A f \in Known(i) :
      CommitOf(f, wal[0].salt, wal[0].nCkpt) /\ ~(i <= Top /\ f.ck = wal[i].ck)
        => f.ck[live.mx + 2] # Content(wal[live.mx + 1])

IInv ==
  /\ Types /\ LogOK /\ Values /\ Classified
  /\ LogInv /\ DbInv /\ LiveInv /\ SyncInv /\ RestInv
  /\ EndInv /\ ChainInv /\ PagerInv /\ FreshInv /\ ListInv /\ StaleInv

\* A power loss tore a rewritten WAL header in such a way that its salt and
\* counter are still those of committed frames: walIndexRecover takes them over
\* although the header is not valid, and the next header revives the frames.
RevivedLog ==
  ~wal[0].ok /\ wal[0].nCkpt > 0 /\ RecoveredMx([wal EXCEPT ![0].ok = TRUE]) > 0

-----------------------------------------------------------------------------
(* Operators of the model                                                   *)

LEMMA Bounds == MaxFrame \in Nat \ {0} /\ MaxPage \in Nat \ {0} /\ MaxWrite \in Nat
BY ConstantsOK

\* The largest number of a set of slots, or 0.
LEMMA MaxOf ==
  ASSUME NEW S \in SUBSET (1 .. MaxFrame)
  PROVE  /\ Max({0} \cup S) \in {0} \cup S
         /\ \A i \in S : i <= Max({0} \cup S)
         /\ Max({0} \cup S) \in Slot
<1>1. MaxFrame \in Nat
  BY Bounds
<1> DEFINE I == {0} \cup S
<1>2. I \in SUBSET (0 .. MaxFrame) /\ I # {}
  BY <1>1
<1> HIDE DEF I
<1>3. Max(I) \in I /\ \A j \in I : j <= Max(I)
  BY <1>1, <1>2, MaxFacts
<1> QED BY <1>1, <1>2, <1>3 DEF I, Slot

LEMMA RecFacts ==
  ASSUME NEW w
  PROVE  /\ RecoveredMx(w) \in Slot
         /\ RecoveredMx(w) # 0 => RecoveredMx(w) \in ValidFrames(w) /\ w[RecoveredMx(w)].commit
         /\ \A i \in ValidFrames(w) : w[i].commit => i <= RecoveredMx(w)
<1> DEFINE S == {i \in ValidFrames(w) : w[i].commit}
<1>1. S \in SUBSET (1 .. MaxFrame)
  BY DEF ValidFrames
<1>2. /\ Max({0} \cup S) \in {0} \cup S /\ \A i \in S : i <= Max({0} \cup S)
      /\ Max({0} \cup S) \in Slot
  BY <1>1, MaxOf
<1>3. RecoveredMx(w) = Max({0} \cup S)
  BY DEF RecoveredMx
<1> QED BY <1>2, <1>3

\* The last valid commit frame is where recovery stops.
LEMMA RecIs ==
  ASSUME NEW w, NEW m \in Slot,
         m # 0 => m \in ValidFrames(w) /\ w[m].commit,
         \A i \in ValidFrames(w) : i > m => ~w[i].commit
  PROVE  RecoveredMx(w) = m
<1>1. /\ RecoveredMx(w) \in Slot
      /\ RecoveredMx(w) # 0 => RecoveredMx(w) \in ValidFrames(w) /\ w[RecoveredMx(w)].commit
      /\ \A i \in ValidFrames(w) : w[i].commit => i <= RecoveredMx(w)
  BY RecFacts
<1> QED BY <1>1, Bounds DEF Slot

\* The valid frames are a prefix of the log.
LEMMA ValidFacts ==
  ASSUME NEW w, NEW i \in ValidFrames(w)
  PROVE  /\ i \in 1 .. MaxFrame /\ w[0].ok
         /\ \A j \in 1 .. i : j \in ValidFrames(w) /\ FrameValid(w[j], w[0].salt, ChecksumAfter(w, j - 1))
BY Bounds DEF ValidFrames

LEMMA ValidNext ==
  ASSUME NEW w, NEW i \in 1 .. MaxFrame, w[0].ok, i = 1 \/ i - 1 \in ValidFrames(w),
         FrameValid(w[i], w[0].salt, ChecksumAfter(w, i - 1))
  PROVE  i \in ValidFrames(w)
BY Bounds DEF ValidFrames

\* Validity depends on the header and on the frames up to the one in question.
LEMMA ValidSame ==
  ASSUME NEW w, NEW x, NEW i \in ValidFrames(w), \A j \in 0 .. i : x[j] = w[j]
  PROVE  i \in ValidFrames(x)
<1>1. /\ i \in 1 .. MaxFrame /\ w[0].ok
      /\ \A j \in 1 .. i : FrameValid(w[j], w[0].salt, ChecksumAfter(w, j - 1))
  BY ValidFacts
<1>2. \A j \in 1 .. i : ChecksumAfter(x, j - 1) = ChecksumAfter(w, j - 1) /\ x[j] = w[j]
  BY <1>1, Bounds DEF ChecksumAfter
<1> QED BY <1>1, <1>2, Bounds DEF ValidFrames

LEMMA FindFacts ==
  ASSUME NEW w, NEW p, NEW lo \in Nat \ {0}, NEW hi \in Slot
  PROVE  /\ FindFrame(w, p, lo, hi) \in Slot
         /\ FindFrame(w, p, lo, hi) # 0 =>
              FindFrame(w, p, lo, hi) \in lo .. hi /\ w[FindFrame(w, p, lo, hi)].pg = p
         /\ \A i \in lo .. hi : w[i].pg = p => i <= FindFrame(w, p, lo, hi) /\ FindFrame(w, p, lo, hi) # 0
<1> DEFINE S == {i \in lo .. hi : w[i].pg = p}
<1>1. S \in SUBSET (1 .. MaxFrame)
  BY Bounds DEF Slot
<1>2. /\ Max({0} \cup S) \in {0} \cup S /\ \A i \in S : i <= Max({0} \cup S)
      /\ Max({0} \cup S) \in Slot
  BY <1>1, MaxOf
<1>3. FindFrame(w, p, lo, hi) = Max({0} \cup S)
  BY DEF FindFrame
<1>4. \A i \in S : i # 0 /\ i \in Nat
  BY <1>1
<1> HIDE DEF S
<1>5. \A i \in S : i <= FindFrame(w, p, lo, hi) /\ FindFrame(w, p, lo, hi) # 0
  BY <1>2, <1>3, <1>4, Bounds DEF Slot
<1>6. FindFrame(w, p, lo, hi) # 0 => FindFrame(w, p, lo, hi) \in S
  BY <1>2, <1>3
<1> QED BY <1>2, <1>3, <1>5, <1>6 DEF S

\* The last frame of p is determined by being one and by no later one being.
LEMMA FindIs ==
  ASSUME NEW w, NEW p, NEW lo \in Nat \ {0}, NEW hi \in Slot, NEW m \in Slot,
         m # 0 => m \in lo .. hi /\ w[m].pg = p,
         \A i \in lo .. hi : w[i].pg = p => i <= m /\ m # 0
  PROVE  FindFrame(w, p, lo, hi) = m
<1>1. /\ FindFrame(w, p, lo, hi) \in Slot
      /\ FindFrame(w, p, lo, hi) # 0 =>
           FindFrame(w, p, lo, hi) \in lo .. hi /\ w[FindFrame(w, p, lo, hi)].pg = p
      /\ \A i \in lo .. hi : w[i].pg = p => i <= FindFrame(w, p, lo, hi) /\ FindFrame(w, p, lo, hi) # 0
  BY FindFacts
<1> QED BY <1>1, Bounds DEF Slot

LEMMA FindSame ==
  ASSUME NEW w, NEW x, NEW p, NEW lo \in Nat \ {0}, NEW hi \in Slot,
         \A i \in lo .. hi : x[i].pg = w[i].pg
  PROVE  FindFrame(x, p, lo, hi) = FindFrame(w, p, lo, hi)
<1>1. {i \in lo .. hi : x[i].pg = p} = {i \in lo .. hi : w[i].pg = p}
  OBVIOUS
<1> QED BY <1>1 DEF FindFrame

LEMMA OverlayFacts ==
  ASSUME NEW w, NEW d, NEW lo, NEW hi
  PROVE  /\ Overlay(w, d, lo, hi) = [p \in Page |-> Overlay(w, d, lo, hi)[p]]
         /\ \A p \in Page : FindFrame(w, p, lo, hi) = 0 => Overlay(w, d, lo, hi)[p] = d[p]
         /\ \A p \in Page : FindFrame(w, p, lo, hi) # 0 =>
              Overlay(w, d, lo, hi)[p] = w[FindFrame(w, p, lo, hi)].val
BY DEF Overlay

\* Two overlays agree when their frames do, and their databases outside of them.
LEMMA OverlaySame ==
  ASSUME NEW w, NEW x, NEW d, NEW e, NEW lo \in Nat \ {0}, NEW hi \in Slot,
         \A i \in lo .. hi : x[i].pg = w[i].pg /\ x[i].val = w[i].val,
         \A p \in Page : FindFrame(w, p, lo, hi) = 0 => e[p] = d[p]
  PROVE  Overlay(x, e, lo, hi) = Overlay(w, d, lo, hi)
<1>1. \A p \in Page : FindFrame(x, p, lo, hi) = FindFrame(w, p, lo, hi)
  BY FindSame
<1>2. ASSUME NEW p \in Page
      PROVE  (IF FindFrame(x, p, lo, hi) = 0 THEN e[p] ELSE x[FindFrame(x, p, lo, hi)].val)
             = (IF FindFrame(w, p, lo, hi) = 0 THEN d[p] ELSE w[FindFrame(w, p, lo, hi)].val)
  <2>1. FindFrame(w, p, lo, hi) # 0 => FindFrame(w, p, lo, hi) \in lo .. hi
    BY FindFacts
  <2> QED BY <1>1, <2>1
<1> QED BY <1>2 DEF Overlay

\* Frame n follows frame e, and up to e the two logs hold the same pages.
OneMore(x, w, lo, e, n) ==
  /\ lo \in Nat \ {0} /\ n \in 1 .. MaxFrame /\ lo <= n /\ e \in Slot /\ n = e + 1
  /\ \A i \in lo .. e : x[i].pg = w[i].pg /\ x[i].val = w[i].val
  /\ x[n].pg \in Page

\* One more frame changes one page.
LEMMA OverlayNext ==
  ASSUME NEW w, NEW x, NEW d, NEW lo, NEW n, NEW e, OneMore(x, w, lo, e, n)
  PROVE  \A p \in Page : Overlay(x, d, lo, n)[p] =
           IF p = x[n].pg THEN x[n].val ELSE Overlay(w, d, lo, e)[p]
<1>s. /\ lo \in Nat \ {0} /\ n \in 1 .. MaxFrame /\ lo <= n /\ e \in Slot /\ n = e + 1
      /\ \A i \in lo .. e : x[i].pg = w[i].pg /\ x[i].val = w[i].val
      /\ x[n].pg \in Page
  BY DEF OneMore
<1> SUFFICES ASSUME NEW p \in Page
             PROVE  Overlay(x, d, lo, n)[p] =
                      IF p = x[n].pg THEN x[n].val ELSE Overlay(w, d, lo, e)[p]
  OBVIOUS
<1>0. n \in Slot /\ e \in Slot /\ n = e + 1
  BY <1>s, Bounds DEF Slot
<1>1. CASE p = x[n].pg
  <2>1. n # 0 /\ n \in lo .. n /\ \A i \in lo .. n : i <= n
    BY <1>0, <1>s, Bounds DEF Slot
  <2>2. FindFrame(x, p, lo, n) = n
    BY <1>0, <1>s, <1>1, <2>1, FindIs
  <2> QED BY <1>1, <2>1, <2>2, OverlayFacts
<1>2. CASE p # x[n].pg
  <2> DEFINE m == FindFrame(w, p, lo, e)
  <2>1. /\ m \in Slot /\ (m # 0 => m \in lo .. e /\ w[m].pg = p)
        /\ \A i \in lo .. e : w[i].pg = p => i <= m /\ m # 0
    <3>1. e \in Slot /\ lo \in Nat \ {0}
      BY <1>0, <1>s
    <3> QED BY <3>1, FindFacts
  <2> HIDE DEF m
  <2>2. m # 0 => m \in lo .. n /\ x[m].pg = p /\ x[m].val = w[m].val
    BY <2>1, <1>0, <1>s, Bounds DEF Slot
  <2>3. \A i \in lo .. n : x[i].pg = p => i <= m /\ m # 0
    BY <2>1, <1>0, <1>2, <1>s, Bounds DEF Slot
  <2>4. /\ m \in Slot
        /\ m # 0 => m \in lo .. n /\ x[m].pg = p
    BY <2>1, <2>2
  <2>6. /\ FindFrame(x, p, lo, n) \in Slot
        /\ FindFrame(x, p, lo, n) # 0 =>
             FindFrame(x, p, lo, n) \in lo .. n /\ x[FindFrame(x, p, lo, n)].pg = p
        /\ \A i \in lo .. n : x[i].pg = p => i <= FindFrame(x, p, lo, n) /\ FindFrame(x, p, lo, n) # 0
    BY <1>0, <1>s, FindFacts
  <2>5. FindFrame(x, p, lo, n) = m
    BY <2>3, <2>4, <2>6, <1>0, <1>s, Bounds DEF Slot
  <2> QED BY <2>2, <2>5, <1>2, OverlayFacts DEF m
<1> QED BY <1>1, <1>2

-----------------------------------------------------------------------------
(* Checksums                                                                *)

LEMMA Entries ==
  ASSUME NEW w, Chained(w), NEW i \in 1 .. MaxFrame
  PROVE  /\ Content(w[i]) \in CkEntry
         /\ HdrCk(w[0].salt, w[0].nCkpt) \in Seq(CkEntry)
         /\ Len(HdrCk(w[0].salt, w[0].nCkpt)) = 1
         /\ HdrCk(w[0].salt, w[0].nCkpt)[1] = <<w[0].salt, w[0].nCkpt>>
BY DEF Chained, Content, CkEntry, HdrCk

\* The checksum of a valid frame is that of the frame before it and its content.
LEMMA ChainStep ==
  ASSUME NEW w, Chained(w), NEW i \in ValidFrames(w)
  PROVE  /\ i \in 1 .. MaxFrame /\ w[i].salt = w[0].salt /\ w[i].ck # <<>> /\ w[i].pg # 0
         /\ ChecksumAfter(w, i - 1) \in Seq(CkEntry) /\ Len(ChecksumAfter(w, i - 1)) = i
         /\ w[i].ck = Append(ChecksumAfter(w, i - 1), Content(w[i]))
         /\ Len(w[i].ck) = i + 1 /\ w[i].ck[i + 1] = Content(w[i])
         /\ \A k \in 1 .. i : w[i].ck[k] = ChecksumAfter(w, i - 1)[k]
<1>1. /\ i \in 1 .. MaxFrame /\ w[0].ok
      /\ FrameValid(w[i], w[0].salt, ChecksumAfter(w, i - 1))
      /\ i # 1 => i - 1 \in 1 .. MaxFrame /\ FrameValid(w[i - 1], w[0].salt, ChecksumAfter(w, i - 2))
  <2>1. /\ i \in 1 .. MaxFrame /\ w[0].ok
        /\ \A j \in 1 .. i : FrameValid(w[j], w[0].salt, ChecksumAfter(w, j - 1))
    BY ValidFacts
  <2>2. i # 1 => i - 1 \in 1 .. i /\ i - 1 \in 1 .. MaxFrame /\ (i - 1) - 1 = i - 2
    BY <2>1, Bounds
  <2> QED BY <2>1, <2>2
<1>2. w[i].salt = w[0].salt /\ w[i].pg # 0 /\ w[i].ck # <<>> /\ (i # 1 => w[i - 1].ck # <<>>)
  <2>1. ASSUME NEW j \in 1 .. MaxFrame
        PROVE  ChecksumAfter(w, j - 1) \in Seq(CkEntry) /\ Content(w[j]) \in CkEntry
    <3>1. CASE j = 1
      BY <3>1, Entries DEF ChecksumAfter
    <3>2. CASE j # 1
      <4>1. j - 1 \in 1 .. MaxFrame /\ j - 1 # 0
        BY <3>2, Bounds
      <4> QED BY <4>1, Entries DEF ChecksumAfter, Chained
    <3> QED BY <3>1, <3>2
  <2>2. ASSUME NEW j \in 1 .. MaxFrame, FrameValid(w[j], w[0].salt, ChecksumAfter(w, j - 1))
        PROVE  w[j].ck # <<>>
    <3>1. PICK s \in Seq(CkEntry) : s = ChecksumAfter(w, j - 1)
      BY <2>1
    <3>2. w[j].ck = Append(s, Content(w[j])) /\ Content(w[j]) \in CkEntry
      BY <2>1, <2>2, <3>1 DEF FrameValid, FrameCk, Content
    <3> QED BY <3>2
  <2>3. i # 1 => (i - 1) - 1 = i - 2
    BY <1>1, Bounds
  <2> QED BY <1>1, <2>2, <2>3 DEF FrameValid
<1> DEFINE ck == ChecksumAfter(w, i - 1)
<1>3. ck \in Seq(CkEntry) /\ Len(ck) = i
  <2>1. CASE i = 1
    BY <2>1, <1>1, Entries DEF ChecksumAfter
  <2>2. CASE i # 1
    BY <2>2, <1>1, <1>2, Bounds DEF ChecksumAfter, Chained
  <2> QED BY <2>1, <2>2
<1>4. w[i].ck = Append(ck, Content(w[i])) /\ Content(w[i]) \in CkEntry
  BY <1>1, Entries DEF FrameValid, FrameCk, Content
<1> HIDE DEF ck
<1>5. /\ Len(w[i].ck) = i + 1 /\ w[i].ck[i + 1] = Content(w[i])
      /\ \A k \in 1 .. i : w[i].ck[k] = ck[k]
  BY <1>1, <1>3, <1>4, AppendProperties
<1> QED BY <1>1, <1>2, <1>3, <1>4, <1>5 DEF ck

\* It covers every frame up to it.
LEMMA ChainCovers ==
  ASSUME NEW w, Chained(w), NEW i \in ValidFrames(w)
  PROVE  /\ w[i].ck[1] = <<w[0].salt, w[0].nCkpt>>
         /\ \A j \in 1 .. i : Own(w[j], j) /\ Covers(w[i], w[j], j)
         /\ \A j \in 1 .. i : w[i].ck[j + 1] = Content(w[j])
<1>0. i \in 1 .. MaxFrame /\ MaxFrame \in Nat
  BY ValidFacts, Bounds
<1>1. \A j \in 1 .. i :
        /\ j \in ValidFrames(w) /\ j \in 1 .. MaxFrame
        /\ w[j].salt = w[0].salt /\ w[j].ck # <<>> /\ w[j].pg # 0
        /\ Len(w[j].ck) = j + 1 /\ w[j].ck[j + 1] = Content(w[j])
        /\ \A k \in 1 .. j : w[j].ck[k] = ChecksumAfter(w, j - 1)[k]
  <2> TAKE j \in 1 .. i
  <2>1. j \in ValidFrames(w)
    BY ValidFacts
  <2> QED BY <2>1, ChainStep
<1> DEFINE B == {j \in 1 .. i : ~(\A k \in 1 .. j + 1 : w[j].ck[k] = w[i].ck[k])}
<1>2. B = {}
  <2> SUFFICES ASSUME B # {} PROVE FALSE
    OBVIOUS
  <2>1. B \in SUBSET (0 .. MaxFrame)
    BY <1>0
  <2> DEFINE m == Max(B)
  <2>2. m \in B /\ \A j \in B : j <= m
    BY <2>1, <1>0, MaxFacts
  <2> HIDE DEF m
  <2>3. m \in 1 .. i /\ m # i
    BY <2>2
  <2>4. m + 1 \in 1 .. i /\ m + 1 \notin B /\ (m + 1) - 1 = m /\ m # 0
    BY <2>2, <2>3, <1>0
  <2>5. \A k \in 1 .. m + 2 : w[m + 1].ck[k] = w[i].ck[k]
    <3>1. (m + 1) + 1 = m + 2
      BY <2>3, <1>0
    <3> QED BY <2>4, <3>1
  <2>6. \A k \in 1 .. m + 1 : w[m + 1].ck[k] = w[m].ck[k]
    BY <2>4, <1>1 DEF ChecksumAfter
  <2>7. \A k \in 1 .. m + 1 : k \in 1 .. m + 2
    BY <2>3, <1>0
  <2>8. \A k \in 1 .. m + 1 : w[m].ck[k] = w[i].ck[k]
    BY <2>5, <2>6, <2>7
  <2> QED BY <2>2, <2>8
<1>3. \A j \in 1 .. i : \A k \in 1 .. j + 1 : w[j].ck[k] = w[i].ck[k]
  BY <1>2
<1>4. w[i].ck[1] = <<w[0].salt, w[0].nCkpt>>
  <2>1. 1 \in 1 .. i /\ 1 \in 1 .. 1 + 1 /\ 1 \in 1 .. 1 /\ 1 - 1 = 0
    BY <1>0
  <2>2. w[1].ck[1] = ChecksumAfter(w, 0)[1]
    BY <2>1, <1>1
  <2>3. ChecksumAfter(w, 0)[1] = <<w[0].salt, w[0].nCkpt>>
    BY <2>1, <1>1, Entries DEF ChecksumAfter
  <2> QED BY <2>1, <2>2, <2>3, <1>3
<1>5. i \in 1 .. i
  BY <1>0
<1>6. \A j \in 1 .. i : Own(w[j], j) /\ Covers(w[i], w[j], j)
  BY <1>1, <1>3, <1>5 DEF Own, Covers
<1>7. \A j \in 1 .. i : j + 1 \in 1 .. j + 1
  BY <1>0
<1>8. \A j \in 1 .. i : w[i].ck[j + 1] = Content(w[j])
  BY <1>1, <1>3, <1>7
<1> QED BY <1>4, <1>6, <1>8

\* A frame that covers all frames before it, each the owner of its checksum, is valid.
LEMMA ChainValid ==
  ASSUME NEW w, Chained(w), w[0].ok, NEW i \in 1 .. MaxFrame,
         w[i].salt = w[0].salt, w[i].ck[1] = <<w[0].salt, w[0].nCkpt>>,
         \A j \in 1 .. i : Own(w[j], j) /\ Covers(w[i], w[j], j)
  PROVE  i \in ValidFrames(w)
<1>0. MaxFrame \in Nat
  BY Bounds DEF Chained
<1>1. ASSUME NEW j \in 1 .. i
      PROVE  FrameValid(w[j], w[0].salt, ChecksumAfter(w, j - 1))
  <2>1. /\ j \in 1 .. MaxFrame /\ w[j].pg # 0 /\ w[j].salt = w[0].salt
        /\ Len(w[j].ck) = j + 1 /\ w[j].ck[j + 1] = Content(w[j]) /\ w[j].ck \in Seq(CkEntry)
        /\ \A k \in 1 .. j + 1 : w[j].ck[k] = w[i].ck[k]
    BY <1>0 DEF Own, Covers, Chained
  <2> DEFINE ck == ChecksumAfter(w, j - 1)
  <2>2. ck \in Seq(CkEntry) /\ Len(ck) = j /\ \A k \in 1 .. j : ck[k] = w[i].ck[k]
    <3>1. CASE j = 1
      <4>1. ck = HdrCk(w[0].salt, w[0].nCkpt)
        BY <3>1 DEF ChecksumAfter
      <4>2. ck \in Seq(CkEntry) /\ Len(ck) = 1 /\ ck[1] = <<w[0].salt, w[0].nCkpt>>
        BY <4>1, Entries, <2>1
      <4> QED BY <3>1, <4>2
    <3>2. CASE j # 1
      <4>1. j - 1 \in 1 .. i /\ j - 1 \in 1 .. MaxFrame /\ j - 1 # 0 /\ (j - 1) + 1 = j
        BY <3>2, <1>0
      <4>2. ck = w[j - 1].ck
        BY <4>1 DEF ChecksumAfter
      <4>3. Own(w[j - 1], j - 1) /\ Covers(w[i], w[j - 1], j - 1)
        BY <4>1
      <4> QED BY <4>1, <4>2, <4>3 DEF Own, Covers, Chained
    <3> QED BY <3>1, <3>2
  <2>3. Content(w[j]) \in CkEntry
    BY <2>1, Entries
  <2> HIDE DEF ck
  <2> DEFINE ap == Append(ck, Content(w[j]))
  <2>4. /\ ap \in Seq(CkEntry) /\ Len(ap) = j + 1 /\ ap[j + 1] = Content(w[j])
        /\ \A k \in 1 .. j : ap[k] = ck[k]
    BY <2>2, <2>3, AppendProperties
  <2> HIDE DEF ap
  <2>5. \A k \in 1 .. j + 1 : k \in 1 .. j \/ k = j + 1
    BY <1>0
  <2>6. \A k \in 1 .. Len(ap) : ap[k] = w[j].ck[k]
    BY <2>1, <2>2, <2>4, <2>5
  <2>7. ap = w[j].ck
    BY <2>1, <2>4, <2>6, SeqEqual
  <2> QED BY <2>1, <2>7 DEF ap, ck, FrameValid, FrameCk, Content
<1> QED BY <1>1 DEF ValidFrames

\* Two valid frames with the same checksum have the same log before them.
LEMMA SameChain ==
  ASSUME NEW w, Chained(w), NEW x, Chained(x),
         NEW i, i \in ValidFrames(w), i \in ValidFrames(x), w[i].ck = x[i].ck
  PROVE  \A j \in 1 .. i : x[j].pg = w[j].pg /\ x[j].val = w[j].val /\ x[j].commit = w[j].commit
<1>1. \A j \in 1 .. i : w[i].ck[j + 1] = Content(w[j])
  BY ChainCovers
<1>2. \A j \in 1 .. i : x[i].ck[j + 1] = Content(x[j])
  BY ChainCovers
<1> QED BY <1>1, <1>2 DEF Content

-----------------------------------------------------------------------------
(* Frames that can no longer be reached                                     *)

\* A commit frame in the valid prefix of a log ends a transaction of its header.
LEMMA ValidCommit ==
  ASSUME NEW w, Chained(w), NEW i \in ValidFrames(w), w[i].commit
  PROVE  CommitOf(w[i], w[0].salt, w[0].nCkpt)
<1>1. w[i].salt = w[0].salt /\ w[i].ck # <<>>
  BY ChainStep
<1>2. w[i].ck[1] = <<w[0].salt, w[0].nCkpt>>
  BY ChainCovers
<1> QED BY <1>1, <1>2 DEF CommitOf

\* A dead frame is in the valid prefix of no log that the slots may hold.
LEMMA DeadInvalid ==
  ASSUME NEW w, Chained(w), NEW i \in ValidFrames(w), \A j \in 1 .. i : w[j] \in Known(j)
  PROVE  ~Dead(w[i], i)
<1>1. \A j \in 1 .. i : Own(w[j], j) /\ Covers(w[i], w[j], j)
  BY ChainCovers
<1> QED BY <1>1 DEF Dead

\* With its commit frames dead, a header has no transaction in the log.
LEMMA DeadHeader ==
  ASSUME NEW w, Chained(w), \A j \in 1 .. MaxFrame : w[j] \in Known(j) \/ w[j].pg = 0,
         DeadUnder(w[0].salt, w[0].nCkpt)
  PROVE  RecoveredMx(w) = 0
<1> SUFFICES ASSUME RecoveredMx(w) # 0 PROVE FALSE
  OBVIOUS
<1> DEFINE m == RecoveredMx(w)
<1>1. m \in ValidFrames(w) /\ w[m].commit
  BY RecFacts
<1> HIDE DEF m
<1>2. /\ m \in 1 .. MaxFrame
      /\ \A j \in 1 .. m : j \in ValidFrames(w) /\ j \in 1 .. MaxFrame
  BY <1>1, ValidFacts, Bounds
<1>3. \A j \in 1 .. m : w[j].pg # 0
  BY <1>2, ChainStep
<1>4. \A j \in 1 .. m : w[j] \in Known(j)
  BY <1>2, <1>3
<1>5. m \in 1 .. m
  BY <1>2
<1>6. Dead(w[m], m)
  BY <1>1, <1>2, <1>4, <1>5, ValidCommit DEF DeadUnder
<1> QED BY <1>1, <1>4, <1>6, DeadInvalid

\* A frame stays dead unless a slot gets a frame that fits.
LEMMA StillDead ==
  ASSUME NEW i \in 1 .. MaxFrame, NEW f, Dead(f, i),
         \A j \in 1 .. i : \A g \in Known(j)' : g \in Known(j) \/ ~Own(g, j) \/ ~Covers(f, g, j)
  PROVE  Dead(f, i)'
BY DEF Dead

LEMMA StillDeadUnder ==
  ASSUME NEW salt, NEW nCkpt, DeadUnder(salt, nCkpt),
         \A j \in 1 .. MaxFrame : \A g \in Known(j)' :
           g \in Known(j) \/ (~Own(g, j) /\ ~g.commit)
  PROVE  DeadUnder(salt, nCkpt)'
<1>1. \A i \in 1 .. MaxFrame : \A j \in 1 .. i : j \in 1 .. MaxFrame
  BY Bounds
<1>2. ASSUME NEW i \in 1 .. MaxFrame, NEW f \in Known(i)', CommitOf(f, salt, nCkpt)
      PROVE  Dead(f, i)'
  <2>1. f \in Known(i)
    BY <1>2 DEF CommitOf
  <2>2. Dead(f, i)
    BY <1>2, <2>1 DEF DeadUnder
  <2> QED BY <2>2, <1>1, StillDead
<1> QED BY <1>2 DEF DeadUnder

\* A salt that was just drawn is in no frame.
LEMMA FreshHeader ==
  ASSUME LogOK, nSalt \in Nat, NEW salt \in Nat, salt > nSalt, NEW nCkpt
  PROVE  DeadUnder(salt, nCkpt)
BY DEF DeadUnder, CommitOf, LogOK, FrameOK, Frame

\* A frame keeps its place in recovery if the slots before it do.
LEMMA ValidEqual ==
  ASSUME NEW w, NEW x, NEW n \in Slot, \A j \in 0 .. n : x[j] = w[j]
  PROVE  \A i \in 1 .. n : i \in ValidFrames(x) <=> i \in ValidFrames(w)
<1> SUFFICES ASSUME NEW i \in 1 .. n
             PROVE  i \in ValidFrames(x) <=> i \in ValidFrames(w)
  OBVIOUS
<1>1. \A j \in 0 .. i : x[j] = w[j] /\ w[j] = x[j]
  BY Bounds DEF Slot
<1> QED BY <1>1, ValidSame

-----------------------------------------------------------------------------
(* Lists of pages, and what a power loss leaves                             *)

\* PageList(S) names every page of S once.
LEMMA PageListFacts ==
  ASSUME NEW S \in SUBSET Page
  PROVE  /\ PageList(S) \in Seq(Page) /\ Len(PageList(S)) = Cardinality(S)
         /\ Len(PageList(S)) \in Nat
         /\ \A k \in 1 .. Len(PageList(S)) : PageList(S)[k] \in S
         /\ \A k, l \in 1 .. Len(PageList(S)) : PageList(S)[k] = PageList(S)[l] => k = l
         /\ \A p \in S : \E k \in 1 .. Len(PageList(S)) : PageList(S)[k] = p
<1>0. MaxPage \in Nat
  BY Bounds
<1> DEFINE R == [p \in S |-> Cardinality({q \in S : q <= p})]
           n == Cardinality(S)
<1>1. S \in SUBSET (0 .. MaxPage)
  BY <1>0 DEF Page
<1>2. n \in Nat /\ R \in Bijection(S, 1 .. n)
  BY <1>0, <1>1, Ranks
<1>3. PageList(S) = [i \in 1 .. n |-> CHOOSE p \in S : R[p] = i]
  <2>1. \A p \in S : R[p] = Cardinality({q \in S : q <= p})
    OBVIOUS
  <2> HIDE DEF R
  <2>2. PageList(S) = [i \in 1 .. n |-> CHOOSE p \in S : Cardinality({q \in S : q <= p}) = i]
    BY DEF PageList
  <2>3. ASSUME NEW i \in 1 .. n
        PROVE  (CHOOSE p \in S : Cardinality({q \in S : q <= p}) = i) = CHOOSE p \in S : R[p] = i
    BY <2>1
  <2> QED BY <2>2, <2>3
<1> HIDE DEF R, n
<1>4. /\ \A i \in 1 .. n : \E p \in S : R[p] = i
      /\ \A p \in S : R[p] \in 1 .. n
      /\ \A p, q \in S : R[p] = R[q] => p = q
  BY <1>2 DEF Bijection, Surjection, Injection, IsInjective
<1> DEFINE s == PageList(S)
<1>5. \A i \in 1 .. n : s[i] \in S /\ R[s[i]] = i
  BY <1>3, <1>4
<1>6. s \in [1 .. n -> Page]
  BY <1>3, <1>5
<1>7. s \in Seq(Page) /\ Len(s) = n
  BY <1>2, <1>6
<1>8. \A p \in S : s[R[p]] = p
  BY <1>4, <1>5
<1> QED BY <1>2, <1>4, <1>5, <1>7, <1>8 DEF n

LEMMA WalSurvivorFacts ==
  ASSUME NEW w \in WalSurvivors
  PROVE  \E b \in bases :
           /\ w = [i \in Slot |-> w[i]]
           /\ \A i \in Slot : IF pend[i] = {} THEN w[i] = b[i] ELSE w[i] \in Survivors(b, i)
<1> DEFINE S == {i \in Slot : pend[i] # {}}
<1> DEFINE Picks(b) == {c \in [S -> UNION {Survivors(b, i) : i \in S}] :
                          \A i \in S : c[i] \in Survivors(b, i)}
<1>1. PICK b \in bases : w \in {[i \in Slot |-> IF i \in S THEN c[i] ELSE b[i]] : c \in Picks(b)}
  BY DEF WalSurvivors
<1>2. PICK c \in Picks(b) : w = [i \in Slot |-> IF i \in S THEN c[i] ELSE b[i]]
  BY <1>1
<1>3. \A i \in S : c[i] \in Survivors(b, i)
  OBVIOUS
<1> HIDE DEF Picks
<1>4. w = [i \in Slot |-> w[i]] /\ \A i \in Slot : w[i] = IF i \in S THEN c[i] ELSE b[i]
  BY <1>2
<1> QED BY <1>3, <1>4

LEMMA DbSurvivorFacts ==
  ASSUME NEW d \in DbSurvivors
  PROVE  /\ d = [p \in Page |-> d[p]]
         /\ \A p \in Page : IF dbPend[p] = {} THEN d[p] = dbDisk[p]
                            ELSE d[p] \in {dbDisk[p], Torn} \cup dbPend[p]
<1> DEFINE S == {p \in Page : dbPend[p] # {}}
<1>1. \E c : /\ \A p \in S : c[p] \in {dbDisk[p], Torn} \cup dbPend[p]
             /\ d = [p \in Page |-> IF p \in S THEN c[p] ELSE dbDisk[p]]
  BY DEF DbSurvivors
<1> QED BY <1>1

-----------------------------------------------------------------------------
(* What a state of the invariant offers                                     *)

LEMMA LogChained ==
  ASSUME LogOK
  PROVE  Chained(wal) /\ \A b \in bases : Chained(b)
<1>1. ASSUME NEW w, \A i \in 1 .. MaxFrame : FrameOK(i, w[i]), HeaderOK(w[0])
      PROVE  Chained(w)
  <2>1. w[0].salt \in Nat /\ w[0].nCkpt \in Nat
    BY <1>1 DEF HeaderOK, Header
  <2>2. ASSUME NEW i \in 1 .. MaxFrame
        PROVE  /\ w[i].pg \in Nat /\ w[i].val \in Nat /\ w[i].commit \in BOOLEAN
               /\ w[i].ck \in Seq(CkEntry)
               /\ w[i].ck # <<>> => Len(w[i].ck) = i + 1
    BY <1>1, Bounds DEF FrameOK, Frame
  <2> QED BY <2>1, <2>2 DEF Chained
<1>2. \A i \in 1 .. MaxFrame : FrameOK(i, wal[i]) /\ \A b \in bases : FrameOK(i, b[i])
  BY DEF LogOK, Known
<1>3. HeaderOK(wal[0]) /\ \A b \in bases : HeaderOK(b[0])
  BY DEF LogOK, Known
<1> QED BY <1>1, <1>2, <1>3

LEMMA LogChainedNext ==
  ASSUME LogOK'
  PROVE  Chained(wal') /\ \A b \in bases' : Chained(b)
<1>1. ASSUME NEW w, \A i \in 1 .. MaxFrame : FrameOK(i, w[i])', HeaderOK(w[0])'
      PROVE  Chained(w)
  <2>1. w[0].salt \in Nat /\ w[0].nCkpt \in Nat
    BY <1>1 DEF HeaderOK, Header
  <2>2. ASSUME NEW i \in 1 .. MaxFrame
        PROVE  /\ w[i].pg \in Nat /\ w[i].val \in Nat /\ w[i].commit \in BOOLEAN
               /\ w[i].ck \in Seq(CkEntry)
               /\ w[i].ck # <<>> => Len(w[i].ck) = i + 1
    BY <1>1, Bounds DEF FrameOK, Frame
  <2> QED BY <2>1, <2>2 DEF Chained
<1>2. \A i \in 1 .. MaxFrame : FrameOK(i, wal[i])' /\ \A b \in bases' : FrameOK(i, b[i])'
  BY DEF LogOK, Known
<1>3. HeaderOK(wal[0])' /\ \A b \in bases' : HeaderOK(b[0])'
  BY DEF LogOK, Known
<1> QED BY <1>1, <1>2, <1>3

\* The log is as it was.
LEMMA FilesKept ==
  ASSUME UNCHANGED <<wal, bases, pend>>
  PROVE  /\ \A i \in Slot : Known(i)' = Known(i)
         /\ Top' = Top
         /\ Classified => Classified'
         /\ LogOK /\ nSalt \in Nat /\ nSalt' \in Nat /\ nSalt <= nSalt'
              /\ nWrite \in Nat /\ nWrite' \in Nat /\ nWrite <= nWrite' => LogOK'
<1>1. \A i \in Slot : Known(i)' = Known(i)
  BY DEF Known
<1>2. Top' = Top
  BY DEF Top, RecoveredMx, ValidFrames, ChecksumAfter
<1>3. \A i \in 1 .. MaxFrame : i \in Slot /\ \A j \in 1 .. i : j \in Slot
  BY Bounds DEF Slot
<1>4. \A i \in 1 .. MaxFrame : \A f : Dead(f, i)' <=> Dead(f, i)
  BY <1>1, <1>3 DEF Dead
<1>5. Classified => Classified'
  BY <1>1, <1>2, <1>3, <1>4 DEF Classified
<1>6. ASSUME LogOK, nSalt \in Nat, nSalt' \in Nat, nSalt <= nSalt',
             nWrite \in Nat, nWrite' \in Nat, nWrite <= nWrite'
      PROVE  LogOK'
  <2>1. ASSUME NEW i \in 1 .. MaxFrame, NEW f, FrameOK(i, f) PROVE FrameOK(i, f)'
    <3>1. \A j \in 2 .. Len(f.ck) : f.ck[j][2] <= nWrite /\ f.ck[j][2] \in Int
      <4>1. f.ck \in Seq(CkEntry)
        BY <2>1 DEF FrameOK, Frame
      <4>2. ASSUME NEW j \in 2 .. Len(f.ck) PROVE f.ck[j][2] \in Int
        <5>1. f.ck[j] \in CkEntry
          BY <4>1
        <5> QED BY <5>1 DEF CkEntry
      <4> QED BY <2>1, <4>2 DEF FrameOK
    <3> QED BY <1>6, <2>1, <3>1 DEF FrameOK, Frame
  <2>2. ASSUME NEW x, HeaderOK(x) PROVE HeaderOK(x)'
    BY <1>6, <2>2 DEF HeaderOK, Header
  <2>3. 0 \in Slot
    BY Bounds DEF Slot
  <2> QED BY <1>1, <1>3, <1>6, <2>1, <2>2, <2>3 DEF LogOK
<1> QED BY <1>2, <1>1, <1>5, <1>6

\* The commits that the log and the database hold, in a running process.
LEMMA LogKept ==
  ASSUME LogInv, InLog' => InLog, pc # "down", pc' # "down", Mx' = Mx,
         UNCHANGED <<wal, bases, pend, db, dbDisk, dbPend, acked, synced>>,
         \A k \in 1 .. acked : hist'[k] = hist[k],
         synced \in Nat \ {0}, acked \in Nat, acked # 0
  PROVE  LogInv'
<1> SUFFICES ASSUME InLog'
             PROVE  wal'[0].ok /\ \E n \in 0 .. Mx' : \E K \in Nat :
                      LastIs(K)' /\ OnDisk(n)' /\ Images(n, Mx, K)'
  BY DEF LogInv
<1>1. PICK n \in 0 .. Mx, K \in Nat : LastIs(K) /\ OnDisk(n) /\ Images(n, Mx, K)
  BY DEF LogInv
<1>2. wal[0].ok
  BY DEF LogInv
<1>3. K = acked /\ LastIs(K)'
  BY <1>1 DEF LastIs
<1>4. OnDisk(n)'
  BY <1>1 DEF OnDisk, FindFrame
<1>5. \A m : Img(m)' = Img(m)
  BY DEF Img, Overlay, FindFrame
<1>6. Images(n, Mx, K)'
  <2>1. hist'[K] = Img(Mx)'
    BY <1>1, <1>3, <1>5 DEF Images
  <2>2. ASSUME NEW i \in n .. Mx, i = 0 \/ wal[i].commit
        PROVE  \E k \in synced .. K : hist'[k] = Img(i)'
    <3>1. PICK k \in synced .. K : hist[k] = Img(i)
      BY <1>1, <2>2 DEF Images
    <3> QED BY <3>1, <1>3, <1>5
  <2> QED BY <2>1, <2>2 DEF Images
<1> QED BY <1>1, <1>2, <1>3, <1>4, <1>6

LEMMA DeadKept ==
  ASSUME UNCHANGED <<wal, bases, pend>>
  PROVE  \A s, n : DeadUnder(s, n)' <=> DeadUnder(s, n)
<1>1. \A i \in 1 .. MaxFrame : Known(i)' = Known(i) /\ \A f : Dead(f, i)' <=> Dead(f, i)
  <2>1. \A i \in 1 .. MaxFrame : i \in Slot /\ \A j \in 1 .. i : j \in Slot
    BY Bounds DEF Slot
  <2> QED BY <2>1, FilesKept DEF Dead
<1> QED BY <1>1 DEF DeadUnder

\* The log holds no commit, and stays so.
LEMMA DbKept ==
  ASSUME DbInv, ~InLog, LastIs(acked) => LastIs(acked)', pc # "down",
         UNCHANGED <<wal, bases, pend, db, dbDisk, dbPend, acked>>,
         hist'[acked] = hist[acked], acked \in Nat,
         pc' \in {"idle", "write"} =>
           (wc'.nCkpt > 0 => DeadUnder(live.salt, wc.nCkpt)) /\ UNCHANGED <<wc.nCkpt, live.salt>>
  PROVE  DbInv'
<1>1. Settled' /\ Top' = 0
  BY FilesKept DEF DbInv, Settled
<1>2. \E K \in Nat : LastIs(K)' /\ hist'[K] = db'
  BY DEF DbInv, LastIs
<1>4. \A s, n : DeadUnder(s, n)' <=> DeadUnder(s, n)
  BY DeadKept
<1>5. \A b : Retired(b)' <=> Retired(b)
  BY DEF Retired, RecoveredMx, ValidFrames, ChecksumAfter, Overlay, FindFrame
<1>6. \A x \in pend'[0] : DeadUnder(x.salt, x.nCkpt)'
  BY <1>4 DEF DbInv
<1>7. \A b \in bases' : ~b[0].ok \/ DeadUnder(b[0].salt, b[0].nCkpt)' \/ Retired(b)'
  BY <1>4, <1>5 DEF DbInv
<1>8. pc' \in {"idle", "write"} /\ wc'.nCkpt > 0 => DeadUnder(live.salt, wc.nCkpt)'
  BY <1>4
<1> QED BY <1>1, <1>2, <1>6, <1>7, <1>8 DEF DbInv

LEMMA RealImage ==
  ASSUME NEW img \in Image
  PROVE  img = [p \in Page |-> img[p]] /\ \A p \in Page : img[p] \in Val /\ img[p] \in Nat
BY Bounds DEF Image, Val

\* What is empty holds nothing.
LEMMA EmptyFacts ==
         /\ EmptyWal[0] = NoHdr /\ \A i \in 1 .. MaxFrame : EmptyWal[i] = NoFrame
         /\ ValidFrames(EmptyWal) = {} /\ RecoveredMx(EmptyWal) = 0
         /\ EmptyWal = [i \in Slot |-> EmptyWal[i]]
         /\ NoFrame \in Frame /\ NoHdr \in Header
         /\ \A j : ~Own(NoFrame, j) /\ ~NoFrame.commit
<1>1. EmptyWal[0] = NoHdr /\ \A i \in 1 .. MaxFrame : EmptyWal[i] = NoFrame
  BY Bounds DEF EmptyWal, Slot
<1>2. ValidFrames(EmptyWal) = {}
  BY <1>1 DEF ValidFrames, NoHdr
<1>3. RecoveredMx(EmptyWal) = 0
  BY <1>2, RecFacts
<1> QED BY <1>1, <1>2, <1>3, Bounds DEF EmptyWal, NoFrame, NoHdr, Frame, Header, Own, CkEntry

\* An empty range of frames shows the database.
LEMMA OverlayNone ==
  ASSUME NEW w, NEW d, d = [p \in Page |-> d[p]], NEW lo \in Nat, NEW hi \in Nat, hi < lo
  PROVE  Overlay(w, d, lo, hi) = d /\ \A p : FindFrame(w, p, lo, hi) = 0
<1>1. \A p : {i \in lo .. hi : w[i].pg = p} = {}
  OBVIOUS
<1>2. Max({0} \cup {}) = 0
  BY MaxOf
<1>3. \A p : FindFrame(w, p, lo, hi) = 0
  BY <1>1, <1>2 DEF FindFrame
<1> QED BY <1>3 DEF Overlay

LEMMA OverlayEmpty ==
  ASSUME NEW w, NEW d, d = [p \in Page |-> d[p]]
  PROVE  Overlay(w, d, 1, 0) = d
<1>1. 0 \in Nat /\ 1 \in Nat /\ 0 < 1
  OBVIOUS
<1> QED BY <1>1, OverlayNone

\* The scenario is one of those the constants name.
LEMMA ScenarioOK == ASSUME NEW s \in Scenarios PROVE s \in Scenario
BY ConstantsOK

LEMMA InitInv == Init /\ ~sc.savepoints => IInv
<1> SUFFICES ASSUME Init, ~sc.savepoints PROVE IInv
  OBVIOUS
<1> USE Bounds
<1>1. ASSUME NEW i \in 1 .. MaxFrame PROVE Known(i) = {NoFrame}
  <2>0. i \in Slot
    BY DEF Slot
  <2>1. EmptyWal[i] = NoFrame
    BY EmptyFacts
  <2>2. wal[i] = NoFrame /\ pend[i] = {} /\ \A b \in bases : b[i] = NoFrame
    BY <2>0, <2>1 DEF Init
  <2>3. EmptyWal \in bases
    BY DEF Init
  <2> QED BY <2>2, <2>3 DEF Known
<1>2. Known(0) = {NoHdr}
  BY EmptyFacts DEF Init, Known, Slot
<1>3. Blank \in Image /\ Blank = [p \in Page |-> Blank[p]] /\ \A p \in Page : Blank[p] = 0
  BY DEF Blank, Image, Val
<1>4. pc = "idle" /\ ~InLog /\ ~InTrans /\ ~Committed /\ Top = 0 /\ wal = EmptyWal
  BY EmptyFacts DEF Init, InLog, Mx, InTrans, Writing, Committed, Top, ZeroHdr
<1>5. Types
  <2>1. EmptyWal = [i \in Slot |-> EmptyWal[i]]
    BY EmptyFacts
  <2>2. db \in [Page -> Val \cup {Torn}] /\ dbDisk \in [Page -> Val \cup {Torn}] /\ dbPend \in [Page -> SUBSET Val]
    BY <1>3 DEF Init, Blank, Val
  <2>3. live \in IndexHdr /\ h \in IndexHdr /\ nBackfill \in Slot
    BY DEF Init, IndexHdr, ZeroHdr, Slot
  <2>4. wc \in WalObject /\ call \in Call /\ pc \in PCs
    BY DEF Init, WalObject, ClosedWal, Call, NoCall, PCs, Slot, Afters
  <2>5. /\ DOMAIN pager = {"img", "dirty", "modified", "savepoint", "sp"}
        /\ pager.img \in Image /\ pager.dirty \in SUBSET Page /\ pager.modified \in BOOLEAN
        /\ pager.savepoint = FALSE /\ pager.sp = NoSavepoint
    BY <1>3 DEF Init, NoPager
  <2>6. /\ hist \in Seq(Image) /\ Len(hist) = 1
        /\ synced \in Nat \ {0} /\ acked \in Nat /\ floor \in 1 .. Len(hist)
        /\ synced <= acked /\ acked <= Len(hist)
    BY <1>3 DEF Init
  <2>7. nWrite \in Val /\ nSalt \in Nat /\ nCrash \in Nat
    BY DEF Init, Val
  <2>8. sc \in Scenario
    BY ScenarioOK DEF Init
  <2> QED BY <2>1, <2>2, <2>3, <2>4, <2>5, <2>6, <2>7, <2>8 DEF Types, Init
<1>6. LogOK
  <2>1. \A i \in 1 .. MaxFrame : FrameOK(i, NoFrame)
    BY EmptyFacts DEF FrameOK, NoFrame, Init
  <2>2. HeaderOK(NoHdr)
    BY EmptyFacts DEF HeaderOK, NoHdr, Init
  <2> QED BY <1>1, <1>2, <2>1, <2>2 DEF LogOK
<1>7. Values
  BY <1>3 DEF Values, Init, NoPager
<1>8. Classified
  BY <1>4, EmptyFacts DEF Classified, NoHdr
<1>9. LogInv
  BY <1>4 DEF LogInv
<1>10. DbInv
  <2>1. Settled
    BY DEF Settled, Init
  <2>2. LastIs(1) /\ hist[1] = db
    BY DEF LastIs, Init
  <2>3. pend[0] = {} /\ wc.nCkpt = 0 /\ \A b \in bases : ~b[0].ok
    BY EmptyFacts DEF Init, ClosedWal, NoHdr, Slot
  <2> QED BY <2>1, <2>2, <2>3, <1>4 DEF DbInv
<1>11. LiveInv
  <2>1. nBackfill = 0 /\ live = ZeroHdr /\ live.mx = 0 /\ live.salt = 0 /\ nSalt = 0
    BY DEF Init, ZeroHdr
  <2>2. ~call.commit /\ acked = 1 /\ Len(hist) = 1 /\ hist[acked] = Blank /\ db = Blank
    BY DEF Init, NoCall
  <2>3. Visible = Blank /\ Img(live.mx) = Blank
    BY <2>1, <2>2, <1>3, OverlayNone DEF Visible, Img
  <2>4. Settled
    BY DEF Settled, Init
  <2> QED BY <2>1, <2>2, <2>3, <2>4, <1>4 DEF LiveInv, Pending
<1>12. SyncInv
  BY <1>4 DEF SyncInv, Init
<1>13. RestInv
  BY <1>4 DEF RestInv, Init, ClosedWal
<1> QED BY <1>4, <1>5, <1>6, <1>7, <1>8, <1>9, <1>10, <1>11, <1>12, <1>13
        DEF IInv, EndInv, ChainInv, PagerInv, FreshInv, ListInv, StaleInv

-----------------------------------------------------------------------------
(* Transactions                                                             *)

\* Numbers of a state of the invariant: frames and salts, then commits.
LEMMA Numbers ==
  ASSUME Types
  PROVE  /\ live.mx \in Nat /\ h.mx \in Nat /\ nBackfill \in Nat /\ call.iFrame \in Nat
         /\ live.mx <= MaxFrame /\ h.mx <= MaxFrame /\ nBackfill <= MaxFrame
         /\ call.iFrame <= MaxFrame /\ MaxFrame \in Nat
         /\ wc.iReCksum \in Nat /\ wc.iReCksum <= MaxFrame /\ End \in Slot /\ End \in Nat
         /\ live.salt \in Nat /\ h.salt \in Nat /\ wc.nCkpt \in Nat
         /\ nSalt \in Nat /\ nWrite \in Nat
BY Bounds DEF Types, Val, IndexHdr, Call, WalObject, Slot, End

LEMMA Commits ==
  ASSUME Types
  PROVE  /\ Len(hist) \in Nat /\ acked \in Nat /\ synced \in Nat
         /\ 1 <= synced /\ synced <= acked /\ acked <= Len(hist)
BY DEF Types

\* The checksums of the headers, the last commit and the database file.
LEMMA Shapes ==
  ASSUME Types
  PROVE  /\ live.ck \in Seq(CkEntry) /\ h.ck \in Seq(CkEntry)
         /\ hist[acked] \in Image
         /\ db = [p \in Page |-> db[p]]
<1>1. hist[acked] \in Image
  <2>1. acked \in 1 .. Len(hist) /\ hist \in Seq(Image)
    BY DEF Types
  <2> QED BY <2>1
<1>2. db = [p \in Page |-> db[p]]
  BY DEF Types
<1> QED BY <1>1, <1>2 DEF Types, IndexHdr

LEMMA BeginWriteStep == IInv /\ BeginWrite => IInv'
<1> SUFFICES ASSUME IInv, BeginWrite PROVE IInv'
  OBVIOUS
<1>0. /\ Types /\ LogOK /\ Values /\ Classified
      /\ LogInv /\ DbInv /\ LiveInv /\ SyncInv /\ RestInv
  BY DEF IInv
<1>1. /\ pc = "idle" /\ pc' = "write" /\ h' = live /\ h = live /\ wc.iReCksum = 0
      /\ pager' = NoPager(Visible)
      /\ UNCHANGED <<wal, bases, pend, db, dbDisk, dbPend, live, nBackfill, call>>
      /\ UNCHANGED <<hist, acked, synced, floor, nWrite, nSalt, nCrash, sc>>
      /\ wc' = [wc EXCEPT !.readLock0 = (nBackfill = live.mx), !.minFrame = nBackfill + 1]
  BY <1>0 DEF BeginWrite, RestInv, files, ghosts, counters
<1>2. /\ wc' \in WalObject /\ wc'.iReCksum = 0 /\ wc'.nCkpt = wc.nCkpt
      /\ (wc'.readLock0 <=> nBackfill = live.mx) /\ wc'.minFrame = nBackfill + 1
  <2>0. nBackfill \in Nat /\ nBackfill <= MaxFrame /\ MaxFrame \in Nat /\ wc \in WalObject
    BY <1>0, Numbers DEF Types
  <2>1. nBackfill + 1 \in 1 .. MaxFrame + 1 /\ wc \in WalObject
    BY <2>0
  <2> QED BY <1>1, <2>1 DEF WalObject
<1>3. ~call.commit /\ Visible \in Image /\ Visible = hist[acked]
  BY <1>0, <1>1, Shapes DEF LiveInv, Writing
<1>4. /\ ~Writing /\ ~Writing' /\ InLog' = InLog /\ Mx' = Mx /\ ~Committed' /\ InTrans'
      /\ ~Pending /\ ~Pending' /\ End' = live.mx
  BY <1>1, <1>3 DEF Writing, InLog, Mx, Committed, Pending, InTrans, End
<1>5. Types'
  BY <1>0, <1>1, <1>2, <1>3 DEF Types, NoPager, PCs
<1>6. Top' = Top /\ LogOK' /\ Classified'
  BY <1>0, <1>1, Numbers, FilesKept
<1>7. Values'
  BY <1>0, <1>1, <1>3, Commits DEF Values, NoPager
<1>8. LogInv'
  BY <1>0, <1>1, <1>4, Commits, LogKept
<1>9. DbInv'
  <2>1. CASE InLog
    BY <2>1, <1>4 DEF DbInv
  <2>2. CASE ~InLog
    <3>1. wc.nCkpt > 0 => DeadUnder(live.salt, wc.nCkpt)
      BY <2>2, <1>0, <1>1 DEF DbInv
    <3>2. LastIs(acked)'
      BY <1>1 DEF LastIs
    <3> QED BY <3>1, <3>2, <2>2, <1>0, <1>1, <1>2, Commits, DbKept
  <2> QED BY <2>1, <2>2
<1>10. LiveInv'
  <2>1. Visible' = Visible /\ Img(live.mx)' = Img(live.mx)
    BY <1>1 DEF Visible, Img, Overlay, FindFrame
  <2>2. Settled' = Settled
    BY <1>1 DEF Settled
  <2> QED BY <2>1, <2>2, <1>0, <1>1, <1>2, <1>3, <1>4, <1>6 DEF LiveInv
<1>11. SyncInv'
  BY <1>0, <1>1 DEF SyncInv, AllSynced
<1>12. RestInv'
  BY <1>1 DEF RestInv
<1>13. EndInv'
  <2>1. live.mx \in Nat /\ live.mx <= MaxFrame
    BY <1>0, Numbers
  <2> QED BY <1>1, <1>2, <1>4, <2>1 DEF EndInv
<1>14. ChainInv'
  BY <1>0, <1>1, <1>4, Numbers DEF ChainInv, Spilled
<1>15. PagerInv'
  <2>1. Overlay(wal, db, nBackfill + 1, live.mx) = Visible
    BY DEF Visible
  <2> QED BY <2>1, <1>0, <1>1, <1>3, <1>4 DEF PagerInv, NoPager
<1>16. FreshInv' /\ ListInv' /\ StaleInv'
  BY <1>0, <1>1, <1>4, Numbers DEF FreshInv, ListInv, StaleInv, NoPager
<1> QED BY <1>5, <1>6, <1>7, <1>8, <1>9, <1>10, <1>11, <1>12, <1>13, <1>14, <1>15, <1>16 DEF IInv

LEMMA WritePageStep == ASSUME NEW p \in Page PROVE IInv /\ WritePage(p) => IInv'
<1> SUFFICES ASSUME IInv, WritePage(p) PROVE IInv'
  OBVIOUS
<1>0. /\ Types /\ LogOK /\ Values /\ Classified
      /\ LogInv /\ DbInv /\ LiveInv /\ SyncInv /\ RestInv
      /\ EndInv /\ ChainInv /\ PagerInv /\ FreshInv /\ ListInv /\ StaleInv
  BY DEF IInv
<1>1. /\ pc = "write" /\ pc' = "write" /\ nWrite' = nWrite + 1 /\ nWrite < sc.maxWrite
      /\ UNCHANGED <<wal, bases, pend, db, dbDisk, dbPend, live, nBackfill, h, wc, call>>
      /\ UNCHANGED <<hist, acked, synced, floor, nSalt, nCrash, sc>>
  BY DEF WritePage, files, ghosts
<1>2. /\ pager'.img = [pager.img EXCEPT ![p] = nWrite + 1]
      /\ pager'.dirty = pager.dirty \cup {p} /\ pager'.modified
      /\ pager'.modified \in BOOLEAN
      /\ pager'.savepoint = FALSE /\ pager'.sp = NoSavepoint
      /\ DOMAIN pager' = {"img", "dirty", "modified", "savepoint", "sp"}
  BY <1>0 DEF WritePage, Types, NoSavepoint
<1>3. nWrite \in Nat /\ nWrite + 1 \in Val /\ nWrite + 1 # Torn
  <2>1. sc.maxWrite \in 0 .. MaxWrite
    BY <1>0 DEF Types, Scenario
  <2>2. nWrite \in Nat /\ MaxWrite \in Nat /\ nWrite < sc.maxWrite
    BY <1>0, <1>1, Bounds, Numbers
  <2> QED BY <2>1, <2>2 DEF Val, Torn
<1>4. pager'.img \in Image /\ pager.img \in [Page -> Val] /\ pager.dirty \in SUBSET Page
  BY <1>0, <1>2, <1>3 DEF Types, Image
<1>5. /\ ~Writing /\ ~Writing' /\ InLog' = InLog /\ Mx' = Mx /\ ~Committed /\ ~Committed'
      /\ ~Pending /\ ~Pending' /\ InTrans /\ InTrans' /\ End' = End /\ End = h.mx
  BY <1>1 DEF Writing, InLog, Mx, Committed, Pending, InTrans, End
<1>6. \A q \in Page : pager'.img[q] = IF q = p THEN nWrite + 1 ELSE pager.img[q]
  BY <1>2, <1>4
<1>7. \A q \in Page : pager.img[q] \in Nat /\ pager.img[q] <= nWrite
  BY <1>0, <1>4, Bounds DEF Values, Val
<1>8. Types'
  BY <1>0, <1>1, <1>2, <1>3, <1>4 DEF Types
<1>9. Top' = Top /\ LogOK' /\ Classified' /\ \A i \in 1 .. MaxFrame : Known(i)' = Known(i)
  <2>1. nWrite <= nWrite + 1 /\ nWrite + 1 \in Nat /\ nWrite' \in Nat /\ nWrite <= nWrite'
    BY <1>1, <1>3
  <2>2. \A i \in 1 .. MaxFrame : i \in Slot
    BY Bounds DEF Slot
  <2>3. nSalt \in Nat /\ nSalt' \in Nat /\ nSalt <= nSalt'
    BY <1>0, <1>1, Numbers
  <2> QED BY <2>1, <2>2, <2>3, <1>0, <1>1, <1>3, FilesKept
<1>10. Values'
  <2>1. \A k \in 1 .. Len(hist) : \A q \in Page : hist[k][q] <= nWrite /\ hist[k][q] \in Nat
    <3>1. \A k \in 1 .. Len(hist) : hist[k] \in Image
      BY <1>0 DEF Types
    <3> QED BY <3>1, <1>0, RealImage DEF Values
  <2>2. \A k \in 1 .. Len(hist) : \A q \in Page : hist[k][q] <= nWrite + 1
    BY <2>1, <1>3
  <2>3. \A q \in Page : pager'.img[q] <= nWrite + 1
    BY <1>3, <1>6, <1>7
  <2> QED BY <2>2, <2>3, <1>1 DEF Values
<1>11. LogInv'
  BY <1>0, <1>1, <1>5, Commits, LogKept
<1>12. DbInv'
  <2>1. CASE InLog
    BY <2>1, <1>5 DEF DbInv
  <2>2. CASE ~InLog
    <3>1. wc.nCkpt > 0 => DeadUnder(live.salt, wc.nCkpt)
      BY <2>2, <1>0, <1>1 DEF DbInv
    <3>2. LastIs(acked)'
      BY <1>1 DEF LastIs
    <3> QED BY <3>1, <3>2, <2>2, <1>0, <1>1, Commits, DbKept
  <2> QED BY <2>1, <2>2
<1>13. LiveInv'
  <2>1. Visible' = Visible /\ Img(live.mx)' = Img(live.mx)
    BY <1>1 DEF Visible, Img, Overlay, FindFrame
  <2>2. Settled' = Settled
    BY <1>1 DEF Settled
  <2> QED BY <2>1, <2>2, <1>0, <1>1, <1>5, <1>9 DEF LiveInv
<1>14. SyncInv' /\ RestInv'
  BY <1>0, <1>1 DEF SyncInv, AllSynced, RestInv
<1>15. EndInv'
  BY <1>0, <1>1, <1>5 DEF EndInv
<1>16. ChainInv'
  BY <1>0, <1>1, <1>5 DEF ChainInv, Spilled, ValidFrames, ChecksumAfter
<1>17. PagerInv'
  <2>1. /\ pager'.dirty # {} => pager'.modified
        /\ pc' = "write" /\ pager'.modified /\ pager'.dirty = {} => h'.mx > live'.mx
        /\ ~call'.commit
    BY <1>0, <1>1, <1>2, <1>5 DEF LiveInv
  <2>2. Overlay(wal, db, nBackfill + 1, End)' = Overlay(wal, db, nBackfill + 1, End)
    BY <1>1, <1>5 DEF Overlay, FindFrame
  <2>3. \A q \in Page \ pager'.dirty : Overlay(wal, db, nBackfill + 1, End)'[q] = pager'.img[q]
    BY <2>2, <1>0, <1>2, <1>5, <1>6 DEF PagerInv
  <2>4. \A q \in pager'.dirty : \A r \in Page \ {q} : pager'.img[r] # pager'.img[q]
    <3>1. \A q \in pager.dirty : \A r \in Page \ {q} : pager.img[r] # pager.img[q]
      BY <1>0, <1>5 DEF PagerInv
    <3>2. \A q \in Page : pager.img[q] # nWrite + 1
      BY <1>3, <1>7
    <3> QED BY <3>1, <3>2, <1>2, <1>4, <1>6
  <2> QED BY <2>1, <2>3, <2>4 DEF PagerInv
<1>18. FreshInv'
  <2>1. ASSUME NEW i \in 1 .. MaxFrame, NEW g \in Known(i)
        PROVE  g.val # nWrite + 1 /\ \A j \in 2 .. Len(g.ck) : g.ck[j][2] # nWrite + 1
    <3>1. FrameOK(i, g)
      BY <1>0 DEF LogOK
    <3>2. g.val <= nWrite \/ g.val \in {0, Torn}
      BY <3>1 DEF FrameOK
    <3>3. \A j \in 2 .. Len(g.ck) : g.ck[j][2] <= nWrite
      BY <3>1 DEF FrameOK
    <3> QED BY <3>2, <3>3, <1>3
  <2>2. ASSUME NEW q \in pager'.dirty, NEW i \in 1 .. MaxFrame, NEW g \in Known(i)
        PROVE  g.val # pager'.img[q] /\ \A j \in 2 .. Len(g.ck) : g.ck[j][2] # pager'.img[q]
    <3>1. CASE q = p
      BY <3>1, <2>1, <1>6
    <3>2. CASE q # p
      <4>1. q \in pager.dirty /\ pager'.img[q] = pager.img[q]
        BY <3>2, <1>2, <1>4, <1>6
      <4> QED BY <4>1, <1>0, <1>5 DEF FreshInv
    <3> QED BY <3>1, <3>2
  <2> QED BY <2>2, <1>9 DEF FreshInv
<1>19. ListInv'
  BY <1>1, <1>5 DEF ListInv
<1>20. StaleInv'
  <2>1. \A i \in live.mx + 1 .. MaxFrame : i \in 1 .. MaxFrame
    BY <1>0, Numbers
  <2> QED BY <2>1, <1>0, <1>1, <1>5, <1>9 DEF StaleInv
<1> QED BY <1>8, <1>9, <1>10, <1>11, <1>12, <1>13, <1>14, <1>15, <1>16, <1>17, <1>18, <1>19, <1>20 DEF IInv

\* A log with a header and no commit: the database is everything.
LEMMA NoCommit ==
  ASSUME IInv, InLog, pc # "down", live.mx = 0, Top = 0
  PROVE  /\ Settled /\ hist[acked] = db /\ pend[0] = {}
         /\ \A b \in bases : b[0] = wal[0]
         /\ DeadUnder(wal[0].salt, wal[0].nCkpt)
         /\ wc.nCkpt > 0 => live.salt = wal[0].salt /\ wc.nCkpt = wal[0].nCkpt
<1>0. Types /\ LogInv /\ LiveInv /\ Classified
  BY DEF IInv
<1>1. nBackfill = 0 /\ Mx = 0
  BY <1>0, Numbers DEF LiveInv, Mx
<1>2. Settled
  BY <1>0, <1>1 DEF LiveInv
<1>3. hist[acked] = db
  <2>0. db = [p \in Page |-> db[p]] /\ 0 \in Nat /\ 1 \in Nat /\ 0 < 1
    BY <1>0, Shapes
  <2>1. Overlay(wal, db, 1, 0) = db
    BY <2>0, OverlayNone
  <2> QED BY <2>1, <1>0 DEF LiveInv, Img
<1>4. wal[0].ok /\ OnDisk(0)
  BY <1>0, <1>1 DEF LogInv
<1>5. 0 \in 0 .. 0
  OBVIOUS
<1>6. pend[0] = {} /\ \A b \in bases : b[0] = wal[0]
  BY <1>4, <1>5 DEF OnDisk
<1>7. DeadUnder(wal[0].salt, wal[0].nCkpt)
  <2>1. \A i \in 1 .. MaxFrame : ~(i <= Top)
    OBVIOUS
  <2> QED BY <2>1, <1>0, <1>4 DEF Classified, DeadUnder
<1> QED BY <1>0, <1>2, <1>3, <1>6, <1>7 DEF LiveInv

LEMMA RollbackStep == IInv /\ Rollback => IInv'
<1> SUFFICES ASSUME IInv, Rollback PROVE IInv'
  OBVIOUS
<1>0. /\ Types /\ LogOK /\ Values /\ Classified
      /\ LogInv /\ DbInv /\ LiveInv /\ SyncInv /\ RestInv /\ EndInv
  BY DEF IInv
<1>1. /\ pc = "write" /\ pc' = "idle" /\ h' = live
      /\ pager' = NoPager(Visible)
      /\ UNCHANGED <<wal, bases, pend, db, dbDisk, dbPend, live, nBackfill, call>>
      /\ UNCHANGED <<hist, acked, synced, floor, nWrite, nSalt, nCrash, sc>>
      /\ wc' = [wc EXCEPT !.iReCksum = 0, !.truncateOnCommit = FALSE, !.readLock0 = FALSE]
  BY DEF Rollback, files, ghosts, counters
<1>2. wc' \in WalObject /\ wc'.iReCksum = 0 /\ wc'.nCkpt = wc.nCkpt
  <2>1. wc \in WalObject /\ 0 \in Slot
    BY <1>0, Bounds DEF Types, Slot
  <2> QED BY <1>1, <2>1 DEF WalObject
<1>3. ~call.commit /\ Visible \in Image /\ Visible = hist[acked]
  BY <1>0, <1>1, Shapes DEF LiveInv, Writing
<1>4. /\ ~Writing /\ ~Writing' /\ (InLog' => InLog) /\ Mx' = Mx /\ ~Committed' /\ ~InTrans'
      /\ ~Pending /\ ~Pending' /\ InTrans /\ (InLog' <=> live.mx > 0)
  BY <1>1, <1>3 DEF Writing, InLog, Mx, Committed, Pending, InTrans
<1>5. Types'
  BY <1>0, <1>1, <1>2, <1>3 DEF Types, NoPager, PCs
<1>6. Top' = Top /\ LogOK' /\ Classified'
  BY <1>0, <1>1, Numbers, FilesKept
<1>7. Values'
  BY <1>0, <1>1, <1>3, Commits DEF Values, NoPager
<1>8. LogInv'
  BY <1>0, <1>1, <1>4, Commits, LogKept
<1>9. DbInv'
  <2>1. CASE InLog'
    BY <2>1 DEF DbInv
  <2>2. CASE ~InLog
    <3>1. wc.nCkpt > 0 => DeadUnder(live.salt, wc.nCkpt)
      BY <2>2, <1>0, <1>1 DEF DbInv
    <3>2. LastIs(acked)'
      BY <1>1 DEF LastIs
    <3> QED BY <3>1, <3>2, <2>2, <1>0, <1>1, <1>2, Commits, DbKept
  <2>3. CASE InLog /\ ~InLog'
    <3>1. live.mx = 0 /\ Top = 0 /\ Top' = 0
      BY <2>3, <1>0, <1>1, <1>4, <1>6, Numbers DEF LiveInv
    <3>2. /\ Settled /\ hist[acked] = db /\ pend[0] = {}
          /\ \A b \in bases : b[0] = wal[0]
          /\ DeadUnder(wal[0].salt, wal[0].nCkpt)
          /\ wc.nCkpt > 0 => live.salt = wal[0].salt /\ wc.nCkpt = wal[0].nCkpt
      BY <2>3, <3>1, <1>1, NoCommit
    <3>3. DeadUnder(wal[0].salt, wal[0].nCkpt)'
      BY <3>2, <1>1, DeadKept
    <3>4. Settled' /\ LastIs(acked)' /\ hist'[acked] = db'
      BY <3>2, <1>1 DEF Settled, LastIs
    <3>7. acked \in Nat
      BY <1>0, Commits
    <3>5. pend'[0] = {} /\ \A b \in bases' : b[0] = wal'[0]
      BY <3>2, <1>1
    <3>6. wc'.nCkpt > 0 => DeadUnder(live.salt, wc.nCkpt)'
      BY <3>2, <3>3, <1>1, <1>2
    <3>8. \A b \in bases' : DeadUnder(b[0].salt, b[0].nCkpt)'
      BY <3>3, <3>5
    <3>9. \E K \in Nat : LastIs(K)' /\ hist'[K] = db'
      BY <3>4, <3>7, <1>1
    <3> QED BY <3>1, <3>4, <3>5, <3>6, <3>8, <3>9 DEF DbInv
  <2> QED BY <2>1, <2>2, <2>3
<1>10. LiveInv'
  <2>1. Visible' = Visible /\ Img(live.mx)' = Img(live.mx)
    BY <1>1 DEF Visible, Img, Overlay, FindFrame
  <2>2. Settled' = Settled
    BY <1>1 DEF Settled
  <2> QED BY <2>1, <2>2, <1>0, <1>1, <1>2, <1>3, <1>4, <1>6, Numbers DEF LiveInv
<1>11. SyncInv'
  BY <1>0, <1>1 DEF SyncInv, AllSynced
<1>12. RestInv'
  BY <1>1, <1>2 DEF RestInv
<1>13. ListInv'
  BY <1>1, <1>4 DEF ListInv
<1> QED BY <1>4, <1>5, <1>6, <1>7, <1>8, <1>9, <1>10, <1>11, <1>12, <1>13
        DEF IInv, EndInv, ChainInv, PagerInv, FreshInv, StaleInv

-----------------------------------------------------------------------------
(* Steps that leave the files and the live header alone                     *)

LEMMA Quiet ==
  ASSUME IInv, pc # "down", pc' # "down",
         UNCHANGED <<wal, bases, pend, db, dbDisk, dbPend, live, nBackfill>>,
         UNCHANGED <<hist, acked, synced, floor, nWrite, nSalt, nCrash, sc>>,
         InLog' <=> InLog, Pending' <=> Pending, Pending => End' = End, wc'.nCkpt = wc.nCkpt,
         pc' \in {"idle", "write"} => pc \in {"idle", "write"} \/ InLog,
         call'.commit <=> call.commit, call.commit => Writing' \/ pc' = "synchdr"
  PROVE  /\ LogOK' /\ Classified' /\ LogInv' /\ DbInv' /\ LiveInv'
         /\ Top' = Top /\ \A i \in 1 .. MaxFrame : Known(i)' = Known(i)
<1>0. Types /\ LogOK /\ Classified /\ LogInv /\ DbInv /\ LiveInv
  BY DEF IInv
<1>1. Top' = Top /\ LogOK' /\ Classified' /\ \A i \in 1 .. MaxFrame : Known(i)' = Known(i)
  <2>1. \A i \in 1 .. MaxFrame : i \in Slot
    BY Bounds DEF Slot
  <2>2. nWrite \in Nat /\ nWrite' \in Nat /\ nWrite <= nWrite' /\ nSalt \in Nat /\ nSalt' \in Nat /\ nSalt <= nSalt'
    BY <1>0, Numbers
  <2> QED BY <2>1, <2>2, <1>0, FilesKept
<1>2. Mx' = Mx
  BY DEF Mx
<1>3. LogInv'
  <2>1. synced \in Nat \ {0} /\ acked \in Nat /\ acked # 0
    BY <1>0 DEF Types
  <2>2. \A k \in 1 .. acked : hist'[k] = hist[k]
    OBVIOUS
  <2> QED BY <2>1, <2>2, <1>0, <1>2, LogKept
<1>4. DbInv'
  <2>1. CASE InLog
    BY <2>1 DEF DbInv
  <2>2. CASE ~InLog
    <3>1. pc' \in {"idle", "write"} =>
            (wc'.nCkpt > 0 => DeadUnder(live.salt, wc.nCkpt)) /\ UNCHANGED <<wc.nCkpt, live.salt>>
      BY <2>2, <1>0 DEF DbInv
    <3>2. LastIs(acked)' /\ hist'[acked] = hist[acked] /\ acked \in Nat
      BY <1>0, Commits DEF LastIs
    <3> QED BY <3>1, <3>2, <2>2, <1>0, DbKept
  <2> QED BY <2>1, <2>2
<1>5. LiveInv'
  <2>1. Visible' = Visible /\ Img(live.mx)' = Img(live.mx)
    BY DEF Visible, Img, Overlay, FindFrame
  <2>2. Settled' = Settled
    BY DEF Settled
  <2> QED BY <2>1, <2>2, <1>0, <1>1 DEF LiveInv
<1> QED BY <1>1, <1>3, <1>4, <1>5

LEMMA FramesWrittenStep == IInv /\ FramesWritten => IInv'
<1> SUFFICES ASSUME IInv, FramesWritten PROVE IInv'
  OBVIOUS
<1>0. /\ Types /\ Values /\ SyncInv /\ RestInv
      /\ EndInv /\ ChainInv /\ PagerInv /\ FreshInv /\ ListInv /\ StaleInv
  BY DEF IInv
<1>1. /\ pc = "frames" /\ call.list = <<>>
      /\ pc' \in {"recksum", "sync", "publish"}
      /\ pc' = "recksum" <=> call.commit /\ wc.iReCksum # 0
      /\ pc' = "publish" => ~(call.commit /\ sc.fullSync)
      /\ UNCHANGED <<wal, bases, pend, db, dbDisk, dbPend, live, nBackfill, h, wc, pager, call>>
      /\ UNCHANGED <<hist, acked, synced, floor, nWrite, nSalt, nCrash, sc>>
  BY DEF FramesWritten, files, ghosts, counters
<1>2. /\ Writing /\ Writing' /\ InLog /\ InLog' /\ (Committed' <=> Committed)
      /\ (Pending' <=> Pending) /\ InTrans /\ InTrans' /\ End' = End /\ Spilled' /\ Spilled
      /\ (Committed <=> call.commit)
  BY <1>1 DEF Writing, InLog, Committed, Pending, InTrans, End, Spilled
<1>3. Types'
  BY <1>0, <1>1 DEF Types, PCs
<1>4. Values'
  BY <1>0, <1>1 DEF Values
<1>5. /\ LogOK' /\ Classified' /\ LogInv' /\ DbInv' /\ LiveInv'
      /\ Top' = Top /\ \A i \in 1 .. MaxFrame : Known(i)' = Known(i)
  BY <1>1, <1>2, Quiet
<1>6. SyncInv' /\ RestInv'
  BY <1>0, <1>1 DEF SyncInv, RestInv
<1>7. EndInv'
  BY <1>0, <1>1, <1>2 DEF EndInv
<1>8. ChainInv'
  BY <1>0, <1>1, <1>2 DEF ChainInv, ValidFrames, ChecksumAfter
<1>9. PagerInv'
  <2>1. Overlay(wal, db, nBackfill + 1, End)' = Overlay(wal, db, nBackfill + 1, End)
    BY <1>1, <1>2 DEF Overlay, FindFrame
  <2> QED BY <2>1, <1>0, <1>1, <1>2 DEF PagerInv
<1>10. FreshInv'
  BY <1>0, <1>1, <1>2, <1>5 DEF FreshInv
<1>11. ListInv'
  <2>1. Committed => pager.dirty = {}
    BY <1>0 DEF ListInv
  <2> QED BY <2>1, <1>1, <1>2 DEF ListInv
<1>12. StaleInv'
  <2>1. \A i \in live.mx + 1 .. MaxFrame : i \in 1 .. MaxFrame
    BY <1>0, Numbers
  <2> QED BY <2>1, <1>0, <1>1, <1>2, <1>5 DEF StaleInv
<1> QED BY <1>3, <1>4, <1>5, <1>6, <1>7, <1>8, <1>9, <1>10, <1>11, <1>12 DEF IInv

LEMMA PublishSpillStep == IInv /\ PublishSpill => IInv'
<1> SUFFICES ASSUME IInv, PublishSpill PROVE IInv'
  OBVIOUS
<1>0. /\ Types /\ Values /\ SyncInv /\ RestInv
      /\ EndInv /\ ChainInv /\ PagerInv /\ FreshInv /\ ListInv /\ StaleInv
  BY DEF IInv
<1>1. /\ pc = "publish" /\ pc' = "write" /\ ~call.commit /\ call' = NoCall
      /\ h' = [h EXCEPT !.mx = call.iFrame]
      /\ UNCHANGED <<wal, bases, pend, db, dbDisk, dbPend, live, nBackfill, wc, pager>>
      /\ UNCHANGED <<hist, acked, synced, floor, nWrite, nSalt, nCrash, sc>>
  BY DEF PublishSpill, files, ghosts, counters
<1>2. h' \in IndexHdr /\ h'.mx = call.iFrame /\ h'.salt = h.salt /\ h'.ck = h.ck
  BY <1>0, <1>1 DEF Types, IndexHdr, Call
<1>3. InTrans /\ Writing /\ ~Writing' /\ InTrans' /\ ~Committed /\ ~Committed' /\ ~Pending /\ ~Pending'
  BY <1>1 DEF Writing, Committed, Pending, InTrans, NoCall
<1>4. End = call.iFrame /\ End' = End /\ End > live.mx /\ End \in Nat /\ live.mx \in Nat
  <2>1. End = call.iFrame /\ End' = End
    BY <1>1, <1>2, <1>3 DEF End
  <2>2. End > live.mx
    BY <1>0, <1>1, <1>3 DEF EndInv
  <2> QED BY <2>1, <2>2, <1>0, Numbers
<1>5. InLog /\ InLog' /\ Spilled /\ Spilled'
  BY <1>1, <1>2, <1>3, <1>4 DEF InLog, Spilled
<1>6. Types'
  <2>1. NoCall \in Call
    BY Bounds DEF NoCall, Call, Afters, Slot
  <2> QED BY <2>1, <1>0, <1>1, <1>2 DEF Types, PCs
<1>7. Values'
  BY <1>0, <1>1 DEF Values
<1>8. /\ LogOK' /\ Classified' /\ LogInv' /\ DbInv' /\ LiveInv'
      /\ Top' = Top /\ \A i \in 1 .. MaxFrame : Known(i)' = Known(i)
  <2>1. ~call'.commit
    BY <1>1 DEF NoCall
  <2> QED BY <2>1, <1>1, <1>3, <1>5, Quiet
<1>9. SyncInv' /\ RestInv'
  <2>1. ~(nBackfill = live.mx /\ nBackfill > 0)
    BY <1>0, <1>1, <1>3, Numbers DEF EndInv
  <2> QED BY <2>1, <1>0, <1>1 DEF SyncInv, RestInv
<1>10. EndInv'
  <2>1. ~wc.readLock0 /\ wc.minFrame = nBackfill + 1 /\ End <= MaxFrame /\ ~(nBackfill = live.mx /\ live.mx > 0)
    BY <1>0, <1>1, <1>3 DEF EndInv
  <2>2. wc.iReCksum # 0 => live.mx < wc.iReCksum /\ wc.iReCksum <= End
    BY <1>0, <1>3 DEF EndInv
  <2> QED BY <2>1, <2>2, <1>1, <1>2, <1>4 DEF EndInv
<1>11. ChainInv'
  <2>1. ValidFrames(wal)' = ValidFrames(wal) /\ ChecksumAfter(wal, End)' = ChecksumAfter(wal, End)
    BY <1>1, <1>4 DEF ValidFrames, ChecksumAfter
  <2> QED BY <2>1, <1>0, <1>1, <1>2, <1>3, <1>4, <1>5 DEF ChainInv
<1>12. PagerInv'
  <2>1. Overlay(wal, db, nBackfill + 1, End)' = Overlay(wal, db, nBackfill + 1, End)
    BY <1>1, <1>4 DEF Overlay, FindFrame
  <2> QED BY <2>1, <1>0, <1>1, <1>2, <1>3, <1>4 DEF PagerInv, NoCall
<1>13. FreshInv'
  BY <1>0, <1>1, <1>3, <1>8 DEF FreshInv
<1>14. ListInv'
  BY <1>1, <1>3 DEF ListInv
<1>15. StaleInv'
  <2>1. \A i \in live.mx + 1 .. MaxFrame : i \in 1 .. MaxFrame
    BY <1>0, Numbers
  <2> QED BY <2>1, <1>0, <1>1, <1>3, <1>4, <1>8 DEF StaleInv
<1> QED BY <1>6, <1>7, <1>8, <1>9, <1>10, <1>11, <1>12, <1>13, <1>14, <1>15 DEF IInv

LEMMA CkptInterruptStep == IInv /\ CkptInterrupt => IInv'
<1> SUFFICES ASSUME IInv, CkptInterrupt PROVE IInv'
  OBVIOUS
<1>0. Types /\ Values /\ SyncInv /\ RestInv /\ LiveInv
  BY DEF IInv
<1>1. /\ pc = "backfill" /\ pc' = "idle" /\ call' = NoCall
      /\ UNCHANGED <<wal, bases, pend, db, dbDisk, dbPend, live, nBackfill, h, wc, pager>>
      /\ UNCHANGED <<hist, acked, synced, floor, nWrite, nSalt, nCrash, sc>>
  BY DEF CkptInterrupt, files, ghosts, counters
<1>2. ~call.commit /\ ~call'.commit
  BY <1>0, <1>1 DEF LiveInv, Writing, NoCall
<1>3. /\ ~Writing /\ ~Writing' /\ ~InTrans' /\ ~Committed /\ ~Committed' /\ ~Pending /\ ~Pending'
      /\ (InLog' <=> InLog)
  BY <1>1 DEF Writing, Committed, Pending, InTrans, InLog, Mx
<1>4. nBackfill < live.mx /\ InLog
  <2>1. nBackfill < live.mx
    BY <1>0, <1>1 DEF RestInv
  <2> QED BY <2>1, <1>0, <1>1, Numbers DEF InLog, Mx
<1>5. Types'
  <2>1. NoCall \in Call
    BY Bounds DEF NoCall, Call, Afters, Slot
  <2> QED BY <2>1, <1>0, <1>1 DEF Types, PCs
<1>6. Values'
  BY <1>0, <1>1 DEF Values
<1>7. LogOK' /\ Classified' /\ LogInv' /\ DbInv' /\ LiveInv'
  BY <1>1, <1>2, <1>3, <1>4, Quiet
<1>8. SyncInv' /\ RestInv'
  BY <1>0, <1>1, <1>4, Numbers DEF SyncInv, RestInv
<1>9. ListInv'
  BY <1>1, <1>3 DEF ListInv
<1> QED BY <1>3, <1>5, <1>6, <1>7, <1>8, <1>9
        DEF IInv, EndInv, ChainInv, PagerInv, FreshInv, StaleInv

LEMMA CkptNothingStep == ASSUME NEW after \in Afters PROVE IInv /\ CkptNothing(after) => IInv'
<1> SUFFICES ASSUME IInv, CkptNothing(after) PROVE IInv'
  OBVIOUS
<1>0. Types /\ Values /\ SyncInv /\ RestInv /\ LiveInv
  BY DEF IInv
<1>1. /\ pc = "idle" /\ pc' = after /\ call' = [NoCall EXCEPT !.after = after] /\ h' = live
      /\ pc' \in {"truncate", "delete"} /\ nBackfill = live.mx
      /\ UNCHANGED <<wal, bases, pend, db, dbDisk, dbPend, live, nBackfill, wc, pager>>
      /\ UNCHANGED <<hist, acked, synced, floor, nWrite, nSalt, nCrash, sc>>
  BY DEF CkptNothing, files, ghosts, counters, Afters
<1>2. ~call.commit /\ ~call'.commit /\ h = live
  BY <1>0, <1>1 DEF LiveInv, Writing, NoCall, RestInv
<1>3. /\ ~Writing /\ ~Writing' /\ ~InTrans' /\ ~Committed /\ ~Committed' /\ ~Pending /\ ~Pending'
      /\ (InLog' <=> InLog)
  BY <1>1, <1>2 DEF Writing, Committed, Pending, InTrans, InLog, Mx
<1>4. Types'
  <2>0. NoCall \in Call
    BY Bounds DEF NoCall, Call, Afters, Slot
  <2>1. [NoCall EXCEPT !.after = after] \in Call
    BY <2>0 DEF Call
  <2> QED BY <2>1, <1>0, <1>1 DEF Types, PCs
<1>5. Values'
  BY <1>0, <1>1 DEF Values
<1>6. LogOK' /\ Classified' /\ LogInv' /\ DbInv' /\ LiveInv'
  BY <1>1, <1>2, <1>3, Quiet
<1>7. SyncInv' /\ RestInv'
  BY <1>0, <1>1, <1>2 DEF SyncInv, RestInv, AllSynced
<1>8. ListInv'
  BY <1>1, <1>3 DEF ListInv
<1> QED BY <1>3, <1>4, <1>5, <1>6, <1>7, <1>8
        DEF IInv, EndInv, ChainInv, PagerInv, FreshInv, StaleInv

-----------------------------------------------------------------------------
(* Steps that sync the log                                                  *)

LEMMA FindLonger ==
  ASSUME NEW w, NEW p, NEW n \in Slot, NEW m \in Slot, n <= m, FindFrame(w, p, 1, n) # 0
  PROVE  FindFrame(w, p, 1, m) # 0
<1> DEFINE i == FindFrame(w, p, 1, n)
<1>1. i \in 1 .. n /\ w[i].pg = p
  BY FindFacts
<1>2. i \in 1 .. m
  BY <1>1, Bounds DEF Slot
<1> HIDE DEF i
<1> QED BY <1>1, <1>2, FindFacts

\* Fewer frames are known after the sync, and the last commit is on the disk.
LEMMA Synced ==
  ASSUME IInv, SyncWal, pc # "down", pc' # "down",
         UNCHANGED <<wal, db, dbDisk, dbPend, live, hist, acked, nWrite, nSalt>>,
         InLog \/ wal[0].ok
  PROVE  /\ LogOK' /\ Classified' /\ LogInv' /\ AllSynced' /\ Top' = Top
         /\ \A i \in 1 .. MaxFrame : Known(i)' \subseteq Known(i)
<1>0. Types /\ LogOK /\ Classified /\ LogInv /\ DbInv /\ LiveInv
  BY DEF IInv
<1>1. bases' = {wal} /\ pend' = [i \in Slot |-> {}] /\ synced' = acked
  BY DEF SyncWal
<1>2. \A i \in Slot : Known(i)' = {wal[i]} /\ wal[i] \in Known(i)
  BY <1>1 DEF Known
<1>3. \A i \in 1 .. MaxFrame : i \in Slot /\ \A j \in 1 .. i : j \in 1 .. MaxFrame
  BY Bounds DEF Slot
<1>4. \A i \in 1 .. MaxFrame : Known(i)' \subseteq Known(i)
  BY <1>2, <1>3
<1>5. Top' = Top
  BY DEF Top, RecoveredMx, ValidFrames, ChecksumAfter
<1>6. LogOK'
  <2>1. 0 \in Slot
    BY Bounds DEF Slot
  <2>2. \A i \in 1 .. MaxFrame : \A f \in Known(i)' : FrameOK(i, f)'
    BY <1>0, <1>4 DEF LogOK, FrameOK
  <2>3. \A x \in Known(0)' : HeaderOK(x)'
    BY <2>1, <1>0, <1>2 DEF LogOK, HeaderOK
  <2> QED BY <2>2, <2>3 DEF LogOK
<1>7. Classified'
  <2> SUFFICES ASSUME wal[0].ok \/ wal[0].nCkpt > 0, NEW i \in 1 .. MaxFrame, NEW f \in Known(i)',
                      CommitOf(f, wal[0].salt, wal[0].nCkpt), ~(i <= Top /\ f.ck = wal[i].ck)
               PROVE  Dead(f, i)'
    BY <1>5 DEF Classified
  <2>1. Dead(f, i)
    BY <1>0, <1>4 DEF Classified
  <2>2. \A j \in 1 .. i : \A g \in Known(j)' : g \in Known(j)
    BY <1>3, <1>4
  <2> QED BY <2>1, <2>2, StillDead
<1>8. AllSynced'
  BY <1>1 DEF AllSynced
<1>9. LogInv'
  <2>1. wal[0].ok
    BY <1>0 DEF LogInv
  <2>2. Mx = live.mx /\ Mx' = live.mx /\ live.mx \in Slot /\ live.mx \in Nat
    BY <1>0, Numbers DEF Mx, Types, IndexHdr
  <2>3. LastIs(acked)'
    BY DEF LastIs
  <2>4. hist[acked] = Img(live.mx) /\ (live.mx > 0 => wal[live.mx].commit)
    BY <1>0 DEF LiveInv
  <2>5. Img(live.mx)' = Img(live.mx)
    BY DEF Img, Overlay, FindFrame
  <2>6. ASSUME NEW p \in Page, dbPend[p] # {} \/ dbDisk[p] # db[p]
        PROVE  FindFrame(wal, p, 1, live.mx) # 0
    <3>1. InLog
      BY <2>6, <1>0 DEF DbInv, Settled
    <3>2. PICK n \in 0 .. live.mx : OnDisk(n)
      BY <3>1, <2>2, <1>0 DEF LogInv
    <3>3. n \in Slot /\ n <= live.mx
      BY <2>2, Bounds DEF Slot
    <3>4. FindFrame(wal, p, 1, n) # 0
      BY <3>2, <2>6 DEF OnDisk
    <3> QED BY <3>3, <3>4, <2>2, FindLonger
  <2>7. OnDisk(live.mx)'
    <3>1. \A i \in 0 .. live.mx : i \in Slot
      BY <2>2, Bounds DEF Slot
    <3>2. \A i \in 0 .. live.mx : pend'[i] = {} /\ \A b \in bases' : b[i] = wal[i]
      BY <1>1, <3>1
    <3>3. \A p \in Page : FindFrame(wal, p, 1, live.mx)' = FindFrame(wal, p, 1, live.mx)
      BY DEF FindFrame
    <3>4. live.mx = 0 \/ wal[live.mx].commit
      BY <2>2, <2>4
    <3> QED BY <3>2, <3>3, <3>4, <2>6 DEF OnDisk
  <2>8. Images(live.mx, live.mx, acked)'
    <3>1. \A i \in live.mx .. live.mx : i = live.mx
      BY <2>2
    <3>2. acked \in acked .. acked
      BY <1>0, Numbers
    <3> QED BY <3>1, <3>2, <2>4, <2>5, <1>1 DEF Images
  <2>9. live.mx \in 0 .. live.mx /\ acked \in Nat
    BY <2>2, <1>0, Commits
  <2> QED BY <2>1, <2>2, <2>3, <2>7, <2>8, <2>9 DEF LogInv
<1> QED BY <1>4, <1>5, <1>6, <1>7, <1>8, <1>9

LEMMA SyncHeaderStep == IInv /\ SyncHeader => IInv'
<1> SUFFICES ASSUME IInv, SyncHeader PROVE IInv'
  OBVIOUS
<1>0. /\ Types /\ Values /\ LiveInv /\ SyncInv /\ RestInv /\ DbInv
      /\ EndInv /\ ChainInv /\ PagerInv /\ FreshInv /\ ListInv /\ StaleInv
  BY DEF IInv
<1>1. /\ pc = "synchdr" /\ pc' = "frames" /\ SyncWal
      /\ bases' = {wal} /\ pend' = [i \in Slot |-> {}] /\ synced' = acked
      /\ UNCHANGED <<wal, db, dbDisk, dbPend, live, nBackfill, h, wc, pager, call>>
      /\ UNCHANGED <<hist, acked, floor, nWrite, nSalt, nCrash, sc>>
  BY DEF SyncHeader, SyncWal, counters
<1>2. /\ ~Writing /\ Writing' /\ InTrans /\ InTrans' /\ InLog' /\ Spilled'
      /\ End = h.mx /\ End' = call.iFrame
  BY <1>1 DEF Writing, InLog, InTrans, End, Spilled
<1>3. /\ live.mx = 0 /\ h.mx = 0 /\ call.iFrame = 0 /\ wc.iReCksum = 0
      /\ wal[0].ok /\ h.salt = wal[0].salt
      /\ h.ck = HdrCk(wal[0].salt, wal[0].nCkpt)
      /\ wc.nCkpt > 0 => live.salt = wal[0].salt /\ wc.nCkpt = wal[0].nCkpt
  BY <1>0, <1>1, <1>2 DEF EndInv
<1>4. call.list # <<>> /\ ~Committed /\ ~Committed' /\ ~Pending /\ ~Pending' /\ End = 0 /\ End' = 0
  BY <1>0, <1>1, <1>2, <1>3 DEF EndInv, Committed, Pending
<1>5. /\ LogOK' /\ Classified' /\ LogInv' /\ AllSynced' /\ Top' = Top
      /\ \A i \in 1 .. MaxFrame : Known(i)' \subseteq Known(i)
  BY <1>1, <1>3, Synced
<1>6. Types'
  <2>1. pend' = [i \in Slot |-> pend'[i]]
    BY <1>1
  <2>2. synced' \in Nat \ {0} /\ synced' <= acked
    BY <1>0, <1>1, Commits
  <2> QED BY <2>1, <2>2, <1>0, <1>1 DEF Types, PCs
<1>7. Values' /\ DbInv' /\ SyncInv' /\ RestInv'
  BY <1>0, <1>1, <1>2 DEF Values, DbInv, SyncInv, RestInv
<1>8. LiveInv'
  <2>1. Visible' = Visible /\ Img(live.mx)' = Img(live.mx)
    BY <1>1 DEF Visible, Img, Overlay, FindFrame
  <2>2. Settled' = Settled
    BY <1>1 DEF Settled
  <2> QED BY <2>1, <2>2, <1>0, <1>1, <1>2, <1>3, <1>4, <1>5 DEF LiveInv
<1>9. EndInv'
  BY <1>0, <1>1, <1>2, <1>3, <1>4 DEF EndInv
<1>10. ChainInv'
  BY <1>1, <1>2, <1>3, <1>4 DEF ChainInv, ChecksumAfter
<1>11. PagerInv'
  <2>1. Overlay(wal, db, nBackfill + 1, End)' = Overlay(wal, db, nBackfill + 1, End)
    BY <1>1, <1>4 DEF Overlay, FindFrame
  <2> QED BY <2>1, <1>0, <1>1, <1>2 DEF PagerInv
<1>12. FreshInv'
  BY <1>0, <1>1, <1>2, <1>5 DEF FreshInv
<1>13. ListInv'
  <2>1. \A p : FindFrame(wal, p, h.mx + 1, End)' = FindFrame(wal, p, h.mx + 1, End)
    BY <1>1, <1>4 DEF FindFrame
  <2> QED BY <2>1, <1>0, <1>1, <1>4 DEF ListInv
<1>14. StaleInv'
  BY <1>1, <1>3, <1>4 DEF StaleInv
<1> QED BY <1>5, <1>6, <1>7, <1>8, <1>9, <1>10, <1>11, <1>12, <1>13, <1>14 DEF IInv

LEMMA SyncCommitStep == IInv /\ SyncCommit => IInv'
<1> SUFFICES ASSUME IInv, SyncCommit PROVE IInv'
  OBVIOUS
<1>0. /\ Types /\ Values /\ LiveInv /\ SyncInv /\ RestInv /\ DbInv
      /\ EndInv /\ ChainInv /\ PagerInv /\ FreshInv /\ ListInv /\ StaleInv
  BY DEF IInv
<1>1. /\ pc = "sync" /\ pc' = "publish" /\ SyncWal
      /\ bases' = {wal} /\ pend' = [i \in Slot |-> {}] /\ synced' = acked
      /\ UNCHANGED <<wal, db, dbDisk, dbPend, live, nBackfill, h, wc, pager, call>>
      /\ UNCHANGED <<hist, acked, floor, nWrite, nSalt, nCrash, sc>>
  BY DEF SyncCommit, SyncWal, counters
<1>2. /\ Writing /\ Writing' /\ InTrans /\ InTrans' /\ InLog /\ InLog' /\ Spilled /\ Spilled'
      /\ (Committed' <=> Committed) /\ (Pending' <=> Pending) /\ End' = End
  BY <1>1 DEF Writing, InLog, InTrans, End, Spilled, Committed, Pending
<1>3. /\ LogOK' /\ Classified' /\ LogInv' /\ AllSynced' /\ Top' = Top
      /\ \A i \in 1 .. MaxFrame : Known(i)' \subseteq Known(i)
  BY <1>1, <1>2, Synced
<1>4. Types'
  <2>1. pend' = [i \in Slot |-> pend'[i]]
    BY <1>1
  <2>2. synced' \in Nat \ {0} /\ synced' <= acked
    BY <1>0, <1>1, Commits
  <2> QED BY <2>1, <2>2, <1>0, <1>1 DEF Types, PCs
<1>5. Values' /\ DbInv' /\ SyncInv' /\ RestInv'
  BY <1>0, <1>1, <1>2, <1>3 DEF Values, DbInv, SyncInv, RestInv
<1>6. LiveInv'
  <2>1. Visible' = Visible /\ Img(live.mx)' = Img(live.mx)
    BY <1>1 DEF Visible, Img, Overlay, FindFrame
  <2>2. Settled' = Settled
    BY <1>1 DEF Settled
  <2> QED BY <2>1, <2>2, <1>0, <1>1, <1>2, <1>3 DEF LiveInv
<1>7. EndInv'
  BY <1>0, <1>1, <1>2 DEF EndInv
<1>8. ChainInv'
  BY <1>0, <1>1, <1>2 DEF ChainInv, ValidFrames, ChecksumAfter
<1>9. PagerInv'
  <2>1. Overlay(wal, db, nBackfill + 1, End)' = Overlay(wal, db, nBackfill + 1, End)
    BY <1>1, <1>2 DEF Overlay, FindFrame
  <2> QED BY <2>1, <1>0, <1>1, <1>2 DEF PagerInv
<1>10. FreshInv' /\ ListInv'
  BY <1>0, <1>1, <1>2, <1>3 DEF FreshInv, ListInv
<1>11. StaleInv'
  <2>1. \A i \in live.mx + 1 .. MaxFrame : i \in 1 .. MaxFrame
    BY <1>0, Numbers
  <2> QED BY <2>1, <1>0, <1>1, <1>2, <1>3 DEF StaleInv
<1> QED BY <1>3, <1>4, <1>5, <1>6, <1>7, <1>8, <1>9, <1>10, <1>11 DEF IInv

LEMMA CkptBeginStep == ASSUME NEW after \in Afters PROVE IInv /\ CkptBegin(after) => IInv'
<1> SUFFICES ASSUME IInv, CkptBegin(after) PROVE IInv'
  OBVIOUS
<1>0. Types /\ Values /\ LiveInv /\ SyncInv /\ RestInv /\ DbInv
  BY DEF IInv
<1> DEFINE todo == {p \in Page : FindFrame(wal, p, nBackfill + 1, live.mx) # 0}
<1>1. /\ pc = "idle" /\ pc' = "backfill" /\ SyncWal /\ nBackfill < live.mx /\ h' = live /\ h = live
      /\ call' = [NoCall EXCEPT !.after = after, !.todo = todo] /\ wc.iReCksum = 0
      /\ bases' = {wal} /\ pend' = [i \in Slot |-> {}] /\ synced' = acked
      /\ UNCHANGED <<wal, db, dbDisk, dbPend, live, nBackfill, wc, pager>>
      /\ UNCHANGED <<hist, acked, floor, nWrite, nSalt, nCrash, sc>>
  BY <1>0 DEF CkptBegin, SyncWal, counters, RestInv
<1>2. call'.todo = todo /\ ~call'.commit /\ ~call.commit
  BY <1>0, <1>1 DEF NoCall, LiveInv, Writing
<1>3. /\ ~Writing /\ ~Writing' /\ ~InTrans' /\ ~Committed' /\ ~Pending /\ ~Pending'
  BY <1>1, <1>2 DEF Writing, InTrans, Committed, Pending
<1>4. InLog /\ InLog'
  BY <1>0, <1>1, Numbers DEF InLog, Mx
<1>5. LogOK' /\ Classified' /\ LogInv' /\ AllSynced' /\ Top' = Top
  BY <1>1, <1>4, Synced
<1>6. Types'
  <2>1. pend' = [i \in Slot |-> pend'[i]]
    BY <1>1
  <2>2. synced' \in Nat \ {0} /\ synced' <= acked
    BY <1>0, <1>1, Commits
  <2>3. call' \in Call
    <3>1. NoCall \in Call /\ todo \in SUBSET Page
      BY Bounds DEF NoCall, Call, Afters, Slot
    <3> HIDE DEF todo
    <3> QED BY <3>1, <1>1 DEF Call
  <2> QED BY <2>1, <2>2, <2>3, <1>0, <1>1 DEF Types, PCs
<1>7. Values' /\ DbInv' /\ SyncInv'
  BY <1>0, <1>1, <1>4, <1>5 DEF Values, DbInv, SyncInv
<1>8. RestInv'
  <2>1. \A p \in Page \ todo : db[p] = Visible[p]
    BY DEF Visible, Overlay
  <2>2. Visible' = Visible /\ \A p : FindFrame(wal, p, nBackfill + 1, live.mx)' = FindFrame(wal, p, nBackfill + 1, live.mx)
    BY <1>1 DEF Visible, Overlay, FindFrame
  <2> QED BY <2>1, <2>2, <1>1, <1>2 DEF RestInv
<1>9. LiveInv'
  <2>1. Visible' = Visible /\ Img(live.mx)' = Img(live.mx)
    BY <1>1 DEF Visible, Img, Overlay, FindFrame
  <2>2. Settled' = Settled
    BY <1>1 DEF Settled
  <2> QED BY <2>1, <2>2, <1>0, <1>1, <1>2, <1>3, <1>4, <1>5 DEF LiveInv
<1>10. ListInv'
  BY <1>1, <1>3 DEF ListInv
<1> QED BY <1>3, <1>5, <1>6, <1>7, <1>8, <1>9, <1>10
        DEF IInv, EndInv, ChainInv, PagerInv, FreshInv, StaleInv

-----------------------------------------------------------------------------
(* Checkpoints and close                                                    *)

LEMMA FindWider ==
  ASSUME NEW w, NEW p, NEW lo \in Nat \ {0}, NEW hi \in Slot, FindFrame(w, p, lo, hi) # 0
  PROVE  FindFrame(w, p, 1, hi) # 0
<1> DEFINE i == FindFrame(w, p, lo, hi)
<1>1. i \in lo .. hi /\ w[i].pg = p
  BY FindFacts
<1>2. i \in 1 .. hi
  BY <1>1, Bounds DEF Slot
<1> HIDE DEF i
<1> QED BY <1>1, <1>2, FindFacts

LEMMA BackfillStep == ASSUME NEW p \in Page PROVE IInv /\ Backfill(p) => IInv'
<1> SUFFICES ASSUME IInv, Backfill(p) PROVE IInv'
  OBVIOUS
<1>0. Types /\ LogOK /\ Values /\ Classified /\ LogInv /\ LiveInv /\ SyncInv /\ RestInv /\ DbInv
  BY DEF IInv
<1> DEFINE v == wal[FindFrame(wal, p, nBackfill + 1, h.mx)].val
<1>1. /\ pc = "backfill" /\ pc' = "backfill" /\ p \in call.todo /\ h = live
      /\ db' = [db EXCEPT ![p] = v] /\ dbPend' = [dbPend EXCEPT ![p] = @ \cup {v}]
      /\ call' = [call EXCEPT !.todo = @ \ {p}] /\ wc.iReCksum = 0
      /\ UNCHANGED <<wal, bases, pend, dbDisk, live, nBackfill, h, wc, pager>>
      /\ UNCHANGED <<hist, acked, synced, floor, nWrite, nSalt, nCrash, sc>>
  BY <1>0 DEF Backfill, WriteDb, ghosts, counters, RestInv
<1>2. /\ nBackfill < live.mx /\ FindFrame(wal, p, nBackfill + 1, live.mx) # 0
      /\ AllSynced /\ ~call.commit
  BY <1>0, <1>1 DEF RestInv, SyncInv, LiveInv, Writing
<1>3. /\ nBackfill \in Nat /\ live.mx \in Nat /\ live.mx \in Slot /\ nBackfill + 1 \in Nat \ {0}
      /\ acked \in Nat /\ acked # 0 /\ synced \in 1 .. acked
  <2>1. nBackfill \in Nat /\ live.mx \in Nat
    BY <1>0, Numbers
  <2>2. live.mx \in Slot
    BY <1>0 DEF Types, IndexHdr
  <2>3. acked \in Nat /\ acked # 0 /\ synced \in 1 .. acked
    BY <1>0 DEF Types
  <2> QED BY <2>1, <2>2, <2>3
<1>4. v = Visible[p] /\ v \in Val
  <2>1. v = Visible[p]
    BY <1>1, <1>2 DEF Visible, Overlay
  <2>2. Visible \in Image
    BY <1>0, <1>1, Shapes DEF LiveInv
  <2> QED BY <2>1, <2>2 DEF Image
<1>5. \A q \in Page : db'[q] = IF q = p THEN v ELSE db[q]
  BY <1>0, <1>1 DEF Types
<1>6. /\ ~Writing /\ ~Writing' /\ ~InTrans' /\ ~Committed' /\ ~Pending /\ ~Pending' /\ InLog /\ InLog'
      /\ Mx = live.mx /\ Mx' = live.mx /\ ~call'.commit /\ call'.todo = call.todo \ {p} /\ call' \in Call
  <2>1. call' \in Call /\ call'.todo = call.todo \ {p} /\ call'.commit = call.commit
    BY <1>0, <1>1 DEF Types, Call
  <2>2. live.mx > 0
    BY <1>2, <1>3
  <2> QED BY <2>1, <2>2, <1>1, <1>2 DEF Writing, InTrans, Committed, Pending, InLog, Mx
<1>7. Types'
  <2>1. db' \in [Page -> Val \cup {Torn}] /\ dbPend' \in [Page -> SUBSET Val]
    BY <1>0, <1>1, <1>4 DEF Types
  <2> QED BY <2>1, <1>0, <1>1, <1>6 DEF Types
<1>8. Top' = Top /\ LogOK' /\ Classified'
  BY <1>0, <1>1, Numbers, FilesKept
<1>9. Img(live.mx)' = Img(live.mx) /\ Visible' = Visible
  <2>1. \A q \in Page : FindFrame(wal, q, 1, live.mx) = 0 => db'[q] = db[q]
    BY <1>2, <1>3, <1>5, FindWider
  <2>2. \A q \in Page : FindFrame(wal, q, nBackfill + 1, live.mx) = 0 => db'[q] = db[q]
    BY <1>2, <1>5
  <2>3. Overlay(wal, db', 1, live.mx) = Overlay(wal, db, 1, live.mx)
    BY <2>1 DEF Overlay
  <2>4. Overlay(wal, db', nBackfill + 1, live.mx) = Overlay(wal, db, nBackfill + 1, live.mx)
    BY <2>2 DEF Overlay
  <2> QED BY <2>3, <2>4, <1>1 DEF Img, Visible
<1>10. LogInv'
  <2>1. wal'[0].ok /\ LastIs(acked)'
    BY <1>0, <1>1, <1>6 DEF LogInv, LastIs
  <2>2. hist[acked] = Img(live.mx)' /\ (live.mx = 0 \/ wal[live.mx].commit)
    BY <1>0, <1>1, <1>3, <1>9 DEF LiveInv
  <2>3. ASSUME NEW q \in Page, dbPend'[q] # {} \/ dbDisk[q] # db'[q]
        PROVE  FindFrame(wal, q, 1, live.mx) # 0
    <3>1. CASE q = p
      BY <3>1, <1>2, <1>3, FindWider
    <3>2. CASE q # p
      <4>1. PICK n \in 0 .. live.mx : OnDisk(n)
        BY <1>0, <1>6 DEF LogInv
      <4>2. n \in Slot /\ n <= live.mx
        BY <1>3, Bounds DEF Slot
      <4>3. dbPend[q] # {} \/ dbDisk[q] # db[q]
        BY <2>3, <3>2, <1>0, <1>1, <1>5 DEF Types
      <4>4. FindFrame(wal, q, 1, n) # 0
        BY <4>1, <4>3 DEF OnDisk
      <4> QED BY <4>2, <4>4, <1>3, FindLonger
    <3> QED BY <3>1, <3>2
  <2>4. OnDisk(live.mx)'
    <3>1. \A i \in 0 .. live.mx : i \in Slot
      BY <1>3, Bounds DEF Slot
    <3>2. \A i \in 0 .. live.mx : pend'[i] = {} /\ \A b \in bases' : b[i] = wal'[i]
      BY <3>1, <1>1, <1>2 DEF AllSynced
    <3>3. \A q \in Page : FindFrame(wal, q, 1, live.mx)' = FindFrame(wal, q, 1, live.mx)
      BY <1>1 DEF FindFrame
    <3> QED BY <3>2, <3>3, <2>2, <2>3, <1>1 DEF OnDisk
  <2>5. Images(live.mx, live.mx, acked)'
    <3>1. \A i \in live.mx .. live.mx : i = live.mx
      BY <1>3
    <3>2. acked \in synced .. acked
      BY <1>3
    <3> QED BY <3>1, <3>2, <2>2, <1>1 DEF Images
  <2>6. live.mx \in 0 .. live.mx
    BY <1>3
  <2> QED BY <2>1, <2>4, <2>5, <2>6, <1>1, <1>3, <1>6 DEF LogInv
<1>11. Values' /\ DbInv' /\ SyncInv'
  BY <1>0, <1>1, <1>6 DEF Values, DbInv, SyncInv, AllSynced
<1>12. RestInv'
  <2>1. \A q \in Page \ call'.todo : db'[q] = Visible'[q]
    BY <1>0, <1>1, <1>4, <1>5, <1>6, <1>9 DEF RestInv
  <2>2. \A q \in call'.todo : FindFrame(wal', q, nBackfill' + 1, live'.mx) # 0
    BY <1>0, <1>1, <1>6 DEF RestInv
  <2> QED BY <2>1, <2>2, <1>1, <1>2 DEF RestInv
<1>13. LiveInv'
  BY <1>0, <1>1, <1>2, <1>3, <1>6, <1>8, <1>9 DEF LiveInv
<1>14. ListInv'
  BY <1>1, <1>6 DEF ListInv
<1> QED BY <1>6, <1>7, <1>8, <1>10, <1>11, <1>12, <1>13, <1>14
        DEF IInv, EndInv, ChainInv, PagerInv, FreshInv, StaleInv

LEMMA CkptDoneStep == IInv /\ CkptDone => IInv'
<1> SUFFICES ASSUME IInv, CkptDone PROVE IInv'
  OBVIOUS
<1>0. Types /\ LogOK /\ Values /\ Classified /\ LogInv /\ LiveInv /\ SyncInv /\ RestInv /\ DbInv
  BY DEF IInv
<1>1. /\ pc = "backfill" /\ pc' \in {"idle", "truncate", "delete"} /\ call.todo = {} /\ h = live
      /\ dbDisk' = db /\ dbPend' = [p \in Page |-> {}] /\ nBackfill' = live.mx /\ wc.iReCksum = 0
      /\ UNCHANGED <<wal, bases, pend, db, live, h, wc, pager, call>>
      /\ UNCHANGED <<hist, acked, synced, floor, nWrite, nSalt, nCrash, sc>>
  <2>1. call.after \in Afters
    BY <1>0 DEF Types, Call
  <2> QED BY <2>1, <1>0 DEF CkptDone, SyncDb, ghosts, counters, RestInv, Afters
<1>2. nBackfill < live.mx /\ AllSynced /\ ~call.commit
  BY <1>0, <1>1 DEF RestInv, SyncInv, LiveInv, Writing
<1>3. nBackfill \in Nat /\ live.mx \in Nat /\ live.mx \in Slot /\ db = [p \in Page |-> db[p]]
  BY <1>0, Numbers DEF Types, IndexHdr
<1>4. /\ ~Writing /\ ~Writing' /\ ~InTrans' /\ ~Committed' /\ ~Pending /\ ~Pending' /\ InLog /\ InLog'
      /\ Mx = live.mx /\ Mx' = live.mx
  <2>1. live.mx > 0
    BY <1>2, <1>3
  <2> QED BY <2>1, <1>1, <1>2 DEF Writing, InTrans, Committed, Pending, InLog, Mx
<1>5. Types'
  <2>1. dbDisk' \in [Page -> Val \cup {Torn}] /\ dbPend' \in [Page -> SUBSET Val]
    BY <1>0, <1>1 DEF Types
  <2> QED BY <2>1, <1>0, <1>1, <1>3 DEF Types, PCs
<1>6. Top' = Top /\ LogOK' /\ Classified'
  BY <1>0, <1>1, Numbers, FilesKept
<1>7. LogInv'
  <2>1. PICK n \in 0 .. live.mx, K \in Nat : LastIs(K) /\ OnDisk(n) /\ Images(n, live.mx, K)
    BY <1>0, <1>4 DEF LogInv
  <2>2. OnDisk(n)'
    BY <2>1, <1>1 DEF OnDisk
  <2>3. Images(n, live.mx, K)'
    BY <2>1, <1>1 DEF Images, Img, Overlay, FindFrame
  <2>4. LastIs(K)' /\ wal'[0].ok
    BY <2>1, <1>0, <1>1, <1>4 DEF LastIs, LogInv
  <2> QED BY <2>1, <2>2, <2>3, <2>4, <1>1, <1>4 DEF LogInv
<1>8. Values' /\ DbInv' /\ SyncInv' /\ RestInv'
  BY <1>0, <1>1, <1>2, <1>4 DEF Values, DbInv, SyncInv, AllSynced, RestInv
<1>9. LiveInv'
  <2>1. Visible' = db
    <3>1. live.mx + 1 \in Nat /\ live.mx < live.mx + 1
      BY <1>3
    <3>2. Overlay(wal, db, live.mx + 1, live.mx) = db
      BY <3>1, <1>3, OverlayNone
    <3> QED BY <3>2, <1>1 DEF Visible
  <2>2. Visible = db
    <3>1. \A p \in Page : db[p] = Visible[p]
      BY <1>0, <1>1 DEF RestInv
    <3>2. Visible = [p \in Page |-> Visible[p]]
      BY DEF Visible, Overlay
    <3> QED BY <3>1, <3>2, <1>3
  <2>3. Img(live.mx)' = Img(live.mx)
    BY <1>1 DEF Img, Overlay, FindFrame
  <2>4. Settled'
    BY <1>1 DEF Settled
  <2>5. nBackfill' <= live.mx
    BY <1>1, <1>3
  <2> QED BY <2>1, <2>2, <2>3, <2>4, <2>5, <1>0, <1>1, <1>2, <1>4, <1>6 DEF LiveInv
<1>10. ListInv'
  BY <1>1, <1>4 DEF ListInv
<1> QED BY <1>4, <1>5, <1>6, <1>7, <1>8, <1>9, <1>10
        DEF IInv, EndInv, ChainInv, PagerInv, FreshInv, StaleInv

\* The log is cut to nothing after a complete checkpoint.
LEMMA LogGone ==
  ASSUME IInv, TruncateWal(-1), pc \in {"truncate", "delete"},
         UNCHANGED <<db, dbDisk, dbPend, nWrite, hist, acked>>,
         nSalt' \in Nat, nSalt <= nSalt', ~InLog', LastIs(acked)',
         pc' \in {"idle", "write"} =>
           \E s, n : live'.salt = s /\ wc'.nCkpt = n /\ s \in Nat /\ s > nSalt
  PROVE  /\ LogOK' /\ Classified' /\ LogInv' /\ DbInv' /\ Top' = 0
         /\ Settled' /\ hist[acked] = db /\ hist[acked] = Visible /\ wal' = EmptyWal
         /\ pend' = [i \in Slot |-> {}]
<1>0. Types /\ LogOK /\ LiveInv /\ SyncInv /\ RestInv /\ DbInv
  BY DEF IInv
<1>1. \A w : CutWal(w, -1) = EmptyWal
  BY Bounds DEF CutWal, EmptyWal, Slot
<1>2. /\ wal' = EmptyWal /\ \A b \in bases' : b \in bases \/ b = EmptyWal
      /\ pend' = [i \in Slot |-> {}]
  <2>1. pend' = [i \in Slot |-> {}]
    BY Bounds DEF TruncateWal, Slot
  <2> QED BY <2>1, <1>1 DEF TruncateWal
<1>3. \A i \in 1 .. MaxFrame : \A g \in Known(i)' : g \in Known(i) \/ g = NoFrame
  <2>1. \A i \in 1 .. MaxFrame : i \in Slot
    BY Bounds DEF Slot
  <2>2. \A i \in 1 .. MaxFrame : EmptyWal[i] = NoFrame
    BY EmptyFacts
  <2> QED BY <2>1, <2>2, <1>2 DEF Known
<1>4. \A x \in Known(0)' : x \in Known(0) \/ x = NoHdr
  <2>1. 0 \in Slot /\ EmptyWal[0] = NoHdr
    BY EmptyFacts, Bounds DEF Slot
  <2> QED BY <2>1, <1>2 DEF Known
<1>5. Top' = 0 /\ ~wal'[0].ok /\ wal'[0].nCkpt = 0
  BY <1>2, EmptyFacts DEF Top, NoHdr
<1>6. LogOK'
  <2>1. ASSUME NEW i \in 1 .. MaxFrame, NEW f \in Known(i)' PROVE FrameOK(i, f)'
    <3>1. CASE f \in Known(i)
      <4>1. FrameOK(i, f)
        BY <3>1, <1>0 DEF LogOK
      <4> QED BY <4>1, <1>0, Numbers DEF FrameOK, Frame
    <3>2. CASE f = NoFrame
      BY <3>2, EmptyFacts DEF FrameOK, NoFrame
    <3> QED BY <3>1, <3>2, <1>3
  <2>2. ASSUME NEW x \in Known(0)' PROVE HeaderOK(x)'
    <3>1. CASE x \in Known(0)
      BY <3>1, <1>0, Numbers DEF LogOK, HeaderOK, Header
    <3>2. CASE x = NoHdr
      BY <3>2, EmptyFacts DEF HeaderOK, NoHdr
    <3> QED BY <3>1, <3>2, <1>4
  <2> QED BY <2>1, <2>2 DEF LogOK
<1>7. Classified' /\ LogInv'
  BY <1>5 DEF Classified, LogInv
<1>8. ASSUME NEW s, NEW n, DeadUnder(s, n) PROVE DeadUnder(s, n)'
  BY <1>8, <1>3, EmptyFacts, StillDeadUnder
<1>9. nBackfill = live.mx /\ Settled /\ hist[acked] = Visible /\ h = live
  BY <1>0 DEF RestInv, LiveInv
<1>10. Visible = db /\ Img(live.mx) = db
  <2>0. live.mx \in Nat /\ db = [p \in Page |-> db[p]]
    BY <1>0, Numbers, Shapes
  <2>1. live.mx + 1 \in Nat /\ live.mx < live.mx + 1
    BY <2>0
  <2>3. Overlay(wal, db, live.mx + 1, live.mx) = db
    BY <2>0, <2>1, OverlayNone
  <2>2. Visible = db
    BY <2>3, <1>9 DEF Visible
  <2> QED BY <2>2, <1>0, <1>9 DEF LiveInv
<1>11. ASSUME NEW b \in bases'
       PROVE  ~b[0].ok \/ DeadUnder(b[0].salt, b[0].nCkpt)' \/ Retired(b)'
  <2>0. \A i \in 1 .. MaxFrame : pend'[i] = {}
    BY <1>2, Bounds DEF Slot
  <2>1. CASE b = EmptyWal
    BY <2>1, EmptyFacts DEF NoHdr
  <2>2. CASE b \in bases /\ live.mx > 0
    <3>1. b = wal
      BY <2>2, <1>0, <1>9 DEF SyncInv, AllSynced
    <3>2. Top = live.mx
      BY <1>0 DEF LiveInv, Pending, Committed, Writing
    <3>3. Overlay(b, db, 1, RecoveredMx(b)) = db
      BY <3>1, <3>2, <1>10 DEF Img, Top
    <3> QED BY <3>3, <2>0 DEF Retired
  <2>3. CASE b \in bases /\ ~(live.mx > 0)
    <3>1. ~InLog
      BY <2>3, <1>9 DEF InLog, Mx, Writing
    <3>2. ~b[0].ok \/ DeadUnder(b[0].salt, b[0].nCkpt) \/ Retired(b)
      BY <2>3, <3>1, <1>0 DEF DbInv
    <3>3. Retired(b) => Retired(b)'
      BY <2>0 DEF Retired
    <3> QED BY <3>2, <3>3, <1>8
  <2> QED BY <2>1, <2>2, <2>3, <1>2
<1>12. DbInv'
  <2>1. Settled'
    BY <1>9 DEF Settled
  <2>2. \E K \in Nat : LastIs(K)' /\ hist'[K] = db'
    BY <1>0, <1>9, <1>10, Commits
  <2>3. pend'[0] = {}
    BY <1>2, Bounds DEF Slot
  <2>4. pc' \in {"idle", "write"} /\ wc'.nCkpt > 0 => DeadUnder(live.salt, wc.nCkpt)'
    <3> SUFFICES ASSUME pc' \in {"idle", "write"} PROVE DeadUnder(live.salt, wc.nCkpt)'
      OBVIOUS
    <3>1. PICK s, n : live'.salt = s /\ wc'.nCkpt = n /\ s \in Nat /\ s > nSalt
      OBVIOUS
    <3>2. DeadUnder(s, n)
      BY <3>1, <1>0, Numbers, FreshHeader
    <3> QED BY <3>1, <3>2, <1>8
  <2> QED BY <2>1, <2>2, <2>3, <2>4, <1>5, <1>11 DEF DbInv
<1> QED BY <1>2, <1>5, <1>6, <1>7, <1>9, <1>10, <1>12 DEF Settled

LEMMA CkptTruncateStep == IInv /\ CkptTruncate => IInv'
<1> SUFFICES ASSUME IInv, CkptTruncate PROVE IInv'
  OBVIOUS
<1>0. Types /\ Values /\ LiveInv
  BY DEF IInv
<1>1. /\ pc = "truncate" /\ pc' = "idle" /\ nSalt' = nSalt + 1 /\ TruncateWal(-1) /\ call' = NoCall
      /\ h' = [h EXCEPT !.mx = 0, !.salt = nSalt + 1] /\ live' = h' /\ nBackfill' = 0
      /\ wc' = [wc EXCEPT !.nCkpt = @ + 1]
      /\ UNCHANGED <<db, dbDisk, dbPend, pager, hist, acked, synced, floor, nWrite, nCrash, sc>>
  BY DEF CkptTruncate, ghosts, BackfillAfter
<1>2. /\ h' \in IndexHdr /\ h'.mx = 0 /\ h'.salt = nSalt + 1
      /\ wc' \in WalObject /\ wc'.nCkpt = wc.nCkpt + 1 /\ wc'.iReCksum = wc.iReCksum
  <2>1. h \in IndexHdr /\ wc \in WalObject /\ 0 \in Slot /\ nSalt \in Nat
    BY <1>0, Bounds DEF Types, Slot
  <2>2. nSalt + 1 \in Nat
    BY <2>1
  <2>3. h' \in IndexHdr /\ h'.mx = 0 /\ h'.salt = nSalt + 1
    BY <2>1, <2>2, <1>1 DEF IndexHdr
  <2>4. wc' \in WalObject /\ wc'.nCkpt = wc.nCkpt + 1 /\ wc'.iReCksum = wc.iReCksum
    BY <2>1, <1>1 DEF WalObject
  <2> QED BY <2>3, <2>4
<1>3. wc.iReCksum = 0 /\ ~call.commit /\ ~call'.commit /\ NoCall \in Call
  <2>1. wc.iReCksum = 0 /\ ~call.commit
    BY <1>0, <1>1 DEF IInv, RestInv, LiveInv, Writing
  <2> QED BY <2>1, <1>1, Bounds DEF NoCall, Call, Afters, Slot
<1>4. /\ ~Writing /\ ~Writing' /\ ~InTrans' /\ ~Committed' /\ ~Pending' /\ ~InLog' /\ Mx' = 0
  BY <1>1, <1>2, <1>3 DEF Writing, InTrans, Committed, Pending, InLog, Mx
<1>5. /\ LogOK' /\ Classified' /\ LogInv' /\ DbInv' /\ Top' = 0
      /\ Settled' /\ hist[acked] = db /\ hist[acked] = Visible /\ wal' = EmptyWal
      /\ pend' = [i \in Slot |-> {}]
  <2>1. LastIs(acked)'
    BY <1>1 DEF LastIs
  <2>2. nSalt \in Nat /\ nSalt' \in Nat /\ nSalt <= nSalt' /\ nSalt + 1 \in Nat /\ nSalt + 1 > nSalt
    <3>1. nSalt \in Nat /\ nSalt' = nSalt + 1
      BY <1>0, <1>1, Numbers
    <3> QED BY <3>1
  <2>3. \E s, n : live'.salt = s /\ wc'.nCkpt = n /\ s \in Nat /\ s > nSalt
    BY <2>2, <1>1, <1>2
  <2> QED BY <2>1, <2>2, <2>3, <1>1, <1>4, LogGone
<1>6. Types'
  <2>1. wal' = [i \in Slot |-> wal'[i]] /\ pend' = [i \in Slot |-> pend'[i]]
    BY <1>5, EmptyFacts
  <2>2. nBackfill' \in Slot /\ nSalt' \in Nat
    BY <1>0, <1>1, Bounds DEF Types, Slot
  <2> QED BY <2>1, <2>2, <1>0, <1>1, <1>2, <1>3 DEF Types, PCs
<1>7. Values' /\ SyncInv' /\ RestInv'
  BY <1>0, <1>1, <1>2, <1>3 DEF Values, SyncInv, RestInv
<1>8. LiveInv'
  <2>0. db = [p \in Page |-> db[p]] /\ 0 \in Nat /\ 1 \in Nat /\ 0 < 1
    BY <1>0, Shapes
  <2>1. Overlay(EmptyWal, db, 1, 0) = db
    BY <2>0, OverlayNone
  <2>2. Visible' = db /\ Img(live.mx)' = db
    BY <2>1, <1>1, <1>2, <1>5 DEF Visible, Img
  <2>3. live'.salt <= nSalt' /\ nBackfill' <= live'.mx /\ ~(live'.mx > 0)
    BY <1>0, <1>1, <1>2, Numbers
  <2>4. Len(hist) = acked
    BY <1>0, <1>1, <1>3 DEF LiveInv
  <2> QED BY <2>2, <2>3, <2>4, <1>1, <1>2, <1>3, <1>4, <1>5 DEF LiveInv
<1>9. ListInv'
  BY <1>1, <1>4 DEF ListInv
<1> QED BY <1>4, <1>5, <1>6, <1>7, <1>8, <1>9
        DEF IInv, EndInv, ChainInv, PagerInv, FreshInv, StaleInv

\* A process that goes takes its memory along.
LEMMA DownFacts ==
  ASSUME live' = ZeroHdr, h' = ZeroHdr, nBackfill' = 0, wc' = ClosedWal,
         pager' = NoPager(Blank), call' = NoCall, pc' = "down"
  PROVE  /\ live' \in IndexHdr /\ h' \in IndexHdr /\ nBackfill' \in Slot
         /\ wc' \in WalObject /\ call' \in Call /\ pc' \in PCs
         /\ DOMAIN pager' = {"img", "dirty", "modified", "savepoint", "sp"}
         /\ pager'.img \in Image /\ pager'.dirty \in SUBSET Page /\ pager'.modified \in BOOLEAN
         /\ pager'.savepoint = FALSE /\ pager'.sp = NoSavepoint
         /\ \A p \in Page : pager'.img[p] = 0
         /\ SyncInv' /\ RestInv' /\ LiveInv' /\ EndInv' /\ ChainInv' /\ PagerInv' /\ FreshInv'
         /\ ListInv' /\ StaleInv'
         /\ Mx' = Top' /\ (InLog' <=> Top' > 0)
<1> USE Bounds
<1>1. live' \in IndexHdr /\ h' \in IndexHdr /\ nBackfill' \in Slot
  BY DEF IndexHdr, ZeroHdr, Slot
<1>2. wc' \in WalObject /\ call' \in Call /\ pc' \in PCs
  BY DEF WalObject, ClosedWal, Call, NoCall, PCs, Slot, Afters
<1>3. /\ DOMAIN pager' = {"img", "dirty", "modified", "savepoint", "sp"}
      /\ pager'.img = Blank /\ pager'.dirty = {} /\ pager'.modified = FALSE
      /\ pager'.savepoint = FALSE /\ pager'.sp = NoSavepoint
  BY DEF NoPager
<1>4. Blank \in Image /\ \A p \in Page : Blank[p] = 0
  BY DEF Blank, Image, Val
<1>5. SyncInv' /\ LiveInv'
  BY DEF SyncInv, LiveInv
<1>6. RestInv'
  BY DEF RestInv, NoCall
<1>7. ~InTrans' /\ ~Committed' /\ ~Writing'
  BY DEF InTrans, Writing, Committed
<1>8. ListInv'
  BY <1>7 DEF ListInv
<1>9. Mx' = Top' /\ (InLog' <=> Top' > 0)
  BY <1>7 DEF Mx, InLog, ZeroHdr
<1> QED BY <1>1, <1>2, <1>3, <1>4, <1>5, <1>6, <1>7, <1>8, <1>9
        DEF EndInv, ChainInv, PagerInv, FreshInv, StaleInv

LEMMA CloseDeleteStep == IInv /\ CloseDelete => IInv'
<1> SUFFICES ASSUME IInv, CloseDelete PROVE IInv'
  OBVIOUS
<1>0. Types /\ Values
  BY DEF IInv
<1>1. /\ pc = "delete" /\ pc' = "down" /\ TruncateWal(-1) /\ floor' = acked
      /\ live' = ZeroHdr /\ h' = ZeroHdr /\ nBackfill' = 0
      /\ wc' = ClosedWal /\ pager' = NoPager(Blank) /\ call' = NoCall
      /\ UNCHANGED <<db, dbDisk, dbPend, hist, acked, synced, nWrite, nSalt, nCrash, sc>>
  BY DEF CloseDelete, counters
<1>2. Top' = 0 /\ ~InLog'
  <2>1. wal' = EmptyWal
    BY <1>1, Bounds DEF TruncateWal, CutWal, EmptyWal, Slot
  <2>2. Top' = 0
    BY <2>1, EmptyFacts DEF Top
  <2> QED BY <2>2, <1>1, DownFacts
<1>3. LogOK' /\ Classified' /\ LogInv' /\ DbInv' /\ wal' = EmptyWal /\ pend' = [i \in Slot |-> {}]
  <2>1. LastIs(acked)' /\ nSalt \in Nat /\ nSalt <= nSalt'
    BY <1>0, <1>1, Numbers, Commits DEF LastIs
  <2> QED BY <2>1, <1>1, <1>2, LogGone
<1>4. Types'
  <2>1. wal' = [i \in Slot |-> wal'[i]] /\ pend' = [i \in Slot |-> pend'[i]]
    BY <1>3, EmptyFacts
  <2>2. floor' \in 1 .. Len(hist)
    BY <1>0, <1>1, Commits
  <2> QED BY <2>1, <2>2, <1>0, <1>1, DownFacts DEF Types
<1>5. Values'
  BY <1>0, <1>1, DownFacts, Numbers DEF Values
<1> QED BY <1>1, <1>3, <1>4, <1>5, DownFacts DEF IInv

-----------------------------------------------------------------------------
(* The commit frame is in the log                                           *)

\* Frames before lo that add nothing up to n add nothing up to m either.
LEMMA OverlayFrom ==
  ASSUME NEW w, NEW d, NEW lo \in Nat \ {0}, NEW n \in Slot, NEW m \in Slot,
         n <= m, lo <= n + 1, Overlay(w, d, 1, n) = Overlay(w, d, lo, n)
  PROVE  Overlay(w, d, 1, m) = Overlay(w, d, lo, m)
<1>0. MaxFrame \in Nat /\ n \in Nat /\ m \in Nat
  BY Bounds DEF Slot
<1>1. ASSUME NEW p \in Page
      PROVE  Overlay(w, d, 1, m)[p] = Overlay(w, d, lo, m)[p]
  <2> DEFINE F(a, b) == FindFrame(w, p, a, b)
  <2>1. /\ F(1, m) # 0 => F(1, m) \in 1 .. m /\ w[F(1, m)].pg = p
        /\ \A i \in 1 .. m : w[i].pg = p => i <= F(1, m) /\ F(1, m) # 0
    BY FindFacts
  <2>2. /\ F(lo, m) # 0 => F(lo, m) \in lo .. m /\ w[F(lo, m)].pg = p
        /\ \A i \in lo .. m : w[i].pg = p => i <= F(lo, m) /\ F(lo, m) # 0
    BY FindFacts
  <2>3. /\ F(lo, n) # 0 => F(lo, n) \in lo .. n /\ w[F(lo, n)].pg = p
    BY FindFacts
  <2>4. F(1, m) \in Slot /\ F(lo, m) \in Slot /\ F(lo, n) \in Slot
    BY FindFacts
  <2>5. /\ F(1, m) = 0 => Overlay(w, d, 1, m)[p] = d[p]
        /\ F(1, m) # 0 => Overlay(w, d, 1, m)[p] = w[F(1, m)].val
        /\ F(lo, m) = 0 => Overlay(w, d, lo, m)[p] = d[p]
        /\ F(lo, m) # 0 => Overlay(w, d, lo, m)[p] = w[F(lo, m)].val
        /\ F(lo, n) = 0 => Overlay(w, d, lo, n)[p] = d[p]
        /\ F(1, n) # 0 => Overlay(w, d, 1, n)[p] = w[F(1, n)].val
    BY OverlayFacts
  <2>6. /\ F(1, n) \in Slot
        /\ F(1, n) # 0 => F(1, n) \in 1 .. n /\ w[F(1, n)].pg = p
        /\ \A i \in 1 .. n : w[i].pg = p => i <= F(1, n) /\ F(1, n) # 0
    BY FindFacts
  <2> HIDE DEF F
  <2>7. CASE F(lo, m) # 0
    <3>1. F(lo, m) \in 1 .. m /\ F(lo, m) <= F(1, m) /\ F(1, m) # 0
      BY <2>1, <2>2, <2>7, <1>0
    <3>2. F(1, m) \in lo .. m
      BY <3>1, <2>1, <2>2, <2>7, <1>0
    <3>3. F(1, m) = F(lo, m)
      BY <3>1, <3>2, <2>1, <2>2, <2>7, <1>0
    <3> QED BY <3>3, <2>5, <2>7
  <2>8. CASE F(lo, m) = 0 /\ F(1, m) = 0
    BY <2>5, <2>8
  <2>9. CASE F(lo, m) = 0 /\ F(1, m) # 0
    <3>1. F(1, m) \in 1 .. n
      BY <2>1, <2>2, <2>9, <1>0
    <3>2. F(1, m) <= F(1, n) /\ F(1, n) # 0 /\ F(1, n) \in 1 .. n /\ w[F(1, n)].pg = p
      BY <3>1, <2>1, <2>6, <2>9
    <3>3. F(1, n) \in 1 .. m
      BY <3>2, <1>0
    <3>4. F(1, n) = F(1, m)
      BY <3>1, <3>2, <3>3, <2>1, <1>0
    <3>5. F(lo, n) = 0
      BY <2>2, <2>3, <2>9, <1>0
    <3> QED BY <3>2, <3>4, <3>5, <2>5, <2>9
  <2> QED BY <2>7, <2>8, <2>9
<1>2. /\ Overlay(w, d, 1, m) = [p \in Page |-> Overlay(w, d, 1, m)[p]]
      /\ Overlay(w, d, lo, m) = [p \in Page |-> Overlay(w, d, lo, m)[p]]
  BY OverlayFacts
<1> QED BY <1>1, <1>2

\* Recovery would find the commit that is being made.
LEMMA PendingFacts ==
  ASSUME IInv, Pending
  PROVE  /\ Writing /\ pc # "down" /\ Len(hist) = acked + 1 /\ Top = End /\ End > live.mx
         /\ End \in ValidFrames(wal) /\ wal[End].commit
         /\ \A i \in live.mx + 1 .. End : wal[i].commit <=> i = End
         /\ hist[Len(hist)] = Overlay(wal, db, nBackfill + 1, End)
         /\ hist[Len(hist)] = Img(End)
         /\ hist[Len(hist)] = pager.img
<1>0. Types /\ LiveInv /\ EndInv /\ ChainInv /\ PagerInv /\ ListInv
  BY DEF IInv
<1>1. /\ Writing /\ pc # "down" /\ InTrans /\ Committed /\ wc.iReCksum = 0 /\ Spilled
      /\ call.commit /\ call.list = <<>>
  BY DEF Pending, Committed, Writing, InTrans, Spilled
<1>2. Len(hist) = acked + 1 /\ Top = End /\ nBackfill <= live.mx
  BY <1>0, <1>1 DEF LiveInv
<1>3. End > live.mx
  BY <1>0, <1>1 DEF EndInv, Writing
<1>4. live.mx \in Nat /\ End \in Nat /\ live.mx \in Slot /\ End \in Slot /\ nBackfill \in Nat
  <2>1. live.mx \in Nat /\ End \in Nat /\ End \in Slot /\ nBackfill \in Nat
    BY <1>0, Numbers
  <2> QED BY <2>1, <1>0 DEF Types, IndexHdr
<1>5. End \in ValidFrames(wal) /\ wal[End].commit
  BY <1>2, <1>3, <1>4, RecFacts DEF Top
<1>6. \A i \in live.mx + 1 .. End : wal[i].commit <=> i = End
  BY <1>0, <1>1 DEF ChainInv
<1>7. hist[Len(hist)] = pager.img /\ pager.dirty = {}
  BY <1>0, <1>1 DEF PagerInv, ListInv
<1>8. Overlay(wal, db, nBackfill + 1, End) = pager.img
  <2>1. \A p \in Page : Overlay(wal, db, nBackfill + 1, End)[p] = pager.img[p]
    BY <1>0, <1>1, <1>7 DEF PagerInv
  <2>2. pager.img = [p \in Page |-> pager.img[p]]
    BY <1>0 DEF Types, Image
  <2>3. Overlay(wal, db, nBackfill + 1, End) = [p \in Page |-> Overlay(wal, db, nBackfill + 1, End)[p]]
    BY OverlayFacts
  <2> QED BY <2>1, <2>2, <2>3
<1>9. Img(End) = Overlay(wal, db, nBackfill + 1, End)
  <2>1. Overlay(wal, db, 1, live.mx) = Overlay(wal, db, nBackfill + 1, live.mx)
    BY <1>0, <1>1 DEF LiveInv, Img, Visible
  <2>2. nBackfill + 1 \in Nat \ {0} /\ live.mx <= End /\ nBackfill + 1 <= live.mx + 1
    BY <1>2, <1>3, <1>4
  <2> QED BY <2>1, <2>2, <1>4, OverlayFrom DEF Img
<1> QED BY <1>1, <1>2, <1>3, <1>5, <1>6, <1>7, <1>8, <1>9

LEMMA PendingImages ==
  ASSUME IInv, Pending, NEW n \in 0 .. live.mx, Images(n, live.mx, acked)
  PROVE  Images(n, End, Len(hist))
<1>0. /\ Len(hist) = acked + 1 /\ End > live.mx
      /\ \A i \in live.mx + 1 .. End : wal[i].commit <=> i = End
      /\ hist[Len(hist)] = Img(End)
  BY PendingFacts
<1>1. live.mx \in Nat /\ End \in Nat /\ acked \in Nat /\ synced \in Nat /\ synced <= acked
  <2>1. Types
    BY DEF IInv
  <2> QED BY <2>1, Numbers, Commits
<1>2. ASSUME NEW i \in n .. End, i = 0 \/ wal[i].commit
      PROVE  \E k \in synced .. Len(hist) : hist[k] = Img(i)
  <2>1. CASE i <= live.mx
    <3>1. i \in n .. live.mx
      BY <2>1, <1>1
    <3>2. PICK k \in synced .. acked : hist[k] = Img(i)
      BY <3>1, <1>2 DEF Images
    <3>3. k \in synced .. Len(hist)
      BY <1>0, <1>1
    <3> QED BY <3>2, <3>3
  <2>2. CASE ~(i <= live.mx)
    <3>1. i \in live.mx + 1 .. End /\ i # 0
      BY <2>2, <1>1
    <3>2. i = End
      BY <3>1, <1>0, <1>2
    <3>3. Len(hist) \in synced .. Len(hist)
      BY <1>0, <1>1
    <3> QED BY <3>2, <3>3, <1>0
  <2> QED BY <2>1, <2>2
<1> QED BY <1>0, <1>2 DEF Images

LEMMA CrashStep == IInv /\ Crash => IInv'
<1> SUFFICES ASSUME IInv, Crash PROVE IInv'
  OBVIOUS
<1>0. Types /\ LogOK /\ Values /\ Classified /\ LogInv /\ DbInv /\ LiveInv
  BY DEF IInv
<1>1. /\ pc # "down" /\ pc' = "down" /\ floor' = acked /\ nCrash' = nCrash + 1
      /\ live' = ZeroHdr /\ h' = ZeroHdr /\ nBackfill' = 0
      /\ wc' = ClosedWal /\ pager' = NoPager(Blank) /\ call' = NoCall
      /\ UNCHANGED <<wal, bases, pend, db, dbDisk, dbPend>>
      /\ UNCHANGED <<hist, acked, synced, nWrite, nSalt, sc>>
  BY DEF Crash, LoseMemory, files
<1>2. Types'
  <2>1. floor' \in 1 .. Len(hist) /\ nCrash' \in Nat
    BY <1>0, <1>1, Numbers DEF Types
  <2> QED BY <2>1, <1>0, <1>1, DownFacts DEF Types
<1>3. Values'
  BY <1>0, <1>1, DownFacts, Numbers DEF Values
<1>4. Top' = Top /\ LogOK' /\ Classified'
  BY <1>0, <1>1, Numbers, FilesKept
<1>5. Mx' = Top /\ (InLog' <=> Top > 0)
  BY <1>1, <1>4, DownFacts
<1>6. /\ acked \in Nat /\ synced \in Nat /\ synced <= acked /\ acked <= Len(hist) /\ Len(hist) \in Nat
      /\ live.mx \in Nat /\ End \in Nat
  BY <1>0, Numbers, Commits
<1>7. LastIs(acked)' /\ \A K \in acked .. Len(hist) : LastIs(K)'
  BY <1>1, <1>6 DEF LastIs
<1>8. LogInv'
  <2> SUFFICES ASSUME Top > 0
               PROVE  /\ wal[0].ok
                      /\ \E n \in 0 .. Top : \E K \in Nat : LastIs(K)' /\ OnDisk(n)' /\ Images(n, Mx, K)'
    BY <1>1, <1>5 DEF LogInv
  <2>1. InLog
    BY <1>0, <1>1, <1>6 DEF LiveInv, InLog, Mx, Pending, Committed
  <2>2. Mx = live.mx
    BY <1>1 DEF Mx
  <2>3. PICK n \in 0 .. live.mx : OnDisk(n) /\ Images(n, live.mx, acked)
    BY <2>1, <2>2, <1>0, <1>1 DEF LogInv, LastIs
  <2>4. OnDisk(n)'
    BY <2>3, <1>1 DEF OnDisk, FindFrame
  <2>5. ASSUME NEW K, Images(n, Top, K) PROVE Images(n, Mx, K)'
    BY <2>5, <1>1, <1>5 DEF Images, Img, Overlay, FindFrame
  <2>6. CASE Pending
    <3>1. Images(n, End, Len(hist)) /\ Top = End /\ End > live.mx
      BY <2>3, <2>6, PendingImages, PendingFacts
    <3>2. n \in 0 .. Top /\ Len(hist) \in acked .. Len(hist) /\ Len(hist) \in Nat
      BY <3>1, <1>6
    <3>3. PICK K \in Nat : K = Len(hist) /\ K \in acked .. Len(hist) /\ Images(n, Top, K)
      BY <3>1, <3>2
    <3>4. \E L \in Nat : LastIs(L)' /\ OnDisk(n)' /\ Images(n, Mx, L)'
      BY <3>3, <2>4, <2>5, <1>7
    <3> QED BY <3>2, <3>4, <2>1, <1>0 DEF LogInv
  <2>7. CASE ~Pending
    <3>1. Top = live.mx
      BY <2>7, <1>0, <1>1 DEF LiveInv
    <3>2. n \in 0 .. Top
      BY <3>1, <2>3
    <3>3. PICK K \in Nat : K \in acked .. Len(hist) /\ Images(n, Top, K)
      BY <3>1, <2>3, <1>6
    <3>4. \E L \in Nat : LastIs(L)' /\ OnDisk(n)' /\ Images(n, Mx, L)'
      BY <3>3, <2>4, <2>5, <1>7
    <3> QED BY <3>2, <3>4, <2>1, <1>0 DEF LogInv
  <2> QED BY <2>6, <2>7
<1>9. DbInv'
  <2> SUFFICES ASSUME ~(Top > 0) PROVE DbInv'
    BY <1>5 DEF DbInv
  <2>0. Top = 0
    BY RecFacts, Bounds DEF Top, Slot
  <2>1. CASE ~InLog
    BY <2>1, <1>0, <1>1, <1>6, <1>7, DbKept
  <2>2. CASE InLog
    <3>1. ~Pending /\ live.mx = 0
      <4>1. ~Pending
        BY <2>0, <1>6, PendingFacts
      <4> QED BY <4>1, <2>0, <1>0, <1>1 DEF LiveInv
    <3>2. /\ Settled /\ hist[acked] = db /\ pend[0] = {}
          /\ \A b \in bases : b[0] = wal[0]
          /\ DeadUnder(wal[0].salt, wal[0].nCkpt)
      BY <2>0, <2>2, <3>1, <1>1, NoCommit
    <3>3. DeadUnder(wal[0].salt, wal[0].nCkpt)'
      BY <3>2, <1>1, DeadKept
    <3>4. Settled' /\ hist'[acked] = db'
      BY <3>2, <1>1 DEF Settled
    <3>5. pend'[0] = {} /\ \A b \in bases' : b[0] = wal'[0]
      BY <3>2, <1>1
    <3>6. \A b \in bases' : DeadUnder(b[0].salt, b[0].nCkpt)'
      BY <3>3, <3>5
    <3>7. \E K \in Nat : LastIs(K)' /\ hist'[K] = db'
      BY <3>4, <1>6, <1>7
    <3> QED BY <2>0, <3>4, <3>5, <3>6, <3>7, <1>1, <1>4 DEF DbInv
  <2> QED BY <2>1, <2>2
<1> QED BY <1>1, <1>2, <1>3, <1>4, <1>8, <1>9, DownFacts DEF IInv

-----------------------------------------------------------------------------
(* Recovery                                                                 *)

LEMMA SmallerOf ==
  ASSUME NEW a \in Nat, NEW b \in Nat, b <= a
  PROVE  Min({a, b}) = b
<1> DEFINE I == {a, b}
<1>1. I \in SUBSET (0 .. a) /\ I # {}
  OBVIOUS
<1> HIDE DEF I
<1>2. Min(I) \in I /\ \A j \in I : Min(I) <= j
  BY <1>1, MinFacts
<1> QED BY <1>2 DEF I

\* A process that is down left the image of a commit.
LEMMA DownImage ==
  ASSUME IInv, pc = "down"
  PROVE  \E K \in synced .. Len(hist) : K >= floor /\ hist[K] = Img(Top)
<1>0. Types /\ LogInv /\ DbInv
  BY DEF IInv
<1>1. Mx = Top /\ Top \in Slot
  BY RecFacts DEF Mx, Top
<1>2. CASE InLog
  <2>1. PICK n, K \in Nat : LastIs(K) /\ Images(n, Top, K)
    BY <1>0, <1>1, <1>2 DEF LogInv
  <2> QED BY <2>1 DEF LastIs, Images
<1>3. CASE ~InLog
  <2>1. Top = 0
    BY <1>0, <1>3 DEF DbInv
  <2>2. Img(Top) = db
    <3>0. db = [p \in Page |-> db[p]] /\ 0 \in Nat /\ 1 \in Nat /\ 0 < 1
      BY <1>0, Shapes
    <3>1. Overlay(wal, db, 1, 0) = db
      BY <3>0, OverlayNone
    <3> QED BY <3>1, <2>1 DEF Img
  <2>3. PICK K \in Nat : LastIs(K) /\ hist[K] = db
    BY <1>0, <1>3 DEF DbInv
  <2> QED BY <2>2, <2>3 DEF LastIs
<1> QED BY <1>2, <1>3

LEMMA RecoverStep == IInv /\ Recover => IInv'
<1> SUFFICES ASSUME IInv, Recover PROVE IInv'
  OBVIOUS
<1>0. Types /\ LogOK /\ Values /\ Classified /\ LogInv /\ DbInv /\ RestInv
  BY DEF IInv
<1>p. PICK img, k, hdr :
        /\ img = Img(Top)
        /\ k = Max({1} \cup {j \in 1 .. Len(hist) : hist[j] = img})
        /\ hdr = IF \E i \in 1 .. MaxFrame : wal[i] # NoFrame THEN wal[0] ELSE NoHdr
  OBVIOUS
<1>1. /\ pc = "down" /\ pc' = "idle" /\ live' = h' /\ nBackfill' = 0
      /\ h' = [mx |-> Top, salt |-> hdr.salt, ck |-> IF Top = 0 THEN <<>> ELSE wal[Top].ck]
      /\ wc' = [ClosedWal EXCEPT !.nCkpt = hdr.nCkpt] /\ pager' = NoPager(img)
      /\ hist' = SubSeq(hist, 1, k) /\ acked' = k
      /\ synced' = Min({k, synced}) /\ floor' = Min({k, floor})
      /\ UNCHANGED <<wal, bases, pend, db, dbDisk, dbPend, call, nWrite, nSalt, nCrash, sc>>
  BY <1>p DEF Recover, Top, RecoveredImage, Img, files, counters
<1>2. hdr \in {wal[0], NoHdr} /\ hdr.salt \in Nat /\ hdr.salt <= nSalt /\ hdr.nCkpt \in Nat
  <2>1. HeaderOK(wal[0])
    BY <1>0 DEF LogOK, Known
  <2> QED BY <2>1, <1>0, <1>p, Numbers DEF HeaderOK, Header, NoHdr
<1>3. hdr = wal[0] \/ (hdr.nCkpt = 0 /\ Top = 0)
  <2>1. ASSUME Top # 0 PROVE \E i \in 1 .. MaxFrame : wal[i] # NoFrame
    <3>1. Top \in ValidFrames(wal) /\ wal[Top].commit
      BY <2>1, RecFacts DEF Top
    <3>2. Top \in 1 .. MaxFrame
      BY <3>1, ValidFacts
    <3> QED BY <3>1, <3>2 DEF NoFrame
  <2> QED BY <2>1, <1>p DEF NoHdr
<1>4. PICK K \in synced .. Len(hist) : K >= floor /\ hist[K] = img
  BY <1>1, <1>p, DownImage
<1>5. /\ Len(hist) \in Nat /\ synced \in Nat /\ synced # 0 /\ hist \in Seq(Image) /\ acked <= Len(hist)
      /\ floor \in 1 .. Len(hist)
  BY <1>0, Numbers DEF Types
<1>6. /\ k \in 1 .. Len(hist) /\ K <= k /\ hist[k] = img
  <2> DEFINE I == {1} \cup {j \in 1 .. Len(hist) : hist[j] = img}
  <2>1. K \in 1 .. Len(hist) /\ 1 \in 1 .. Len(hist)
    BY <1>4, <1>5
  <2>2. I \in SUBSET (0 .. Len(hist)) /\ I # {} /\ K \in I /\ I \in SUBSET (1 .. Len(hist))
    BY <2>1, <1>4, <1>5
  <2> HIDE DEF I
  <2>3. Max(I) \in I /\ \A j \in I : j <= Max(I)
    BY <2>2, <1>5, MaxFacts
  <2>4. k = Max(I)
    BY <1>p DEF I
  <2>5. k \in 1 .. Len(hist) /\ K <= k
    BY <2>2, <2>3, <2>4
  <2>6. k = 1 \/ hist[k] = img
    BY <2>3, <2>4 DEF I
  <2>7. k = 1 => K = 1
    BY <2>1, <2>5
  <2> QED BY <2>5, <2>6, <2>7, <1>4
<1>7. synced' = synced /\ floor' = floor /\ synced <= k /\ floor <= k
  <2>1. synced <= k /\ floor <= k /\ k \in Nat /\ floor \in Nat
    BY <1>4, <1>5, <1>6
  <2> QED BY <2>1, <1>1, <1>5, SmallerOf
<1>8. hist' \in Seq(Image) /\ Len(hist') = k /\ \A j \in 1 .. k : hist'[j] = hist[j]
  <2>1. 1 \in Int /\ k \in Int /\ 1 <= k /\ k - 1 + 1 = k /\ \A j \in 1 .. k : 1 + j - 1 = j
    BY <1>6
  <2>2. \A j \in 1 .. k : hist[j] \in Image
    BY <1>5, <1>6
  <2>3. /\ SubSeq(hist, 1, k) \in Seq(Image) /\ Len(SubSeq(hist, 1, k)) = k - 1 + 1
        /\ \A j \in 1 .. k - 1 + 1 : SubSeq(hist, 1, k)[j] = hist[1 + j - 1]
    BY <2>1, <2>2, SubSeqProperties
  <2> QED BY <2>1, <2>3, <1>1
<1>9. img \in Image /\ hist'[acked'] = img
  BY <1>1, <1>5, <1>6, <1>8
<1>10. /\ h' \in IndexHdr /\ h'.mx = Top /\ h'.salt = hdr.salt /\ (Top # 0 => h'.ck = wal[Top].ck)
       /\ Top \in Slot /\ Top \in Nat
  <2>1. Top \in Slot /\ Top \in Nat
    BY RecFacts, Bounds DEF Top, Slot
  <2>2. Top # 0 => wal[Top].ck \in Seq(CkEntry)
    BY <2>1, <1>0, LogChained, Bounds DEF Chained, Slot
  <2>3. <<>> \in Seq(CkEntry)
    OBVIOUS
  <2> QED BY <2>1, <2>2, <2>3, <1>1, <1>2 DEF IndexHdr
<1>11. wc' \in WalObject /\ wc'.nCkpt = hdr.nCkpt /\ wc'.iReCksum = 0
  <2>1. ClosedWal \in WalObject
    BY Bounds DEF ClosedWal, WalObject, Slot
  <2> QED BY <2>1, <1>1, <1>2 DEF WalObject, ClosedWal
<1>12. ~call.commit /\ h = ZeroHdr
  BY <1>0, <1>1 DEF RestInv
<1>13. /\ ~Writing /\ ~Writing' /\ ~InTrans' /\ ~Committed' /\ ~Pending'
       /\ (InLog <=> Top > 0) /\ (InLog' <=> Top > 0) /\ Mx = Top /\ Mx' = Top
  BY <1>1, <1>10, <1>12 DEF Writing, InTrans, Committed, Pending, InLog, Mx, ZeroHdr
<1>14. Types'
  <2>1. k \in Nat /\ floor \in 1 .. k /\ synced <= k
    BY <1>5, <1>6, <1>7
  <2>2. nBackfill' \in Slot
    BY <1>1, Bounds DEF Slot
  <2> QED BY <2>1, <2>2, <1>0, <1>1, <1>7, <1>8, <1>9, <1>10, <1>11 DEF Types, NoPager, PCs
<1>15. Top' = Top /\ LogOK' /\ Classified'
  BY <1>0, <1>1, Numbers, FilesKept
<1>16. Values'
  <2>1. \A j \in 1 .. k : j \in 1 .. Len(hist)
    BY <1>6
  <2> QED BY <2>1, <1>0, <1>1, <1>6, <1>8 DEF Values, NoPager
<1>17. LogInv'
  <2> SUFFICES ASSUME Top > 0
               PROVE  wal[0].ok /\ \E n \in 0 .. Top : \E L \in Nat : LastIs(L)' /\ OnDisk(n)' /\ Images(n, Mx, L)'
    BY <1>1, <1>13 DEF LogInv
  <2>1. PICK n \in 0 .. Top, L \in Nat : LastIs(L) /\ OnDisk(n) /\ Images(n, Top, L)
    BY <1>0, <1>13 DEF LogInv
  <2>2. wal[0].ok
    BY <1>0, <1>13 DEF LogInv
  <2>3. OnDisk(n)'
    BY <2>1, <1>1 DEF OnDisk, FindFrame
  <2>4. LastIs(k)'
    BY <1>1 DEF LastIs
  <2>5. \A m : Img(m)' = Img(m)
    BY <1>1 DEF Img, Overlay, FindFrame
  <2>6. L \in 1 .. Len(hist) /\ L <= k
    <3>1. L \in synced .. Len(hist) /\ hist[L] = img
      BY <2>1, <1>1, <1>p DEF LastIs, Images
    <3>2. L \in 1 .. Len(hist)
      BY <3>1, <1>5
    <3> DEFINE I == {1} \cup {j \in 1 .. Len(hist) : hist[j] = img}
    <3>3. I \in SUBSET (0 .. Len(hist)) /\ I # {} /\ L \in I
      BY <3>1, <3>2, <1>5
    <3>4. k = Max(I)
      BY <1>p
    <3> HIDE DEF I
    <3> QED BY <3>2, <3>3, <3>4, <1>5, MaxFacts
  <2>7. Images(n, Mx, k)'
    <3>1. hist'[k] = Img(Mx)'
      BY <2>5, <1>1, <1>9, <1>13, <1>p
    <3>2. ASSUME NEW i \in n .. Top, i = 0 \/ wal[i].commit
          PROVE  \E j \in synced .. k : hist'[j] = Img(i)'
      <4>1. PICK j \in synced .. L : hist[j] = Img(i)
        BY <2>1, <3>2 DEF Images
      <4>2. j \in synced .. k /\ j \in 1 .. k
        BY <4>1, <2>6, <1>5, <1>6
      <4> QED BY <4>1, <4>2, <2>5, <1>8
    <3> QED BY <3>1, <3>2, <1>1, <1>7, <1>13 DEF Images
  <2>8. k \in Nat
    BY <1>6
  <2> QED BY <2>1, <2>2, <2>3, <2>4, <2>7, <2>8
<1>18. DbInv'
  <2> SUFFICES ASSUME ~(Top > 0) PROVE DbInv'
    BY <1>13 DEF DbInv
  <2>0. Top = 0 /\ ~InLog
    BY <1>10, <1>13
  <2>1. Settled' /\ pend' = pend /\ \A x \in pend[0] : DeadUnder(x.salt, x.nCkpt)'
    BY <2>0, <1>0, <1>1, DeadKept DEF DbInv, Settled
  <2>2. \A b \in bases : ~b[0].ok \/ DeadUnder(b[0].salt, b[0].nCkpt)' \/ Retired(b)'
    <3>1. \A b : Retired(b)' <=> Retired(b)
      BY <1>1 DEF Retired, RecoveredMx, ValidFrames, ChecksumAfter, Overlay, FindFrame
    <3> QED BY <3>1, <2>0, <1>0, <1>1, DeadKept DEF DbInv
  <2>3. \E L \in Nat : LastIs(L)' /\ hist'[L] = db'
    <3>0. db = [p \in Page |-> db[p]]
      BY <1>0, Shapes
    <3>1. img = db
      BY <3>0, <2>0, <1>p, OverlayEmpty DEF Img
    <3>2. k \in Nat /\ LastIs(k)' /\ hist'[k] = db'
      BY <3>1, <1>1, <1>6, <1>9 DEF LastIs
    <3> QED BY <3>2
  <2>4. wc'.nCkpt > 0 => DeadUnder(live.salt, wc.nCkpt)'
    <3> SUFFICES ASSUME wc'.nCkpt > 0 PROVE DeadUnder(live.salt, wc.nCkpt)'
      OBVIOUS
    <3>1. hdr = wal[0] /\ wal[0].nCkpt > 0
      BY <1>2, <1>3, <1>11
    <3>2. \A i \in 1 .. MaxFrame : ~(i <= Top)
      BY <2>0
    <3>3. DeadUnder(wal[0].salt, wal[0].nCkpt)
      BY <3>1, <3>2, <1>0 DEF Classified, DeadUnder
    <3>4. live'.salt = wal[0].salt /\ wc'.nCkpt = wal[0].nCkpt
      BY <3>1, <1>1, <1>10, <1>11
    <3> QED BY <3>3, <3>4, <1>1, DeadKept
  <2> QED BY <2>0, <2>1, <2>2, <2>3, <2>4, <1>1, <1>15 DEF DbInv
<1>19. LiveInv'
  <2>1. Visible' = img /\ Img(live.mx)' = img
    BY <1>1, <1>10, <1>p DEF Visible, Img, Overlay, FindFrame
  <2>2. Top = 0 => Settled'
    BY <1>0, <1>1, <1>10, <1>13 DEF DbInv, Settled
  <2>3. /\ live'.mx = Top /\ live'.salt <= nSalt' /\ nBackfill' <= live'.mx
        /\ Len(hist') = acked' /\ ~call'.commit
    BY <1>1, <1>2, <1>8, <1>10, <1>12
  <2>4. Top > 0 => live'.salt = wal[0].salt /\ live'.ck = wal[Top].ck /\ wal[Top].commit
    BY <1>1, <1>3, <1>10, RecFacts DEF Top, NoHdr
  <2>5. nBackfill' = live'.mx => Top = 0
    BY <1>1, <2>3
  <2>6. Top' = live'.mx /\ ~Pending'
    BY <2>3, <1>13, <1>15
  <2>7. Visible' = hist'[acked'] /\ Img(live.mx)' = hist'[acked']
    BY <2>1, <1>9
  <2>8. nBackfill' = live'.mx => Settled'
    BY <2>2, <2>5
  <2>9. live'.mx > 0 => live'.salt = wal'[0].salt /\ live'.ck = wal'[live'.mx].ck /\ wal'[live'.mx].commit
    BY <2>3, <2>4, <1>1
  <2>10. ~(InLog' /\ live'.mx = 0)
    BY <2>3, <1>13
  <2> QED BY <2>3, <2>6, <2>7, <2>8, <2>9, <2>10 DEF LiveInv
<1>20. SyncInv' /\ RestInv'
  BY <1>1, <1>11 DEF SyncInv, RestInv
<1>21. ListInv'
  BY <1>1, <1>13 DEF ListInv
<1> QED BY <1>13, <1>14, <1>15, <1>16, <1>17, <1>18, <1>19, <1>20, <1>21
        DEF IInv, EndInv, ChainInv, PagerInv, FreshInv, StaleInv

-----------------------------------------------------------------------------
(* The first steps of sqlite3WalFrames                                      *)

\* What a call to sqlite3WalFrames starts with.
StartCall(list, commit) ==
  /\ pc = "write" /\ list \in Seq(Page) /\ list # <<>> /\ commit \in BOOLEAN
  /\ StartFrames(list, commit)
  /\ pager'.img = pager.img /\ pager'.dirty = pager.dirty
  /\ pager'.modified \in BOOLEAN /\ (pager'.modified <=> pager.modified)
  /\ pager'.savepoint = FALSE /\ pager'.sp = NoSavepoint
  /\ DOMAIN pager' = {"img", "dirty", "modified", "savepoint", "sp"}
  /\ UNCHANGED <<acked, synced, floor>>
  /\ hist' = IF commit THEN Append(hist, pager.img) ELSE hist
  /\ \A k \in 1 .. Len(list) : list[k] \in pager.dirty \/ (commit /\ Len(list) = 1 /\ h.mx > live.mx)
  /\ \A k, l \in 1 .. Len(list) : list[k] = list[l] => k = l
  /\ commit => \A p \in pager.dirty : \E k \in 1 .. Len(list) : list[k] = p

Restart == wc.readLock0 /\ nBackfill > 0

\* The list is taken over and, in a commit, the image is on record.
LEMMA StartFacts ==
  ASSUME IInv, NEW list, NEW commit, StartCall(list, commit)
  PROVE  /\ call'.list = list /\ (call'.commit <=> commit) /\ call'.commit \in BOOLEAN
         /\ call'.iFrame = (IF Restart THEN 0 ELSE h.mx)
         /\ call'.iFirst = (IF h.mx > live.mx THEN live.mx + 1 ELSE 0)
         /\ call'.iFrame + Len(list) <= MaxFrame
         /\ call' \in Call
         /\ hist' \in Seq(Image) /\ Len(hist') = (IF commit THEN acked + 1 ELSE acked)
         /\ \A k \in 1 .. acked : hist'[k] = hist[k]
         /\ Len(hist) = acked
         /\ commit => hist'[Len(hist')] = pager.img
         /\ Values'
         /\ Restart => h.mx = live.mx /\ nBackfill = live.mx
         /\ h.mx = live.mx => h = live
<1>0. Types /\ Values /\ LiveInv /\ EndInv
  BY DEF IInv
<1>1. pc = "write" /\ list \in Seq(Page) /\ StartFrames(list, commit) /\ commit \in BOOLEAN
  BY DEF StartCall
<1>2. InTrans /\ ~Writing /\ ~call.commit
  BY <1>0, <1>1 DEF InTrans, Writing, LiveInv
<1>3. /\ Restart => h.mx = live.mx /\ nBackfill = live.mx
      /\ h.mx = live.mx => h = live
      /\ live.mx <= h.mx
  BY <1>0, <1>1, <1>2 DEF EndInv, Restart
<1>4. /\ live.mx \in Nat /\ h.mx \in Nat /\ h.mx <= MaxFrame /\ MaxFrame \in Nat /\ nWrite \in Nat
      /\ Len(hist) \in Nat /\ acked \in 1 .. Len(hist)
  BY <1>0, Numbers, Commits
<1>5. /\ call' = [NoCall EXCEPT !.list = list, !.commit = commit,
                    !.iFrame = IF Restart THEN 0 ELSE h.mx,
                    !.iFirst = IF h # live THEN live.mx + 1 ELSE 0]
      /\ (IF Restart THEN 0 ELSE h.mx) + Len(list) <= MaxFrame
      /\ nWrite' = nWrite
  BY <1>1 DEF StartFrames, Restart
<1>6. (h # live) <=> h.mx > live.mx
  BY <1>3, <1>4
<1>7. (IF Restart THEN 0 ELSE h.mx) \in Slot /\ (IF h.mx > live.mx THEN live.mx + 1 ELSE 0) \in Nat
  BY <1>4 DEF Slot
<1>8. /\ call'.list = list /\ call'.commit = commit /\ call'.todo = {} /\ call'.after = "none"
      /\ call'.iFrame = (IF Restart THEN 0 ELSE h.mx)
      /\ call'.iFirst = (IF h.mx > live.mx THEN live.mx + 1 ELSE 0)
      /\ DOMAIN call' = {"list", "commit", "iFirst", "iFrame", "todo", "after"}
  BY <1>5, <1>6 DEF NoCall
<1>9. call' \in Call
  BY <1>1, <1>5, <1>6, <1>7 DEF Call, NoCall, Afters
<1>10. Len(hist) = acked
  BY <1>0, <1>1, <1>2 DEF LiveInv
<1>11. /\ hist' \in Seq(Image) /\ Len(hist') = (IF commit THEN acked + 1 ELSE acked)
       /\ \A k \in 1 .. acked : hist'[k] = hist[k]
       /\ commit => hist'[Len(hist')] = pager.img
  <2>1. hist' = IF commit THEN Append(hist, pager.img) ELSE hist
    BY DEF StartCall
  <2>2. hist \in Seq(Image) /\ pager.img \in Image
    BY <1>0 DEF Types
  <2>3. CASE commit
    <3>1. hist' = Append(hist, pager.img)
      BY <2>1, <2>3
    <3>2. /\ hist' \in Seq(Image) /\ Len(hist') = Len(hist) + 1
          /\ \A k \in 1 .. Len(hist) : hist'[k] = hist[k]
          /\ hist'[Len(hist) + 1] = pager.img
      BY <2>2, <3>1, AppendProperties
    <3> QED BY <3>2, <2>3, <1>10
  <2>4. CASE ~commit
    BY <2>1, <2>2, <2>4, <1>10
  <2> QED BY <2>3, <2>4, <1>1
<1>12. Values'
  <2>1. pager'.img = pager.img
    BY DEF StartCall
  <2>2. \A k \in 1 .. acked : \A p \in Page : hist'[k][p] <= nWrite
    BY <1>0, <1>10, <1>11 DEF Values
  <2>3. \A k \in 1 .. Len(hist') : k \in 1 .. acked \/ (commit /\ k = Len(hist'))
    BY <1>4, <1>11
  <2>4. \A p \in Page : pager.img[p] <= nWrite
    BY <1>0 DEF Values
  <2>5. \A k \in 1 .. Len(hist') : \A p \in Page : hist'[k][p] <= nWrite
    BY <2>2, <2>3, <2>4, <1>11
  <2> QED BY <2>1, <2>4, <2>5, <1>5 DEF Values
<1> QED BY <1>1, <1>3, <1>5, <1>8, <1>9, <1>10, <1>11, <1>12

\* Frames follow the last ones of this transaction or of the log.
LEMMA StartAppendStep ==
  ASSUME IInv, NEW list, NEW commit, StartCall(list, commit), ~Restart, h.mx # 0
  PROVE  IInv'
<1>0. /\ Types /\ LogOK /\ Classified /\ LogInv /\ LiveInv
      /\ EndInv /\ ChainInv /\ PagerInv /\ FreshInv /\ StaleInv
  BY DEF IInv
<1>1. /\ call'.list = list /\ (call'.commit <=> commit) /\ call'.commit \in BOOLEAN
      /\ call'.iFrame = h.mx
      /\ call'.iFirst = (IF h.mx > live.mx THEN live.mx + 1 ELSE 0)
      /\ call'.iFrame + Len(list) <= MaxFrame
      /\ call' \in Call
      /\ hist' \in Seq(Image) /\ Len(hist') = (IF commit THEN acked + 1 ELSE acked)
      /\ \A k \in 1 .. acked : hist'[k] = hist[k]
      /\ commit => hist'[Len(hist')] = pager.img
      /\ Values'
      /\ h.mx = live.mx => h = live
      /\ Len(hist) = acked
  BY StartFacts
<1>2. /\ pc = "write" /\ list \in Seq(Page) /\ list # <<>> /\ commit \in BOOLEAN
      /\ pager'.img = pager.img /\ pager'.dirty = pager.dirty
      /\ pager'.modified \in BOOLEAN /\ (pager'.modified <=> pager.modified)
      /\ pager'.savepoint = FALSE /\ pager'.sp = NoSavepoint
      /\ DOMAIN pager' = {"img", "dirty", "modified", "savepoint", "sp"}
      /\ UNCHANGED <<acked, synced, floor>>
      /\ StartFrames(list, commit)
  BY DEF StartCall
<1>3. /\ live.mx \in Nat /\ h.mx \in Nat /\ nBackfill \in Nat /\ MaxFrame \in Nat /\ h.mx <= MaxFrame
      /\ live.mx <= MaxFrame /\ nBackfill <= MaxFrame /\ h.mx > 0
      /\ nWrite \in Nat /\ nSalt \in Nat /\ acked \in Nat /\ acked # 0 /\ wc.iReCksum \in Nat
  <2>1. /\ live.mx \in Nat /\ h.mx \in Nat /\ nBackfill \in Nat /\ MaxFrame \in Nat /\ h.mx <= MaxFrame
        /\ live.mx <= MaxFrame /\ nBackfill <= MaxFrame
        /\ nWrite \in Nat /\ nSalt \in Nat /\ acked \in 1 .. Len(hist) /\ wc.iReCksum \in Nat
    BY <1>0, Numbers, Commits
  <2> QED BY <2>1
<1>4. InTrans /\ ~Writing /\ ~call.commit /\ InLog /\ ~Committed /\ ~Pending /\ End = h.mx /\ pc # "down"
  BY <1>0, <1>2, <1>3 DEF InTrans, Writing, LiveInv, InLog, Committed, Pending, End
<1>5. ~wc.readLock0
  BY <1>0, <1>3, <1>4 DEF EndInv, Restart
<1>6. /\ pc' = "frames" /\ UNCHANGED <<wal, bases, pend, db, dbDisk, dbPend, nWrite, nCrash, sc>>
      /\ live' = live /\ nBackfill' = nBackfill /\ nSalt' = nSalt
      /\ h' = [h EXCEPT !.mx = h.mx, !.salt = h.salt]
      /\ wc' = [wc EXCEPT !.readLock0 = FALSE, !.nCkpt = wc.nCkpt, !.minFrame = wc.minFrame,
                  !.truncateOnCommit = wc.truncateOnCommit \/ h.mx = 0]
  BY <1>2, <1>3, <1>5 DEF StartFrames, Restart, BackfillAfter
<1>7. h' = h
  BY <1>0, <1>6 DEF Types, IndexHdr
<1>8. wc' \in WalObject /\ wc'.iReCksum = wc.iReCksum /\ wc'.nCkpt = wc.nCkpt /\ wc'.minFrame = wc.minFrame
      /\ ~wc'.readLock0
  <2>1. wc \in WalObject
    BY <1>0 DEF Types
  <2> QED BY <2>1, <1>6 DEF WalObject
<1>9. /\ Writing' /\ InTrans' /\ InLog' /\ Spilled' /\ End' = h.mx /\ Mx' = Mx /\ Mx = live.mx
      /\ ~Committed' /\ ~Pending'
  BY <1>1, <1>2, <1>4, <1>6 DEF Writing, InTrans, InLog, Spilled, End, Mx, Committed, Pending
<1>10. Types'
  <2>1. Len(hist') \in Nat /\ Len(hist') >= Len(hist) /\ floor \in 1 .. Len(hist) /\ acked <= Len(hist')
    BY <1>0, <1>1, <1>3 DEF Types
  <2>2. floor \in 1 .. Len(hist')
    BY <2>1
  <2> QED BY <2>1, <2>2, <1>0, <1>1, <1>2, <1>6, <1>7, <1>8 DEF Types, PCs
<1>11. Top' = Top /\ LogOK' /\ Classified' /\ \A i \in 1 .. MaxFrame : Known(i)' = Known(i)
  <2>1. \A i \in 1 .. MaxFrame : i \in Slot
    BY Bounds DEF Slot
  <2> QED BY <2>1, <1>0, <1>3, <1>6, FilesKept
<1>12. LogInv'
  <2>1. synced \in Nat \ {0}
    BY <1>0 DEF Types
  <2> QED BY <2>1, <1>0, <1>1, <1>2, <1>3, <1>4, <1>6, <1>9, LogKept
<1>13. DbInv'
  BY <1>9 DEF DbInv
<1>14. LiveInv'
  <2>1. Visible' = Visible /\ Img(live.mx)' = Img(live.mx)
    BY <1>6 DEF Visible, Img, Overlay, FindFrame
  <2>2. Settled' <=> Settled
    BY <1>6 DEF Settled
  <2>3. hist'[acked'] = hist[acked]
    BY <1>1, <1>2, <1>3
  <2>4. Top' = live'.mx /\ ~Pending'
    BY <1>0, <1>4, <1>6, <1>9, <1>11 DEF LiveInv
  <2>5. Visible' = hist'[acked'] /\ Img(live.mx)' = hist'[acked'] /\ (nBackfill' = live'.mx => Settled')
    BY <2>1, <2>2, <2>3, <1>0, <1>4, <1>6 DEF LiveInv
  <2>6. Len(hist') = IF call'.commit THEN acked' + 1 ELSE acked'
    BY <1>1, <1>2
  <2>7. /\ nBackfill' <= live'.mx /\ live'.salt <= nSalt'
        /\ live'.mx > 0 =>
             live'.salt = wal'[0].salt /\ live'.ck = wal'[live'.mx].ck /\ wal'[live'.mx].commit
        /\ live'.mx = 0 /\ wc'.nCkpt > 0 => live'.salt = wal'[0].salt /\ wc'.nCkpt = wal'[0].nCkpt
    BY <1>0, <1>4, <1>6, <1>8 DEF LiveInv
  <2> QED BY <2>4, <2>5, <2>6, <2>7, <1>6, <1>9 DEF LiveInv
<1>15. SyncInv' /\ RestInv'
  BY <1>6 DEF SyncInv, RestInv
<1>16. EndInv'
  <2>1. list # <<>> /\ call'.list = list
    BY <1>1, <1>2
  <2> QED BY <2>1, <1>0, <1>3, <1>4, <1>5, <1>6, <1>7, <1>8, <1>9 DEF EndInv
<1>17. ChainInv'
  <2>1. ValidFrames(wal)' = ValidFrames(wal) /\ ChecksumAfter(wal, End)' = ChecksumAfter(wal, End)
    BY <1>4, <1>6, <1>9 DEF ValidFrames, ChecksumAfter
  <2>2. CASE h.mx > live.mx
    <3>1. Spilled
      BY <2>2 DEF Spilled
    <3> QED BY <2>1, <3>1, <1>0, <1>4, <1>6, <1>7, <1>8, <1>9 DEF ChainInv
  <2>3. CASE h.mx = live.mx
    <3>1. wc.iReCksum = 0
      BY <2>3, <1>0, <1>3, <1>4 DEF EndInv
    <3>2. Top = live.mx /\ live.salt = wal[0].salt /\ live.ck = wal[live.mx].ck
      BY <2>3, <1>0, <1>3, <1>4 DEF LiveInv
    <3>3. live.mx \in ValidFrames(wal)
      BY <3>2, <2>3, <1>3, RecFacts DEF Top
    <3>4. h = live /\ ChecksumAfter(wal, End) = live.ck
      BY <3>2, <2>3, <1>1, <1>3, <1>4 DEF ChecksumAfter
    <3>5. \A i \in live.mx + 1 .. h.mx : FALSE
      BY <2>3, <1>3
    <3> QED BY <2>1, <2>3, <3>1, <3>2, <3>3, <3>4, <3>5, <1>4, <1>6, <1>7, <1>8, <1>9 DEF ChainInv
  <2>4. live.mx <= h.mx
    BY <1>0, <1>4 DEF EndInv
  <2> QED BY <2>2, <2>3, <2>4, <1>3
<1>18. PagerInv'
  <2>1. Overlay(wal, db, nBackfill + 1, End)' = Overlay(wal, db, nBackfill + 1, End)
    BY <1>4, <1>6, <1>9 DEF Overlay, FindFrame
  <2> QED BY <2>1, <1>0, <1>1, <1>2, <1>4, <1>6 DEF PagerInv
<1>19. FreshInv'
  BY <1>0, <1>2, <1>4, <1>11 DEF FreshInv
<1>20. ListInv'
  <2>1. \A p : FindFrame(wal, p, h.mx + 1, End)' = 0
    <3>1. \A p : FindFrame(wal, p, h.mx + 1, h.mx) = 0
      <4>1. db = [p \in Page |-> db[p]]
        BY <1>0, Shapes
      <4>2. h.mx + 1 \in Nat /\ h.mx < h.mx + 1
        BY <1>3
      <4> QED BY <4>1, <4>2, <1>3, OverlayNone
    <3> QED BY <3>1, <1>6, <1>7, <1>9 DEF FindFrame
  <2>2. /\ \A k \in 1 .. Len(list) : list[k] \in pager.dirty \/ (commit /\ Len(list) = 1 /\ h.mx > live.mx)
        /\ \A k, l \in 1 .. Len(list) : list[k] = list[l] => k = l
        /\ commit => \A p \in pager.dirty : \E k \in 1 .. Len(list) : list[k] = p
    BY DEF StartCall
  <2> QED BY <2>1, <2>2, <1>1, <1>2, <1>6, <1>7, <1>9 DEF ListInv
<1>21. StaleInv'
  <2>1. \A i \in live.mx + 1 .. MaxFrame : i \in 1 .. MaxFrame
    BY <1>3
  <2> QED BY <2>1, <1>0, <1>4, <1>6, <1>9, <1>11 DEF StaleInv
<1> QED BY <1>1, <1>10, <1>11, <1>12, <1>13, <1>14, <1>15, <1>16, <1>17, <1>18, <1>19, <1>20, <1>21 DEF IInv

\* The log starts over, or starts, with a header that no frame belongs to.
LEMMA HeaderWritten ==
  ASSUME IInv, pc = "write", h = live, NEW hd \in Header, hd.ok, hd.salt <= nSalt',
         nSalt <= nSalt', nSalt' \in Nat, nWrite' = nWrite,
         WriteSlot(0, hd), DeadUnder(hd.salt, hd.nCkpt),
         UNCHANGED <<bases, db, dbDisk, dbPend, acked>>,
         Settled, hist[acked] = db, hist'[acked] = db,
         \A x \in pend[0] : DeadUnder(x.salt, x.nCkpt),
         \A b \in bases : ~b[0].ok \/ DeadUnder(b[0].salt, b[0].nCkpt) \/ Retired(b),
         pc' = "synchdr", live'.mx = 0, h'.mx = 0
  PROVE  /\ wal'[0] = hd /\ wal' = [i \in Slot |-> wal'[i]] /\ pend' = [i \in Slot |-> pend'[i]]
         /\ \A i \in 1 .. MaxFrame : Known(i)' = Known(i)
         /\ LogOK' /\ Classified' /\ LogInv' /\ DbInv' /\ Top' = 0 /\ Settled'
         /\ ~InLog' /\ Mx' = 0
         /\ Overlay(wal, db, 1, 0)' = db
<1>0. Types /\ LogOK
  BY DEF IInv
<1>1. wal' = [wal EXCEPT ![0] = hd] /\ pend' = [pend EXCEPT ![0] = pend[0] \cup {hd}]
  BY DEF WriteSlot
<1>2. 0 \in Slot /\ \A i \in 1 .. MaxFrame : i \in Slot /\ i # 0 /\ \A j \in 1 .. i : j \in 1 .. MaxFrame
  BY Bounds DEF Slot
<1>3. wal = [i \in Slot |-> wal[i]] /\ pend = [i \in Slot |-> pend[i]]
  BY <1>0 DEF Types
<1>4. /\ wal' = [i \in Slot |-> wal'[i]] /\ pend' = [i \in Slot |-> pend'[i]]
      /\ wal'[0] = hd /\ pend'[0] = pend[0] \cup {hd}
      /\ \A i \in 1 .. MaxFrame : wal'[i] = wal[i] /\ pend'[i] = pend[i]
  BY <1>1, <1>2, <1>3
<1>5. \A i \in 1 .. MaxFrame : Known(i)' = Known(i)
  BY <1>4 DEF Known
<1>6. \A i \in 1 .. MaxFrame : \A f : Dead(f, i)' <=> Dead(f, i)
  BY <1>2, <1>5 DEF Dead
<1>7. \A s, n : DeadUnder(s, n)' <=> DeadUnder(s, n)
  BY <1>5, <1>6 DEF DeadUnder
<1>8. LogOK'
  <2>1. nWrite \in Nat /\ nSalt \in Nat
    BY <1>0, Numbers
  <2>2. ASSUME NEW i \in 1 .. MaxFrame, NEW f, FrameOK(i, f) PROVE FrameOK(i, f)'
    BY <2>1, <2>2 DEF FrameOK, Frame
  <2>3. ASSUME NEW x, HeaderOK(x) PROVE HeaderOK(x)'
    BY <2>1, <2>3 DEF HeaderOK, Header
  <2>4. HeaderOK(hd)'
    BY DEF HeaderOK
  <2>5. \A x \in Known(0)' : x \in Known(0) \/ x = hd
    BY <1>4 DEF Known
  <2> QED BY <2>2, <2>3, <2>4, <2>5, <1>0, <1>5 DEF LogOK
<1>9. Top' = 0
  <2>1. PICK w : w = wal'
    OBVIOUS
  <2>2. Chained(w)
    BY <2>1, <1>8, LogChainedNext
  <2>3. \A j \in 1 .. MaxFrame : w[j] \in Known(j)
    BY <2>1, <1>4 DEF Known
  <2>4. w[0] = hd
    BY <2>1, <1>4
  <2>5. RecoveredMx(w) = 0
    BY <2>2, <2>3, <2>4, DeadHeader
  <2> QED BY <2>1, <2>5 DEF Top
<1>10. Classified'
  BY <1>4, <1>5, <1>6 DEF Classified, DeadUnder
<1>11. ~InLog' /\ Mx' = 0
  BY DEF InLog, Mx, Writing
<1>12. LogInv'
  BY <1>11 DEF LogInv
<1>13. Settled'
  BY DEF Settled
<1>14. DbInv'
  <2>1. LastIs(acked)' /\ hist'[acked] = db' /\ acked \in Nat
    BY <1>0, Commits DEF LastIs
  <2>2. \A b \in bases : Retired(b) => Retired(b)'
    BY <1>4 DEF Retired, RecoveredMx, ValidFrames, ChecksumAfter, Overlay, FindFrame
  <2>3. \A x \in pend'[0] : DeadUnder(x.salt, x.nCkpt)'
    BY <1>4, <1>7
  <2>4. \A b \in bases' : ~b[0].ok \/ DeadUnder(b[0].salt, b[0].nCkpt)' \/ Retired(b)'
    BY <1>7, <2>2
  <2> QED BY <2>1, <2>3, <2>4, <1>9, <1>13 DEF DbInv
<1>15. Overlay(wal, db, 1, 0)' = db
  <2>1. db = [p \in Page |-> db[p]]
    BY <1>0, Shapes
  <2>2. 0 \in Nat /\ 1 \in Nat /\ 0 < 1
    OBVIOUS
  <2>3. PICK w : w = wal'
    OBVIOUS
  <2>4. Overlay(w, db, 1, 0) = db
    BY <2>1, <2>2, OverlayNone
  <2> QED BY <2>3, <2>4
<1> QED BY <1>4, <1>5, <1>8, <1>9, <1>10, <1>11, <1>12, <1>13, <1>14, <1>15

LEMMA StartHeaderStep ==
  ASSUME IInv, NEW list, NEW commit, StartCall(list, commit), Restart \/ h.mx = 0
  PROVE  IInv'
<1>0. /\ Types /\ LogOK /\ Classified /\ LogInv /\ DbInv /\ LiveInv /\ SyncInv
      /\ EndInv /\ PagerInv /\ FreshInv
  BY DEF IInv
<1>1. /\ call'.list = list /\ (call'.commit <=> commit) /\ call'.commit \in BOOLEAN
      /\ call'.iFrame = (IF Restart THEN 0 ELSE h.mx)
      /\ call'.iFirst = (IF h.mx > live.mx THEN live.mx + 1 ELSE 0)
      /\ call'.iFrame + Len(list) <= MaxFrame
      /\ call' \in Call
      /\ hist' \in Seq(Image) /\ Len(hist') = (IF commit THEN acked + 1 ELSE acked)
      /\ \A k \in 1 .. acked : hist'[k] = hist[k]
      /\ commit => hist'[Len(hist')] = pager.img
      /\ Values'
      /\ Restart => h.mx = live.mx /\ nBackfill = live.mx
      /\ h.mx = live.mx => h = live
      /\ Len(hist) = acked
  BY StartFacts
<1>2. /\ pc = "write" /\ list \in Seq(Page) /\ list # <<>> /\ commit \in BOOLEAN
      /\ pager'.img = pager.img /\ pager'.dirty = pager.dirty
      /\ pager'.modified \in BOOLEAN /\ (pager'.modified <=> pager.modified)
      /\ pager'.savepoint = FALSE /\ pager'.sp = NoSavepoint
      /\ DOMAIN pager' = {"img", "dirty", "modified", "savepoint", "sp"}
      /\ UNCHANGED <<acked, synced, floor>>
      /\ StartFrames(list, commit)
  BY DEF StartCall
<1>3. /\ live.mx \in Nat /\ h.mx \in Nat /\ nBackfill \in Nat /\ MaxFrame \in Nat
      /\ nWrite \in Nat /\ nSalt \in Nat /\ acked \in Nat /\ acked # 0 /\ wc.iReCksum \in Nat
      /\ live.salt \in Nat /\ h.salt \in Nat /\ wc.nCkpt \in Nat
  <2>1. /\ live.mx \in Nat /\ h.mx \in Nat /\ nBackfill \in Nat /\ MaxFrame \in Nat
        /\ nWrite \in Nat /\ nSalt \in Nat /\ acked \in 1 .. Len(hist) /\ wc.iReCksum \in Nat
        /\ live.salt \in Nat /\ h.salt \in Nat /\ wc.nCkpt \in Nat
    BY <1>0, Numbers, Commits
  <2> QED BY <2>1
<1>4. InTrans /\ ~Writing /\ ~call.commit /\ ~Committed /\ ~Pending /\ End = h.mx /\ pc # "down" /\ Mx = live.mx
  BY <1>0, <1>2 DEF InTrans, Writing, LiveInv, Committed, Pending, End, Mx
<1>5. live.mx = h.mx /\ h = live /\ wc.iReCksum = 0 /\ call'.iFrame = 0 /\ call'.iFirst = 0
  <2>1. live.mx <= h.mx /\ (wc.iReCksum # 0 => live.mx < wc.iReCksum /\ wc.iReCksum <= h.mx)
    BY <1>0, <1>4 DEF EndInv
  <2> QED BY <2>1, <1>1, <1>3
<1>6. PICK nCkpt, draw, salt :
        /\ nCkpt = IF Restart THEN wc.nCkpt + 1 ELSE wc.nCkpt
        /\ draw \in BOOLEAN /\ (draw <=> Restart \/ nCkpt = 0)
        /\ salt = IF draw THEN nSalt + 1 ELSE h.salt
  OBVIOUS
<1>7. /\ pc' = "synchdr" /\ UNCHANGED <<bases, db, dbDisk, dbPend, nWrite, nCrash, sc>>
      /\ nSalt' = IF draw THEN nSalt + 1 ELSE nSalt
      /\ WriteSlot(0, [ok |-> TRUE, salt |-> salt, nCkpt |-> nCkpt])
      /\ live' = IF Restart THEN [h EXCEPT !.mx = 0, !.salt = salt] ELSE live
      /\ nBackfill' = IF Restart THEN 0 ELSE nBackfill
      /\ h' = [[h EXCEPT !.mx = 0, !.salt = IF Restart THEN salt ELSE h.salt]
                 EXCEPT !.salt = salt, !.ck = HdrCk(salt, nCkpt)]
      /\ wc' = [wc EXCEPT !.readLock0 = FALSE, !.nCkpt = nCkpt,
                  !.minFrame = IF wc.readLock0 THEN nBackfill' + 1 ELSE wc.minFrame,
                  !.truncateOnCommit = TRUE]
  <2>1. CASE Restart
    <3>1. nCkpt = wc.nCkpt + 1 /\ draw /\ salt = nSalt + 1
      BY <1>6, <2>1
    <3> QED BY <2>1, <3>1, <1>2 DEF StartFrames, Restart, BackfillAfter
  <2>2. CASE ~Restart
    <3>1. nCkpt = wc.nCkpt /\ (draw <=> wc.nCkpt = 0) /\ h.mx = 0
      BY <1>6, <2>2
    <3> QED BY <2>2, <3>1, <1>2, <1>6 DEF StartFrames, Restart, BackfillAfter
  <2> QED BY <2>1, <2>2
<1>8. /\ nCkpt \in Nat /\ salt \in Nat /\ nSalt' \in Nat /\ salt <= nSalt' /\ nSalt <= nSalt'
      /\ (Restart => salt = nSalt + 1) /\ (~Restart => nCkpt = wc.nCkpt)
      /\ (~Restart /\ wc.nCkpt > 0 => salt = live.salt)
      /\ (~Restart /\ wc.nCkpt = 0 => salt = nSalt + 1)
  <2>1. live.salt <= nSalt
    BY <1>0, <1>2 DEF LiveInv
  <2> QED BY <2>1, <1>3, <1>5, <1>6, <1>7
<1>9. /\ live' \in IndexHdr /\ live'.mx = 0 /\ (Restart => live'.salt = salt) /\ (~Restart => live' = live)
      /\ h' \in IndexHdr /\ h'.mx = 0 /\ h'.salt = salt /\ h'.ck = HdrCk(salt, nCkpt)
      /\ nBackfill' = 0 /\ nBackfill' \in Slot
  <2>1. HdrCk(salt, nCkpt) \in Seq(CkEntry) /\ 0 \in Slot
    BY <1>8, Bounds DEF HdrCk, CkEntry, Slot
  <2>2. h \in IndexHdr /\ live \in IndexHdr
    BY <1>0 DEF Types
  <2>3. ~Restart => live.mx = 0 /\ nBackfill = 0
    <3>1. nBackfill <= live.mx
      BY <1>0, <1>2 DEF LiveInv
    <3> QED BY <3>1, <1>3, <1>5
  <2> QED BY <2>1, <2>2, <2>3, <1>7, <1>8 DEF IndexHdr
<1>10. /\ wc' \in WalObject /\ wc'.iReCksum = 0 /\ wc'.nCkpt = nCkpt /\ ~wc'.readLock0
       /\ wc'.minFrame = nBackfill' + 1
  <2>1. wc \in WalObject
    BY <1>0 DEF Types
  <2>2. ~wc.readLock0 => wc.minFrame = nBackfill' + 1
    BY <1>0, <1>4, <1>7 DEF EndInv, Restart
  <2>3. nBackfill' + 1 \in 1 .. MaxFrame + 1
    BY <1>9, <1>3
  <2> QED BY <2>1, <2>2, <2>3, <1>5, <1>7, <1>8 DEF WalObject
<1>11. /\ DeadUnder(salt, nCkpt) /\ Settled /\ hist[acked] = db
       /\ \A x \in pend[0] : DeadUnder(x.salt, x.nCkpt)
       /\ \A b \in bases : ~b[0].ok \/ DeadUnder(b[0].salt, b[0].nCkpt) \/ Retired(b)
  <2>0. salt > nSalt => DeadUnder(salt, nCkpt)
    BY <1>0, <1>3, <1>8, FreshHeader
  <2>1. CASE Restart
    <3>1. nBackfill = live.mx /\ live.mx > 0 /\ nBackfill > 0
      BY <2>1, <1>1, <1>3 DEF Restart
    <3>2. Settled /\ AllSynced
      BY <3>1, <1>0, <1>2 DEF LiveInv, SyncInv
    <3>3. hist[acked] = db
      <4>1. db = [p \in Page |-> db[p]]
        BY <1>0, Shapes
      <4>2. nBackfill + 1 \in Nat /\ live.mx < nBackfill + 1
        BY <3>1, <1>3
      <4>3. Overlay(wal, db, nBackfill + 1, live.mx) = db
        BY <4>1, <4>2, <1>3, OverlayNone
      <4> QED BY <4>3, <1>0, <1>2 DEF LiveInv, Visible
    <3>4. \A i \in 0 .. MaxFrame : pend[i] = {}
      BY <3>2, Bounds DEF AllSynced, Slot
    <3>5. Retired(wal)
      <4>1. Top = live.mx
        BY <1>0, <1>2, <1>4 DEF LiveInv
      <4>2. Overlay(wal, db, 1, live.mx) = db
        BY <3>3, <1>0, <1>2 DEF LiveInv, Img
      <4>3. \A i \in 1 .. MaxFrame : pend[i] = {}
        BY <3>4, <1>3
      <4> QED BY <4>1, <4>2, <4>3 DEF Retired, Top
    <3>6. salt > nSalt
      BY <2>1, <1>3, <1>8
    <3>7. pend[0] = {}
      BY <3>4, <1>3
    <3> QED BY <2>0, <3>2, <3>3, <3>5, <3>6, <3>7 DEF AllSynced
  <2>2. CASE ~Restart
    <3>1. h.mx = 0 /\ live.mx = 0
      BY <2>2, <1>5
    <3>2. ~InLog
      BY <3>1, <1>4 DEF InLog
    <3>3. /\ Settled /\ (wc.nCkpt > 0 => DeadUnder(live.salt, wc.nCkpt))
          /\ \A x \in pend[0] : DeadUnder(x.salt, x.nCkpt)
          /\ \A b \in bases : ~b[0].ok \/ DeadUnder(b[0].salt, b[0].nCkpt) \/ Retired(b)
      BY <3>2, <1>0, <1>2 DEF DbInv
    <3>4. hist[acked] = db
      BY <3>2, <1>0, <1>2 DEF DbInv, LastIs
    <3>5. CASE wc.nCkpt > 0
      <4>1. salt = live.salt /\ nCkpt = wc.nCkpt
        BY <2>2, <3>5, <1>8
      <4> QED BY <3>3, <3>4, <3>5, <4>1
    <3>6. CASE wc.nCkpt = 0
      <4>1. salt > nSalt
        BY <2>2, <3>6, <1>3, <1>8
      <4> QED BY <4>1, <2>0, <3>3, <3>4
    <3> QED BY <3>5, <3>6, <1>3
  <2> QED BY <2>1, <2>2
<1>12. PICK hd \in Header : hd = [ok |-> TRUE, salt |-> salt, nCkpt |-> nCkpt]
  BY <1>8 DEF Header
<1>13. hd.ok /\ hd.salt = salt /\ hd.nCkpt = nCkpt /\ WriteSlot(0, hd)
  BY <1>7, <1>12
<1>14. hist'[acked] = db
  BY <1>1, <1>3, <1>11
<1>15. /\ wal'[0] = hd /\ wal' = [i \in Slot |-> wal'[i]] /\ pend' = [i \in Slot |-> pend'[i]]
       /\ \A i \in 1 .. MaxFrame : Known(i)' = Known(i)
       /\ LogOK' /\ Classified' /\ LogInv' /\ DbInv' /\ Top' = 0 /\ Settled'
       /\ ~InLog' /\ Mx' = 0
       /\ Overlay(wal, db, 1, 0)' = db
  BY <1>2, <1>5, <1>7, <1>8, <1>9, <1>11, <1>13, <1>14, HeaderWritten
<1>16. /\ ~Writing' /\ InTrans' /\ ~Spilled' /\ End' = 0 /\ ~Committed' /\ ~Pending'
  BY <1>7, <1>9 DEF Writing, InTrans, Spilled, End, Committed, Pending
<1>17. Types'
  <2>1. Len(hist') \in Nat /\ Len(hist') >= Len(hist) /\ floor \in 1 .. Len(hist) /\ acked <= Len(hist')
    BY <1>0, <1>1, <1>3 DEF Types
  <2>2. floor \in 1 .. Len(hist')
    BY <2>1
  <2> QED BY <2>1, <2>2, <1>0, <1>1, <1>2, <1>7, <1>8, <1>9, <1>10, <1>15 DEF Types, PCs
<1>18. LiveInv'
  <2>1. Visible' = db /\ Img(live.mx)' = db /\ hist'[acked'] = db
    <3>1. nBackfill' + 1 = 1
      BY <1>9
    <3> QED BY <3>1, <1>2, <1>9, <1>14, <1>15 DEF Visible, Img
  <2>2. live'.salt <= nSalt'
    <3>1. live.salt <= nSalt
      BY <1>0, <1>2 DEF LiveInv
    <3> QED BY <3>1, <1>3, <1>8, <1>9
  <2>3. Len(hist') = IF call'.commit THEN acked' + 1 ELSE acked'
    BY <1>1, <1>2
  <2>4. nBackfill' <= live'.mx /\ ~(live'.mx > 0)
    BY <1>9
  <2> QED BY <2>1, <2>2, <2>3, <2>4, <1>7, <1>9, <1>15, <1>16 DEF LiveInv
<1>19. SyncInv' /\ RestInv'
  BY <1>7 DEF SyncInv, RestInv
<1>20. EndInv'
  <2>1. list # <<>> /\ call'.list = list
    BY <1>1, <1>2
  <2>2. wc'.nCkpt > 0 => live'.salt = wal'[0].salt /\ wc'.nCkpt = wal'[0].nCkpt
    BY <1>3, <1>8, <1>9, <1>10, <1>13, <1>15
  <2>3. ~(live'.mx > 0)
    BY <1>9
  <2> QED BY <2>1, <2>2, <2>3, <1>3, <1>5, <1>7, <1>9, <1>10, <1>13, <1>15, <1>16 DEF EndInv
<1>21. ChainInv'
  BY <1>16 DEF ChainInv
<1>22. PagerInv'
  <2>1. Overlay(wal, db, nBackfill + 1, End) = db
    BY <1>0, <1>4, <1>5, <1>11, <1>2 DEF LiveInv, Visible
  <2>2. \A p \in Page \ pager.dirty : db[p] = pager.img[p]
    BY <2>1, <1>0, <1>4 DEF PagerInv
  <2>3. Overlay(wal, db, nBackfill + 1, End)' = db
    <3>1. nBackfill' + 1 = 1
      BY <1>9
    <3> QED BY <3>1, <1>15, <1>16
  <2> QED BY <2>2, <2>3, <1>0, <1>1, <1>2, <1>4, <1>7 DEF PagerInv
<1>23. FreshInv'
  BY <1>0, <1>2, <1>4, <1>15 DEF FreshInv
<1>24. ListInv'
  <2>1. \A p : FindFrame(wal, p, h.mx + 1, End)' = 0
    <3>1. PICK w : w = wal'
      OBVIOUS
    <3>2. \A p : FindFrame(w, p, 1, 0) = 0
      <4>1. db = [p \in Page |-> db[p]]
        BY <1>0, Shapes
      <4>2. 1 \in Nat /\ 0 \in Nat /\ 0 < 1
        OBVIOUS
      <4> QED BY <4>1, <4>2, OverlayNone
    <3>3. h'.mx + 1 = 1
      BY <1>9
    <3> QED BY <3>1, <3>2, <3>3, <1>16
  <2>2. /\ \A k \in 1 .. Len(list) : list[k] \in pager.dirty \/ (commit /\ Len(list) = 1 /\ h.mx > live.mx)
        /\ \A k, l \in 1 .. Len(list) : list[k] = list[l] => k = l
        /\ commit => \A p \in pager.dirty : \E k \in 1 .. Len(list) : list[k] = p
    BY DEF StartCall
  <2>3. ~(h.mx > live.mx) /\ ~(h'.mx > live'.mx)
    BY <1>3, <1>5, <1>9
  <2> QED BY <2>1, <2>2, <2>3, <1>1, <1>2, <1>5, <1>7, <1>16 DEF ListInv
<1>25. StaleInv'
  BY <1>9, <1>16 DEF StaleInv
<1> QED BY <1>1, <1>15, <1>17, <1>18, <1>19, <1>20, <1>21, <1>22, <1>23, <1>24, <1>25 DEF IInv

LEMMA StartStep ==
  ASSUME IInv, NEW list, NEW commit, StartCall(list, commit)
  PROVE  IInv'
BY StartAppendStep, StartHeaderStep

LEMMA SpillStep == ASSUME NEW p \in Page PROVE IInv /\ Spill(p) => IInv'
<1> SUFFICES ASSUME IInv, Spill(p) PROVE IInv'
  OBVIOUS
<1>0. Types
  BY DEF IInv
<1>1. PICK list : list = <<p>>
  OBVIOUS
<1>2. list \in Seq(Page) /\ Len(list) = 1 /\ list[1] = p /\ list # <<>>
  BY <1>1
<1>3. StartCall(list, FALSE)
  <2>1. /\ pc = "write" /\ p \in pager.dirty /\ StartFrames(list, FALSE)
        /\ pager' = [pager EXCEPT !.sp.mods = IF pager.savepoint THEN @ \cup {p} ELSE @]
        /\ UNCHANGED <<hist, acked, synced, floor>>
    BY <1>1 DEF Spill, ghosts
  <2>2. /\ pager'.img = pager.img /\ pager'.dirty = pager.dirty
        /\ pager'.modified = pager.modified /\ pager.modified \in BOOLEAN
        /\ pager'.savepoint = FALSE /\ pager'.sp = NoSavepoint
        /\ DOMAIN pager' = {"img", "dirty", "modified", "savepoint", "sp"}
    BY <2>1, <1>0 DEF Types, NoSavepoint
  <2>3. \A k \in 1 .. Len(list) : k = 1
    BY <1>2
  <2> QED BY <2>1, <2>2, <2>3, <1>2 DEF StartCall
<1> QED BY <1>3, StartStep

LEMMA CommitStep == IInv /\ Commit => IInv'
<1> SUFFICES ASSUME IInv, Commit PROVE IInv'
  OBVIOUS
<1>0. Types /\ PagerInv
  BY DEF IInv
<1>1. PICK S, list : S = (IF pager.dirty = {} THEN {1} ELSE pager.dirty) /\ list = PageList(S)
  OBVIOUS
<1>2. /\ pc = "write" /\ pager.modified /\ StartFrames(list, TRUE)
      /\ hist' = Append(hist, pager.img)
      /\ UNCHANGED <<pager, acked, synced, floor>>
  BY <1>1 DEF Commit
<1>3. S \in SUBSET Page /\ S # {}
  <2>1. 1 \in Page
    BY Bounds DEF Page
  <2> QED BY <2>1, <1>0, <1>1 DEF Types
<1>4. /\ list \in Seq(Page) /\ Len(list) = Cardinality(S)
      /\ \A k \in 1 .. Len(list) : list[k] \in S
      /\ \A k, l \in 1 .. Len(list) : list[k] = list[l] => k = l
      /\ \A p \in S : \E k \in 1 .. Len(list) : list[k] = p
  <2>1. /\ PageList(S) \in Seq(Page) /\ Len(PageList(S)) = Cardinality(S)
        /\ \A k \in 1 .. Len(PageList(S)) : PageList(S)[k] \in S
        /\ \A k, l \in 1 .. Len(PageList(S)) : PageList(S)[k] = PageList(S)[l] => k = l
        /\ \A p \in S : \E k \in 1 .. Len(PageList(S)) : PageList(S)[k] = p
    BY <1>3, PageListFacts
  <2> QED BY <2>1, <1>1
<1>5. list # <<>>
  <2>1. PICK p \in S : TRUE
    BY <1>3
  <2>2. PICK k \in 1 .. Len(list) : list[k] = p
    BY <2>1, <1>4
  <2> QED BY <2>2
<1>6. pager.dirty = {} => Len(list) = 1 /\ h.mx > live.mx
  <2> SUFFICES ASSUME pager.dirty = {} PROVE Len(list) = 1 /\ h.mx > live.mx
    OBVIOUS
  <2>1. h.mx > live.mx
    BY <1>0, <1>2 DEF PagerInv, InTrans
  <2>2. S = {1}
    BY <1>1
  <2>3. Cardinality(S) = 1
    BY <2>2, FS_Singleton
  <2> QED BY <2>1, <2>3, <1>4
<1>7. /\ pager'.img = pager.img /\ pager'.dirty = pager.dirty
      /\ pager'.modified = pager.modified /\ pager.modified \in BOOLEAN
      /\ pager'.savepoint = FALSE /\ pager'.sp = NoSavepoint
      /\ DOMAIN pager' = {"img", "dirty", "modified", "savepoint", "sp"}
  BY <1>0, <1>2 DEF Types
<1>8. StartCall(list, TRUE)
  BY <1>1, <1>2, <1>4, <1>5, <1>6, <1>7 DEF StartCall
<1> QED BY <1>8, StartStep

-----------------------------------------------------------------------------
(* Writing after the last commit                                            *)

\* The log up to the last commit is as it was.
LEMMA TailStep ==
  ASSUME IInv, Writing, Writing', \A i \in 0 .. live.mx : wal'[i] = wal[i] /\ pend'[i] = pend[i],
         \A i \in 1 .. MaxFrame : \A g \in Known(i)' : g \in Known(i) \/ FrameOK(i, g),
         UNCHANGED <<bases, db, dbDisk, dbPend, live, nBackfill, nWrite, nSalt>>,
         UNCHANGED <<hist, acked, synced, floor>>,
         wc'.nCkpt = wc.nCkpt, call'.commit <=> call.commit,
         Top' = IF Pending' THEN End' ELSE live.mx
  PROVE  LogOK' /\ LogInv' /\ DbInv' /\ LiveInv'
<1>0. Types /\ LogOK /\ LogInv /\ LiveInv
  BY DEF IInv
<1>1. InLog /\ InLog' /\ pc # "down" /\ pc' # "down"
  BY DEF InLog, Writing
<1>2. Mx = live.mx /\ Mx' = live.mx
  BY <1>1 DEF Mx
<1>3. live.mx \in Nat /\ live.mx <= MaxFrame /\ MaxFrame \in Nat /\ nBackfill \in Nat /\ nWrite \in Nat /\ nSalt \in Nat
  BY <1>0, Numbers
<1>4. nBackfill + 1 \in Nat /\ 0 \in 0 .. live.mx
  BY <1>3
<1>5. \A p : \A lo \in Nat \ {0} : \A hi \in 0 .. live.mx : FindFrame(wal, p, lo, hi)' = FindFrame(wal, p, lo, hi)
  <2> TAKE p
  <2> TAKE lo \in Nat \ {0}
  <2> TAKE hi \in 0 .. live.mx
  <2>1. PICK w : w = wal'
    OBVIOUS
  <2>2. hi \in Slot /\ \A i \in lo .. hi : i \in 0 .. live.mx
    BY <1>3 DEF Slot
  <2>3. \A i \in lo .. hi : w[i].pg = wal[i].pg
    BY <2>1, <2>2
  <2>4. FindFrame(w, p, lo, hi) = FindFrame(wal, p, lo, hi)
    BY <2>2, <2>3, FindSame
  <2> QED BY <2>1, <2>4
<1>6. \A lo \in Nat \ {0} : \A hi \in 0 .. live.mx : Overlay(wal, db, lo, hi)' = Overlay(wal, db, lo, hi)
  <2> TAKE lo \in Nat \ {0}
  <2> TAKE hi \in 0 .. live.mx
  <2>1. PICK w : w = wal'
    OBVIOUS
  <2>2. hi \in Slot /\ \A i \in lo .. hi : i \in 0 .. live.mx
    BY <1>3 DEF Slot
  <2>3. \A i \in lo .. hi : w[i].pg = wal[i].pg /\ w[i].val = wal[i].val
    BY <2>1, <2>2
  <2>4. Overlay(w, db, lo, hi) = Overlay(wal, db, lo, hi)
    <3>1. \A q \in Page : FindFrame(w, q, lo, hi) = FindFrame(wal, q, lo, hi)
      BY <2>2, <2>3, FindSame
    <3>2. \A q \in Page : FindFrame(wal, q, lo, hi) # 0 => FindFrame(wal, q, lo, hi) \in lo .. hi
      BY <2>2, FindFacts
    <3> QED BY <3>1, <3>2, <2>3 DEF Overlay
  <2> QED BY <2>1, <2>4
<1>7. LogOK'
  <2>2. ASSUME NEW i \in 1 .. MaxFrame, NEW f, FrameOK(i, f) PROVE FrameOK(i, f)'
    BY <2>2 DEF FrameOK, Frame
  <2>3. ASSUME NEW x, HeaderOK(x) PROVE HeaderOK(x)'
    BY <2>3 DEF HeaderOK, Header
  <2>4. Known(0)' = Known(0)
    BY <1>4 DEF Known
  <2> QED BY <2>2, <2>3, <2>4, <1>0 DEF LogOK
<1>8. \A m \in 0 .. live.mx : Img(m)' = Img(m)
  <2>1. 1 \in Nat \ {0}
    OBVIOUS
  <2> QED BY <2>1, <1>6 DEF Img
<1>9. LogInv'
  <2>1. PICK n \in 0 .. live.mx, K \in Nat : LastIs(K) /\ OnDisk(n) /\ Images(n, live.mx, K)
    BY <1>0, <1>1, <1>2 DEF LogInv
  <2>2. wal'[0].ok
    BY <1>0, <1>1, <1>4 DEF LogInv
  <2>3. LastIs(K)'
    BY <2>1, <1>1 DEF LastIs
  <2>4. \A i \in 0 .. n : i \in 0 .. live.mx
    BY <1>3
  <2>5. OnDisk(n)'
    <3>1. n \in 0 .. n
      BY <1>3
    <3>2. n = 0 \/ wal'[n].commit
      BY <2>1, <2>4, <3>1 DEF OnDisk
    <3>3. \A i \in 0 .. n : pend'[i] = {} /\ \A b \in bases' : b[i] = wal'[i]
      BY <2>1, <2>4 DEF OnDisk
    <3>4. \A p \in Page : dbPend'[p] # {} \/ dbDisk'[p] # db'[p] => FindFrame(wal, p, 1, n)' # 0
      BY <2>1, <1>5 DEF OnDisk
    <3> QED BY <3>2, <3>3, <3>4 DEF OnDisk
  <2>6. Images(n, live.mx, K)'
    <3>1. hist'[K] = Img(live.mx)'
      <4>1. live.mx \in 0 .. live.mx
        BY <1>3
      <4> QED BY <4>1, <2>1, <1>8 DEF Images
    <3>2. ASSUME NEW i \in n .. live.mx, i = 0 \/ wal'[i].commit
          PROVE  \E k \in synced' .. K : hist'[k] = Img(i)'
      <4>1. i \in 0 .. live.mx
        BY <1>3
      <4>2. PICK k \in synced .. K : hist[k] = Img(i)
        BY <2>1, <3>2, <4>1 DEF Images
      <4> QED BY <4>1, <4>2, <1>8
    <3> QED BY <3>1, <3>2 DEF Images
  <2> QED BY <2>1, <2>2, <2>3, <2>5, <2>6, <1>2 DEF LogInv
<1>10. DbInv'
  BY <1>1 DEF DbInv
<1>11. LiveInv'
  <2>1. Visible' = Visible /\ Img(live.mx)' = Img(live.mx)
    <3>1. live.mx \in 0 .. live.mx /\ nBackfill + 1 \in Nat \ {0}
      BY <1>3
    <3> QED BY <3>1, <1>6, <1>8 DEF Visible
  <2>2. Settled' <=> Settled
    BY DEF Settled
  <2>3. live.mx > 0 => wal'[live.mx] = wal[live.mx]
    BY <1>3
  <2>4. wal'[0] = wal[0]
    BY <1>4
  <2>5. Visible' = hist'[acked'] /\ Img(live.mx)' = hist'[acked'] /\ (nBackfill' = live'.mx => Settled')
    BY <2>1, <2>2, <1>0, <1>1 DEF LiveInv
  <2>6. /\ nBackfill' <= live'.mx /\ live'.salt <= nSalt'
        /\ live'.mx > 0 =>
             live'.salt = wal'[0].salt /\ live'.ck = wal'[live'.mx].ck /\ wal'[live'.mx].commit
        /\ live'.mx = 0 /\ wc'.nCkpt > 0 => live'.salt = wal'[0].salt /\ wc'.nCkpt = wal'[0].nCkpt
        /\ Len(hist') = IF call'.commit THEN acked' + 1 ELSE acked'
    BY <2>3, <2>4, <1>0, <1>1 DEF LiveInv
  <2> QED BY <2>5, <2>6, <1>1 DEF LiveInv
<1> QED BY <1>7, <1>9, <1>10, <1>11

\* What is common to the two ways to write a frame.
FrameWrite(p, s, g) ==
  /\ pc = "frames" /\ pc' = "frames" /\ call.list # <<>> /\ p = Head(call.list)
  /\ WriteSlot(s, g) /\ call'.list = Tail(call.list) /\ (call'.commit <=> call.commit)
  /\ call'.iFirst = call.iFirst /\ h'.mx = h.mx /\ h'.salt = h.salt
  /\ pager'.img = pager.img /\ pager'.dirty = pager.dirty \ {p}
  /\ (pager'.modified <=> pager.modified)
  /\ UNCHANGED <<bases, db, dbDisk, dbPend, live, nBackfill, nWrite, nSalt>>
  /\ UNCHANGED <<hist, acked, synced, floor>>
  /\ wc'.nCkpt = wc.nCkpt

LEMMA FrameWriteFacts ==
  ASSUME IInv, NEW p, NEW s \in 1 .. MaxFrame, NEW g, FrameWrite(p, s, g)
  PROVE  /\ wal' = [i \in Slot |-> wal'[i]] /\ pend' = [i \in Slot |-> pend'[i]] /\ wal'[s] = g
         /\ \A i \in 0 .. MaxFrame : i # s => wal'[i] = wal[i] /\ pend'[i] = pend[i] /\ Known(i)' = Known(i)
         /\ \A f \in Known(s)' : f \in Known(s) \/ f = g
         /\ \A i \in 1 .. MaxFrame : wal'[i] \in Known(i)' /\ wal[i] \in Known(i)
         /\ Writing /\ Writing' /\ InTrans /\ InTrans' /\ Spilled /\ Spilled' /\ InLog /\ ~Committed /\ ~Pending
         /\ Top = live.mx /\ End = call.iFrame /\ End' = call'.iFrame
         /\ p \in Page /\ (p \in pager.dirty \/ (call.commit /\ Len(call.list) = 1 /\ End > live.mx))
         /\ FindFrame(wal, p, h.mx + 1, End) = 0
         /\ Len(call.list) \in Nat /\ Len(call.list) >= 1 /\ Len(call'.list) = Len(call.list) - 1
         /\ call'.list \in Seq(Page)
         /\ call'.list = <<>> <=> Len(call.list) = 1
         /\ Committed' <=> call.commit /\ Len(call.list) = 1
<1>0. Types /\ LiveInv /\ ListInv
  BY DEF IInv
<1>1. wal' = [wal EXCEPT ![s] = g] /\ pend' = [pend EXCEPT ![s] = pend[s] \cup {g}] /\ bases' = bases
  BY DEF FrameWrite, WriteSlot
<1>2. s \in Slot /\ \A i \in 0 .. MaxFrame : i \in Slot
  BY Bounds DEF Slot
<1>3. wal = [i \in Slot |-> wal[i]] /\ pend = [i \in Slot |-> pend[i]]
  BY <1>0 DEF Types
<1>4. /\ wal' = [i \in Slot |-> wal'[i]] /\ pend' = [i \in Slot |-> pend'[i]] /\ wal'[s] = g
      /\ pend'[s] = pend[s] \cup {g}
      /\ \A i \in 0 .. MaxFrame : i # s => wal'[i] = wal[i] /\ pend'[i] = pend[i]
  BY <1>1, <1>2, <1>3
<1>5. \A i \in 0 .. MaxFrame : i # s => Known(i)' = Known(i)
  BY <1>1, <1>4 DEF Known
<1>6. \A f \in Known(s)' : f \in Known(s) \/ f = g
  BY <1>1, <1>4 DEF Known
<1>7. \A i \in 1 .. MaxFrame : wal'[i] \in Known(i)' /\ wal[i] \in Known(i)
  BY DEF Known
<1>8. Writing /\ Writing' /\ InTrans /\ InTrans' /\ Spilled /\ Spilled' /\ InLog /\ ~Committed /\ ~Pending
  BY DEF FrameWrite, Writing, InTrans, Spilled, InLog, Committed, Pending
<1>9. Top = live.mx /\ End = call.iFrame /\ End' = call'.iFrame
  BY <1>0, <1>8 DEF LiveInv, End, Writing
<1>10. /\ call.list \in Seq(Page) /\ call.list # <<>> /\ call'.list = Tail(call.list) /\ p = Head(call.list)
  BY <1>0 DEF FrameWrite, Types, Call
<1>11. /\ Len(call.list) \in Nat /\ Len(call.list) >= 1 /\ Len(call'.list) = Len(call.list) - 1
       /\ call'.list \in Seq(Page) /\ p = call.list[1] /\ p \in Page /\ 1 \in 1 .. Len(call.list)
  BY <1>10
<1>12. call'.list = <<>> <=> Len(call.list) = 1
  <2>1. call'.list # <<>> => Len(call'.list) \in Nat \ {0}
    BY <1>11, EmptySeq
  <2>2. call'.list = <<>> => Len(call'.list) = 0
    BY EmptySeq
  <2> QED BY <2>1, <2>2, <1>11
<1>13. /\ p \in pager.dirty \/ (call.commit /\ Len(call.list) = 1 /\ End > live.mx)
       /\ FindFrame(wal, p, h.mx + 1, End) = 0
  BY <1>0, <1>11 DEF ListInv, FrameWrite
<1>14. Committed' <=> call.commit /\ Len(call.list) = 1
  BY <1>8, <1>12 DEF Committed, FrameWrite
<1> QED BY <1>4, <1>5, <1>6, <1>7, <1>8, <1>9, <1>11, <1>12, <1>13, <1>14

\* The list and the dirty pages lose the page that was written.
LEMMA FrameListed ==
  ASSUME IInv, NEW p, NEW s \in 1 .. MaxFrame, NEW g, FrameWrite(p, s, g), End' >= End,
         call'.iFrame + Len(call'.list) <= MaxFrame,
         \A q \in Page \ {p} : FindFrame(wal, q, h.mx + 1, End) = 0 => FindFrame(wal, q, h.mx + 1, End)' = 0
  PROVE  ListInv'
<1>0. Types /\ ListInv
  BY DEF IInv
<1>1. /\ Len(call.list) \in Nat /\ Len(call.list) >= 1 /\ Len(call'.list) = Len(call.list) - 1
      /\ call'.list = <<>> <=> Len(call.list) = 1
      /\ Committed' <=> call.commit /\ Len(call.list) = 1
  BY FrameWriteFacts
<1>2. call.list \in Seq(Page) /\ call.list # <<>> /\ pager.dirty \in SUBSET Page
  BY <1>0 DEF Types, Call, FrameWrite
<1>3. /\ pc = "frames" /\ call'.list = Tail(call.list) /\ (call'.commit <=> call.commit)
      /\ p = call.list[1] /\ call'.iFirst = call.iFirst /\ h'.mx = h.mx /\ live'.mx = live.mx
      /\ pager'.dirty = pager.dirty \ {p}
  BY <1>2 DEF FrameWrite
<1>4. \A k \in 1 .. Len(call'.list) : call'.list[k] = call.list[k + 1] /\ k + 1 \in 1 .. Len(call.list) /\ k + 1 # 1
  BY <1>1, <1>2, <1>3
<1>5. /\ \A k \in 1 .. Len(call.list) :
            /\ call.list[k] \in pager.dirty \/ (call.commit /\ Len(call.list) = 1 /\ End > live.mx)
            /\ FindFrame(wal, call.list[k], h.mx + 1, End) = 0
            /\ \A l \in 1 .. Len(call.list) : call.list[l] = call.list[k] => l = k
      /\ call.commit => \A q \in pager.dirty : \E k \in 1 .. Len(call.list) : call.list[k] = q
      /\ call.iFirst = IF h.mx > live.mx THEN live.mx + 1 ELSE 0
  BY <1>0, <1>3 DEF ListInv
<1>6. 1 \in 1 .. Len(call.list)
  BY <1>1
<1>7. ASSUME NEW k \in 1 .. Len(call'.list)
      PROVE  /\ call'.list[k] \in pager'.dirty
             /\ FindFrame(wal', call'.list[k], h'.mx + 1, End') = 0
             /\ \A l \in 1 .. Len(call'.list) : call'.list[l] = call'.list[k] => l = k
  <2>1. PICK q : q = call'.list[k]
    OBVIOUS
  <2>2. q = call.list[k + 1] /\ k + 1 \in 1 .. Len(call.list) /\ k + 1 # 1
    BY <2>1, <1>4
  <2>3. q # p /\ Len(call.list) # 1 /\ q \in Page
    BY <2>2, <1>1, <1>2, <1>3, <1>5, <1>6
  <2>4. q \in pager.dirty /\ FindFrame(wal, q, h.mx + 1, End) = 0
    BY <2>2, <2>3, <1>5
  <2>5. FindFrame(wal, q, h.mx + 1, End)' = 0
    BY <2>3, <2>4
  <2>6. \A l \in 1 .. Len(call'.list) : call'.list[l] = q => l = k
    <3> TAKE l \in 1 .. Len(call'.list)
    <3> HAVE call'.list[l] = q
    <3>1. call.list[l + 1] = q /\ l + 1 \in 1 .. Len(call.list)
      BY <1>4
    <3>2. l + 1 = k + 1
      BY <3>1, <2>2, <1>5
    <3> QED BY <3>2
  <2> QED BY <2>1, <2>3, <2>4, <2>5, <2>6, <1>3
<1>8. ASSUME call'.commit, NEW q \in pager'.dirty
      PROVE  \E k \in 1 .. Len(call'.list) : call'.list[k] = q
  <2>1. PICK k \in 1 .. Len(call.list) : call.list[k] = q
    BY <1>3, <1>5, <1>8
  <2>2. k # 1
    BY <2>1, <1>3, <1>8
  <2>3. k - 1 \in 1 .. Len(call'.list) /\ (k - 1) + 1 = k
    BY <2>2, <1>1
  <2> QED BY <2>1, <2>3, <1>4
<1>9. Committed' => pager'.dirty = {}
  <2> SUFFICES ASSUME Committed', NEW q \in pager'.dirty PROVE FALSE
    OBVIOUS
  <2>1. call'.commit /\ Len(call'.list) = 0
    BY <1>1, <1>3
  <2> QED BY <2>1, <1>8
<1> QED BY <1>3, <1>5, <1>7, <1>8, <1>9 DEF ListInv

\* A page of the open transaction is written again, in its frame.
LEMMA OverwriteStep ==
  ASSUME IInv, WriteFrame, NEW p, NEW s, p = Head(call.list), s = OverwriteOf(p), s # 0
  PROVE  IInv'
<1>0. /\ Types /\ LogOK /\ Values /\ Classified /\ LiveInv
      /\ EndInv /\ ChainInv /\ PagerInv /\ FreshInv /\ ListInv /\ StaleInv
  BY DEF IInv
<1>1. PICK g, v : v = pager.img[p] /\ g = [wal[s] EXCEPT !.val = v]
  OBVIOUS
<1>2. /\ pc = "frames" /\ call.list # <<>> /\ WriteSlot(s, g)
      /\ wc' = [wc EXCEPT !.iReCksum = IF wc.iReCksum = 0 \/ s < wc.iReCksum THEN s ELSE wc.iReCksum]
      /\ call' = [call EXCEPT !.list = Tail(call.list)] /\ h' = h
      /\ pager' = [pager EXCEPT !.dirty = pager.dirty \ {p}]
      /\ UNCHANGED <<bases, db, dbDisk, dbPend, live, nBackfill, pc>>
      /\ UNCHANGED <<hist, acked, synced, floor, nWrite, nSalt, nCrash, sc>>
  BY <1>1 DEF WriteFrame, ghosts, counters
<1>3. /\ live.mx \in Nat /\ h.mx \in Nat /\ nBackfill \in Nat /\ MaxFrame \in Nat /\ h.mx <= MaxFrame
      /\ live.mx <= MaxFrame /\ nBackfill <= MaxFrame /\ End \in Nat /\ End \in Slot
      /\ nWrite \in Nat /\ nSalt \in Nat /\ wc.iReCksum \in Nat /\ wc.iReCksum <= MaxFrame
  BY <1>0, Numbers
<1>4. Writing /\ InTrans /\ Spilled /\ End = call.iFrame /\ ~Committed
  BY <1>2 DEF Writing, InTrans, Spilled, End, Committed
<1>5. /\ ~wc.readLock0 /\ wc.minFrame = nBackfill + 1 /\ live.mx <= h.mx /\ h.mx <= End /\ End <= MaxFrame
      /\ nBackfill <= live.mx
      /\ wc.iReCksum # 0 => live.mx < wc.iReCksum /\ wc.iReCksum <= End
  BY <1>0, <1>2, <1>4 DEF EndInv, LiveInv
<1>6. /\ Len(call.list) > 1 \/ ~call.commit
      /\ s = FindFrame(wal, p, nBackfill + 1, h.mx)
      /\ call.iFirst # 0 /\ s >= call.iFirst
  BY <1>5 DEF OverwriteOf
<1>7. h.mx > live.mx /\ s >= live.mx + 1
  <2>1. call.iFirst = IF h.mx > live.mx THEN live.mx + 1 ELSE 0
    BY <1>0, <1>2 DEF ListInv
  <2> QED BY <2>1, <1>6
<1>8. s \in nBackfill + 1 .. h.mx /\ wal[s].pg = p
  <2>1. nBackfill + 1 \in Nat \ {0} /\ h.mx \in Slot
    BY <1>3 DEF Slot
  <2> QED BY <2>1, <1>6, FindFacts
<1>9. s \in 1 .. MaxFrame /\ s \in live.mx + 1 .. End /\ s \in Nat /\ s > live.mx /\ s <= End
  BY <1>3, <1>5, <1>7, <1>8
<1>10. call'.list = Tail(call.list) /\ (call'.commit <=> call.commit) /\ call'.iFirst = call.iFirst
       /\ call'.iFrame = call.iFrame /\ call'.todo = call.todo /\ call'.after = call.after
  BY <1>0, <1>2 DEF Types, Call
<1>11. /\ pager'.img = pager.img /\ pager'.dirty = pager.dirty \ {p} /\ pager'.modified = pager.modified
       /\ pager'.savepoint = pager.savepoint /\ pager'.sp = pager.sp /\ DOMAIN pager' = DOMAIN pager
  BY <1>0, <1>2 DEF Types
<1>12. PICK r \in Nat : r = IF wc.iReCksum = 0 \/ s < wc.iReCksum THEN s ELSE wc.iReCksum
  BY <1>3, <1>9
<1>13. /\ wc' \in WalObject /\ wc'.iReCksum = r /\ wc'.nCkpt = wc.nCkpt /\ (wc'.readLock0 <=> wc.readLock0)
       /\ wc'.minFrame = wc.minFrame
  <2>1. wc \in WalObject /\ r \in Slot
    BY <1>0, <1>3, <1>9, <1>12 DEF Types, Slot
  <2> QED BY <2>1, <1>2, <1>12 DEF WalObject
<1>14. FrameWrite(p, s, g)
  BY <1>2, <1>10, <1>11, <1>13 DEF FrameWrite
<1>15. /\ wal' = [i \in Slot |-> wal'[i]] /\ pend' = [i \in Slot |-> pend'[i]] /\ wal'[s] = g
       /\ \A i \in 0 .. MaxFrame : i # s => wal'[i] = wal[i] /\ pend'[i] = pend[i] /\ Known(i)' = Known(i)
       /\ \A f \in Known(s)' : f \in Known(s) \/ f = g
       /\ \A i \in 1 .. MaxFrame : wal'[i] \in Known(i)' /\ wal[i] \in Known(i)
       /\ Writing /\ Writing' /\ InTrans /\ InTrans' /\ Spilled /\ Spilled' /\ InLog /\ ~Committed /\ ~Pending
       /\ Top = live.mx /\ End = call.iFrame /\ End' = call'.iFrame
       /\ p \in Page /\ (p \in pager.dirty \/ (call.commit /\ Len(call.list) = 1 /\ End > live.mx))
       /\ FindFrame(wal, p, h.mx + 1, End) = 0
       /\ Len(call.list) \in Nat /\ Len(call.list) >= 1 /\ Len(call'.list) = Len(call.list) - 1
       /\ call'.list \in Seq(Page)
       /\ call'.list = <<>> <=> Len(call.list) = 1
       /\ Committed' <=> call.commit /\ Len(call.list) = 1
  <2>1. wal' = [i \in Slot |-> wal'[i]] /\ pend' = [i \in Slot |-> pend'[i]] /\ wal'[s] = g
    <3>1. wal' = [wal EXCEPT ![s] = g] /\ pend' = [pend EXCEPT ![s] = pend[s] \cup {g}]
      BY <1>2 DEF WriteSlot
    <3>2. wal = [i \in Slot |-> wal[i]] /\ pend = [i \in Slot |-> pend[i]]
      BY <1>0 DEF Types
    <3>3. s \in Slot
      BY <1>9, Bounds DEF Slot
    <3> QED BY <3>1, <3>2, <3>3
  <2>2. \A i \in 0 .. MaxFrame : i # s => wal'[i] = wal[i] /\ pend'[i] = pend[i] /\ Known(i)' = Known(i)
    BY <1>9, <1>14, FrameWriteFacts
  <2>3. \A f \in Known(s)' : f \in Known(s) \/ f = g
    BY <1>9, <1>14, FrameWriteFacts
  <2>4. \A i \in 1 .. MaxFrame : wal'[i] \in Known(i)' /\ wal[i] \in Known(i)
    BY <1>9, <1>14, FrameWriteFacts
  <2>5. Writing /\ Writing' /\ InTrans /\ InTrans' /\ Spilled /\ Spilled' /\ InLog /\ ~Committed /\ ~Pending
    BY <1>9, <1>14, FrameWriteFacts
  <2>6. Top = live.mx /\ End = call.iFrame /\ End' = call'.iFrame
    BY <1>9, <1>14, FrameWriteFacts
  <2>7. p \in Page /\ (p \in pager.dirty \/ (call.commit /\ Len(call.list) = 1 /\ End > live.mx))
    BY <1>9, <1>14, FrameWriteFacts
  <2>8. FindFrame(wal, p, h.mx + 1, End) = 0
    BY <1>9, <1>14, FrameWriteFacts
  <2>9. Len(call.list) \in Nat /\ Len(call.list) >= 1 /\ Len(call'.list) = Len(call.list) - 1
    BY <1>9, <1>14, FrameWriteFacts
  <2>10. call'.list \in Seq(Page)
    BY <1>9, <1>14, FrameWriteFacts
  <2>11. call'.list = <<>> <=> Len(call.list) = 1
    BY <1>9, <1>14, FrameWriteFacts
  <2>12. Committed' <=> call.commit /\ Len(call.list) = 1
    BY <1>9, <1>14, FrameWriteFacts
  <2> QED BY <2>1, <2>2, <2>3, <2>4, <2>5, <2>6, <2>7, <2>8, <2>9, <2>10, <2>11, <2>12
<1>16. p \in pager.dirty /\ ~Committed' /\ ~Pending' /\ End' = End
  <2>1. ~(call.commit /\ Len(call.list) = 1)
    BY <1>6, <1>15
  <2> QED BY <2>1, <1>4, <1>10, <1>15 DEF Pending
<1>17. /\ \A i \in 1 .. MaxFrame : \A f \in Known(i) :
             f.val # v /\ \A j \in 2 .. Len(f.ck) : f.ck[j][2] # v
       /\ \A q \in Page \ {p} : pager.img[q] # v
  BY <1>0, <1>1, <1>4, <1>16 DEF FreshInv, PagerInv
<1>18. FrameOK(s, wal[s]) /\ wal[s] \in Known(s)
  BY <1>0, <1>9, <1>15 DEF LogOK
<1>19. /\ g.val = v /\ g.ck = wal[s].ck /\ g.pg = wal[s].pg /\ g.salt = wal[s].salt /\ (g.commit <=> wal[s].commit)
       /\ v \in Nat /\ v <= nWrite /\ g \in Frame
  <2>1. v \in Nat /\ v <= nWrite
    BY <1>0, <1>1, <1>15, RealImage DEF Types, Values
  <2> QED BY <2>1, <1>1, <1>18 DEF FrameOK, Frame
<1>20. FrameOK(s, g)
  <2>1. p # 0
    BY <1>15 DEF Page
  <2> QED BY <2>1, <1>8, <1>18, <1>19 DEF FrameOK
<1>21. ~Own(g, s) /\ ~g.commit
  <2>1. ~wal[s].commit
    BY <1>0, <1>4, <1>9 DEF ChainInv
  <2>2. ASSUME Own(g, s) PROVE FALSE
    <3>1. s + 1 \in 2 .. Len(wal[s].ck) /\ g.ck[s + 1] = Content(g)
      BY <2>2, <1>9, <1>19 DEF Own
    <3>2. wal[s].ck[s + 1][2] = v
      BY <3>1, <1>19 DEF Content
    <3> QED BY <3>1, <3>2, <1>9, <1>17, <1>18
  <2> QED BY <2>1, <2>2, <1>19
<1>22. \A i \in 0 .. live.mx : i # s /\ i \in 0 .. MaxFrame
  BY <1>3, <1>9
<1>23. \A i \in 1 .. MaxFrame : \A f \in Known(i)' : f \in Known(i) \/ (i = s /\ f = g)
  <2>1. \A i \in 1 .. MaxFrame : i \in 0 .. MaxFrame
    BY <1>3
  <2> QED BY <2>1, <1>15
<1>24. Top' = live.mx
  <2>1. PICK w : w = wal'
    OBVIOUS
  <2>2. live.mx # 0 => live.mx \in ValidFrames(wal) /\ wal[live.mx].commit
    BY <1>15, RecFacts DEF Top
  <2>3. live.mx # 0 => live.mx \in ValidFrames(w) /\ w[live.mx].commit
    <3>1. \A j \in 0 .. live.mx : w[j] = wal[j]
      BY <2>1, <1>15, <1>22
    <3>2. live.mx \in 0 .. live.mx
      BY <1>3
    <3> QED BY <2>2, <3>1, <3>2, ValidSame
  <2>4. ASSUME NEW j \in ValidFrames(w), j > live.mx PROVE ~w[j].commit
    <3>1. /\ j \in 1 .. MaxFrame /\ w[0].ok
          /\ \A k \in 1 .. j : k \in ValidFrames(w) /\ FrameValid(w[k], w[0].salt, ChecksumAfter(w, k - 1))
      BY ValidFacts
    <3>2. CASE j < s
      <4>0. j \in 0 .. MaxFrame /\ j # s
        BY <3>1, <3>2, <1>3, <1>9
      <4>2. w[j] = wal[j]
        BY <4>0, <2>1, <1>15
      <4>1. j \in live.mx + 1 .. End /\ w[j] = wal[j] /\ j # End
        BY <4>2, <2>4, <3>1, <3>2, <1>3, <1>9
      <4> QED BY <4>1, <1>0, <1>4 DEF ChainInv
    <3>3. CASE j >= s
      <4>1. s \in 1 .. j
        BY <3>1, <3>3, <1>9
      <4>2. s \in ValidFrames(w)
        BY <3>1, <4>1
      <4>3. Chained(w)
        <5>1. LogOK'
          <6>1. nWrite' = nWrite /\ nSalt' = nSalt
            BY <1>2
          <6>2. ASSUME NEW i \in 1 .. MaxFrame, NEW f, FrameOK(i, f) PROVE FrameOK(i, f)'
            BY <6>1, <6>2 DEF FrameOK, Frame
          <6>3. ASSUME NEW x, HeaderOK(x) PROVE HeaderOK(x)'
            BY <6>1, <6>3 DEF HeaderOK, Header
          <6>4. Known(0)' = Known(0)
            <7>1. 0 \in 0 .. MaxFrame /\ 0 # s
              BY <1>3, <1>9
            <7> QED BY <7>1, <1>15
          <6> QED BY <6>2, <6>3, <6>4, <1>0, <1>20, <1>23 DEF LogOK
        <5> QED BY <5>1, <2>1, LogChainedNext
      <4>4. Own(w[s], s)
        BY <4>2, <4>3, ChainStep DEF Own
      <4> QED BY <4>4, <2>1, <1>15, <1>21
    <3> QED BY <3>1, <3>2, <3>3, <1>9
  <2>5. live.mx \in Slot
    BY <1>3 DEF Slot
  <2>6. RecoveredMx(w) = live.mx
    BY <2>3, <2>4, <2>5, RecIs
  <2> QED BY <2>1, <2>6 DEF Top
<1>25. LogOK' /\ LogInv' /\ DbInv' /\ LiveInv'
  <2>1. \A i \in 0 .. live.mx : wal'[i] = wal[i] /\ pend'[i] = pend[i]
    BY <1>15, <1>22
  <2>2. \A i \in 1 .. MaxFrame : \A f \in Known(i)' : f \in Known(i) \/ FrameOK(i, f)
    BY <1>20, <1>23
  <2> QED BY <2>1, <2>2, <1>2, <1>4, <1>10, <1>13, <1>15, <1>16, <1>24, TailStep
<1>26. wal'[0] = wal[0]
  <2>1. 0 \in 0 .. MaxFrame /\ 0 # s
    BY <1>3, <1>9
  <2> QED BY <2>1, <1>15
<1>27. Classified'
  <2> SUFFICES ASSUME wal[0].ok \/ wal[0].nCkpt > 0, NEW i \in 1 .. MaxFrame, NEW f \in Known(i)',
                      CommitOf(f, wal[0].salt, wal[0].nCkpt)
               PROVE  (i <= Top' /\ f.ck = wal'[i].ck) \/ Dead(f, i)'
    BY <1>26 DEF Classified
  <2>1. f \in Known(i)
    BY <1>21, <1>23 DEF CommitOf
  <2>2. CASE i <= Top /\ f.ck = wal[i].ck
    <3>1. wal'[i] = wal[i]
      <4>1. i \in 0 .. MaxFrame /\ i # s
        BY <2>2, <1>3, <1>9, <1>15
      <4> QED BY <4>1, <1>15
    <3> QED BY <3>1, <2>2, <1>15, <1>24
  <2>3. CASE Dead(f, i)
    <3>1. \A j \in 1 .. i : j \in 1 .. MaxFrame
      BY <1>3
    <3>2. \A j \in 1 .. i : \A e \in Known(j)' : e \in Known(j) \/ ~Own(e, j) \/ ~Covers(f, e, j)
      BY <3>1, <1>21, <1>23
    <3> QED BY <2>3, <3>2, StillDead
  <2> QED BY <2>1, <2>2, <2>3, <1>0 DEF Classified
<1>28. Types'
  <2>1. call' \in Call
    BY <1>0, <1>2, <1>15, <1>10 DEF Types, Call
  <2> QED BY <2>1, <1>0, <1>2, <1>11, <1>13, <1>15 DEF Types
<1>29. Values' /\ SyncInv' /\ RestInv'
  BY <1>0, <1>2, <1>11 DEF Values, SyncInv, RestInv
<1>30. EndInv'
  <2>1. live.mx < r /\ r <= End /\ r # 0
    BY <1>3, <1>5, <1>9, <1>12
  <2> QED BY <2>1, <1>0, <1>2, <1>3, <1>4, <1>5, <1>9, <1>13, <1>16 DEF EndInv
<1>31. ChainInv'
  <2>1. r \in 1 .. s /\ r - 1 \in Nat
    BY <1>5, <1>9, <1>12, <1>3
  <2>2. r > 1 => r - 1 \in ValidFrames(wal)'
    <3> SUFFICES ASSUME r > 1 PROVE r - 1 \in ValidFrames(wal)'
      OBVIOUS
    <3>1. r - 1 \in ValidFrames(wal)
      <4>1. CASE wc.iReCksum = 0
        <5>1. r = s /\ End # 0
          BY <4>1, <1>12, <1>9
        <5>2. End \in ValidFrames(wal)
          BY <4>1, <5>1, <1>0, <1>4 DEF ChainInv
        <5>3. r - 1 \in 1 .. End
          BY <5>1, <1>9, <1>3
        <5> QED BY <5>2, <5>3, ValidFacts
      <4>2. CASE wc.iReCksum # 0 /\ s < wc.iReCksum
        <5>1. r = s /\ wc.iReCksum > 1
          BY <4>2, <1>12, <1>9, <1>3
        <5>2. wc.iReCksum - 1 \in ValidFrames(wal)
          BY <5>1, <1>0, <1>4 DEF ChainInv
        <5>3. r - 1 \in 1 .. wc.iReCksum - 1
          BY <5>1, <4>2, <1>9, <1>3
        <5> QED BY <5>2, <5>3, ValidFacts
      <4>3. CASE wc.iReCksum # 0 /\ ~(s < wc.iReCksum)
        <5>1. r = wc.iReCksum
          BY <4>3, <1>12
        <5> QED BY <5>1, <1>0, <1>4 DEF ChainInv
      <4> QED BY <4>1, <4>2, <4>3
    <3>2. PICK w : w = wal'
      OBVIOUS
    <3>3. \A j \in 0 .. r - 1 : w[j] = wal[j]
      <4>1. \A j \in 0 .. r - 1 : j \in 0 .. MaxFrame /\ j # s
        BY <2>1, <1>9, <1>3
      <4> QED BY <4>1, <3>2, <1>15
    <3>4. r - 1 \in ValidFrames(w)
      BY <3>1, <3>3, ValidSame
    <3> QED BY <3>2, <3>4
  <2>3. \A i \in live.mx + 1 .. End : wal'[i].pg # 0 /\ ~wal'[i].commit
    <3> TAKE i \in live.mx + 1 .. End
    <3>1. wal[i].pg # 0 /\ ~wal[i].commit
      BY <1>0, <1>4 DEF ChainInv
    <3>2. i \in 0 .. MaxFrame
      BY <1>3, <1>5
    <3> QED BY <3>1, <3>2, <1>15, <1>19
  <2>4. h'.salt = wal'[0].salt
    BY <1>0, <1>2, <1>4, <1>26 DEF ChainInv
  <2>5. wc'.iReCksum = r /\ r # 0
    BY <2>1, <1>13
  <2> QED BY <2>2, <2>3, <2>4, <2>5, <1>2, <1>16 DEF ChainInv
<1>32. PagerInv'
  <2>1. PICK w : w = wal'
    OBVIOUS
  <2>2. nBackfill + 1 \in Nat \ {0} /\ s \in nBackfill + 1 .. End /\ s # 0 /\ s \in Slot
    BY <1>3, <1>5, <1>8, <1>9 DEF Slot
  <2>3. FindFrame(wal, p, nBackfill + 1, End) = s
    <3>1. /\ \A i \in nBackfill + 1 .. h.mx : wal[i].pg = p => i <= s
      <4>1. h.mx \in Slot
        BY <1>3 DEF Slot
      <4>2. \A i \in nBackfill + 1 .. h.mx : wal[i].pg = p => i <= FindFrame(wal, p, nBackfill + 1, h.mx)
        BY <4>1, <2>2, FindFacts
      <4> QED BY <4>2, <1>6
    <3>2. \A i \in h.mx + 1 .. End : wal[i].pg # p
      <4>1. h.mx + 1 \in Nat \ {0}
        BY <1>3
      <4>2. \A i \in h.mx + 1 .. End : wal[i].pg = p => FindFrame(wal, p, h.mx + 1, End) # 0
        BY <4>1, <1>3, FindFacts
      <4> QED BY <4>2, <1>15
    <3>3. \A i \in nBackfill + 1 .. End : i \in nBackfill + 1 .. h.mx \/ i \in h.mx + 1 .. End
      BY <1>3
    <3>4. \A i \in nBackfill + 1 .. End : wal[i].pg = p => i <= s
      BY <3>1, <3>2, <3>3
    <3>5. /\ FindFrame(wal, p, nBackfill + 1, End) \in Slot
          /\ FindFrame(wal, p, nBackfill + 1, End) # 0 =>
               FindFrame(wal, p, nBackfill + 1, End) \in nBackfill + 1 .. End
               /\ wal[FindFrame(wal, p, nBackfill + 1, End)].pg = p
          /\ \A i \in nBackfill + 1 .. End : wal[i].pg = p =>
               i <= FindFrame(wal, p, nBackfill + 1, End) /\ FindFrame(wal, p, nBackfill + 1, End) # 0
      BY <2>2, <1>3, FindFacts
    <3> QED BY <3>4, <3>5, <2>2, <1>3, <1>8 DEF Slot
  <2>4. \A j \in nBackfill + 1 .. End : j \in 0 .. MaxFrame
    BY <1>3, <1>5
  <2>5. \A j \in nBackfill + 1 .. End : w[j].pg = wal[j].pg /\ (j # s => w[j].val = wal[j].val)
    BY <2>1, <2>4, <1>15, <1>19
  <2>6. \A q \in Page : Overlay(w, db, nBackfill + 1, End)[q] =
          IF q = p THEN w[s].val ELSE Overlay(wal, db, nBackfill + 1, End)[q]
    <3>1. End \in Slot /\ p \in Page /\ s = FindFrame(wal, p, nBackfill + 1, End)
      BY <2>3, <1>3, <1>15
    <3>2. \A j \in nBackfill + 1 .. End : w[j].pg = wal[j].pg
      BY <2>5
    <3>3. \A j \in nBackfill + 1 .. End : j # s => w[j].val = wal[j].val
      BY <2>5
    <3>4. PICK lo \in Nat \ {0} : lo = nBackfill + 1
      BY <2>2
    <3>5. PICK hi \in Slot : hi = End
      BY <1>3
    <3>6. PICK d : d = db
      OBVIOUS
    <3>7. PICK u : u = wal
      OBVIOUS
    <3>8. s \in lo .. hi /\ s = FindFrame(u, p, lo, hi)
      BY <2>2, <3>1, <3>4, <3>5, <3>7
    <3>9. \A j \in lo .. hi : w[j].pg = u[j].pg
      BY <3>2, <3>4, <3>5, <3>7
    <3>10. \A j \in lo .. hi : j # s => w[j].val = u[j].val
      BY <3>3, <3>4, <3>5, <3>7
    <3>11. \A q \in Page : Overlay(w, d, lo, hi)[q] = IF q = p THEN w[s].val ELSE Overlay(u, d, lo, hi)[q]
      <4> TAKE q \in Page
      <4>1. PICK j : j = FindFrame(u, q, lo, hi)
        OBVIOUS
      <4>2. FindFrame(w, q, lo, hi) = j
        BY <4>1, <3>9, FindSame
      <4>3. /\ j # 0 => j \in lo .. hi /\ u[j].pg = q
            /\ s # 0 /\ u[s].pg = p
        BY <4>1, <3>7, <3>8, <1>8, <2>2, FindFacts
      <4>4. /\ Overlay(w, d, lo, hi)[q] = IF j = 0 THEN d[q] ELSE w[j].val
            /\ Overlay(u, d, lo, hi)[q] = IF j = 0 THEN d[q] ELSE u[j].val
        BY <4>1, <4>2 DEF Overlay
      <4>5. CASE q = p
        BY <4>1, <4>3, <4>4, <4>5, <3>8
      <4>6. CASE q # p
        BY <4>3, <4>4, <4>6, <3>10
      <4> QED BY <4>5, <4>6
    <3> QED BY <3>4, <3>5, <3>6, <3>7, <3>11
  <2>7. w[s].val = v
    BY <2>1, <1>15, <1>19
  <2>8. \A q \in Page \ pager'.dirty : Overlay(w, db, nBackfill + 1, End)[q] = pager.img[q]
    <3> TAKE q \in Page \ pager'.dirty
    <3>1. CASE q = p
      BY <3>1, <2>6, <2>7, <1>1
    <3>2. CASE q # p
      <4>1. q \in Page \ pager.dirty
        BY <3>2, <1>11
      <4> QED BY <4>1, <3>2, <2>6, <1>0, <1>4 DEF PagerInv
    <3> QED BY <3>1, <3>2
  <2>9. Overlay(wal, db, nBackfill + 1, End)' = Overlay(w, db, nBackfill + 1, End)
    BY <2>1, <1>2, <1>16
  <2> QED BY <2>8, <2>9, <1>0, <1>2, <1>4, <1>10, <1>11 DEF PagerInv
<1>33. FreshInv'
  <2> SUFFICES ASSUME NEW q \in pager'.dirty, NEW i \in 1 .. MaxFrame, NEW f \in Known(i)'
               PROVE  f.val # pager.img[q] /\ \A j \in 2 .. Len(f.ck) : f.ck[j][2] # pager.img[q]
    BY <1>11 DEF FreshInv
  <2>1. q \in pager.dirty /\ q # p /\ q \in Page
    BY <1>0, <1>11 DEF Types
  <2>2. \A k \in 1 .. MaxFrame : \A e \in Known(k) :
          e.val # pager.img[q] /\ \A j \in 2 .. Len(e.ck) : e.ck[j][2] # pager.img[q]
    BY <2>1, <1>0, <1>4 DEF FreshInv
  <2>3. CASE f \in Known(i)
    BY <2>2, <2>3
  <2>4. CASE i = s /\ f = g
    BY <2>1, <2>2, <2>4, <1>17, <1>18, <1>19
  <2> QED BY <2>3, <2>4, <1>23
<1>34. ListInv'
  <2>1. call'.iFrame + Len(call'.list) <= MaxFrame
    <3>1. call.iFrame + Len(call.list) <= MaxFrame
      BY <1>0, <1>2 DEF ListInv
    <3> QED BY <3>1, <1>3, <1>4, <1>10, <1>15
  <2>2. \A q \in Page \ {p} : FindFrame(wal, q, h.mx + 1, End) = 0 => FindFrame(wal, q, h.mx + 1, End)' = 0
    <3> TAKE q \in Page \ {p}
    <3>1. PICK w : w = wal'
      OBVIOUS
    <3>2. \A j \in h.mx + 1 .. End : w[j] = wal[j]
      <4>1. \A j \in h.mx + 1 .. End : j \in 0 .. MaxFrame /\ j # s
        BY <1>3, <1>5, <1>8
      <4> QED BY <4>1, <3>1, <1>15
    <3>3. h.mx + 1 \in Nat \ {0}
      BY <1>3
    <3>4. FindFrame(w, q, h.mx + 1, End) = FindFrame(wal, q, h.mx + 1, End)
      BY <3>2, <3>3, <1>3, FindSame
    <3> QED BY <3>1, <3>4, <1>2, <1>16
  <2>3. End' >= End
    BY <1>3, <1>16
  <2> QED BY <2>1, <2>2, <2>3, <1>9, <1>14, FrameListed
<1>35. StaleInv'
  <2> SUFFICES ASSUME NEW i \in live.mx + 1 .. MaxFrame, NEW f \in Known(i)',
                      CommitOf(f, wal[0].salt, wal[0].nCkpt)
               PROVE  f.ck[live.mx + 2] # Content(wal'[live.mx + 1])
    BY <1>2, <1>26 DEF StaleInv
  <2>1. i \in 1 .. MaxFrame /\ ~(i <= Top) /\ End > live.mx
    <3>1. Top = live.mx
      BY <1>15
    <3> QED BY <3>1, <1>3, <1>9
  <2>2. f \in Known(i)
    BY <2>1, <1>21, <1>23 DEF CommitOf
  <2>3. CASE s = live.mx + 1
    <3>1. FrameOK(i, f)
      BY <2>1, <2>2, <1>0 DEF LogOK
    <3>2. live.mx + 2 \in 2 .. Len(f.ck)
      BY <2>1, <3>1, <1>3 DEF FrameOK, CommitOf
    <3>3. f.ck[live.mx + 2][2] # v
      BY <2>1, <2>2, <3>2, <1>17
    <3>4. wal'[live.mx + 1] = g
      BY <2>3, <1>15
    <3> QED BY <3>3, <3>4, <1>19 DEF Content
  <2>4. CASE s # live.mx + 1
    <3>1. live.mx + 1 \in 0 .. MaxFrame
      BY <2>1, <1>3, <1>5
    <3>2. wal'[live.mx + 1] = wal[live.mx + 1]
      BY <3>1, <2>4, <1>15
    <3> QED BY <2>1, <2>2, <3>2, <1>0, <1>4 DEF StaleInv
  <2> QED BY <2>3, <2>4
<1> QED BY <1>25, <1>27, <1>28, <1>29, <1>30, <1>31, <1>32, <1>33, <1>34, <1>35 DEF IInv

\* The files keep their types when the new frames do.
LEMMA TailLog ==
  ASSUME LogOK, UNCHANGED <<bases, nWrite, nSalt>>, wal'[0] = wal[0], pend'[0] = pend[0],
         \A i \in 1 .. MaxFrame : \A g \in Known(i)' : g \in Known(i) \/ FrameOK(i, g)
  PROVE  LogOK' /\ Chained(wal')
<1>1. ASSUME NEW i \in 1 .. MaxFrame, NEW f, FrameOK(i, f) PROVE FrameOK(i, f)'
  BY <1>1 DEF FrameOK, Frame
<1>2. ASSUME NEW x, HeaderOK(x) PROVE HeaderOK(x)'
  BY <1>2 DEF HeaderOK, Header
<1>3. Known(0)' = Known(0)
  BY DEF Known
<1>4. LogOK'
  BY <1>1, <1>2, <1>3 DEF LogOK
<1> QED BY <1>4, LogChainedNext

\* A page of the list goes to the end of the log.
LEMMA AppendStep ==
  ASSUME IInv, WriteFrame, NEW p, p = Head(call.list), OverwriteOf(p) = 0
  PROVE  IInv'
<1>0. /\ Types /\ LogOK /\ Values /\ Classified /\ LogInv /\ LiveInv
      /\ EndInv /\ ChainInv /\ PagerInv /\ FreshInv /\ ListInv /\ StaleInv
  BY DEF IInv
<1>1. PICK n, f : n = call.iFrame + 1 /\ f = EncodeFrame(p, pager.img[p], call.commit /\ Len(call.list) = 1,
                                                         h, wc.iReCksum)
  OBVIOUS
<1>2. /\ pc = "frames" /\ call.list # <<>> /\ WriteSlot(n, f)
      /\ h' = IF wc.iReCksum = 0 THEN [h EXCEPT !.ck = f.ck] ELSE h
      /\ call' = [call EXCEPT !.list = Tail(call.list), !.iFrame = n] /\ wc' = wc
      /\ pager' = [pager EXCEPT !.dirty = pager.dirty \ {p}]
      /\ UNCHANGED <<bases, db, dbDisk, dbPend, live, nBackfill, pc>>
      /\ UNCHANGED <<hist, acked, synced, floor, nWrite, nSalt, nCrash, sc>>
  BY <1>1 DEF WriteFrame, ghosts, counters
<1>3. /\ live.mx \in Nat /\ h.mx \in Nat /\ nBackfill \in Nat /\ MaxFrame \in Nat /\ h.mx <= MaxFrame
      /\ live.mx <= MaxFrame /\ nBackfill <= MaxFrame /\ End \in Nat /\ End \in Slot /\ call.iFrame \in Nat
      /\ nWrite \in Nat /\ nSalt \in Nat /\ wc.iReCksum \in Nat /\ wc.iReCksum <= MaxFrame
      /\ h.salt \in Nat /\ h.ck \in Seq(CkEntry)
  BY <1>0, Numbers, Shapes
<1>4. Writing /\ InTrans /\ Spilled /\ InLog /\ End = call.iFrame /\ ~Committed /\ pc # "down"
  BY <1>2 DEF Writing, InTrans, Spilled, End, Committed, InLog
<1>5. /\ ~wc.readLock0 /\ live.mx <= h.mx /\ h.mx <= End /\ End <= MaxFrame
      /\ nBackfill <= live.mx
      /\ wc.iReCksum # 0 => live.mx < wc.iReCksum /\ wc.iReCksum <= End
  BY <1>0, <1>2, <1>4 DEF EndInv, LiveInv
<1>6. n = End + 1
  BY <1>1, <1>4
<1>7. n \in 1 .. MaxFrame /\ n \in Nat /\ n \in Slot /\ live.mx < n
  <2>1. call.iFrame + Len(call.list) <= MaxFrame
    BY <1>0, <1>2 DEF ListInv
  <2>2. Len(call.list) \in Nat /\ Len(call.list) >= 1
    <3>1. call.list \in Seq(Page)
      BY <1>0 DEF Types, Call
    <3> QED BY <3>1, <1>2, EmptySeq
  <2> QED BY <2>1, <2>2, <1>1, <1>3, <1>5, <1>6 DEF Slot
<1>8. call'.list = Tail(call.list) /\ (call'.commit <=> call.commit) /\ call'.iFirst = call.iFirst
      /\ call'.iFrame = n /\ call'.todo = call.todo /\ call'.after = call.after
  BY <1>0, <1>2 DEF Types, Call
<1>9. /\ pager'.img = pager.img /\ pager'.dirty = pager.dirty \ {p} /\ pager'.modified = pager.modified
      /\ pager'.savepoint = pager.savepoint /\ pager'.sp = pager.sp /\ DOMAIN pager' = DOMAIN pager
  BY <1>0, <1>2 DEF Types
<1>10. /\ f.pg = p /\ f.val = pager.img[p] /\ (f.commit <=> call.commit /\ Len(call.list) = 1)
       /\ f.commit \in BOOLEAN
       /\ wc.iReCksum = 0 => f.salt = h.salt /\ f.ck = Append(h.ck, Content(f))
       /\ wc.iReCksum # 0 => f.salt = 0 /\ f.ck = <<>>
       /\ f = [pg |-> f.pg, val |-> f.val, commit |-> f.commit, salt |-> f.salt, ck |-> f.ck]
  BY <1>1 DEF EncodeFrame, FrameCk, Content
<1>11. /\ h'.mx = h.mx /\ h'.salt = h.salt
       /\ h'.ck = IF wc.iReCksum = 0 THEN f.ck ELSE h.ck
       /\ h = [mx |-> h.mx, salt |-> h.salt, ck |-> h.ck]
  <2>1. h \in IndexHdr
    BY <1>0 DEF Types
  <2> QED BY <2>1, <1>2 DEF IndexHdr
<1>12. FrameWrite(p, n, f)
  BY <1>2, <1>8, <1>9, <1>11 DEF FrameWrite
<1>13. wal' = [i \in Slot |-> wal'[i]] /\ pend' = [i \in Slot |-> pend'[i]] /\ wal'[n] = f
  <2>1. wal' = [wal EXCEPT ![n] = f] /\ pend' = [pend EXCEPT ![n] = pend[n] \cup {f}]
    BY <1>2 DEF WriteSlot
  <2>2. wal = [i \in Slot |-> wal[i]] /\ pend = [i \in Slot |-> pend[i]]
    BY <1>0 DEF Types
  <2> QED BY <2>1, <2>2, <1>7
<1>14. \A i \in 0 .. MaxFrame : i # n => wal'[i] = wal[i] /\ pend'[i] = pend[i] /\ Known(i)' = Known(i)
  BY <1>7, <1>12, FrameWriteFacts
<1>15. /\ \A i \in 1 .. MaxFrame : wal'[i] \in Known(i)' /\ wal[i] \in Known(i)
  BY <1>7, <1>12, FrameWriteFacts
<1>16. /\ Writing' /\ InTrans' /\ Spilled' /\ ~Pending /\ Top = live.mx /\ End' = n
  <2>1. Writing' /\ InTrans' /\ Spilled' /\ ~Pending
    BY <1>7, <1>12, FrameWriteFacts
  <2>2. Top = live.mx /\ End' = call'.iFrame
    BY <1>7, <1>12, FrameWriteFacts
  <2> QED BY <2>1, <2>2, <1>8
<1>17. p \in Page /\ (p \in pager.dirty \/ End > live.mx)
  BY <1>7, <1>12, FrameWriteFacts
<1>18. /\ Len(call.list) \in Nat /\ Len(call.list) >= 1 /\ Len(call'.list) = Len(call.list) - 1
       /\ call'.list \in Seq(Page)
  BY <1>7, <1>12, FrameWriteFacts
<1>19. Committed' <=> f.commit
  <2>1. Committed' <=> call.commit /\ Len(call.list) = 1
    BY <1>7, <1>12, FrameWriteFacts
  <2> QED BY <2>1, <1>10
<1>20. \A i \in 1 .. MaxFrame : \A g \in Known(i)' : g \in Known(i) \/ (i = n /\ g = f)
  <2>1. \A i \in 1 .. MaxFrame : i \in 0 .. MaxFrame
    BY <1>3
  <2>2. \A g \in Known(n)' : g \in Known(n) \/ g = f
    BY <1>7, <1>12, FrameWriteFacts
  <2> QED BY <2>1, <2>2, <1>14
<1>21. f.val \in Nat /\ f.val <= nWrite /\ p \in Nat /\ p # 0 /\ p \in 0 .. MaxPage
  <2>1. pager.img[p] \in Nat /\ pager.img[p] <= nWrite
    BY <1>0, <1>17, RealImage DEF Types, Values
  <2>2. p \in Nat /\ p # 0 /\ p \in 0 .. MaxPage
    BY <1>17, Bounds DEF Page
  <2> QED BY <2>1, <2>2, <1>10
<1>22. Chained(wal) /\ wal[0].ok /\ wal[0].salt \in Nat /\ wal[0].salt <= nSalt /\ h.salt = wal[0].salt
  <2>1. wal[0] \in Known(0)
    BY DEF Known
  <2>2. wal[0].salt <= nSalt
    BY <2>1, <1>0 DEF LogOK, HeaderOK
  <2>3. wal[0].ok /\ h.salt = wal[0].salt
    BY <1>0, <1>4 DEF LogInv, ChainInv
  <2> QED BY <2>2, <2>3, <1>0, <1>3, LogChained
<1>23. wc.iReCksum = 0 =>
         /\ End = 0 \/ (End \in ValidFrames(wal) /\ End \in 1 .. MaxFrame /\ End # 0 /\ h.ck = wal[End].ck)
         /\ h.ck = ChecksumAfter(wal, End) /\ Len(h.ck) = n
  <2> SUFFICES ASSUME wc.iReCksum = 0
               PROVE  /\ End = 0 \/ (End \in ValidFrames(wal) /\ End \in 1 .. MaxFrame /\ End # 0 /\ h.ck = wal[End].ck)
                      /\ h.ck = ChecksumAfter(wal, End) /\ Len(h.ck) = n
    OBVIOUS
  <2>1. (End = 0 \/ End \in ValidFrames(wal)) /\ h.ck = ChecksumAfter(wal, End)
    BY <1>0, <1>4 DEF ChainInv
  <2>2. CASE End = 0
    <3>1. h.ck = HdrCk(wal[0].salt, wal[0].nCkpt)
      BY <2>1, <2>2 DEF ChecksumAfter
    <3>2. Len(HdrCk(wal[0].salt, wal[0].nCkpt)) = 1
      BY DEF HdrCk
    <3>3. n = 1
      BY <2>2, <1>6
    <3> QED BY <2>1, <2>2, <3>1, <3>2, <3>3
  <2>3. CASE End # 0
    <3>1. End \in ValidFrames(wal)
      BY <2>1, <2>3
    <3>2. End \in 1 .. MaxFrame /\ Len(wal[End].ck) = End + 1
      BY <3>1, <1>22, ChainStep
    <3>3. h.ck = wal[End].ck
      BY <2>1, <2>3 DEF ChecksumAfter
    <3> QED BY <2>1, <2>3, <3>1, <3>2, <3>3, <1>6
  <2> QED BY <2>2, <2>3
<1>24. wc.iReCksum = 0 =>
         /\ f.ck \in Seq(CkEntry) /\ Len(f.ck) = n + 1 /\ f.ck[n + 1] = Content(f) /\ f.ck # <<>>
         /\ \A j \in 1 .. n : f.ck[j] = h.ck[j]
  <2> SUFFICES ASSUME wc.iReCksum = 0
               PROVE  /\ f.ck \in Seq(CkEntry) /\ Len(f.ck) = n + 1 /\ f.ck[n + 1] = Content(f) /\ f.ck # <<>>
                      /\ \A j \in 1 .. n : f.ck[j] = h.ck[j]
    OBVIOUS
  <2>1. PICK e : e = Content(f)
    OBVIOUS
  <2>2. e \in CkEntry
    BY <2>1, <1>10, <1>21 DEF Content, CkEntry
  <2>3. PICK c \in Seq(CkEntry) : c = h.ck /\ Len(c) = n
    BY <1>3, <1>23
  <2>4. f.ck = Append(c, e)
    BY <2>1, <2>3, <1>10
  <2>5. /\ f.ck \in Seq(CkEntry) /\ Len(f.ck) = n + 1 /\ f.ck[n + 1] = e
        /\ \A j \in 1 .. n : f.ck[j] = c[j]
    BY <2>2, <2>3, <2>4, <1>7
  <2>6. f.ck # <<>>
    BY <2>5, <1>7, EmptySeq
  <2> QED BY <2>1, <2>3, <2>5, <2>6
<1>25. FrameOK(n, f)
  <2>1. f \in Frame
    <3>1. f.ck \in Seq(CkEntry)
      BY <1>10, <1>24, EmptySeq
    <3>2. f.salt \in Nat
      BY <1>3, <1>10
    <3> QED BY <3>1, <3>2, <1>10, <1>21 DEF Frame
  <2>2. f.salt <= nSalt
    BY <1>3, <1>10, <1>22
  <2>3. f.ck # <<>> => Len(f.ck) = n + 1
    BY <1>10, <1>24
  <2>4. \A j \in 2 .. Len(f.ck) : f.ck[j][2] <= nWrite
    <3>1. CASE wc.iReCksum = 0
      <4> TAKE j \in 2 .. Len(f.ck)
      <4>1. CASE j = n + 1
        BY <4>1, <3>1, <1>21, <1>24 DEF Content
      <4>2. CASE j # n + 1
        <5>1. j \in 1 .. n /\ j <= End + 1 /\ End # 0
          BY <4>2, <3>1, <1>3, <1>6, <1>24
        <5>2. End \in 1 .. MaxFrame /\ h.ck = wal[End].ck
          BY <5>1, <3>1, <1>23
        <5>3. FrameOK(End, wal[End])
          BY <5>2, <1>0, <1>15 DEF LogOK
        <5>4. j \in 2 .. Len(wal[End].ck)
          BY <5>1, <5>2, <3>1, <1>6, <1>23
        <5> QED BY <5>1, <5>2, <5>3, <5>4, <3>1, <1>24 DEF FrameOK
      <4> QED BY <4>1, <4>2
    <3>2. CASE wc.iReCksum # 0
      <4>1. Len(f.ck) = 0
        BY <3>2, <1>10
      <4> QED BY <4>1
    <3> QED BY <3>1, <3>2
  <2> QED BY <2>1, <2>2, <2>3, <2>4, <1>10, <1>21 DEF FrameOK
<1>26. wal'[0] = wal[0] /\ pend'[0] = pend[0]
  <2>1. 0 \in 0 .. MaxFrame /\ 0 # n
    BY <1>3, <1>7
  <2> QED BY <2>1, <1>14
<1>27. PICK w : w = wal'
  OBVIOUS
<1>28. /\ Chained(w) /\ w[0] = wal[0] /\ w[n] = f
       /\ \A i \in 0 .. MaxFrame : i # n => w[i] = wal[i]
       /\ \A i \in 0 .. End : w[i] = wal[i]
  <2>1. \A i \in 1 .. MaxFrame : \A g \in Known(i)' : g \in Known(i) \/ FrameOK(i, g)
    BY <1>20, <1>25
  <2>2. Chained(w)
    BY <2>1, <1>0, <1>2, <1>26, <1>27, TailLog
  <2>3. \A i \in 0 .. End : i \in 0 .. MaxFrame /\ i # n
    BY <1>3, <1>5, <1>6
  <2> QED BY <2>2, <2>3, <1>13, <1>14, <1>26, <1>27
<1>29. \A i \in 1 .. End : i \in ValidFrames(wal) => i \in ValidFrames(w)
  <2> TAKE i \in 1 .. End
  <2> HAVE i \in ValidFrames(wal)
  <2>1. \A j \in 0 .. i : w[j] = wal[j]
    <3>1. \A j \in 0 .. i : j \in 0 .. End
      BY <1>3
    <3> QED BY <3>1, <1>28
  <2> QED BY <2>1, ValidSame
<1>30. wc.iReCksum = 0 => n \in ValidFrames(w)
  <2> SUFFICES ASSUME wc.iReCksum = 0 PROVE n \in ValidFrames(w)
    OBVIOUS
  <2>1. n = 1 \/ n - 1 \in ValidFrames(w)
    BY <1>3, <1>6, <1>23, <1>29
  <2>2. ChecksumAfter(w, n - 1) = h.ck
    <3>1. n - 1 = End /\ End \in 0 .. End /\ 0 \in 0 .. End
      BY <1>3, <1>6
    <3>2. w[End] = wal[End] /\ w[0] = wal[0]
      BY <3>1, <1>28
    <3>3. ChecksumAfter(w, End) = ChecksumAfter(wal, End)
      BY <3>2 DEF ChecksumAfter
    <3> QED BY <3>1, <3>3, <1>23
  <2>3. FrameValid(w[n], w[0].salt, ChecksumAfter(w, n - 1))
    <3>1. f.ck = FrameCk(h.ck, f) /\ f.salt = h.salt /\ f.pg # 0
      BY <1>10, <1>21 DEF FrameCk, Content
    <3> QED BY <3>1, <2>2, <1>22, <1>28 DEF FrameValid
  <2> QED BY <2>1, <2>3, <1>7, <1>22, <1>28, ValidNext
<1>31. wc.iReCksum # 0 => \A j \in ValidFrames(w) : j < n
  <2> SUFFICES ASSUME wc.iReCksum # 0, NEW j \in ValidFrames(w), ~(j < n) PROVE FALSE
    OBVIOUS
  <2>1. j \in 1 .. MaxFrame /\ \A k \in 1 .. j : k \in ValidFrames(w)
    BY ValidFacts
  <2>2. n \in 1 .. j
    BY <2>1, <1>7
  <2>3. n \in ValidFrames(w)
    BY <2>1, <2>2
  <2>4. w[n].ck # <<>>
    BY <2>3, <1>28, ChainStep
  <2> QED BY <2>4, <1>10, <1>28
<1> DEFINE first == live.mx + 1
<1>32. first \in 1 .. n /\ first \in Nat /\ (first = n <=> End = live.mx) /\ (first # n => first \in 0 .. End /\ End > live.mx)
  BY <1>3, <1>5, <1>6, <1>7
<1>33. \A i \in live.mx + 1 .. MaxFrame : \A g \in Known(i) :
         CommitOf(g, wal[0].salt, wal[0].nCkpt) => g.ck[live.mx + 2] # Content(w[first])
  <2> TAKE i \in live.mx + 1 .. MaxFrame
  <2> TAKE g \in Known(i)
  <2> HAVE CommitOf(g, wal[0].salt, wal[0].nCkpt)
  <2>1. i \in 1 .. MaxFrame /\ ~(i <= Top)
    <3>1. Top = live.mx
      BY <1>16
    <3> QED BY <3>1, <1>3
  <2>2. CASE first # n
    <3>1. w[first] = wal[live.mx + 1] /\ End > live.mx
      BY <2>2, <1>28, <1>32
    <3> QED BY <2>1, <3>1, <1>0, <1>4 DEF StaleInv
  <2>3. CASE first = n
    <3>1. p \in pager.dirty
      BY <2>3, <1>3, <1>17, <1>32
    <3>2. FrameOK(i, g)
      BY <2>1, <1>0 DEF LogOK
    <3>3. live.mx + 2 \in 2 .. Len(g.ck)
      <4>1. Len(g.ck) = i + 1
        BY <3>2 DEF FrameOK, CommitOf
      <4>2. i \in Nat /\ i >= live.mx + 1
        BY <1>3
      <4> QED BY <4>1, <4>2, <1>3
    <3>4. g.ck[live.mx + 2][2] # pager.img[p]
      BY <2>1, <3>1, <3>3, <1>0, <1>4 DEF FreshInv
    <3>5. Content(w[first])[2] = pager.img[p]
      BY <2>3, <1>10, <1>28 DEF Content
    <3> QED BY <3>4, <3>5
  <2> QED BY <2>2, <2>3
<1>34. Pending' <=> f.commit /\ wc.iReCksum = 0
  BY <1>2, <1>19 DEF Pending
<1>35. Top' = IF Pending' THEN n ELSE live.mx
  <2>1. live.mx # 0 => live.mx \in ValidFrames(w) /\ w[live.mx].commit
    <3>1. live.mx # 0 => live.mx \in ValidFrames(wal) /\ wal[live.mx].commit
      BY <1>16, RecFacts DEF Top
    <3>2. live.mx # 0 => live.mx \in 1 .. End /\ live.mx \in 0 .. End
      BY <1>3, <1>5
    <3> QED BY <3>1, <3>2, <1>28, <1>29
  <2>2. \A j \in ValidFrames(w) : j > n => ~w[j].commit
    <3> SUFFICES ASSUME NEW j \in ValidFrames(w), j > n, w[j].commit PROVE FALSE
      OBVIOUS
    <3>1. j \in 1 .. MaxFrame
      BY ValidFacts
    <3>2. j \in live.mx + 1 .. MaxFrame /\ w[j] = wal[j] /\ j \in 0 .. MaxFrame
      BY <3>1, <1>3, <1>7, <1>28
    <3>3. wal[j] \in Known(j)
      BY <3>1, <1>15
    <3>4. CommitOf(w[j], wal[0].salt, wal[0].nCkpt)
      BY <1>28, ValidCommit
    <3>5. w[j].ck[first + 1] = Content(w[first])
      <4>1. first \in 1 .. j
        BY <3>1, <1>3, <1>7
      <4>2. \A k \in 1 .. j : w[j].ck[k + 1] = Content(w[k])
        BY <1>28, ChainCovers
      <4> QED BY <4>1, <4>2
    <3>6. first + 1 = live.mx + 2
      BY <1>3
    <3> QED BY <3>2, <3>3, <3>4, <3>5, <3>6, <1>33
  <2>3. \A j \in ValidFrames(w) : j > live.mx /\ j < n => ~w[j].commit
    <3> SUFFICES ASSUME NEW j \in ValidFrames(w), j > live.mx, j < n PROVE ~w[j].commit
      OBVIOUS
    <3>1. j \in 1 .. MaxFrame
      BY ValidFacts
    <3>2. j \in live.mx + 1 .. End /\ j \in 0 .. End
      BY <3>1, <1>3, <1>6
    <3> QED BY <3>2, <1>0, <1>4, <1>28 DEF ChainInv
  <2>4. \A j \in ValidFrames(w) : j \in Nat
    BY ValidFacts
  <2>5. CASE Pending'
    <3>1. n \in ValidFrames(w) /\ w[n].commit
      BY <2>5, <1>28, <1>30, <1>34
    <3>2. RecoveredMx(w) = n
      BY <3>1, <2>2, <1>7, RecIs
    <3> QED BY <3>2, <2>5, <1>27 DEF Top
  <2>6. CASE ~Pending'
    <3>1. \A j \in ValidFrames(w) : j = n => ~w[j].commit
      BY <2>6, <1>28, <1>31, <1>34, <1>7
    <3>2. \A j \in ValidFrames(w) : j > live.mx => ~w[j].commit
      BY <2>2, <2>3, <2>4, <3>1, <1>7
    <3>3. live.mx \in Slot
      BY <1>3 DEF Slot
    <3>4. RecoveredMx(w) = live.mx
      BY <2>1, <3>2, <3>3, RecIs
    <3> QED BY <3>4, <2>6, <1>27 DEF Top
  <2> QED BY <2>5, <2>6
<1>36. LogOK' /\ LogInv' /\ DbInv' /\ LiveInv'
  <2>1. \A i \in 0 .. live.mx : wal'[i] = wal[i] /\ pend'[i] = pend[i]
    <3>1. \A i \in 0 .. live.mx : i \in 0 .. MaxFrame /\ i # n
      BY <1>3, <1>7
    <3> QED BY <3>1, <1>14
  <2>2. \A i \in 1 .. MaxFrame : \A g \in Known(i)' : g \in Known(i) \/ FrameOK(i, g)
    BY <1>20, <1>25
  <2>3. Top' = IF Pending' THEN End' ELSE live.mx
    BY <1>16, <1>35
  <2>4. UNCHANGED <<hist, acked, synced, floor>> /\ wc'.nCkpt = wc.nCkpt /\ (call'.commit <=> call.commit)
    BY <1>2, <1>8
  <2>5. UNCHANGED <<bases, db, dbDisk, dbPend, live, nBackfill, nWrite, nSalt>>
    BY <1>2
  <2> QED BY <2>1, <2>2, <2>3, <2>4, <2>5, <1>4, <1>16, TailStep
<1>37. \A i \in 1 .. MaxFrame : \A g \in Known(i)' :
         CommitOf(g, wal[0].salt, wal[0].nCkpt) => g \in Known(i) \/ (i = n /\ g = f /\ Top' = n)
  <2> TAKE i \in 1 .. MaxFrame
  <2> TAKE g \in Known(i)'
  <2> HAVE CommitOf(g, wal[0].salt, wal[0].nCkpt)
  <2>1. CASE g \in Known(i)
    BY <2>1
  <2>2. CASE i = n /\ g = f
    <3>1. f.commit /\ f.ck # <<>>
      BY <2>2 DEF CommitOf
    <3>2. Pending'
      BY <3>1, <1>10, <1>34
    <3> QED BY <3>2, <2>2, <1>35
  <2> QED BY <2>1, <2>2, <1>20
<1>38. Classified'
  <2> SUFFICES ASSUME wal[0].ok \/ wal[0].nCkpt > 0, NEW i \in 1 .. MaxFrame, NEW g \in Known(i)',
                      CommitOf(g, wal[0].salt, wal[0].nCkpt)
               PROVE  (i <= Top' /\ g.ck = wal'[i].ck) \/ Dead(g, i)'
    BY <1>26 DEF Classified
  <2>1. CASE i = n /\ g = f /\ Top' = n
    BY <2>1, <1>7, <1>13
  <2>2. CASE g \in Known(i)
    <3>1. CASE i <= Top /\ g.ck = wal[i].ck
      <4>1. i <= live.mx
        BY <3>1, <1>16
      <4>2. wal'[i] = wal[i]
        <5>1. i \in 0 .. MaxFrame /\ i # n
          BY <4>1, <1>3, <1>7
        <5> QED BY <5>1, <1>14
      <4>3. i <= Top'
        BY <4>1, <1>3, <1>7, <1>35
      <4> QED BY <4>2, <4>3, <3>1
    <3>2. CASE Dead(g, i)
      <4>1. \A j \in 1 .. i : j \in 1 .. MaxFrame
        BY <1>3
      <4>2. n \in 1 .. i => ~Own(f, n) \/ ~Covers(g, f, n)
        <5> SUFFICES ASSUME n \in 1 .. i, Own(f, n), Covers(g, f, n) PROVE FALSE
          OBVIOUS
        <5>1. wc.iReCksum = 0
          <6>1. Len(f.ck) = n + 1
            BY DEF Own
          <6>2. wc.iReCksum # 0 => Len(f.ck) = 0
            BY <1>10
          <6> QED BY <6>1, <6>2, <1>7
        <5>2. f.ck[first + 1] = Content(w[first])
          <6>1. \A k \in 1 .. n : w[n].ck[k + 1] = Content(w[k])
            BY <5>1, <1>28, <1>30, ChainCovers
          <6> QED BY <6>1, <1>28, <1>32
        <5>3. first + 1 = live.mx + 2 /\ first + 1 \in 1 .. n + 1 /\ i \in live.mx + 1 .. MaxFrame
          BY <1>3, <1>7, <1>32
        <5>4. g.ck[first + 1] = f.ck[first + 1]
          BY <5>3 DEF Covers
        <5> QED BY <2>2, <5>2, <5>3, <5>4, <1>33
      <4>3. \A j \in 1 .. i : \A e \in Known(j)' : e \in Known(j) \/ ~Own(e, j) \/ ~Covers(g, e, j)
        BY <4>1, <4>2, <1>20
      <4> QED BY <3>2, <4>3, StillDead
    <3> QED BY <2>2, <3>1, <3>2, <1>0 DEF Classified
  <2> QED BY <2>1, <2>2, <1>37
<1>39. Types'
  <2>1. call' \in Call
    <3>1. call \in Call
      BY <1>0 DEF Types
    <3> QED BY <3>1, <1>2, <1>7, <1>8, <1>18 DEF Call
  <2>2. h' \in IndexHdr
    <3>1. h'.ck \in Seq(CkEntry)
      BY <1>3, <1>11, <1>24
    <3>2. h' = [mx |-> h'.mx, salt |-> h'.salt, ck |-> h'.ck]
      BY <1>2, <1>11
    <3>3. h'.mx \in Slot /\ h'.salt \in Nat
      BY <1>3, <1>11 DEF Slot
    <3> QED BY <3>1, <3>2, <3>3 DEF IndexHdr
  <2> QED BY <2>1, <2>2, <1>0, <1>2, <1>9, <1>13 DEF Types
<1>40. Values' /\ SyncInv' /\ RestInv'
  BY <1>0, <1>2, <1>9 DEF Values, SyncInv, RestInv
<1>41. EndInv'
  <2>1. End' > live'.mx /\ h'.mx <= End' /\ End' <= MaxFrame /\ (wc.iReCksum # 0 => wc.iReCksum <= End')
    BY <1>2, <1>3, <1>5, <1>6, <1>7, <1>11, <1>16
  <2> QED BY <2>1, <1>0, <1>2, <1>4, <1>5, <1>11 DEF EndInv
<1>42. ChainInv'
  <2>1. h'.salt = wal'[0].salt
    BY <1>11, <1>22, <1>26
  <2>2. wc'.iReCksum = 0 => n \in ValidFrames(wal)' /\ h'.ck = ChecksumAfter(wal, n)'
    <3>1. n # 0 => ChecksumAfter(w, n) = f.ck
      BY <1>28 DEF ChecksumAfter
    <3> QED BY <3>1, <1>2, <1>7, <1>11, <1>27, <1>30
  <2>3. wc'.iReCksum > 1 => wc'.iReCksum - 1 \in ValidFrames(wal)'
    <3> SUFFICES ASSUME wc.iReCksum > 1 PROVE wc.iReCksum - 1 \in ValidFrames(w)
      BY <1>2, <1>27
    <3>1. wc.iReCksum - 1 \in ValidFrames(wal)
      BY <1>0, <1>4 DEF ChainInv
    <3>2. wc.iReCksum - 1 \in 1 .. End
      BY <1>3, <1>5
    <3> QED BY <3>1, <3>2, <1>29
  <2>4. \A i \in live.mx + 1 .. n : w[i].pg # 0 /\ (w[i].commit <=> Committed' /\ i = n)
    <3> TAKE i \in live.mx + 1 .. n
    <3>1. CASE i = n
      BY <3>1, <1>10, <1>19, <1>21, <1>28
    <3>2. CASE i # n
      <4>1. i \in live.mx + 1 .. End /\ i \in 0 .. End
        BY <3>2, <1>3, <1>6
      <4> QED BY <4>1, <3>2, <1>0, <1>4, <1>28 DEF ChainInv
    <3> QED BY <3>1, <3>2
  <2>5. wc'.iReCksum # 0 => wal'[n].ck = <<>>
    BY <1>2, <1>10, <1>13
  <2> QED BY <2>1, <2>2, <2>3, <2>4, <2>5, <1>2, <1>16, <1>27 DEF ChainInv
<1>43. PagerInv'
  <2>1. PICK lo \in Nat \ {0} : lo = nBackfill + 1
    BY <1>3
  <2>2. lo <= n
    BY <2>1, <1>3, <1>5, <1>6
  <2>3. PICK u, d : u = wal /\ d = db
    OBVIOUS
  <2>4. \A i \in lo .. End : w[i].pg = u[i].pg /\ w[i].val = u[i].val
    <3>1. \A i \in lo .. End : i \in 0 .. End
      BY <1>3, <1>6
    <3> QED BY <3>1, <2>3, <1>28
  <2>5. w[n].pg \in Page
    BY <1>10, <1>17, <1>28
  <2>7. PICK e \in Slot : e = End
    BY <1>3
  <2>6. \A q \in Page : Overlay(w, d, lo, n)[q] = IF q = w[n].pg THEN w[n].val ELSE Overlay(u, d, lo, e)[q]
    <3>1. n = e + 1
      BY <2>7, <1>6
    <3>2. \A i \in lo .. e : w[i].pg = u[i].pg /\ w[i].val = u[i].val
      BY <2>4, <2>7
    <3>3. n \in 1 .. MaxFrame
      BY <1>7
    <3>4. OneMore(w, u, lo, e, n)
      BY <2>1, <2>2, <2>5, <2>7, <3>1, <3>2, <3>3 DEF OneMore
    <3> QED BY <3>4, OverlayNext
  <2>8. \A q \in Page \ pager'.dirty : Overlay(w, d, lo, n)[q] = pager.img[q]
    <3> TAKE q \in Page \ pager'.dirty
    <3>1. CASE q = p
      BY <3>1, <2>6, <1>10, <1>28
    <3>2. CASE q # p
      <4>1. q \in Page \ pager.dirty
        BY <3>2, <1>9
      <4>2. Overlay(u, d, lo, e)[q] = pager.img[q]
        BY <4>1, <2>1, <2>3, <2>7, <1>0, <1>4 DEF PagerInv
      <4> QED BY <4>2, <3>2, <2>6, <1>10, <1>28
    <3> QED BY <3>1, <3>2
  <2>9. \A q \in Page \ pager'.dirty : Overlay(wal, db, nBackfill + 1, End)'[q] = pager'.img[q]
    BY <2>1, <2>3, <2>8, <1>2, <1>9, <1>16, <1>27
  <2>10. pager.dirty # {} => pager.modified
    BY <1>0, <1>4 DEF PagerInv
  <2>11. \A q \in pager.dirty : \A r \in Page \ {q} : pager.img[r] # pager.img[q]
    BY <1>0, <1>4 DEF PagerInv
  <2>12. call.commit => hist[Len(hist)] = pager.img
    BY <1>0, <1>4 DEF PagerInv
  <2> QED BY <2>9, <2>10, <2>11, <2>12, <1>2, <1>8, <1>9 DEF PagerInv
<1>44. FreshInv'
  <2> SUFFICES ASSUME NEW q \in pager'.dirty, NEW i \in 1 .. MaxFrame, NEW g \in Known(i)'
               PROVE  g.val # pager.img[q] /\ \A j \in 2 .. Len(g.ck) : g.ck[j][2] # pager.img[q]
    BY <1>9 DEF FreshInv
  <2>1. q \in pager.dirty /\ q # p /\ q \in Page
    BY <1>0, <1>9 DEF Types
  <2>2. \A k \in 1 .. MaxFrame : \A e \in Known(k) :
          e.val # pager.img[q] /\ \A j \in 2 .. Len(e.ck) : e.ck[j][2] # pager.img[q]
    BY <2>1, <1>0, <1>4 DEF FreshInv
  <2>3. f.val # pager.img[q]
    BY <2>1, <1>0, <1>4, <1>10, <1>17 DEF PagerInv
  <2>4. \A j \in 2 .. Len(f.ck) : f.ck[j][2] # pager.img[q]
    <3>1. CASE wc.iReCksum = 0
      <4> TAKE j \in 2 .. Len(f.ck)
      <4>1. CASE j = n + 1
        BY <4>1, <3>1, <2>3, <1>24 DEF Content
      <4>2. CASE j # n + 1
        <5>1. j \in 1 .. n /\ j <= End + 1 /\ End # 0
          BY <4>2, <3>1, <1>3, <1>6, <1>24
        <5>2. End \in 1 .. MaxFrame /\ h.ck = wal[End].ck
          BY <5>1, <3>1, <1>23
        <5>3. j \in 2 .. Len(wal[End].ck)
          BY <5>1, <5>2, <3>1, <1>6, <1>23
        <5>4. wal[End].ck[j][2] # pager.img[q]
          BY <5>2, <5>3, <2>2, <1>15
        <5> QED BY <5>1, <5>2, <5>4, <3>1, <1>24
      <4> QED BY <4>1, <4>2
    <3>2. CASE wc.iReCksum # 0
      <4>1. Len(f.ck) = 0
        BY <3>2, <1>10
      <4> QED BY <4>1
    <3> QED BY <3>1, <3>2
  <2> QED BY <2>2, <2>3, <2>4, <1>20
<1>45. ListInv'
  <2>1. call'.iFrame + Len(call'.list) <= MaxFrame
    <3>1. call.iFrame + Len(call.list) <= MaxFrame
      BY <1>0, <1>2 DEF ListInv
    <3> QED BY <3>1, <1>1, <1>3, <1>8, <1>18
  <2>2. \A q \in Page \ {p} : FindFrame(wal, q, h.mx + 1, End) = 0 => FindFrame(wal, q, h.mx + 1, End)' = 0
    <3> TAKE q \in Page \ {p}
    <3> HAVE FindFrame(wal, q, h.mx + 1, End) = 0
    <3>1. h.mx + 1 \in Nat \ {0}
      BY <1>3
    <3>2. \A j \in h.mx + 1 .. End : wal[j].pg # q
      BY <3>1, <1>3, FindFacts
    <3>3. \A j \in h.mx + 1 .. n : w[j].pg # q
      <4> TAKE j \in h.mx + 1 .. n
      <4>1. CASE j = n
        BY <4>1, <1>10, <1>28
      <4>2. CASE j # n
        <5>1. j \in h.mx + 1 .. End /\ j \in 0 .. End
          BY <4>2, <1>3, <1>6
        <5> QED BY <5>1, <3>2, <1>28
      <4> QED BY <4>1, <4>2
    <3>4. 0 \in Slot
      BY <1>3 DEF Slot
    <3>5. PICK lo \in Nat \ {0} : lo = h.mx + 1
      BY <3>1
    <3>6. FindFrame(w, q, lo, n) = 0
      BY <3>3, <3>4, <3>5, <1>7, FindIs
    <3> QED BY <3>5, <3>6, <1>11, <1>16, <1>27
  <2>3. End' >= End
    BY <1>3, <1>6, <1>16
  <2> QED BY <2>1, <2>2, <2>3, <1>7, <1>12, FrameListed
<1>46. StaleInv'
  <2> SUFFICES ASSUME NEW i \in live.mx + 1 .. MaxFrame, NEW g \in Known(i)',
                      CommitOf(g, wal[0].salt, wal[0].nCkpt), ~(i <= Top' /\ g.ck = wal'[i].ck)
               PROVE  g.ck[live.mx + 2] # Content(wal'[live.mx + 1])
    BY <1>2, <1>26 DEF StaleInv
  <2>1. i \in 1 .. MaxFrame
    BY <1>3
  <2>2. g \in Known(i)
    BY <2>1, <1>7, <1>13, <1>37
  <2> QED BY <2>2, <1>27, <1>33
<1> QED BY <1>36, <1>38, <1>39, <1>40, <1>41, <1>42, <1>43, <1>44, <1>45, <1>46 DEF IInv

LEMMA WriteFrameStep == IInv /\ WriteFrame => IInv'
<1> SUFFICES ASSUME IInv, WriteFrame PROVE IInv'
  OBVIOUS
<1>1. PICK p, s : p = Head(call.list) /\ s = OverwriteOf(p)
  OBVIOUS
<1>2. CASE s = 0
  BY <1>1, <1>2, AppendStep
<1>3. CASE s # 0
  BY <1>1, <1>3, OverwriteStep
<1> QED BY <1>2, <1>3

-----------------------------------------------------------------------------
(* walRewriteChecksums                                                      *)

\* Each frame gets the checksum of the frame before it, and its own content.
LEMMA RechecksumFacts ==
  ASSUME NEW x, NEW r \in 1 .. MaxFrame, NEW e \in r .. MaxFrame, NEW salt,
         NEW c \in Seq(CkEntry), c = ChecksumAfter(x, r - 1), Len(c) = r,
         \A i \in 1 .. MaxFrame : \E fr \in Frame : x[i] = fr,
         \A i \in r .. e : Content(x[i]) \in CkEntry,
         NEW w, w = Rechecksummed(x, r, e, salt)
  PROVE  /\ w = [i \in Slot |-> w[i]]
         /\ \A i \in Slot : i \notin r .. e => w[i] = x[i]
         /\ \A i \in r .. e :
              /\ w[i].pg = x[i].pg /\ w[i].val = x[i].val /\ (w[i].commit <=> x[i].commit)
              /\ Content(w[i]) = Content(x[i])
              /\ w[i].salt = salt /\ w[i].ck \in Seq(CkEntry) /\ Len(w[i].ck) = i + 1
              /\ w[i].ck = Append(ChecksumAfter(w, i - 1), Content(w[i]))
              /\ \A k \in 1 .. i + 1 : w[i].ck[k] = IF k <= r THEN c[k] ELSE Content(x[k - 1])
              /\ w[i] = [pg |-> x[i].pg, val |-> x[i].val, commit |-> x[i].commit,
                         salt |-> salt, ck |-> w[i].ck]
<1> DEFINE D(i) == <<x[i].pg, x[i].val, x[i].commit>>
           T(i) == [j \in 1 .. (i - r + 1) |-> D(r + j - 1)]
           S(i) == c \o T(i)
<1>0. MaxFrame \in Nat /\ r \in Nat /\ e \in Nat /\ r >= 1 /\ r <= e /\ e <= MaxFrame
  BY Bounds
<1>1. w = [i \in Slot |-> IF i \in r .. e THEN [x[i] EXCEPT !.salt = salt, !.ck = S(i)] ELSE x[i]]
  BY DEF Rechecksummed
<1>2. \A i : D(i) = Content(x[i])
  BY DEF Content
<1>3. ASSUME NEW i \in r .. e
      PROVE  /\ S(i) \in Seq(CkEntry) /\ Len(S(i)) = i + 1
             /\ \A k \in 1 .. i + 1 : S(i)[k] = IF k <= r THEN c[k] ELSE Content(x[k - 1])
  <2>1. \A j \in 1 .. (i - r + 1) : r + j - 1 \in r .. e
    BY <1>0
  <2>2. PICK m \in Nat : m = i - r + 1
    BY <1>0
  <2>3. PICK t \in Seq(CkEntry) : t = T(i) /\ Len(t) = m /\ \A j \in 1 .. m : t[j] = D(r + j - 1)
    <3>1. \A j \in 1 .. m : D(r + j - 1) \in CkEntry
      BY <2>1, <2>2, <1>2
    <3>2. PICK t : t = [j \in 1 .. m |-> D(r + j - 1)]
      OBVIOUS
    <3>3. t \in [1 .. m -> CkEntry]
      BY <3>1, <3>2
    <3>4. t \in Seq(CkEntry) /\ DOMAIN t = 1 .. m
      BY <3>3, <2>2, SeqDef
    <3>5. Len(t) = m
      BY <3>4, <2>2, LenProperties
    <3>6. t = T(i)
      BY <3>2, <2>2
    <3> QED BY <3>2, <3>4, <3>5, <3>6
  <2>4. S(i) = c \o t
    BY <2>3
  <2>5. /\ c \o t \in Seq(CkEntry) /\ Len(c \o t) = r + m
        /\ \A k \in 1 .. r + m : (c \o t)[k] = IF k <= r THEN c[k] ELSE t[k - r]
    <3>1. /\ c \o t \in Seq(CkEntry) /\ Len(c \o t) = Len(c) + Len(t)
          /\ \A k \in 1 .. Len(c) + Len(t) : (c \o t)[k] = IF k <= Len(c) THEN c[k] ELSE t[k - Len(c)]
      <4> HIDE DEF D, T
      <4>1. PICK z : z = CkEntry
        OBVIOUS
      <4>2. c \in Seq(z) /\ t \in Seq(z)
        BY <4>1
      <4> QED BY <4>1, <4>2, ConcatProperties, Zenon
    <3> QED BY <3>1, <2>3
  <2>6. r + m = i + 1
    BY <2>2, <1>0
  <2>7. \A k \in 1 .. i + 1 : ~(k <= r) => k - r \in 1 .. m /\ r + (k - r) - 1 = k - 1
    BY <2>2, <1>0
  <2>8. \A k \in 1 .. i + 1 : ~(k <= r) => t[k - r] = Content(x[k - 1])
    BY <2>3, <2>7, <1>2
  <2> QED BY <2>4, <2>5, <2>6, <2>8
<1> HIDE DEF S
<1>4. w = [i \in Slot |-> w[i]]
  BY <1>1
<1>5. \A i \in Slot : i \notin r .. e => w[i] = x[i]
  BY <1>1
<1>6. ASSUME NEW i \in r .. e
      PROVE  w[i] = [pg |-> x[i].pg, val |-> x[i].val, commit |-> x[i].commit, salt |-> salt, ck |-> S(i)]
  <2>1. i \in Slot /\ i \in 1 .. MaxFrame
    BY <1>0 DEF Slot
  <2>2. w[i] = [x[i] EXCEPT !.salt = salt, !.ck = S(i)]
    BY <1>1, <2>1
  <2>3. PICK fr \in Frame : x[i] = fr
    BY <2>1
  <2> QED BY <2>2, <2>3 DEF Frame
<1>7. ASSUME NEW i \in r .. e
      PROVE  /\ w[i].pg = x[i].pg /\ w[i].val = x[i].val /\ (w[i].commit <=> x[i].commit)
             /\ Content(w[i]) = Content(x[i]) /\ w[i].salt = salt /\ w[i].ck = S(i)
  <2>1. PICK g, s : g = w[i] /\ s = S(i)
    OBVIOUS
  <2>2. g = [pg |-> x[i].pg, val |-> x[i].val, commit |-> x[i].commit, salt |-> salt, ck |-> s]
    BY <2>1, <1>6
  <2>3. g.pg = x[i].pg /\ g.val = x[i].val /\ g.commit = x[i].commit /\ g.salt = salt /\ g.ck = s
    BY <2>2
  <2> QED BY <2>1, <2>3 DEF Content
<1>8. ASSUME NEW i \in r .. e
      PROVE  S(i) = Append(ChecksumAfter(w, i - 1), Content(w[i]))
  <2>1. PICK a : a = ChecksumAfter(w, i - 1)
    OBVIOUS
  <2>2. /\ a \in Seq(CkEntry) /\ Len(a) = i
        /\ \A k \in 1 .. i : a[k] = IF k <= r THEN c[k] ELSE Content(x[k - 1])
    <3>1. CASE i = r
      <4>1. a = c
        <5>1. r - 1 \in Slot /\ r - 1 \notin r .. e /\ 0 \in Slot /\ 0 \notin r .. e
          BY <1>0 DEF Slot
        <5>2. w[r - 1] = x[r - 1] /\ w[0] = x[0]
          BY <5>1, <1>5
        <5> QED BY <2>1, <3>1, <5>2 DEF ChecksumAfter
      <4> QED BY <4>1, <3>1, <1>0
    <3>2. CASE i # r
      <4>1. i - 1 \in r .. e /\ i - 1 # 0 /\ (i - 1) + 1 = i
        BY <3>2, <1>0
      <4>2. PICK l \in r .. e : l = i - 1
        BY <4>1
      <4>3. a = S(l)
        BY <2>1, <4>1, <4>2, <1>7 DEF ChecksumAfter
      <4>4. l + 1 = i
        BY <4>1, <4>2
      <4> QED BY <4>2, <4>3, <4>4, <1>3
    <3> QED BY <3>1, <3>2
  <2>3. PICK d : d = Content(w[i])
    OBVIOUS
  <2>4. d = Content(x[i]) /\ d \in CkEntry
    BY <2>3, <1>7
  <2>5. /\ Append(a, d) \in Seq(CkEntry) /\ Len(Append(a, d)) = i + 1
        /\ \A k \in 1 .. i : Append(a, d)[k] = a[k]
        /\ Append(a, d)[i + 1] = d
    <3>1. /\ Append(a, d) \in Seq(CkEntry) /\ Len(Append(a, d)) = Len(a) + 1
          /\ \A k \in 1 .. Len(a) : Append(a, d)[k] = a[k]
          /\ Append(a, d)[Len(a) + 1] = d
      <4>1. PICK CS : CS = CkEntry
        OBVIOUS
      <4>2. a \in Seq(CS) /\ d \in CS
        BY <2>2, <2>4, <4>1
      <4>3. /\ Append(a, d) \in Seq(CS) /\ Len(Append(a, d)) = Len(a) + 1
            /\ \A k \in 1 .. Len(a) : Append(a, d)[k] = a[k]
            /\ Append(a, d)[Len(a) + 1] = d
        BY <4>2, AppendProperties
      <4> QED BY <4>1, <4>3
    <3> QED BY <3>1, <2>2
  <2>6. S(i) \in Seq(CkEntry) /\ Len(S(i)) = i + 1
    BY <1>3
  <2>7. \A k \in 1 .. i + 1 : S(i)[k] = Append(a, d)[k]
    <3> TAKE k \in 1 .. i + 1
    <3>1. S(i)[k] = IF k <= r THEN c[k] ELSE Content(x[k - 1])
      BY <1>3
    <3>2. CASE k = i + 1
      <4>1. ~(k <= r) /\ k - 1 = i
        BY <3>2, <1>0
      <4> QED BY <3>1, <3>2, <4>1, <2>4, <2>5
    <3>3. CASE k # i + 1
      <4>1. k \in 1 .. i
        BY <3>3, <1>0
      <4> QED BY <3>1, <4>1, <2>2, <2>5
    <3> QED BY <3>2, <3>3
  <2>8. PICK u, v : u = S(i) /\ v = Append(a, d)
    OBVIOUS
  <2>9. u \in Seq(CkEntry) /\ v \in Seq(CkEntry) /\ Len(u) = Len(v) /\ \A k \in 1 .. Len(u) : u[k] = v[k]
    BY <2>5, <2>6, <2>7, <2>8
  <2>10. u = v
    BY <2>9
  <2> QED BY <2>1, <2>3, <2>8, <2>10
<1>9. \A i \in r .. e :
        /\ w[i].salt = salt /\ w[i].ck \in Seq(CkEntry) /\ Len(w[i].ck) = i + 1
        /\ \A k \in 1 .. i + 1 : w[i].ck[k] = IF k <= r THEN c[k] ELSE Content(x[k - 1])
  <2> TAKE i \in r .. e
  <2>1. PICK s, g : s = S(i) /\ g = w[i]
    OBVIOUS
  <2>2. g.salt = salt /\ g.ck = s
    BY <2>1, <1>7
  <2>3. /\ s \in Seq(CkEntry) /\ Len(s) = i + 1
        /\ \A k \in 1 .. i + 1 : s[k] = IF k <= r THEN c[k] ELSE Content(x[k - 1])
    BY <2>1, <1>3
  <2> QED BY <2>1, <2>2, <2>3
<1>10. \A i \in r .. e : w[i].ck = Append(ChecksumAfter(w, i - 1), Content(w[i]))
  BY <1>7, <1>8
<1>11. \A i \in r .. e :
         w[i] = [pg |-> x[i].pg, val |-> x[i].val, commit |-> x[i].commit, salt |-> salt, ck |-> w[i].ck]
  BY <1>6, <1>7
<1> QED BY <1>4, <1>5, <1>7, <1>9, <1>10, <1>11

LEMMA RewriteChecksumsStep == IInv /\ RewriteChecksums => IInv'
<1> SUFFICES ASSUME IInv, RewriteChecksums PROVE IInv'
  OBVIOUS
<1>0. /\ Types /\ LogOK /\ Values /\ Classified /\ LogInv /\ LiveInv
      /\ EndInv /\ ChainInv /\ PagerInv /\ ListInv /\ StaleInv
  BY DEF IInv
<1>1. PICK r, e, w : r = wc.iReCksum /\ e = call.iFrame /\ w = Rechecksummed(wal, r, e, h.salt)
  OBVIOUS
<1>2. /\ pc = "recksum" /\ wal' = w
      /\ pend' = [i \in Slot |-> IF w[i] = wal[i] THEN pend[i] ELSE pend[i] \cup {w[i]}]
      /\ h' = [h EXCEPT !.ck = ChecksumAfter(w, IF e < r THEN r - 1 ELSE e)]
      /\ wc' = [wc EXCEPT !.iReCksum = 0]
      /\ pc' = IF sc.fullSync THEN "sync" ELSE "publish"
      /\ UNCHANGED <<bases, db, dbDisk, dbPend, live, nBackfill, pager, call>>
      /\ UNCHANGED <<hist, acked, synced, floor, nWrite, nSalt, nCrash, sc>>
  BY <1>1 DEF RewriteChecksums, ghosts, counters
<1>3. /\ live.mx \in Nat /\ h.mx \in Nat /\ nBackfill \in Nat /\ MaxFrame \in Nat /\ h.mx <= MaxFrame
      /\ live.mx <= MaxFrame /\ nBackfill <= MaxFrame /\ End \in Nat /\ End \in Slot /\ call.iFrame \in Nat
      /\ nWrite \in Nat /\ nSalt \in Nat /\ wc.iReCksum \in Nat /\ wc.iReCksum <= MaxFrame
      /\ h.salt \in Nat /\ h.ck \in Seq(CkEntry)
  BY <1>0, Numbers, Shapes
<1>4. /\ Writing /\ InTrans /\ InLog /\ End = e /\ pc # "down" /\ Spilled
      /\ Writing' /\ InTrans' /\ InLog' /\ End' = e /\ Spilled'
  BY <1>1, <1>2 DEF Writing, InTrans, Spilled, End, InLog
<1>5. /\ ~wc.readLock0 /\ live.mx <= h.mx /\ h.mx <= End /\ End <= MaxFrame
      /\ nBackfill <= live.mx /\ Committed /\ r # 0 /\ live.mx < r /\ r <= e
  BY <1>0, <1>1, <1>2, <1>4 DEF EndInv, LiveInv
<1>6. ~Pending /\ Top = live.mx /\ call.commit /\ call.list = <<>>
  BY <1>0, <1>1, <1>4, <1>5 DEF Pending, Committed, LiveInv
<1>7. /\ wc' \in WalObject /\ wc'.iReCksum = 0 /\ wc'.nCkpt = wc.nCkpt /\ (wc'.readLock0 <=> wc.readLock0)
      /\ wc'.minFrame = wc.minFrame
  <2>1. wc \in WalObject /\ 0 \in Slot
    BY <1>0, <1>3 DEF Types, Slot
  <2> QED BY <2>1, <1>2 DEF WalObject
<1>8. Committed' /\ Pending' /\ pager.dirty = {}
  BY <1>0, <1>2, <1>4, <1>5, <1>6, <1>7 DEF Pending, Committed, ListInv
<1>9. /\ e \in Nat /\ r \in Nat /\ r \in 1 .. MaxFrame /\ e \in r .. MaxFrame /\ e \in 1 .. MaxFrame /\ e \in Slot
      /\ live.mx < e
  BY <1>1, <1>3, <1>4, <1>5
<1>10. /\ Chained(wal) /\ wal[0].ok /\ wal[0].salt \in Nat /\ wal[0].salt <= nSalt /\ h.salt = wal[0].salt
       /\ \A i \in 1 .. MaxFrame : wal[i] \in Known(i) /\ FrameOK(i, wal[i])
  <2>1. wal[0] \in Known(0) /\ \A i \in 1 .. MaxFrame : wal[i] \in Known(i)
    BY DEF Known
  <2>2. wal[0].salt <= nSalt
    BY <2>1, <1>0 DEF LogOK, HeaderOK
  <2>3. wal[0].ok /\ h.salt = wal[0].salt
    BY <1>0, <1>4 DEF LogInv, ChainInv
  <2>4. \A i \in 1 .. MaxFrame : FrameOK(i, wal[i])
    BY <2>1, <1>0 DEF LogOK
  <2> QED BY <2>1, <2>2, <2>3, <2>4, <1>0, <1>3, LogChained
<1>11. \A i \in live.mx + 1 .. e : i \in 1 .. MaxFrame /\ wal[i].pg # 0 /\ (wal[i].commit <=> i = e)
  BY <1>0, <1>3, <1>4, <1>5, <1>9 DEF ChainInv
<1>12. r > 1 => r - 1 \in ValidFrames(wal) /\ r - 1 \in 1 .. MaxFrame
  <2>1. r > 1 => r - 1 \in ValidFrames(wal)
    BY <1>0, <1>1, <1>4 DEF ChainInv
  <2>2. r - 1 <= MaxFrame /\ (r > 1 => r - 1 \in 1 .. MaxFrame)
    BY <1>3, <1>9
  <2> QED BY <2>1, <2>2
<1>13. PICK c : c = ChecksumAfter(wal, r - 1)
  OBVIOUS
<1>14. /\ c \in Seq(CkEntry) /\ Len(c) = r
       /\ \A k \in 2 .. r : c[k][2] <= nWrite
  <2>1. CASE r = 1
    <3>1. c = HdrCk(wal[0].salt, wal[0].nCkpt)
      BY <2>1, <1>13 DEF ChecksumAfter
    <3>2. 1 \in 1 .. MaxFrame
      BY Bounds
    <3>3. c \in Seq(CkEntry) /\ Len(c) = 1
      BY <3>1, <3>2, <1>10, Entries
    <3> QED BY <3>3, <2>1
  <2>2. CASE r # 1
    <3>1. r - 1 \in ValidFrames(wal) /\ r - 1 \in 1 .. MaxFrame /\ r - 1 # 0
      BY <2>2, <1>9, <1>12
    <3>2. c = wal[r - 1].ck
      BY <3>1, <1>13 DEF ChecksumAfter
    <3>3. Len(wal[r - 1].ck) = (r - 1) + 1
      BY <3>1, <1>10, ChainStep
    <3>4. FrameOK(r - 1, wal[r - 1])
      BY <3>1, <1>10
    <3>5. wal[r - 1].ck \in Seq(CkEntry) /\ \A k \in 2 .. Len(wal[r - 1].ck) : wal[r - 1].ck[k][2] <= nWrite
      BY <3>4 DEF FrameOK, Frame
    <3> QED BY <3>2, <3>3, <3>5, <1>9
  <2> QED BY <2>1, <2>2
<1>15. \A i \in r .. e : i \in live.mx + 1 .. e /\ i \in 1 .. MaxFrame /\ i \in Slot /\ i # 0
  BY <1>3, <1>5, <1>9 DEF Slot
<1>16. \A i \in 1 .. MaxFrame : \E fr \in Frame : wal[i] = fr
  BY <1>10 DEF FrameOK
<1>17. \A i \in r .. e : Content(wal[i]) \in CkEntry
  <2>1. \A i \in r .. e : Chained(wal) /\ i \in 1 .. MaxFrame
    BY <1>10, <1>15
  <2> QED BY <2>1, Entries
<1>18. /\ w = [i \in Slot |-> w[i]]
       /\ \A i \in Slot : i \notin r .. e => w[i] = wal[i]
       /\ \A i \in r .. e :
            /\ w[i].pg = wal[i].pg /\ w[i].val = wal[i].val /\ (w[i].commit <=> wal[i].commit)
            /\ Content(w[i]) = Content(wal[i])
            /\ w[i].salt = h.salt /\ w[i].ck \in Seq(CkEntry) /\ Len(w[i].ck) = i + 1
            /\ w[i].ck = Append(ChecksumAfter(w, i - 1), Content(w[i]))
            /\ \A k \in 1 .. i + 1 : w[i].ck[k] = IF k <= r THEN c[k] ELSE Content(wal[k - 1])
            /\ w[i] = [pg |-> wal[i].pg, val |-> wal[i].val, commit |-> wal[i].commit,
                       salt |-> h.salt, ck |-> w[i].ck]
  <2>1. PICK x, s : x = wal /\ s = h.salt
    OBVIOUS
  <2>2. c = ChecksumAfter(x, r - 1) /\ w = Rechecksummed(x, r, e, s)
    BY <2>1, <1>1, <1>13
  <2>3. \A i \in 1 .. MaxFrame : \E fr \in Frame : x[i] = fr
    BY <2>1, <1>16
  <2>4. \A i \in r .. e : Content(x[i]) \in CkEntry
    BY <2>1, <1>17
  <2>5. /\ w = [i \in Slot |-> w[i]]
        /\ \A i \in Slot : i \notin r .. e => w[i] = x[i]
    BY <2>2, <2>3, <2>4, <1>9, <1>14, RechecksumFacts
  <2>6. \A i \in r .. e :
            /\ w[i].pg = x[i].pg /\ w[i].val = x[i].val /\ (w[i].commit <=> x[i].commit)
            /\ Content(w[i]) = Content(x[i])
            /\ w[i].salt = s /\ w[i].ck \in Seq(CkEntry) /\ Len(w[i].ck) = i + 1
            /\ w[i].ck = Append(ChecksumAfter(w, i - 1), Content(w[i]))
            /\ \A k \in 1 .. i + 1 : w[i].ck[k] = IF k <= r THEN c[k] ELSE Content(x[k - 1])
            /\ w[i] = [pg |-> x[i].pg, val |-> x[i].val, commit |-> x[i].commit,
                       salt |-> s, ck |-> w[i].ck]
    BY <2>2, <2>3, <2>4, <1>9, <1>14, RechecksumFacts
  <2> QED BY <2>1, <2>5, <2>6
<1>19. ASSUME NEW i \in r .. e PROVE FrameOK(i, w[i])
  <2>1. PICK f, g : f = w[i] /\ g = wal[i]
    OBVIOUS
  <2>2. FrameOK(i, g) /\ g.pg # 0 /\ i \in Nat
    BY <2>1, <1>9, <1>10, <1>11, <1>15
  <2>3. /\ f.pg = g.pg /\ f.val = g.val /\ f.salt = h.salt /\ f.ck \in Seq(CkEntry) /\ Len(f.ck) = i + 1
        /\ f = [pg |-> g.pg, val |-> g.val, commit |-> g.commit, salt |-> h.salt, ck |-> f.ck]
        /\ \A k \in 1 .. i + 1 : f.ck[k] = IF k <= r THEN c[k] ELSE Content(wal[k - 1])
    BY <2>1, <1>18
  <2>4. g.pg \in 0 .. MaxPage /\ g.val \in Nat /\ g.commit \in BOOLEAN /\ g.val <= nWrite
    BY <2>2 DEF FrameOK, Frame
  <2>5. f \in Frame
    BY <2>3, <2>4, <1>3 DEF Frame
  <2>6. f.salt <= nSalt
    BY <2>3, <1>10
  <2>7. \A k \in 2 .. Len(f.ck) : f.ck[k][2] <= nWrite
    <3> TAKE k \in 2 .. Len(f.ck)
    <3>1. k \in 1 .. i + 1
      BY <2>3
    <3>2. CASE k <= r
      <4>1. k \in 2 .. r
        BY <3>2, <1>9
      <4> QED BY <3>1, <3>2, <4>1, <2>3, <1>14
    <3>3. CASE ~(k <= r)
      <4>1. k - 1 \in r .. e
        BY <3>1, <3>3, <2>2, <1>9
      <4>2. FrameOK(k - 1, wal[k - 1]) /\ wal[k - 1].pg # 0
        BY <4>1, <1>10, <1>11, <1>15
      <4>3. wal[k - 1].val <= nWrite
        BY <4>2 DEF FrameOK
      <4>4. f.ck[k] = Content(wal[k - 1])
        BY <3>1, <3>3, <2>3
      <4> QED BY <4>3, <4>4 DEF Content
    <3> QED BY <3>2, <3>3
  <2> QED BY <2>1, <2>2, <2>3, <2>4, <2>5, <2>6, <2>7 DEF FrameOK
<1>20. /\ \A i \in 0 .. MaxFrame : i \notin r .. e => wal'[i] = wal[i] /\ pend'[i] = pend[i] /\ Known(i)' = Known(i)
       /\ pend' = [i \in Slot |-> pend'[i]]
  <2>1. \A i \in 0 .. MaxFrame : i \in Slot
    BY DEF Slot
  <2>2. \A i \in 0 .. MaxFrame : i \notin r .. e => wal'[i] = wal[i] /\ pend'[i] = pend[i]
    BY <2>1, <1>2, <1>18
  <2>3. bases' = bases
    BY <1>2
  <2> QED BY <2>2, <2>3, <1>2 DEF Known
<1>21. \A i \in 1 .. MaxFrame : \A g \in Known(i)' : g \in Known(i) \/ (i \in r .. e /\ g = w[i])
  <2> TAKE i \in 1 .. MaxFrame
  <2> TAKE g \in Known(i)'
  <2>1. i \in Slot /\ i \in 0 .. MaxFrame
    BY <1>3 DEF Slot
  <2>2. CASE i \in r .. e
    <3>1. pend'[i] = IF w[i] = wal[i] THEN pend[i] ELSE pend[i] \cup {w[i]}
      BY <2>1, <1>2
    <3>2. wal'[i] = w[i] /\ bases' = bases
      BY <1>2
    <3> QED BY <2>2, <3>1, <3>2 DEF Known
  <2>3. CASE i \notin r .. e
    BY <2>1, <2>3, <1>20
  <2> QED BY <2>2, <2>3
<1>22. wal'[0] = wal[0] /\ pend'[0] = pend[0] /\ w[0] = wal[0]
  <2>1. 0 \in 0 .. MaxFrame /\ 0 \notin r .. e
    BY <1>3, <1>9
  <2> QED BY <2>1, <1>2, <1>20
<1>23. Chained(w)
  <2>1. \A i \in 1 .. MaxFrame : \A g \in Known(i)' : g \in Known(i) \/ FrameOK(i, g)
    BY <1>19, <1>21
  <2>2. Chained(wal')
    BY <2>1, <1>0, <1>2, <1>22, TailLog
  <2> QED BY <2>2, <1>2
<1>24. \A i \in 1 .. MaxFrame : Content(w[i]) = Content(wal[i]) /\ w[i].pg = wal[i].pg /\ w[i].val = wal[i].val
                               /\ (w[i].commit <=> wal[i].commit)
  <2>1. \A i \in 1 .. MaxFrame : i \in Slot
    BY <1>3 DEF Slot
  <2> QED BY <2>1, <1>18
<1>25. \A i \in r .. e : i \in ValidFrames(w)
  <2> TAKE i \in r .. e
  <2>1. \A j \in 1 .. i : FrameValid(w[j], w[0].salt, ChecksumAfter(w, j - 1))
    <3> TAKE j \in 1 .. i
    <3>1. CASE j < r
      <4>1. r - 1 \in ValidFrames(wal) /\ j \in 1 .. r - 1
        BY <3>1, <1>9, <1>12
      <4>2. FrameValid(wal[j], wal[0].salt, ChecksumAfter(wal, j - 1))
        BY <4>1, ValidFacts
      <4>3. j \in 0 .. MaxFrame /\ j \notin r .. e /\ j - 1 \in 0 .. MaxFrame /\ j - 1 \notin r .. e
        BY <3>1, <1>9, <1>3
      <4>4. w[j] = wal[j] /\ w[j - 1] = wal[j - 1]
        BY <4>3, <1>2, <1>20
      <4>5. ChecksumAfter(w, j - 1) = ChecksumAfter(wal, j - 1)
        BY <4>4, <1>22 DEF ChecksumAfter
      <4> QED BY <4>2, <4>4, <4>5, <1>22
    <3>2. CASE ~(j < r)
      <4>1. j \in r .. e
        BY <3>2, <1>9
      <4>2. w[j].pg # 0 /\ w[j].salt = w[0].salt
        <5>1. j \in live.mx + 1 .. e
          BY <4>1, <1>15
        <5>2. wal[j].pg # 0
          BY <5>1, <1>11
        <5>3. w[j].pg = wal[j].pg /\ w[j].salt = h.salt
          BY <4>1, <1>18
        <5> QED BY <5>2, <5>3, <1>10, <1>22
      <4>3. w[j].ck = FrameCk(ChecksumAfter(w, j - 1), w[j])
        BY <4>1, <1>18 DEF FrameCk, Content
      <4> QED BY <4>2, <4>3 DEF FrameValid
    <3> QED BY <3>1, <3>2
  <2>2. w[0].ok /\ i \in 1 .. MaxFrame
    BY <1>10, <1>15, <1>22
  <2> QED BY <2>1, <2>2 DEF ValidFrames
<1> DEFINE first == live.mx + 1
<1>26. first \in 1 .. e /\ first \in Nat /\ first \in 1 .. MaxFrame /\ first + 1 = live.mx + 2
  BY <1>3, <1>9
<1>27. \A i \in live.mx + 1 .. MaxFrame : \A g \in Known(i) :
         CommitOf(g, wal[0].salt, wal[0].nCkpt) => g.ck[live.mx + 2] # Content(w[first])
  <2> TAKE i \in live.mx + 1 .. MaxFrame
  <2> TAKE g \in Known(i)
  <2> HAVE CommitOf(g, wal[0].salt, wal[0].nCkpt)
  <2>1. ~(i <= Top) /\ End > live.mx
    <3>1. Top = live.mx /\ End = e
      BY <1>4, <1>6
    <3> QED BY <3>1, <1>3, <1>9
  <2>2. g.ck[live.mx + 2] # Content(wal[live.mx + 1])
    BY <2>1, <1>0, <1>4 DEF StaleInv
  <2> QED BY <2>2, <1>24, <1>26
<1>28. Top' = e
  <2>1. e \in ValidFrames(w) /\ w[e].commit
    <3>1. e \in r .. e /\ e \in live.mx + 1 .. e
      BY <1>3, <1>9
    <3> QED BY <3>1, <1>11, <1>18, <1>25
  <2>2. \A j \in ValidFrames(w) : j > e => ~w[j].commit
    <3> SUFFICES ASSUME NEW j \in ValidFrames(w), j > e, w[j].commit PROVE FALSE
      OBVIOUS
    <3>1. j \in 1 .. MaxFrame
      BY ValidFacts
    <3>2. j \in live.mx + 1 .. MaxFrame /\ j \in 0 .. MaxFrame /\ j \notin r .. e
      BY <3>1, <1>3, <1>9
    <3>3. w[j] = wal[j] /\ wal[j] \in Known(j)
      BY <3>1, <3>2, <1>2, <1>10, <1>20
    <3>4. CommitOf(w[j], wal[0].salt, wal[0].nCkpt)
      BY <1>22, <1>23, ValidCommit
    <3>5. w[j].ck[first + 1] = Content(w[first])
      <4>1. first \in 1 .. j
        BY <3>1, <1>9, <1>26
      <4>2. \A k \in 1 .. j : w[j].ck[k + 1] = Content(w[k])
        BY <1>23, ChainCovers
      <4> QED BY <4>1, <4>2
    <3> QED BY <3>2, <3>3, <3>4, <3>5, <1>26, <1>27
  <2>3. RecoveredMx(w) = e
    BY <2>1, <2>2, <1>9, RecIs
  <2> QED BY <2>3, <1>2 DEF Top
<1>29. LogOK' /\ LogInv' /\ DbInv' /\ LiveInv'
  <2>1. \A i \in 0 .. live.mx : wal'[i] = wal[i] /\ pend'[i] = pend[i]
    <3>1. \A i \in 0 .. live.mx : i \in 0 .. MaxFrame /\ i \notin r .. e
      BY <1>3, <1>5, <1>9
    <3> QED BY <3>1, <1>20
  <2>2. \A i \in 1 .. MaxFrame : \A g \in Known(i)' : g \in Known(i) \/ FrameOK(i, g)
    BY <1>19, <1>21
  <2>3. Top' = IF Pending' THEN End' ELSE live.mx
    BY <1>4, <1>8, <1>28
  <2>4. UNCHANGED <<hist, acked, synced, floor>> /\ wc'.nCkpt = wc.nCkpt /\ (call'.commit <=> call.commit)
    BY <1>2, <1>7
  <2>5. UNCHANGED <<bases, db, dbDisk, dbPend, live, nBackfill, nWrite, nSalt>>
    BY <1>2
  <2> QED BY <2>1, <2>2, <2>3, <2>4, <2>5, <1>4, TailStep
<1>30. \A i \in 1 .. MaxFrame : \A g \in Known(i)' :
         CommitOf(g, wal[0].salt, wal[0].nCkpt) => g \in Known(i) \/ (i <= Top' /\ g.ck = wal'[i].ck)
  <2> TAKE i \in 1 .. MaxFrame
  <2> TAKE g \in Known(i)'
  <2> HAVE CommitOf(g, wal[0].salt, wal[0].nCkpt)
  <2>1. CASE g \in Known(i)
    BY <2>1
  <2>2. CASE i \in r .. e /\ g = w[i]
    BY <2>2, <1>2, <1>9, <1>28
  <2> QED BY <2>1, <2>2, <1>21
<1>31. Classified'
  <2> SUFFICES ASSUME wal[0].ok \/ wal[0].nCkpt > 0, NEW i \in 1 .. MaxFrame, NEW g \in Known(i)',
                      CommitOf(g, wal[0].salt, wal[0].nCkpt)
               PROVE  (i <= Top' /\ g.ck = wal'[i].ck) \/ Dead(g, i)'
    BY <1>22 DEF Classified
  <2>1. CASE i <= Top' /\ g.ck = wal'[i].ck
    BY <2>1
  <2>2. CASE g \in Known(i)
    <3>1. CASE i <= Top /\ g.ck = wal[i].ck
      <4>1. i <= live.mx
        BY <3>1, <1>6
      <4>2. wal'[i] = wal[i]
        <5>1. i \in 0 .. MaxFrame /\ i \notin r .. e
          BY <4>1, <1>3, <1>5, <1>9
        <5> QED BY <5>1, <1>20
      <4>3. i <= Top'
        BY <4>1, <1>3, <1>9, <1>28
      <4> QED BY <4>2, <4>3, <3>1
    <3>2. CASE Dead(g, i)
      <4>1. \A j \in 1 .. i : j \in 1 .. MaxFrame
        BY <1>3
      <4>2. \A j \in r .. e : j \in 1 .. i => ~Covers(g, w[j], j)
        <5> SUFFICES ASSUME NEW j \in r .. e, j \in 1 .. i, Covers(g, w[j], j) PROVE FALSE
          OBVIOUS
        <5>1. first \in 1 .. j /\ first + 1 \in 1 .. j + 1 /\ i \in live.mx + 1 .. MaxFrame
          <6>1. j \in Nat /\ j >= r /\ j <= i /\ i <= MaxFrame /\ i \in Nat
            BY <1>3, <1>9
          <6>2. PICK m \in Nat : m = live.mx /\ m < r /\ first = m + 1
            BY <1>3, <1>5
          <6>3. r \in Nat /\ MaxFrame \in Nat
            BY <1>3, <1>9
          <6>4. m + 1 \in 1 .. j /\ (m + 1) + 1 \in 1 .. j + 1 /\ i \in m + 1 .. MaxFrame
            BY <6>1, <6>2, <6>3
          <6> QED BY <6>2, <6>4
        <5>2. w[j].ck[first + 1] = Content(w[first])
          <6>1. j \in ValidFrames(w)
            BY <1>25
          <6>2. \A k \in 1 .. j : w[j].ck[k + 1] = Content(w[k])
            BY <6>1, <1>23, ChainCovers
          <6> QED BY <5>1, <6>2
        <5>3. w[j].ck[first + 1] = g.ck[first + 1]
          BY <5>1 DEF Covers
        <5> QED BY <2>2, <5>1, <5>2, <5>3, <1>26, <1>27
      <4>3. \A j \in 1 .. i : \A f \in Known(j)' : f \in Known(j) \/ ~Own(f, j) \/ ~Covers(g, f, j)
        BY <4>1, <4>2, <1>21
      <4> QED BY <3>2, <4>3, StillDead
    <3> QED BY <2>2, <3>1, <3>2, <1>0 DEF Classified
  <2> QED BY <2>1, <2>2, <1>30
<1>32. h' \in IndexHdr /\ h'.mx = h.mx /\ h'.salt = h.salt /\ h'.ck = ChecksumAfter(w, e)
  <2>1. h \in IndexHdr
    BY <1>0 DEF Types
  <2>2. ~(e < r) /\ e # 0 /\ e \in r .. e
    BY <1>9
  <2>3. PICK k : k = ChecksumAfter(w, e)
    OBVIOUS
  <2>4. k = w[e].ck /\ k \in Seq(CkEntry)
    BY <2>2, <2>3, <1>18 DEF ChecksumAfter
  <2>5. h' = [h EXCEPT !.ck = k]
    BY <2>2, <2>3, <1>2
  <2> QED BY <2>1, <2>3, <2>4, <2>5 DEF IndexHdr
<1>33. Types'
  <2>1. pc' \in PCs
    BY <1>2 DEF PCs
  <2>2. wal' = [i \in Slot |-> wal'[i]]
    BY <1>2, <1>18
  <2> QED BY <2>1, <2>2, <1>0, <1>2, <1>7, <1>20, <1>32 DEF Types
<1>34. Values' /\ SyncInv' /\ RestInv'
  BY <1>0, <1>2 DEF Values, SyncInv, RestInv
<1>35. EndInv'
  BY <1>0, <1>2, <1>3, <1>4, <1>5, <1>6, <1>7, <1>9, <1>32 DEF EndInv
<1>36. ChainInv'
  <2>1. e \in ValidFrames(w)
    <3>1. e \in r .. e
      BY <1>9
    <3> QED BY <3>1, <1>25
  <2>2. \A i \in live.mx + 1 .. e : w[i].pg # 0 /\ (w[i].commit <=> i = e)
    BY <1>11, <1>24
  <2> QED BY <2>1, <2>2, <1>2, <1>4, <1>7, <1>8, <1>10, <1>22, <1>32 DEF ChainInv
<1>37. PagerInv'
  <2>1. PICK lo \in Nat \ {0} : lo = nBackfill + 1
    BY <1>3
  <2>2. PICK x, d : x = wal /\ d = db
    OBVIOUS
  <2>3. \A i \in lo .. e : w[i].pg = x[i].pg /\ w[i].val = x[i].val
    <3>1. \A i \in lo .. e : i \in 1 .. MaxFrame
      BY <2>1, <1>3, <1>9
    <3> QED BY <3>1, <2>2, <1>24
  <2>4. \A p \in Page : FindFrame(w, p, lo, e) = FindFrame(x, p, lo, e)
    BY <2>1, <2>3, <1>9, FindSame
  <2>5. Overlay(w, d, lo, e) = Overlay(x, d, lo, e)
    <3>1. \A p \in Page : FindFrame(x, p, lo, e) # 0 => FindFrame(x, p, lo, e) \in lo .. e
      BY <2>1, <1>9, FindFacts
    <3> QED BY <2>3, <2>4, <3>1 DEF Overlay
  <2>6. Overlay(wal, db, nBackfill + 1, End)' = Overlay(wal, db, nBackfill + 1, End)
    BY <2>1, <2>2, <2>5, <1>2, <1>4
  <2>7. \A p \in Page \ pager.dirty : Overlay(wal, db, nBackfill + 1, End)[p] = pager.img[p]
    BY <1>0, <1>4 DEF PagerInv
  <2>8. call.commit => hist[Len(hist)] = pager.img
    BY <1>0, <1>4 DEF PagerInv
  <2> QED BY <2>6, <2>7, <2>8, <1>2, <1>8 DEF PagerInv
<1>38. FreshInv'
  BY <1>2, <1>8 DEF FreshInv
<1>39. ListInv'
  BY <1>2, <1>8 DEF ListInv
<1>40. StaleInv'
  <2> SUFFICES ASSUME NEW i \in live.mx + 1 .. MaxFrame, NEW g \in Known(i)',
                      CommitOf(g, wal[0].salt, wal[0].nCkpt), ~(i <= Top' /\ g.ck = wal'[i].ck)
               PROVE  g.ck[live.mx + 2] # Content(wal'[live.mx + 1])
    BY <1>2, <1>22 DEF StaleInv
  <2>1. i \in 1 .. MaxFrame
    BY <1>3
  <2>2. g \in Known(i)
    BY <2>1, <1>30
  <2> QED BY <2>2, <1>2, <1>27
<1> QED BY <1>29, <1>31, <1>33, <1>34, <1>35, <1>36, <1>37, <1>38, <1>39, <1>40 DEF IInv

-----------------------------------------------------------------------------
(* COMMIT returns                                                           *)

LEMMA PublishCommitStep == IInv /\ PublishCommit => IInv'
<1> SUFFICES ASSUME IInv, PublishCommit PROVE IInv'
  OBVIOUS
<1>0. /\ Types /\ LogOK /\ Values /\ Classified /\ LogInv /\ LiveInv /\ SyncInv
      /\ EndInv /\ ChainInv /\ PagerInv
  BY DEF IInv
<1>1. PICK e : e = call.iFrame
  OBVIOUS
<1>2. /\ pc = "publish" /\ call.commit
      /\ IF wc.truncateOnCommit /\ sc.sizeLimit THEN TruncateWal(e) ELSE UNCHANGED <<wal, bases, pend>>
      /\ h' = [h EXCEPT !.mx = e] /\ live' = h'
      /\ wc' = [wc EXCEPT !.truncateOnCommit = FALSE, !.iReCksum = 0, !.readLock0 = FALSE]
      /\ pager' = NoPager(pager.img)
      /\ acked' = Len(hist)
      /\ synced' = IF sc.fullSync THEN Len(hist) ELSE synced
      /\ call' = NoCall /\ pc' = "idle"
      /\ UNCHANGED <<db, dbDisk, dbPend, nBackfill, hist, floor, nWrite, nSalt, nCrash, sc>>
  BY <1>1 DEF PublishCommit, counters
<1>3. /\ live.mx \in Nat /\ nBackfill \in Nat /\ MaxFrame \in Nat
      /\ live.mx <= MaxFrame /\ End \in Nat /\ End \in Slot
      /\ nWrite \in Nat /\ nSalt \in Nat /\ acked \in Nat /\ Len(hist) \in Nat
      /\ h.salt \in Nat /\ h.ck \in Seq(CkEntry)
  BY <1>0, Numbers, Commits, Shapes
<1>4. /\ Writing /\ InTrans /\ InLog /\ End = e /\ pc # "down" /\ pc' # "down" /\ Spilled
      /\ call.list = <<>> /\ wc.iReCksum = 0 /\ nBackfill <= live.mx
  BY <1>0, <1>1, <1>2 DEF Writing, InTrans, Spilled, End, InLog, EndInv, LiveInv
<1>5. Committed /\ Pending
  BY <1>2, <1>4 DEF Committed, Pending
<1>6. /\ Len(hist) = acked + 1 /\ Top = e /\ e > live.mx
      /\ e \in ValidFrames(wal) /\ wal[e].commit
      /\ hist[Len(hist)] = Overlay(wal, db, nBackfill + 1, e)
      /\ hist[Len(hist)] = Img(e)
      /\ hist[Len(hist)] = pager.img
  BY <1>4, <1>5, PendingFacts
<1>7. e \in Nat /\ e \in Slot /\ e \in 1 .. MaxFrame /\ e \in 0 .. e /\ 0 \in 0 .. e /\ e # 0 /\ e <= MaxFrame
  <2>1. e \in 1 .. MaxFrame
    BY <1>6, ValidFacts
  <2> QED BY <2>1, <1>3, <1>4
<1>8. ~Writing' /\ ~Committed' /\ ~Pending' /\ ~InTrans' /\ ~call'.commit /\ NoCall \in Call
  BY <1>2, Bounds DEF Writing, Committed, Pending, InTrans, NoCall, Call, Afters, Slot
<1>9. h' \in IndexHdr /\ live' \in IndexHdr /\ h'.mx = e /\ live'.mx = e /\ live'.salt = h.salt /\ live'.ck = h.ck
  <2>1. h \in IndexHdr
    BY <1>0 DEF Types
  <2> QED BY <2>1, <1>2, <1>7 DEF IndexHdr
<1>10. wc' \in WalObject /\ wc'.iReCksum = 0 /\ wc'.nCkpt = wc.nCkpt
  <2>1. wc \in WalObject /\ 0 \in Slot
    BY <1>0, Bounds DEF Types, Slot
  <2> QED BY <2>1, <1>2 DEF WalObject
<1> DEFINE Cut == \A i \in e + 1 .. MaxFrame : wal'[i] = NoFrame
<1>11. /\ wal' = [i \in Slot |-> wal'[i]] /\ pend' = [i \in Slot |-> pend'[i]]
       /\ \A i \in 0 .. e : wal'[i] = wal[i] /\ pend'[i] = pend[i]
       /\ \A b \in bases' : \E a \in bases : \A i \in 0 .. e : b[i] = a[i]
       /\ bases \subseteq bases'
       /\ \A i \in 1 .. MaxFrame : \A g \in Known(i)' : g \in Known(i) \/ g = NoFrame
       /\ UNCHANGED <<wal, bases, pend>> \/ Cut
       /\ AllSynced => \A b \in bases' : \A i \in 0 .. e : b[i] = wal'[i] /\ pend'[i] = {}
  <2>1. CASE UNCHANGED <<wal, bases, pend>>
    <3>1. wal = [i \in Slot |-> wal[i]] /\ pend = [i \in Slot |-> pend[i]]
      BY <1>0 DEF Types
    <3>2. \A i \in 0 .. e : i \in Slot
      BY <1>3, <1>7 DEF Slot
    <3>3. \A i \in 1 .. MaxFrame : \A g \in Known(i)' : g \in Known(i)
      BY <2>1 DEF Known
    <3> QED BY <2>1, <3>1, <3>2, <3>3 DEF AllSynced
  <2>2. CASE TruncateWal(e)
    <3>1. /\ wal' = CutWal(wal, e) /\ bases' = bases \cup {CutWal(b, e) : b \in bases}
          /\ pend' = [i \in Slot |-> IF i <= e THEN pend[i] ELSE {}]
      BY <2>2 DEF TruncateWal
    <3>2. \A w : CutWal(w, e) = [i \in Slot |-> IF i <= e THEN w[i] ELSE EmptyWal[i]]
      BY DEF CutWal
    <3>3. \A i \in 1 .. MaxFrame : i \in Slot /\ EmptyWal[i] = NoFrame
      BY EmptyFacts DEF Slot
    <3>4. \A i \in 0 .. e : i \in Slot /\ i <= e
      BY <1>3, <1>7 DEF Slot
    <3>5. wal' = [i \in Slot |-> wal'[i]] /\ pend' = [i \in Slot |-> pend'[i]]
      BY <3>1, <3>2
    <3>6. \A i \in 0 .. e : wal'[i] = wal[i] /\ pend'[i] = pend[i]
      BY <3>1, <3>2, <3>4
    <3>7. \A w : \A i \in 0 .. e : CutWal(w, e)[i] = w[i]
      BY <3>2, <3>4
    <3>8. \A b \in bases' : \E a \in bases : \A i \in 0 .. e : b[i] = a[i]
      BY <3>1, <3>7
    <3>9. Cut
      <4>1. \A i \in e + 1 .. MaxFrame : i \in 1 .. MaxFrame /\ ~(i <= e)
        BY <1>7
      <4> QED BY <4>1, <3>1, <3>2, <3>3
    <3>10. \A i \in 1 .. MaxFrame : \A g \in Known(i)' : g \in Known(i) \/ g = NoFrame
      <4> SUFFICES ASSUME NEW i \in 1 .. MaxFrame, NEW g \in Known(i)', g # NoFrame PROVE g \in Known(i)
        OBVIOUS
      <4>1. \A w : CutWal(w, e)[i] = w[i] \/ CutWal(w, e)[i] = NoFrame
        BY <3>2, <3>3
      <4>2. CASE g = wal'[i]
        BY <4>1, <4>2, <3>1 DEF Known
      <4>3. CASE g \in pend'[i]
        BY <4>3, <3>1, <3>3 DEF Known
      <4>4. CASE \E b \in bases' : g = b[i]
        BY <4>1, <4>4, <3>1 DEF Known
      <4> QED BY <4>2, <4>3, <4>4 DEF Known
    <3>11. AllSynced => \A b \in bases' : \A i \in 0 .. e : b[i] = wal'[i] /\ pend'[i] = {}
      BY <3>4, <3>6, <3>8 DEF AllSynced
    <3> QED BY <3>1, <3>5, <3>6, <3>8, <3>9, <3>10, <3>11
  <2> QED BY <2>1, <2>2, <1>2
<1> HIDE DEF Cut
<1>12. PICK w : w = wal' /\ \A i \in 0 .. e : w[i] = wal[i]
  BY <1>11
<1>13. Known(0)' = Known(0)
  <2>1. wal'[0] = wal[0] /\ pend'[0] = pend[0]
    BY <1>7, <1>11
  <2>2. {b[0] : b \in bases'} = {b[0] : b \in bases}
    BY <1>7, <1>11
  <2> QED BY <2>1, <2>2 DEF Known
<1>14. LogOK'
  <2>1. ASSUME NEW i \in 1 .. MaxFrame, NEW f, FrameOK(i, f) PROVE FrameOK(i, f)'
    BY <2>1, <1>2 DEF FrameOK, Frame
  <2>2. ASSUME NEW x, HeaderOK(x) PROVE HeaderOK(x)'
    BY <2>2, <1>2 DEF HeaderOK, Header
  <2>3. ASSUME NEW i \in 1 .. MaxFrame PROVE FrameOK(i, NoFrame)'
    <3>1. NoFrame \in Frame
      BY EmptyFacts
    <3>2. nSalt' \in Nat
      BY <1>2, <1>3
    <3>3. Len(NoFrame.ck) = 0 /\ NoFrame.pg = 0 /\ NoFrame.val = 0 /\ NoFrame.salt = 0 /\ NoFrame.ck = <<>>
      BY EmptySeq DEF NoFrame
    <3> QED BY <3>1, <3>2, <3>3 DEF FrameOK, Frame
  <2> QED BY <2>1, <2>2, <2>3, <1>0, <1>11, <1>13 DEF LogOK
<1>15. Top' = e
  <2>1. e \in ValidFrames(w) /\ w[e].commit
    <3>1. w[e] = wal[e]
      BY <1>7, <1>12
    <3> QED BY <3>1, <1>6, <1>12, ValidSame
  <2>2. CASE UNCHANGED <<wal, bases, pend>>
    BY <2>2, <1>6 DEF Top
  <2>3. CASE Cut
    <3>1. \A j \in ValidFrames(w) : j > e => ~w[j].commit
      <4> TAKE j \in ValidFrames(w)
      <4> HAVE j > e
      <4>1. j \in 1 .. MaxFrame
        BY ValidFacts
      <4>2. w[j] = NoFrame
        BY <4>1, <2>3, <1>7, <1>12 DEF Cut
      <4> QED BY <4>2 DEF NoFrame
    <3>2. RecoveredMx(w) = e
      BY <2>1, <3>1, <1>7, RecIs
    <3> QED BY <3>2, <1>12 DEF Top
  <2> QED BY <2>2, <2>3, <1>11
<1>16. \A i \in 0 .. e : wal'[i] = wal[i] /\ i \in Slot
  BY <1>3, <1>7, <1>11 DEF Slot
<1>17. Classified'
  <2> SUFFICES ASSUME wal[0].ok \/ wal[0].nCkpt > 0, NEW i \in 1 .. MaxFrame, NEW g \in Known(i)',
                      CommitOf(g, wal[0].salt, wal[0].nCkpt)
               PROVE  (i <= Top' /\ g.ck = wal'[i].ck) \/ Dead(g, i)'
    BY <1>7, <1>16 DEF Classified
  <2>1. g \in Known(i)
    BY <1>11 DEF CommitOf, NoFrame
  <2>2. CASE i <= Top /\ g.ck = wal[i].ck
    <3>1. i \in 0 .. e
      BY <2>2, <1>6, <1>7
    <3> QED BY <3>1, <2>2, <1>6, <1>15, <1>16
  <2>3. CASE Dead(g, i)
    <3>1. \A j \in 1 .. i : j \in 1 .. MaxFrame
      BY <1>3
    <3>2. \A j \in 1 .. i : \A f \in Known(j)' : f \in Known(j) \/ ~Own(f, j) \/ ~Covers(g, f, j)
      BY <3>1, <1>11, EmptyFacts
    <3> QED BY <2>3, <3>2, StillDead
  <2> QED BY <2>1, <2>2, <2>3, <1>0 DEF Classified
<1>18. \A p : \A lo \in Nat \ {0} : \A hi \in 0 .. e : FindFrame(wal, p, lo, hi)' = FindFrame(wal, p, lo, hi)
  <2> TAKE p
  <2> TAKE lo \in Nat \ {0}
  <2> TAKE hi \in 0 .. e
  <2>1. hi \in Slot /\ \A i \in lo .. hi : i \in 0 .. e
    BY <1>3, <1>7 DEF Slot
  <2>2. \A i \in lo .. hi : w[i].pg = wal[i].pg
    BY <2>1, <1>12
  <2>3. FindFrame(w, p, lo, hi) = FindFrame(wal, p, lo, hi)
    BY <2>1, <2>2, FindSame
  <2> QED BY <2>3, <1>12
<1>19. \A lo \in Nat \ {0} : \A hi \in 0 .. e : Overlay(wal, db, lo, hi)' = Overlay(wal, db, lo, hi)
  <2> TAKE lo \in Nat \ {0}
  <2> TAKE hi \in 0 .. e
  <2>1. hi \in Slot /\ \A i \in lo .. hi : i \in 0 .. e
    BY <1>3, <1>7 DEF Slot
  <2>2. \A i \in lo .. hi : w[i].pg = wal[i].pg /\ w[i].val = wal[i].val
    BY <2>1, <1>12
  <2>3. Overlay(w, db, lo, hi) = Overlay(wal, db, lo, hi)
    <3>1. \A q \in Page : FindFrame(w, q, lo, hi) = FindFrame(wal, q, lo, hi)
      BY <2>1, <2>2, FindSame
    <3>2. \A q \in Page : FindFrame(wal, q, lo, hi) # 0 => FindFrame(wal, q, lo, hi) \in lo .. hi
      BY <2>1, FindFacts
    <3> QED BY <3>1, <3>2, <2>2 DEF Overlay
  <2> QED BY <2>3, <1>2, <1>12
<1>20. \A m \in 0 .. e : Img(m)' = Img(m)
  <2>1. 1 \in Nat \ {0}
    OBVIOUS
  <2> QED BY <2>1, <1>19 DEF Img
<1>21. Mx = live.mx /\ Mx' = e /\ InLog'
  BY <1>2, <1>4, <1>7, <1>9 DEF Mx, InLog
<1>22. LogInv'
  <2>1. PICK n \in 0 .. live.mx, K0 \in Nat : LastIs(K0) /\ OnDisk(n) /\ Images(n, live.mx, K0)
    BY <1>0, <1>4, <1>21 DEF LogInv
  <2>2. K0 = acked
    BY <2>1, <1>4 DEF LastIs
  <2>3. Images(n, e, Len(hist))
    BY <2>1, <2>2, <1>4, <1>5, PendingImages
  <2>4. wal'[0].ok
    BY <1>0, <1>4, <1>7, <1>16 DEF LogInv
  <2>5. PICK K \in Nat : K = Len(hist)
    BY <1>3
  <2>6. LastIs(K)'
    BY <2>5, <1>2 DEF LastIs
  <2>7. n \in Nat /\ n \in 0 .. e /\ n <= e /\ n \in Slot
    BY <1>3, <1>6, <1>7 DEF Slot
  <2>8. CASE sc.fullSync
    <3>1. AllSynced
      BY <2>8, <1>0, <1>2 DEF SyncInv
    <3>2. OnDisk(e)'
      <4>1. wal'[e].commit
        BY <1>6, <1>7, <1>16
      <4>2. \A i \in 0 .. e : pend'[i] = {} /\ \A b \in bases' : b[i] = wal'[i]
        <5>1. PICK b0 : b0 \in bases'
          BY <3>1, <1>11 DEF AllSynced
        <5> QED BY <3>1, <5>1, <1>11
      <4>3. ASSUME NEW p \in Page, dbPend'[p] # {} \/ dbDisk'[p] # db'[p]
            PROVE  FindFrame(wal, p, 1, e)' # 0
        <5>1. FindFrame(wal, p, 1, n) # 0
          BY <4>3, <2>1, <1>2 DEF OnDisk
        <5>2. FindFrame(wal, p, 1, e) # 0
          BY <5>1, <2>7, <1>7, FindLonger
        <5>3. 1 \in Nat \ {0}
          OBVIOUS
        <5> QED BY <5>2, <5>3, <1>7, <1>18
      <4> QED BY <4>1, <4>2, <4>3 DEF OnDisk
    <3>3. Images(e, e, K)'
      <4>1. hist'[K] = Img(e)'
        BY <2>5, <1>2, <1>6, <1>7, <1>20
      <4>2. synced' = K /\ K \in K .. K
        BY <2>5, <2>8, <1>2
      <4>3. \A i \in e .. e : i = e
        BY <1>7
      <4> QED BY <4>1, <4>2, <4>3 DEF Images
    <3> QED BY <2>4, <2>6, <3>2, <3>3, <1>7, <1>21 DEF LogInv
  <2>9. CASE ~sc.fullSync
    <3>1. OnDisk(n)'
      <4>1. \A i \in 0 .. n : i \in 0 .. e
        BY <2>7, <1>7
      <4>2. n = 0 \/ wal'[n].commit
        BY <2>1, <2>7, <1>16 DEF OnDisk
      <4>3. \A i \in 0 .. n : pend'[i] = {} /\ \A b \in bases' : b[i] = wal'[i]
        <5> TAKE i \in 0 .. n
        <5>1. pend[i] = {} /\ \A a \in bases : a[i] = wal[i]
          BY <2>1 DEF OnDisk
        <5>2. \A b \in bases' : \E a \in bases : b[i] = a[i]
          BY <4>1, <1>11
        <5>3. pend'[i] = pend[i] /\ wal'[i] = wal[i]
          BY <4>1, <1>11
        <5> QED BY <5>1, <5>2, <5>3
      <4>4. \A p \in Page : dbPend'[p] # {} \/ dbDisk'[p] # db'[p] => FindFrame(wal, p, 1, n)' # 0
        <5>1. 1 \in Nat \ {0}
          OBVIOUS
        <5> QED BY <5>1, <2>1, <2>7, <1>2, <1>18 DEF OnDisk
      <4> QED BY <4>2, <4>3, <4>4 DEF OnDisk
    <3>2. Images(n, e, K)'
      <4>1. hist'[K] = Img(e)'
        BY <2>5, <1>2, <1>6, <1>7, <1>20
      <4>2. ASSUME NEW i \in n .. e, i = 0 \/ wal'[i].commit
            PROVE  \E k \in synced' .. K : hist'[k] = Img(i)'
        <5>1. i \in 0 .. e
          BY <2>7, <1>7
        <5>2. i = 0 \/ wal[i].commit
          BY <4>2, <5>1, <1>16
        <5>3. PICK k \in synced .. K : hist[k] = Img(i)
          BY <5>2, <2>3, <2>5 DEF Images
        <5> QED BY <5>1, <5>3, <2>9, <1>2, <1>20
      <4> QED BY <4>1, <4>2 DEF Images
    <3> QED BY <2>4, <2>6, <2>7, <3>1, <3>2, <1>21 DEF LogInv
  <2> QED BY <2>8, <2>9
<1>23. DbInv'
  BY <1>21 DEF DbInv
<1>24. LiveInv'
  <2>1. nBackfill' <= live'.mx /\ nBackfill' # live'.mx /\ ~(live'.mx = 0)
    BY <1>2, <1>3, <1>4, <1>6, <1>7, <1>9
  <2>2. live'.salt <= nSalt' /\ live'.salt = wal'[0].salt
    <3>1. h.salt = wal[0].salt
      BY <1>0, <1>4 DEF ChainInv
    <3>2. wal[0].salt <= nSalt
      <4>1. wal[0] \in Known(0)
        BY DEF Known
      <4> QED BY <4>1, <1>0 DEF LogOK, HeaderOK
    <3>3. wal'[0] = wal[0]
      BY <1>7, <1>16
    <3> QED BY <3>1, <3>2, <3>3, <1>2, <1>9
  <2>3. live'.ck = wal'[e].ck /\ wal'[e].commit
    <3>1. h.ck = ChecksumAfter(wal, e)
      BY <1>0, <1>4 DEF ChainInv
    <3>2. h.ck = wal[e].ck
      BY <3>1, <1>7 DEF ChecksumAfter
    <3>3. wal'[e] = wal[e]
      BY <1>7, <1>16
    <3> QED BY <3>2, <3>3, <1>6, <1>9
  <2>4. Visible' = hist'[acked'] /\ Img(live.mx)' = hist'[acked']
    <3>1. nBackfill + 1 \in Nat \ {0}
      BY <1>3
    <3>2. Overlay(wal, db, nBackfill + 1, e)' = Overlay(wal, db, nBackfill + 1, e)
      <4>1. PICK lo \in Nat \ {0} : lo = nBackfill + 1
        BY <3>1
      <4>2. Overlay(wal, db, lo, e)' = Overlay(wal, db, lo, e)
        BY <4>1, <1>7, <1>19
      <4> QED BY <4>1, <4>2, <1>2
    <3>3. Visible' = hist[Len(hist)]
      BY <3>2, <1>2, <1>6, <1>9 DEF Visible
    <3>4. Img(live.mx)' = Img(e)'
      BY <1>9 DEF Img
    <3> QED BY <3>3, <3>4, <1>2, <1>6, <1>7, <1>20
  <2> QED BY <2>1, <2>2, <2>3, <2>4, <1>2, <1>8, <1>9, <1>15 DEF LiveInv
<1>25. Types'
  <2>1. pager' = NoPager(pager.img) /\ pager.img \in Image
    BY <1>0, <1>2 DEF Types
  <2>2. /\ DOMAIN pager' = {"img", "dirty", "modified", "savepoint", "sp"}
        /\ pager'.img \in Image /\ pager'.dirty \in SUBSET Page /\ pager'.modified \in BOOLEAN
        /\ pager'.savepoint = FALSE /\ pager'.sp = NoSavepoint
    BY <2>1 DEF NoPager
  <2>3. synced' \in Nat \ {0} /\ acked' \in Nat /\ synced' <= acked' /\ acked' <= Len(hist')
    BY <1>0, <1>2, <1>3, <1>6 DEF Types
  <2> QED BY <2>2, <2>3, <1>0, <1>2, <1>8, <1>9, <1>10, <1>11 DEF Types, PCs
<1>26. Values' /\ SyncInv' /\ RestInv'
  <2>1. pager'.img = pager.img
    BY <1>2 DEF NoPager
  <2>2. nBackfill' # live'.mx
    BY <1>2, <1>3, <1>4, <1>6, <1>7, <1>9
  <2> QED BY <2>1, <2>2, <1>0, <1>2, <1>10 DEF Values, SyncInv, RestInv
<1>27. ListInv'
  BY <1>2, <1>8 DEF ListInv
<1> QED BY <1>8, <1>14, <1>17, <1>22, <1>23, <1>24, <1>25, <1>26, <1>27
        DEF IInv, EndInv, ChainInv, PagerInv, FreshInv, StaleInv

-----------------------------------------------------------------------------
(* Power loss                                                               *)

\* Recovery reads a committed image from any file that a power loss may leave.
LEMMA LossImage ==
  ASSUME IInv, NEW b \in bases, NEW w, Chained(w), NEW d, d = [p \in Page |-> d[p]],
         \A i \in 1 .. MaxFrame : w[i] \in Known(i) \/ w[i].pg = 0,
         \A i \in 0 .. MaxFrame : pend[i] = {} => w[i] = b[i],
         w[0].ok => w[0] = b[0] \/ w[0] \in pend[0],
         \A p \in Page : dbPend[p] = {} => d[p] = dbDisk[p]
  PROVE  \E K \in synced .. Len(hist) : hist[K] = Overlay(w, d, 1, RecoveredMx(w))
<1>0. Types /\ LogOK /\ Classified /\ LogInv /\ DbInv /\ LiveInv
  BY DEF IInv
<1>1. /\ live.mx \in Nat /\ live.mx <= MaxFrame /\ MaxFrame \in Nat /\ acked \in Nat /\ Len(hist) \in Nat
      /\ synced \in Nat /\ synced <= acked /\ acked <= Len(hist) /\ End \in Nat /\ End \in Slot
  BY <1>0, Numbers, Commits DEF Types
<1>2. PICK m \in Slot : m = RecoveredMx(w)
  BY RecFacts
<1>3. m \in Nat /\ m <= MaxFrame
  BY <1>1, <1>2 DEF Slot
<1>4. m # 0 => m \in ValidFrames(w) /\ w[m].commit
  BY <1>2, RecFacts
<1>5. Chained(wal)
  BY <1>0, LogChained
<1>6. 1 \in Nat \ {0} /\ 0 \in Slot /\ 0 \in 0 .. MaxFrame
  BY <1>1 DEF Slot
<1>7. CASE InLog
  <2>1. PICK n \in 0 .. Mx, K \in Nat : LastIs(K) /\ OnDisk(n) /\ Images(n, Mx, K)
    BY <1>0, <1>7 DEF LogInv
  <2>2. Top \in Slot /\ Top \in Nat /\ (Top # 0 => Top \in ValidFrames(wal) /\ wal[Top].commit)
    BY RecFacts DEF Top, Slot
  <2>3. Mx \in Nat /\ Mx <= Top /\ (Mx # Top => Pending /\ Mx = live.mx /\ Top = End)
    <3>1. CASE pc = "down"
      BY <3>1, <2>2 DEF Mx
    <3>2. CASE pc # "down" /\ Pending
      BY <3>2, <1>1, PendingFacts DEF Mx
    <3>3. CASE pc # "down" /\ ~Pending
      BY <3>3, <1>0, <1>1 DEF Mx, LiveInv
    <3> QED BY <3>1, <3>2, <3>3
  <2>4. Top <= MaxFrame
    BY <2>2, <1>1 DEF Slot
  <2>5. n \in Nat /\ n <= Mx /\ n <= Top /\ n <= MaxFrame
    BY <2>2, <2>3, <2>4, <1>1
  <2>6. \A i \in 0 .. n : w[i] = wal[i]
    <3>1. \A i \in 0 .. n : i \in 0 .. MaxFrame
      BY <2>5, <1>1
    <3>2. \A i \in 0 .. n : pend[i] = {} /\ b[i] = wal[i]
      BY <2>1 DEF OnDisk
    <3> QED BY <3>1, <3>2
  <2>7. w[0] = wal[0]
    BY <2>5, <2>6
  <2>8. n <= m
    <3>1. CASE n = 0
      BY <3>1, <1>3
    <3>2. CASE n # 0
      <4>1. Top \in ValidFrames(wal) /\ n \in 1 .. Top
        BY <3>2, <2>2, <2>5
      <4>2. n \in ValidFrames(wal)
        BY <4>1, ValidFacts
      <4>3. n \in ValidFrames(w)
        BY <4>2, <2>6, ValidSame
      <4>4. w[n].commit
        BY <3>2, <2>1, <2>5, <2>6 DEF OnDisk
      <4> QED BY <4>3, <4>4, <1>2, RecFacts
    <3> QED BY <3>1, <3>2
  <2>9. m # 0 => m <= Top /\ wal[m].commit
                 /\ \A j \in 1 .. m : w[j].pg = wal[j].pg /\ w[j].val = wal[j].val
    <3> SUFFICES ASSUME m # 0
                 PROVE  m <= Top /\ wal[m].commit
                        /\ \A j \in 1 .. m : w[j].pg = wal[j].pg /\ w[j].val = wal[j].val
      OBVIOUS
    <3>1. m \in ValidFrames(w) /\ m \in 1 .. MaxFrame
      BY <1>4, ValidFacts
    <3>2. \A j \in 1 .. m : w[j] \in Known(j)
      <4> TAKE j \in 1 .. m
      <4>1. j \in ValidFrames(w) /\ j \in 1 .. MaxFrame
        BY <3>1, <1>1, ValidFacts
      <4>2. w[j].pg # 0
        BY <4>1, ChainStep
      <4> QED BY <4>1, <4>2
    <3>3. CommitOf(w[m], wal[0].salt, wal[0].nCkpt)
      BY <3>1, <1>4, <2>7, ValidCommit
    <3>4. ~Dead(w[m], m)
      BY <3>1, <3>2, DeadInvalid
    <3>5. wal[0].ok
      BY <1>0, <1>7 DEF LogInv
    <3>6. w[m] \in Known(m)
      <4>1. m \in 1 .. m
        BY <3>1, <1>3
      <4> QED BY <4>1, <3>2
    <3>7. m <= Top /\ w[m].ck = wal[m].ck
      BY <3>1, <3>3, <3>4, <3>5, <3>6, <1>0 DEF Classified
    <3>8. m \in ValidFrames(wal)
      <4>1. Top \in ValidFrames(wal) /\ m \in 1 .. Top
        BY <3>1, <3>7, <2>2, <1>3
      <4> QED BY <4>1, ValidFacts
    <3>9. PICK x : x = wal
      OBVIOUS
    <3>10. Chained(x) /\ m \in ValidFrames(x) /\ x[m].ck = w[m].ck
      BY <3>7, <3>8, <3>9, <1>5
    <3>11. \A j \in 1 .. m : w[j].pg = x[j].pg /\ w[j].val = x[j].val /\ w[j].commit = x[j].commit
      BY <3>1, <3>10, SameChain
    <3>12. m \in 1 .. m
      BY <3>1, <1>3
    <3> QED BY <3>7, <3>9, <3>11, <3>12, <1>4
  <2>10. Overlay(w, d, 1, m) = Img(m)
    <3>1. \A j \in 1 .. m : w[j].pg = wal[j].pg /\ w[j].val = wal[j].val
      <4>1. CASE m = 0
        BY <4>1
      <4>2. CASE m # 0
        BY <4>2, <2>9
      <4> QED BY <4>1, <4>2
    <3>2. PICK x : x = wal
      OBVIOUS
    <3>3. \A p \in Page : FindFrame(w, p, 1, m) = FindFrame(x, p, 1, m)
      BY <3>1, <3>2, <1>6, FindSame
    <3>4. \A p \in Page : FindFrame(x, p, 1, m) # 0 => FindFrame(x, p, 1, m) \in 1 .. m
      BY <1>6, FindFacts
    <3>5. \A p \in Page : FindFrame(x, p, 1, m) = 0 => d[p] = db[p]
      <4> TAKE p \in Page
      <4> HAVE FindFrame(x, p, 1, m) = 0
      <4>1. n \in Slot
        BY <2>5, <1>1 DEF Slot
      <4>2. FindFrame(wal, p, 1, n) = 0
        BY <4>1, <2>8, <3>2, FindLonger
      <4>3. dbPend[p] = {} /\ dbDisk[p] = db[p]
        BY <4>2, <2>1 DEF OnDisk
      <4> QED BY <4>3
    <3>6. Overlay(w, d, 1, m) = Overlay(x, db, 1, m)
      BY <3>1, <3>2, <3>3, <3>4, <3>5 DEF Overlay
    <3> QED BY <3>2, <3>6 DEF Img
  <2>11. K \in synced .. Len(hist)
    <3>1. CASE pc = "down"
      BY <3>1, <2>1 DEF LastIs
    <3>2. CASE pc # "down"
      BY <3>2, <2>1, <1>1 DEF LastIs
    <3> QED BY <3>1, <3>2
  <2>12. CASE m <= Mx
    <3>1. m \in n .. Mx /\ (m = 0 \/ wal[m].commit)
      BY <2>3, <2>5, <2>8, <2>9, <2>12, <1>3
    <3>2. PICK k \in synced .. K : hist[k] = Img(m)
      BY <3>1, <2>1 DEF Images
    <3>3. k \in synced .. Len(hist)
      BY <2>11, <1>1
    <3> QED BY <3>2, <3>3, <2>10, <1>2
  <2>13. CASE ~(m <= Mx)
    <3>1. m # 0 /\ Mx # Top
      BY <2>3, <2>9, <2>13, <1>3, <2>2
    <3>2. Pending /\ Mx = live.mx /\ Top = End
      BY <3>1, <2>3
    <3>3. m \in live.mx + 1 .. End
      BY <3>1, <3>2, <2>9, <2>13, <1>1, <1>3
    <3>4. (\A i \in live.mx + 1 .. End : wal[i].commit <=> i = End) /\ hist[Len(hist)] = Img(End)
      BY <3>2, PendingFacts
    <3>5. m = End
      BY <3>1, <3>3, <3>4, <2>9
    <3>6. Len(hist) \in synced .. Len(hist)
      BY <1>1
    <3> QED BY <3>4, <3>5, <3>6, <2>10, <1>2
  <2> QED BY <2>12, <2>13
<1>8. CASE ~InLog
  <2>1. Settled /\ Top = 0
    BY <1>0, <1>8 DEF DbInv
  <2>2. PICK K \in Nat : LastIs(K) /\ hist[K] = db
    BY <1>0, <1>8 DEF DbInv
  <2>3. /\ \A x \in pend[0] : DeadUnder(x.salt, x.nCkpt)
        /\ ~b[0].ok \/ DeadUnder(b[0].salt, b[0].nCkpt) \/ Retired(b)
    BY <1>0, <1>8 DEF DbInv
  <2>4. K \in synced .. Len(hist)
    <3>1. CASE pc = "down"
      BY <3>1, <2>2 DEF LastIs
    <3>2. CASE pc # "down"
      BY <3>2, <2>2, <1>1 DEF LastIs
    <3> QED BY <3>1, <3>2
  <2>5. d = db
    <3>1. db = [p \in Page |-> db[p]]
      BY <1>0, Shapes
    <3>2. \A p \in Page : d[p] = db[p]
      BY <2>1 DEF Settled
    <3> QED BY <3>1, <3>2
  <2>6. m = 0 => Overlay(w, d, 1, m) = d
    <3>1. 0 \in Nat /\ 1 \in Nat /\ 0 < 1
      OBVIOUS
    <3>2. Overlay(w, d, 1, 0) = d
      BY <3>1, OverlayNone
    <3> QED BY <3>2
  <2>7. ASSUME DeadUnder(w[0].salt, w[0].nCkpt) PROVE m = 0
    BY <2>7, <1>2, DeadHeader
  <2>8. ASSUME ~w[0].ok PROVE m = 0
    <3>1. ~(m \in ValidFrames(w))
      BY <2>8 DEF ValidFrames
    <3> QED BY <3>1, <1>4
  <2>9. ASSUME w[0] = b[0], Retired(b) PROVE Overlay(w, d, 1, m) = db
    <3>1. \A i \in 0 .. MaxFrame : w[i] = b[i]
      <4>1. \A i \in 1 .. MaxFrame : pend[i] = {}
        BY <2>9 DEF Retired
      <4>2. \A i \in 0 .. MaxFrame : i = 0 \/ i \in 1 .. MaxFrame
        BY <1>1
      <4> QED BY <4>1, <4>2, <2>9
    <3>2. PICK x \in Slot : x = RecoveredMx(b)
      BY RecFacts
    <3>3. MaxFrame \in Slot
      BY <1>1 DEF Slot
    <3>4. \A i \in 1 .. MaxFrame : i \in ValidFrames(w) <=> i \in ValidFrames(b)
      BY <3>1, <3>3, ValidEqual
    <3>5. x # 0 => x \in ValidFrames(b) /\ b[x].commit
      BY <3>2, RecFacts
    <3>6. \A i \in ValidFrames(b) : b[i].commit => i <= x
      BY <3>2, RecFacts
    <3>7. x # 0 => x \in ValidFrames(w) /\ w[x].commit
      <4>1. x \in 0 .. MaxFrame /\ (x # 0 => x \in 1 .. MaxFrame)
        BY <3>5, <1>1, ValidFacts DEF Slot
      <4> QED BY <4>1, <3>1, <3>4, <3>5
    <3>8. \A i \in ValidFrames(w) : i > x => ~w[i].commit
      <4> TAKE i \in ValidFrames(w)
      <4> HAVE i > x
      <4>1. i \in 1 .. MaxFrame /\ i \in 0 .. MaxFrame /\ ~(i <= x)
        <5>1. i \in 1 .. MaxFrame
          BY ValidFacts
        <5> QED BY <5>1, <3>2, <1>1 DEF Slot
      <4> QED BY <4>1, <3>1, <3>4, <3>6
    <3>9. m = x
      BY <3>2, <3>7, <3>8, <1>2, RecIs
    <3>10. \A j \in 1 .. m : w[j].pg = b[j].pg /\ w[j].val = b[j].val
      <4>1. \A j \in 1 .. m : j \in 0 .. MaxFrame
        BY <1>1, <1>3
      <4> QED BY <4>1, <3>1
    <3>11. \A p \in Page : FindFrame(w, p, 1, m) = FindFrame(b, p, 1, m)
      BY <3>10, <1>6, FindSame
    <3>12. \A p \in Page : FindFrame(b, p, 1, m) # 0 => FindFrame(b, p, 1, m) \in 1 .. m
      BY <1>6, FindFacts
    <3>13. Overlay(w, db, 1, m) = Overlay(b, db, 1, m)
      BY <3>10, <3>11, <3>12 DEF Overlay
    <3>14. Overlay(b, db, 1, x) = db
      BY <2>9, <3>2 DEF Retired
    <3> QED BY <3>9, <3>13, <3>14, <2>5
  <2>10. Overlay(w, d, 1, m) = db
    <3>1. CASE ~w[0].ok
      BY <3>1, <2>5, <2>6, <2>8
    <3>2. CASE w[0].ok /\ w[0] \in pend[0]
      BY <3>2, <2>3, <2>5, <2>6, <2>7
    <3>3. CASE w[0].ok /\ w[0] = b[0]
      <4>1. CASE DeadUnder(b[0].salt, b[0].nCkpt)
        BY <4>1, <3>3, <2>5, <2>6, <2>7
      <4>2. CASE Retired(b)
        BY <4>2, <3>3, <2>9
      <4> QED BY <4>1, <4>2, <3>3, <2>3
    <3> QED BY <3>1, <3>2, <3>3
  <2> QED BY <2>2, <2>4, <2>10, <1>2
<1> QED BY <1>7, <1>8

LEMMA PowerLossStep == IInv /\ PowerLoss /\ ~RevivedLog' => IInv'
<1> SUFFICES ASSUME IInv, PowerLoss, ~RevivedLog' PROVE IInv'
  OBVIOUS
<1>0. Types /\ LogOK /\ Values
  BY DEF IInv
<1>1. /\ wal' \in WalSurvivors /\ bases' = {wal'} /\ pend' = [i \in Slot |-> {}]
      /\ db' \in DbSurvivors /\ dbDisk' = db' /\ dbPend' = [p \in Page |-> {}]
      /\ live' = ZeroHdr /\ h' = ZeroHdr /\ nBackfill' = 0
      /\ wc' = ClosedWal /\ pager' = NoPager(Blank) /\ call' = NoCall
      /\ pc' = "down" /\ nCrash' = nCrash + 1
      /\ floor' = IF pc = "down" THEN Min({floor, synced}) ELSE synced
      /\ UNCHANGED <<hist, acked, synced, nWrite, nSalt, sc>>
  BY DEF PowerLoss, LoseMemory
<1>2. PICK w \in WalSurvivors, d \in DbSurvivors : w = wal' /\ d = db'
  BY <1>1
<1>3. PICK b \in bases :
        /\ w = [i \in Slot |-> w[i]]
        /\ \A i \in Slot : IF pend[i] = {} THEN w[i] = b[i] ELSE w[i] \in Survivors(b, i)
  BY <1>2, WalSurvivorFacts
<1>4. /\ d = [p \in Page |-> d[p]]
      /\ \A p \in Page : IF dbPend[p] = {} THEN d[p] = dbDisk[p]
                         ELSE d[p] \in {dbDisk[p], Torn} \cup dbPend[p]
  BY <1>2, DbSurvivorFacts
<1>5. /\ MaxFrame \in Nat /\ nWrite \in Nat /\ nSalt \in Nat /\ Len(hist) \in Nat /\ acked \in Nat
      /\ synced \in Nat \ {0} /\ synced <= acked /\ acked <= Len(hist) /\ floor \in 1 .. Len(hist)
      /\ nCrash \in Nat /\ nWrite \in Val
  BY <1>0, Numbers, Commits DEF Types
<1>6. \A i \in 0 .. MaxFrame : i \in Slot
  BY DEF Slot
<1> DEFINE TornFrame == [NoFrame EXCEPT !.val = Torn]
<1>7. \A i \in 1 .. MaxFrame : w[i] \in Known(i) \/ w[i] = TornFrame
  <2> TAKE i \in 1 .. MaxFrame
  <2>1. i \in Slot /\ i # 0
    BY <1>5 DEF Slot
  <2>2. b[i] \in Known(i)
    BY DEF Known
  <2>3. CASE pend[i] = {}
    BY <2>1, <2>2, <2>3, <1>3
  <2>4. CASE pend[i] # {}
    <3>1. w[i] \in Survivors(b, i)
      BY <2>1, <2>4, <1>3
    <3>2. w[i] \in {b[i]} \cup pend[i] \cup {TornFrame}
      BY <2>1, <3>1 DEF Survivors
    <3> QED BY <2>2, <3>2 DEF Known
  <2> QED BY <2>3, <2>4
<1>8. TornFrame \in Frame /\ TornFrame.pg = 0 /\ TornFrame.val = Torn /\ TornFrame.salt = 0 /\ TornFrame.ck = <<>>
  <2>1. <<>> \in Seq(CkEntry) /\ 0 \in 0 .. MaxPage /\ Torn \in Nat
    BY Bounds, EmptySeq DEF Torn
  <2> QED BY <2>1 DEF NoFrame, Frame
<1> HIDE DEF TornFrame
<1>9. w[0].ok => w[0] = b[0] \/ w[0] \in pend[0]
  <2>1. 0 \in Slot
    BY <1>5 DEF Slot
  <2>2. CASE pend[0] = {}
    BY <2>1, <2>2, <1>3
  <2>3. CASE pend[0] # {}
    <3>1. w[0] \in Survivors(b, 0)
      BY <2>1, <2>3, <1>3
    <3> DEFINE all == {b[0]} \cup pend[0]
    <3>2. w[0] \in all \/ w[0] \in [ok : {FALSE}, salt : {x.salt : x \in all}, nCkpt : {x.nCkpt : x \in all}]
      BY <3>1 DEF Survivors
    <3>3. w[0] \in [ok : {FALSE}, salt : {x.salt : x \in all}, nCkpt : {x.nCkpt : x \in all}] => ~w[0].ok
      OBVIOUS
    <3> QED BY <3>2, <3>3
  <2> QED BY <2>2, <2>3
<1>10. HeaderOK(w[0])
  <2>1. 0 \in Slot
    BY <1>5 DEF Slot
  <2>2. \A x \in {b[0]} \cup pend[0] : HeaderOK(x)
    BY <1>0 DEF LogOK, Known
  <2>3. CASE pend[0] = {}
    BY <2>1, <2>2, <2>3, <1>3
  <2>4. CASE pend[0] # {}
    <3>1. w[0] \in Survivors(b, 0)
      BY <2>1, <2>4, <1>3
    <3> DEFINE all == {b[0]} \cup pend[0]
    <3>2. w[0] \in all \/ w[0] \in [ok : {FALSE}, salt : {x.salt : x \in all}, nCkpt : {x.nCkpt : x \in all}]
      BY <3>1 DEF Survivors
    <3>3. ASSUME w[0] \in [ok : {FALSE}, salt : {x.salt : x \in all}, nCkpt : {x.nCkpt : x \in all}]
          PROVE  HeaderOK(w[0])
      <4>1. PICK y, z : y \in all /\ z \in all /\ w[0] = [ok |-> FALSE, salt |-> y.salt, nCkpt |-> z.nCkpt]
        BY <3>3
      <4>2. y.salt \in Nat /\ y.salt <= nSalt /\ z.nCkpt \in Nat
        BY <2>2, <4>1 DEF HeaderOK, Header
      <4> QED BY <4>1, <4>2 DEF HeaderOK, Header
    <3> QED BY <2>2, <3>2, <3>3
  <2> QED BY <2>3, <2>4
<1>11. /\ \A i \in 0 .. MaxFrame : pend'[i] = {} /\ Known(i)' = {w[i]}
  <2>1. \A i \in 0 .. MaxFrame : pend'[i] = {}
    BY <1>1, <1>6
  <2> QED BY <2>1, <1>1, <1>2 DEF Known
<1>12. LogOK'
  <2>1. ASSUME NEW i \in 1 .. MaxFrame PROVE FrameOK(i, w[i])
    <3>1. \A f \in Known(i) : FrameOK(i, f)
      BY <1>0 DEF LogOK
    <3>2. FrameOK(i, TornFrame)
      <4>1. Len(TornFrame.ck) = 0
        BY <1>8, EmptySeq
      <4> QED BY <4>1, <1>5, <1>8 DEF FrameOK
    <3> QED BY <3>1, <3>2, <1>7
  <2>2. ASSUME NEW i \in 1 .. MaxFrame, NEW f, FrameOK(i, f) PROVE FrameOK(i, f)'
    BY <2>2, <1>1 DEF FrameOK, Frame
  <2>3. ASSUME NEW x, HeaderOK(x) PROVE HeaderOK(x)'
    BY <2>3, <1>1 DEF HeaderOK, Header
  <2>4. \A i \in 1 .. MaxFrame : \A f \in Known(i)' : FrameOK(i, f)'
    <3> TAKE i \in 1 .. MaxFrame
    <3> TAKE f \in Known(i)'
    <3>1. i \in 0 .. MaxFrame
      BY <1>5
    <3>2. f = w[i]
      BY <3>1, <1>11
    <3> QED BY <2>1, <2>2, <3>2
  <2>5. \A x \in Known(0)' : HeaderOK(x)'
    <3> TAKE x \in Known(0)'
    <3>1. x = w[0]
      BY <1>5, <1>11
    <3> QED BY <2>3, <3>1, <1>10
  <2> QED BY <2>4, <2>5 DEF LogOK
<1>13. Chained(w)
  BY <1>2, <1>12, LogChainedNext
<1>14. PICK K \in synced .. Len(hist) : hist[K] = Overlay(w, d, 1, RecoveredMx(w))
  <2>1. \A i \in 1 .. MaxFrame : w[i] \in Known(i) \/ w[i].pg = 0
    BY <1>7, <1>8
  <2>2. \A i \in 0 .. MaxFrame : pend[i] = {} => w[i] = b[i]
    BY <1>3, <1>6
  <2>3. \A p \in Page : dbPend[p] = {} => d[p] = dbDisk[p]
    BY <1>4
  <2> QED BY <2>1, <2>2, <2>3, <1>4, <1>9, <1>13, LossImage
<1>15. K \in Nat /\ LastIs(K)'
  <2>1. floor' <= synced
    <3>1. CASE pc = "down"
      <4>1. PICK u, v : u = floor /\ v = synced /\ u \in Nat /\ v \in Nat
        BY <1>5
      <4>2. Min({u, v}) <= v
        <5>1. CASE u <= v
          <6>1. Min({v, u}) = u
            BY <4>1, <5>1, SmallerOf
          <6>2. {u, v} = {v, u}
            OBVIOUS
          <6> QED BY <5>1, <6>1, <6>2
        <5>2. CASE v <= u
          <6>1. Min({u, v}) = v
            BY <4>1, <5>2, SmallerOf
          <6> QED BY <4>1, <6>1
        <5> QED BY <4>1, <5>1, <5>2
      <4>3. floor' = Min({u, v})
        BY <3>1, <4>1, <1>1
      <4> QED BY <4>1, <4>2, <4>3
    <3>2. CASE pc # "down"
      BY <3>2, <1>1, <1>5
    <3> QED BY <3>1, <3>2
  <2>2. floor' \in Nat
    <3>1. CASE pc = "down"
      <4>1. PICK u, v : u = floor /\ v = synced /\ u \in Nat /\ v \in Nat
        BY <1>5
      <4>2. Min({u, v}) = u \/ Min({u, v}) = v
        <5>1. u <= v => Min({v, u}) = u
          BY <4>1, SmallerOf
        <5>2. v <= u => Min({u, v}) = v
          BY <4>1, SmallerOf
        <5>3. {u, v} = {v, u} /\ (u <= v \/ v <= u)
          BY <4>1
        <5> QED BY <5>1, <5>2, <5>3
      <4> QED BY <3>1, <4>1, <4>2, <1>1
    <3>2. CASE pc # "down"
      BY <3>2, <1>1, <1>5
    <3> QED BY <3>1, <3>2
  <2>3. K \in Nat /\ K >= floor'
    BY <2>1, <2>2, <1>5
  <2> QED BY <2>3, <1>1, <1>14 DEF LastIs
<1>16. floor' \in 1 .. Len(hist)
  <2>1. CASE pc = "down"
    <3>1. PICK u, v : u = floor /\ v = synced /\ u \in Nat /\ v \in Nat
      BY <1>5
    <3>2. Min({u, v}) = u \/ Min({u, v}) = v
      <4>1. u <= v => Min({v, u}) = u
        BY <3>1, SmallerOf
      <4>2. v <= u => Min({u, v}) = v
        BY <3>1, SmallerOf
      <4>3. {u, v} = {v, u} /\ (u <= v \/ v <= u)
        BY <3>1
      <4> QED BY <4>1, <4>2, <4>3
    <3>3. floor' = floor \/ floor' = synced
      BY <2>1, <3>1, <3>2, <1>1
    <3> QED BY <3>3, <1>5
  <2>2. CASE pc # "down"
    BY <2>2, <1>1, <1>5
  <2> QED BY <2>1, <2>2
<1>17. /\ live' \in IndexHdr /\ h' \in IndexHdr /\ nBackfill' \in Slot
       /\ wc' \in WalObject /\ call' \in Call /\ pc' \in PCs
       /\ DOMAIN pager' = {"img", "dirty", "modified", "savepoint", "sp"}
       /\ pager'.img \in Image /\ pager'.dirty \in SUBSET Page /\ pager'.modified \in BOOLEAN
       /\ pager'.savepoint = FALSE /\ pager'.sp = NoSavepoint
       /\ \A p \in Page : pager'.img[p] = 0
       /\ SyncInv' /\ RestInv' /\ LiveInv' /\ EndInv' /\ ChainInv' /\ PagerInv' /\ FreshInv'
       /\ ListInv' /\ StaleInv'
       /\ Mx' = Top' /\ (InLog' <=> Top' > 0)
  BY <1>1, DownFacts
<1>18. Types'
  <2>1. wal' = [i \in Slot |-> wal'[i]] /\ pend' = [i \in Slot |-> pend'[i]]
    BY <1>1, <1>2, <1>3
  <2>2. d \in [Page -> Val \cup {Torn}]
    <3>1. \A p \in Page : dbDisk[p] \in Val \cup {Torn} /\ dbPend[p] \in SUBSET Val
      BY <1>0 DEF Types
    <3>2. \A p \in Page : d[p] \in Val \cup {Torn}
      BY <3>1, <1>4
    <3> QED BY <3>2, <1>4
  <2>3. dbPend' \in [Page -> SUBSET Val] /\ nCrash' \in Nat
    BY <1>1, <1>5
  <2> QED BY <2>1, <2>2, <2>3, <1>0, <1>1, <1>2, <1>16, <1>17 DEF Types
<1>19. Values'
  BY <1>0, <1>1, <1>5, <1>17 DEF Values
<1>20. Top' = RecoveredMx(w) /\ Top' \in Slot /\ Top' \in Nat
  <2>1. RecoveredMx(w) \in Slot
    BY RecFacts
  <2> QED BY <2>1, <1>2, <1>5 DEF Top, Slot
<1>21. Classified'
  <2> SUFFICES ASSUME w[0].ok \/ w[0].nCkpt > 0, NEW i \in 1 .. MaxFrame,
                      CommitOf(w[i], w[0].salt, w[0].nCkpt)
               PROVE  i <= Top' \/ Dead(w[i], i)'
    <3>1. \A i \in 1 .. MaxFrame : i \in 0 .. MaxFrame
      BY <1>5
    <3> QED BY <3>1, <1>2, <1>11 DEF Classified
  <2> SUFFICES ASSUME ~Dead(w[i], i)' PROVE i <= Top'
    OBVIOUS
  <2>1. \A j \in 1 .. i : Own(w[j], j) /\ Covers(w[i], w[j], j)
    <3> TAKE j \in 1 .. i
    <3>1. j \in 0 .. MaxFrame
      BY <1>5
    <3>2. \E g \in Known(j)' : Own(g, j) /\ Covers(w[i], g, j)
      BY DEF Dead
    <3> QED BY <3>1, <3>2, <1>11
  <2>2. w[i].salt = w[0].salt /\ w[i].ck[1] = <<w[0].salt, w[0].nCkpt>> /\ w[i].commit
    BY DEF CommitOf
  <2>3. CASE w[0].ok
    <3>1. i \in ValidFrames(w)
      BY <2>1, <2>2, <2>3, <1>13, ChainValid
    <3> QED BY <2>2, <3>1, <1>20, RecFacts
  <2>4. CASE ~w[0].ok
    <3>1. PICK x : x = [w EXCEPT ![0].ok = TRUE]
      OBVIOUS
    <3>2. 0 \in Slot /\ w[0] \in Header
      BY <1>5, <1>10 DEF Slot, HeaderOK
    <3>3. x[0].ok /\ x[0].salt = w[0].salt /\ x[0].nCkpt = w[0].nCkpt
      BY <3>1, <3>2, <1>3 DEF Header
    <3>4. \A j \in 1 .. MaxFrame : x[j] = w[j]
      <4>1. \A j \in 1 .. MaxFrame : j \in Slot /\ j # 0
        BY <1>5 DEF Slot
      <4> QED BY <3>1, <4>1, <1>3
    <3>5. Chained(x)
      BY <3>3, <3>4, <1>13 DEF Chained
    <3>6. \A j \in 1 .. i : x[j] = w[j]
      BY <3>4, <1>5
    <3>7. x[i] = w[i]
      BY <3>4
    <3>8. \A j \in 1 .. i : Own(x[j], j) /\ Covers(x[i], x[j], j)
      BY <2>1, <3>6, <3>7
    <3>9. x[i].salt = x[0].salt /\ x[i].ck[1] = <<x[0].salt, x[0].nCkpt>> /\ x[i].commit
      BY <2>2, <3>3, <3>7
    <3>10. i \in ValidFrames(x)
      BY <3>3, <3>5, <3>8, <3>9, ChainValid
    <3>11. i <= RecoveredMx(x) /\ RecoveredMx(x) \in Slot
      BY <3>9, <3>10, RecFacts
    <3>12. RecoveredMx(x) > 0
      BY <3>11, <1>5 DEF Slot
    <3>13. RevivedLog'
      BY <2>4, <3>1, <3>12, <1>2 DEF RevivedLog
    <3> QED BY <3>13
  <2> QED BY <2>3, <2>4
<1>22. LogInv'
  <2> SUFFICES ASSUME InLog' PROVE LogInv'
    BY DEF LogInv
  <2>1. PICK m \in Nat : m = Top' /\ m > 0 /\ m \in Slot
    BY <1>17, <1>20
  <2>2. m \in ValidFrames(w) /\ w[m].commit
    BY <2>1, <1>20, RecFacts
  <2>3. wal'[0].ok
    BY <2>2, <1>2, ValidFacts
  <2>4. \A i \in 0 .. m : i \in 0 .. MaxFrame
    BY <2>1, <1>5 DEF Slot
  <2>5. OnDisk(m)'
    <3>1. \A i \in 0 .. m : pend'[i] = {} /\ \A a \in bases' : a[i] = wal'[i]
      BY <2>4, <1>1, <1>11
    <3>2. \A p \in Page : dbPend'[p] = {} /\ dbDisk'[p] = db'[p]
      BY <1>1
    <3> QED BY <2>2, <3>1, <3>2, <1>2 DEF OnDisk
  <2>6. Images(m, m, K)'
    <3>1. hist'[K] = Img(m)'
      BY <2>1, <1>1, <1>2, <1>14, <1>20 DEF Img
    <3>2. K \in synced' .. K
      BY <1>1, <1>5, <1>15
    <3>3. \A i \in m .. m : i = m
      BY <2>1
    <3> QED BY <3>1, <3>2, <3>3 DEF Images
  <2>7. m \in 0 .. m /\ Mx' = m
    BY <2>1, <1>17
  <2> QED BY <2>3, <2>5, <2>6, <2>7, <1>15 DEF LogInv
<1>23. DbInv'
  <2> SUFFICES ASSUME ~InLog' PROVE DbInv'
    BY DEF DbInv
  <2>1. Top' = 0
    BY <1>17, <1>20
  <2>2. Settled'
    BY <1>1 DEF Settled
  <2>3. Overlay(w, d, 1, RecoveredMx(w)) = d
    <3>1. Overlay(w, d, 1, 0) = d
      BY <1>4, OverlayEmpty
    <3> QED BY <3>1, <2>1, <1>20
  <2>4. hist'[K] = db'
    BY <2>3, <1>1, <1>2, <1>14
  <2>5. pend'[0] = {}
    BY <1>5, <1>11
  <2>6. Retired(w)'
    <3>1. \A i \in 1 .. MaxFrame : pend'[i] = {}
      <4>1. \A i \in 1 .. MaxFrame : i \in 0 .. MaxFrame
        BY <1>5
      <4> QED BY <4>1, <1>11
    <3> QED BY <3>1, <2>3, <1>2 DEF Retired
  <2>7. \A a \in bases' : a = w
    BY <1>1, <1>2
  <2> QED BY <2>1, <2>2, <2>4, <2>5, <2>6, <2>7, <1>1, <1>15 DEF DbInv
<1> QED BY <1>12, <1>17, <1>18, <1>19, <1>21, <1>22, <1>23 DEF IInv

-----------------------------------------------------------------------------
(* The theorems                                                             *)

\* Nothing happens.
LEMMA StutterStep == IInv /\ UNCHANGED vars => IInv'
<1> SUFFICES ASSUME IInv, UNCHANGED vars PROVE IInv'
  OBVIOUS
<1>1. /\ UNCHANGED <<wal, bases, pend, db, dbDisk, dbPend, live, nBackfill, h, wc, pager, call>>
      /\ UNCHANGED <<pc, hist, acked, synced, floor, nWrite, nSalt, nCrash, sc>>
  BY DEF vars
<1>2. Types' /\ LogOK' /\ Values'
  BY <1>1 DEF IInv, Types, LogOK, Values, Known, FrameOK, HeaderOK, End, Writing
<1>3. /\ Top' = Top /\ Mx' = Mx /\ (InLog' <=> InLog) /\ (Writing' <=> Writing) /\ (InTrans' <=> InTrans)
      /\ End' = End /\ (Committed' <=> Committed) /\ (Pending' <=> Pending) /\ (Spilled' <=> Spilled)
      /\ Visible' = Visible /\ (Settled' <=> Settled) /\ (AllSynced' <=> AllSynced)
  BY <1>1 DEF Top, Mx, InLog, Writing, InTrans, End, Committed, Pending, Spilled, Visible, Settled, AllSynced
<1>4. Classified' /\ LogInv' /\ DbInv'
  <2>1. Classified'
    BY <1>1, FilesKept DEF IInv
  <2>2. \A m : Img(m)' = Img(m)
    BY <1>1 DEF Img, Overlay, FindFrame
  <2>3. \A K : LastIs(K)' <=> LastIs(K)
    BY <1>1 DEF LastIs
  <2>4. \A n : OnDisk(n) => OnDisk(n)'
    BY <1>1 DEF OnDisk, FindFrame
  <2>5. \A n, m, K : Images(n, m, K) => Images(n, m, K)'
    BY <1>1, <2>2 DEF Images
  <2>6. LogInv'
    <3> SUFFICES ASSUME InLog' PROVE LogInv'
      BY DEF LogInv
    <3>1. wal[0].ok /\ \E n \in 0 .. Mx : \E K \in Nat : LastIs(K) /\ OnDisk(n) /\ Images(n, Mx, K)
      BY <1>3 DEF IInv, LogInv
    <3>2. PICK n \in 0 .. Mx, K \in Nat : LastIs(K) /\ OnDisk(n) /\ Images(n, Mx, K)
      BY <3>1
    <3>3. PICK mx : mx = Mx
      OBVIOUS
    <3>4. LastIs(K)' /\ OnDisk(n)' /\ Images(n, mx, K)'
      BY <2>3, <2>4, <2>5, <3>2, <3>3
    <3>5. Images(n, Mx, K)' /\ n \in 0 .. Mx'
      BY <1>3, <3>2, <3>3, <3>4 DEF Images
    <3> QED BY <1>1, <3>1, <3>2, <3>4, <3>5 DEF LogInv
  <2>7. DbInv'
    <3> SUFFICES ASSUME ~InLog' PROVE DbInv'
      BY DEF DbInv
    <3>1. \A s, n : DeadUnder(s, n)' <=> DeadUnder(s, n)
      BY <1>1, DeadKept
    <3>2. \A b : Retired(b)' <=> Retired(b)
      BY <1>1 DEF Retired, RecoveredMx, ValidFrames, ChecksumAfter, Overlay, FindFrame
    <3>3. DbInv /\ ~InLog
      BY <1>3 DEF IInv
    <3> QED BY <1>1, <1>3, <2>3, <3>1, <3>2, <3>3 DEF DbInv
  <2> QED BY <2>1, <2>6, <2>7
<1>5. LiveInv' /\ SyncInv' /\ RestInv'
  BY <1>1, <1>3 DEF IInv, LiveInv, SyncInv, RestInv, Img
<1>6. EndInv' /\ ChainInv' /\ PagerInv' /\ FreshInv' /\ ListInv' /\ StaleInv'
  BY <1>1, <1>3 DEF IInv, EndInv, ChainInv, PagerInv, FreshInv, ListInv, StaleInv, Known
<1> QED BY <1>2, <1>4, <1>5, <1>6 DEF IInv

\* Every step of the specification keeps the invariant, one case per action.
LEMMA NextStep == IInv /\ [Next]_vars /\ ~RevivedLog' => IInv'
<1> SUFFICES ASSUME IInv, [Next]_vars, ~RevivedLog' PROVE IInv'
  OBVIOUS
<1>1. ~sc.savepoints /\ ~pager.savepoint
  BY DEF IInv, Types
<1>2. CASE UNCHANGED vars
  BY <1>2, StutterStep
<1>3. CASE RollbackToStart \/ OpenSavepoint \/ RollbackTo \/ Release
  BY <1>1, <1>3 DEF RollbackToStart, OpenSavepoint, RollbackTo, Release
<1>4. CASE BeginWrite \/ Commit \/ Rollback
  BY <1>4, BeginWriteStep, CommitStep, RollbackStep
<1>5. CASE \E p \in Page : WritePage(p) \/ Spill(p) \/ Backfill(p)
  BY <1>5, WritePageStep, SpillStep, BackfillStep
<1>6. CASE SyncHeader \/ WriteFrame \/ FramesWritten \/ RewriteChecksums
  BY <1>6, SyncHeaderStep, WriteFrameStep, FramesWrittenStep, RewriteChecksumsStep
<1>7. CASE SyncCommit \/ PublishSpill \/ PublishCommit
  BY <1>7, SyncCommitStep, PublishSpillStep, PublishCommitStep
<1>8. CASE \E after \in Afters : CkptBegin(after) \/ CkptNothing(after)
  BY <1>8, CkptBeginStep, CkptNothingStep
<1>9. CASE CkptInterrupt \/ CkptDone \/ CkptTruncate \/ CloseDelete
  BY <1>9, CkptInterruptStep, CkptDoneStep, CkptTruncateStep, CloseDeleteStep
<1>10. CASE Crash \/ PowerLoss \/ Recover
  BY <1>10, CrashStep, PowerLossStep, RecoverStep
<1> QED BY <1>2, <1>3, <1>4, <1>5, <1>6, <1>7, <1>8, <1>9, <1>10 DEF Next

LEMMA InvTypeOK == IInv => TypeOK
<1> SUFFICES ASSUME IInv PROVE TypeOK
  OBVIOUS
<1>0. Types /\ LiveInv /\ RestInv
  BY DEF IInv
<1>1. DOMAIN wal = Slot /\ DOMAIN pend = Slot /\ wal \in [Slot -> {wal[i] : i \in Slot}]
  BY <1>0 DEF Types
<1>2. live.mx \in Slot /\ h.mx \in Slot
  BY <1>0 DEF Types, IndexHdr
<1>3. nBackfill <= live.mx
  <2>1. CASE pc = "down"
    BY <2>1, <1>0 DEF RestInv, ZeroHdr
  <2>2. CASE pc # "down"
    BY <2>2, <1>0 DEF LiveInv
  <2> QED BY <2>1, <2>2
<1>4. pager.img \in [Page -> Val \cup {Torn}] /\ pager.sp.mods \subseteq Page
  BY <1>0 DEF Types, Image, NoSavepoint
<1>5. 1 <= synced /\ \A k \in 1 .. Len(hist) : hist[k] \in Image
  BY <1>0 DEF Types
<1> QED BY <1>0, <1>1, <1>2, <1>3, <1>4, <1>5 DEF Types, TypeOK

LEMMA InvCommitsDurable == IInv => CommitsDurable
<1> SUFFICES ASSUME IInv, pc # "down"
             PROVE  \E k \in acked .. Len(hist) : RecoveredImage(wal, db) = hist[k]
  BY DEF CommitsDurable
<1>0. Types /\ LiveInv
  BY DEF IInv
<1>1. acked \in Nat /\ Len(hist) \in Nat /\ acked <= Len(hist)
  BY <1>0, Commits
<1>2. RecoveredImage(wal, db) = Img(Top)
  BY DEF RecoveredImage, Img, Top
<1>3. CASE Pending
  <2>1. hist[Len(hist)] = Img(End) /\ Top = End
    BY <1>3, PendingFacts
  <2>2. Len(hist) \in acked .. Len(hist)
    BY <1>1
  <2> QED BY <1>2, <2>1, <2>2
<1>4. CASE ~Pending
  <2>1. Top = live.mx /\ Img(live.mx) = hist[acked]
    BY <1>0, <1>4 DEF LiveInv
  <2>2. acked \in acked .. Len(hist)
    BY <1>1
  <2> QED BY <1>2, <2>1, <2>2
<1> QED BY <1>3, <1>4

LEMMA InvPowerLossDurable == IInv => PowerLossDurable
<1> SUFFICES ASSUME IInv, pc = "down"
             PROVE  \E k \in floor .. Len(hist) : RecoveredImage(wal, db) = hist[k]
  BY DEF PowerLossDurable
<1>1. PICK K \in synced .. Len(hist) : K >= floor /\ hist[K] = Img(Top)
  BY DownImage
<1>2. floor \in Nat /\ synced \in Nat /\ Len(hist) \in Nat
  BY Numbers DEF IInv, Types
<1>3. K \in floor .. Len(hist)
  BY <1>1, <1>2
<1> QED BY <1>1, <1>3 DEF RecoveredImage, Img, Top

LEMMA InvHeaderMatchesLog == IInv => HeaderMatchesLog
<1> SUFFICES ASSUME IInv, pc \in {"idle", "write"}, live.mx > 0
             PROVE  RecoveredMx(wal) = live.mx /\ wal[0].salt = live.salt /\ wal[live.mx].ck = live.ck
  BY DEF HeaderMatchesLog
<1>1. pc # "down" /\ ~Pending
  BY DEF Pending, Committed, Writing
<1> QED BY <1>1 DEF IInv, LiveInv, Top

LEMMA InvReadsOwnWrites == IInv => ReadsOwnWrites
<1> SUFFICES ASSUME IInv PROVE ReadsOwnWrites
  OBVIOUS
<1>0. Types /\ LiveInv /\ EndInv /\ PagerInv
  BY DEF IInv
<1>1. pc = "idle" => Visible = hist[acked]
  BY <1>0 DEF LiveInv
<1>2. ASSUME pc = "write", NEW p \in Page \ pager.dirty,
             NEW i, i = (IF wc.readLock0 THEN 0 ELSE FindFrame(wal, p, wc.minFrame, h.mx))
      PROVE  (IF i = 0 THEN db[p] ELSE wal[i].val) = pager.img[p]
  <2>1. InTrans /\ End = h.mx
    BY <1>2 DEF InTrans, End, Writing
  <2>2. Overlay(wal, db, nBackfill + 1, h.mx)[p] = pager.img[p]
    BY <1>0, <1>2, <2>1 DEF PagerInv
  <2>3. FindFrame(wal, p, nBackfill + 1, h.mx) = i
    <3>1. CASE wc.readLock0
      <4>1. nBackfill = live.mx /\ h.mx = live.mx
        BY <1>0, <2>1, <3>1 DEF EndInv
      <4>2. nBackfill + 1 \in Nat /\ h.mx \in Nat /\ h.mx < nBackfill + 1
        <5>1. nBackfill \in Nat /\ h.mx \in Nat
          BY <1>0, Numbers
        <5> QED BY <4>1, <5>1
      <4>3. \A d : d = [q \in Page |-> d[q]] => FindFrame(wal, p, nBackfill + 1, h.mx) = 0
        BY <4>2, OverlayNone
      <4>4. db = [q \in Page |-> db[q]]
        BY <1>0, Shapes
      <4> QED BY <3>1, <4>3, <4>4, <1>2
    <3>2. CASE ~wc.readLock0
      BY <3>2, <1>0, <1>2, <2>1 DEF EndInv
    <3> QED BY <3>1, <3>2
  <2> QED BY <2>2, <2>3, <1>2 DEF Overlay
<1> QED BY <1>1, <1>2 DEF ReadsOwnWrites

\* The invariant, with every crash and power loss the specification allows but
\* the one that leaves a torn header with the identity of committed frames.
THEOREM InvHolds == Spec /\ ~sc.savepoints /\ []~RevivedLog => []IInv
<1>1. Init /\ ~sc.savepoints => IInv
  BY InitInv
<1>2. IInv /\ [Next]_vars /\ ~RevivedLog' => IInv'
  BY NextStep
<1> QED BY <1>1, <1>2, PTL DEF Spec

\* Every variable keeps its type; nothing is backfilled past the end of the log,
\* and the synced, acknowledged and started commits are nested.
THEOREM TypeCorrect == Spec /\ ~sc.savepoints /\ []~RevivedLog => []TypeOK
<1>1. IInv => TypeOK
  BY InvTypeOK
<1> QED BY <1>1, InvHolds, PTL

\* A process may die between any two writes of a spill, a commit, a checksum
\* rewrite, a restart or a checkpoint: walIndexRecover finds an image that a
\* commit wrote, and none older than the last one that returned.
THEOREM CommitsSurviveCrash == Spec /\ ~sc.savepoints /\ []~RevivedLog => []CommitsDurable
<1>1. IInv => CommitsDurable
  BY InvCommitsDurable
<1> QED BY <1>1, InvHolds, PTL

\* A power loss may keep any subset of the unsynced writes and tear the others:
\* walIndexRecover finds a committed image, none older than the last synced one.
THEOREM CommitsSurvivePowerLoss == Spec /\ ~sc.savepoints /\ []~RevivedLog => []PowerLossDurable
<1>1. IInv => PowerLossDurable
  BY InvPowerLossDurable
<1> QED BY <1>1, InvHolds, PTL

\* Between calls a recovery would rebuild the wal-index header that is live,
\* whatever the log was spilled, overwritten, restarted or truncated to.
THEOREM LiveHeaderRecovers == Spec /\ ~sc.savepoints /\ []~RevivedLog => []HeaderMatchesLog
<1>1. IInv => HeaderMatchesLog
  BY InvHeaderMatchesLog
<1> QED BY <1>1, InvHolds, PTL

\* sqlite3WalRead gives a transaction its own spilled and overwritten pages, and
\* between transactions the last commit.
THEOREM TransactionReadsItself == Spec /\ ~sc.savepoints /\ []~RevivedLog => []ReadsOwnWrites
<1>1. IInv => ReadsOwnWrites
  BY InvReadsOwnWrites
<1> QED BY <1>1, InvHolds, PTL
=============================================================================
