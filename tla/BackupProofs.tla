---------------------------- MODULE BackupProofs ----------------------------
(***************************************************************************)
(* Theorems about Backup: the types, that no change of the source is        *)
(* missed, and that the destination is what it was or one committed image,  *)
(* for any page sizes, files, numbers of backups, transactions and faults.  *)
(***************************************************************************)
EXTENDS Backup, BoundedSets, SequenceTheorems, TLAPS

-----------------------------------------------------------------------------
(* The inductive invariant *)

SrcSet == [hist : Seq(Image), view : Image, seen : Nat,
           trans : {"none", "read", "write"}, txn : 0 .. sc.txns,
           dirty : SUBSET (1 .. sc.maxPage), journal : SUBSET (1 .. sc.maxPage),
           synced : SUBSET (1 .. sc.maxPage), spilled : BOOLEAN]
BkSet == [state : {"none", "open", "closed"}, iNext : 1 .. sc.maxPage + 1,
          rc : {"OK", "BUSY", "IOERR", "DONE"}, bDestLocked : BOOLEAN,
          isAttached : BOOLEAN]
DestPages == (1 .. 2 * sc.maxPage) \cup (1 .. sc.nDest)
DestSet == [orig : Image, file : Image, disk : Image, img : Image,
            dirty : SUBSET DestPages, journal : SUBSET (1 .. sc.nDest),
            reader : {"new", "on", "left"},
            at : {"idle", "commit", "extra", "cut", "sync", "final", "trunc"},
            close : BOOLEAN, copied : Nat]

ImageOK(img) == img \in Image /\ Len(img) \in 1 .. sc.maxPage /\ Len(img) # SrcPending

\* The source pager: what it knows of the last transaction it saw, and which
\* pages a rollback has to put back.
Clean(s) == s.dirty = {} /\ ~s.spilled
SrcOK(s) ==
  /\ s \in SrcSet
  /\ s.seen \in 1 .. Len(s.hist) /\ s.synced \subseteq s.journal
  /\ ImageOK(s.view) /\ \A k \in 1 .. Len(s.hist) : ImageOK(s.hist[k])
  /\ s.journal \subseteq 1 .. Len(s.hist[s.seen])
  /\ s.dirty \cap (1 .. Len(s.hist[s.seen])) \subseteq s.journal
  /\ Clean(s) => s.view = s.hist[s.seen]
  /\ s.trans # "write" => Clean(s) /\ s.journal = {}
  /\ sc.mode = "MEMORY" => ~s.spilled
  /\ sc.mode # "DELETE" => s.synced = {}

\* Page p of img is in the destination's cache, marked as changed.
Current(d, img, p) ==
  \A u \in Units(p, sc.srcSz) : PageOf(u, sc.destSz) # DestPending =>
    /\ u \in DOMAIN d.img /\ d.img[u][1] = img[p][1]
    /\ PageOf(u, sc.destSz) \in d.dirty

\* Page p of img is in file f, whole, or but for the page with the pending byte.
Has(f, img, p) ==
  \A u \in Units(p, sc.srcSz) : u \in DOMAIN f /\ f[u][1] = img[p][1]
HasBut(f, img, p) ==
  \A u \in Units(p, sc.srcSz) : PageOf(u, sc.destSz) # DestPending =>
    u \in DOMAIN f /\ f[u][1] = img[p][1]

Going(k) == k.state # "closed" /\ ~isFatalError(k.rc)

BkOK(k, d) ==
  /\ k \in BkSet
  /\ k.isAttached => k.state = "open" /\ k.bDestLocked
  /\ k.bDestLocked => k.state # "none"
  /\ k.state = "none" => k.rc = "OK"
  /\ k.rc = "DONE" => k.bDestLocked
  /\ Going(k) /\ ~k.isAttached /\ d.at = "idle" => k.iNext = 1

\* What a backup has copied is what the source's pager has, or would have
\* after a rollback.
CopyOK(s, k, d) ==
  Going(k) /\ d.at = "idle" =>
    /\ \A p \in Used(s.view) \ s.dirty : p < k.iNext => Current(d, s.view, p)
    /\ sc.mode # "WAL" =>
         \A p \in Used(s.hist[s.seen]) \ s.synced :
           p < k.iNext => Current(d, s.hist[s.seen], p)

\* Whatever part of file f is not as it was is in the journal.
Journaled(d, f) ==
  \A u \in DOMAIN d.orig : PageOf(u, sc.destSz) \notin d.journal \cup {DestPending} =>
    u \in DOMAIN f /\ f[u] = d.orig[u]

\* The cache of the destination holds the file and the pages written to it,
\* and it ends on a page that may be written.
CacheOK(d) ==
  /\ Len(d.img) >= Len(d.orig)
  /\ \A p \in d.dirty : p * sc.destSz <= Len(d.img)
  /\ \A p \in Nat \ {0} : p * sc.destSz <= Len(d.img) => p \in DestPages

\* Before the commit of the destination: it can be rolled back.
OldOK(k, d) ==
  /\ DestPending \notin d.dirty
  /\ \A p \in d.dirty : p * sc.destSz <= Len(d.orig) => p \in d.journal
  /\ Journaled(d, d.file) /\ Journaled(d, d.disk)
  /\ d.dirty = {} => d.journal = {} /\ d.file = d.orig /\ d.disk = d.orig
  /\ ~k.bDestLocked => d.dirty = {} /\ d.at = "idle"
  /\ Going(k) /\ d.at \in {"idle", "commit"} =>
       d.file = d.orig /\ d.disk = d.orig /\ CacheOK(d)
  /\ k.rc # "DONE" /\ d.at # "trunc"

\* The steps of the commit.
TailSafe(d, n) ==
  \A u \in DOMAIN d.orig : u > n => PageOf(u, sc.destSz) \in d.journal \cup {DestPending}
CommitOK(s, k, d) ==
  /\ k.state = "open" /\ k.rc = "OK" /\ k.bDestLocked /\ s.trans = "read"
  /\ \A p \in Used(s.view) : HasBut(d.img, s.view, p)
  /\ d.at # "trunc" => d.dirty # {}
  /\ d.at = "commit" => \A p \in Used(s.view) : Current(d, s.view, p)
  /\ d.at = "extra" => \A p \in Used(s.view) : HasBut(d.file, s.view, p)
  /\ d.at \in {"extra", "cut"} =>
       Smaller /\ TailSafe(d, sc.srcSz * Len(s.view)) /\ Len(d.file) >= Len(d.orig)
  /\ d.at \in {"cut", "sync", "final"} => \A p \in Used(s.view) : Has(d.file, s.view, p)
  /\ d.at \in {"sync", "final"} =>
       Len(IF Smaller THEN d.file ELSE d.img) = sc.srcSz * Len(s.view)
  /\ d.at = "final" => d.disk = d.file

\* After it, the destination is a committed image.
NewOK(s, k, d) ==
  LET img == s.hist[d.copied] IN
  /\ d.copied \in 1 .. Len(s.hist) /\ d.dirty = {} /\ d.at \in {"idle", "trunc"}
  /\ \A p \in Used(img) : Has(d.file, img, p) /\ Has(d.disk, img, p)
  /\ k.bDestLocked
  /\ d.at = "trunc" => /\ d.disk = d.file /\ d.copied = s.seen
                       /\ Len(IF Smaller THEN d.file ELSE d.img) = sc.srcSz * Len(img)
  /\ d.at = "idle" => k.rc = "DONE" \/ k.state = "closed"
  /\ d.at = "idle" /\ k.state = "open" => Len(d.file) = sc.srcSz * Len(img)

SameFile(d) ==
  /\ Len(d.file) = Len(d.orig)
  /\ \A u \in DOMAIN d.orig : PageOf(u, sc.destSz) # DestPending => d.file[u] = d.orig[u]

Good(s, k, d) ==
  /\ d \in DestSet /\ Len(d.orig) = sc.nDest * sc.destSz
  /\ BkOK(k, d) /\ CopyOK(s, k, d)
  /\ d.copied = 0 /\ k.state # "closed" => OldOK(k, d)
  /\ d.copied = 0 /\ k.state = "closed" => SameFile(d) /\ d.at = "idle"
  /\ d.copied # 0 => NewOK(s, k, d)
  /\ d.at # "idle" => CommitOK(s, k, d)

IInv ==
  /\ sc \in Scenarios /\ faulty \in BOOLEAN /\ SrcOK(src)
  /\ bk \in [Bk -> BkSet] /\ dst \in [Bk -> DestSet]
  /\ \A b \in Bk : Good(src, bk[b], dst[b])
  /\ \A b, c \in Bk : b # c => dst[b].at = "idle" \/ dst[c].at = "idle"

-----------------------------------------------------------------------------
(* Sizes and files *)

\* The page a unit lies on, for either page size.
LEMMA PageFacts ==
  ASSUME NEW sz \in {1, 2}, NEW u \in Nat \ {0}
  PROVE  /\ PageOf(u, sz) \in Nat \ {0} /\ u \in Units(PageOf(u, sz), sz)
         /\ \A q \in Nat : u \in Units(q, sz) => q = PageOf(u, sz)
         /\ PageOf(u, sz) <= u /\ u <= PageOf(u, sz) * sz
<1>1. CASE sz = 1
  BY <1>1 DEF PageOf, Units
<1>2. CASE sz = 2
  BY <1>2 DEF PageOf, Units
<1> QED BY <1>1, <1>2

\* What a scenario is, and where its pending byte lies.
LEMMA ScFacts ==
  ASSUME sc \in Scenarios
  PROVE  /\ sc.srcSz \in {1, 2} /\ sc.destSz \in {1, 2} /\ sc.maxPage \in Nat \ {0}
         /\ sc.nSrc \in 1 .. sc.maxPage /\ sc.nSrc # SrcPending /\ sc.nDest \in Nat
         /\ sc.header \in Nat /\ sc.txns \in 0 .. MaxTxn /\ sc.steps \in SUBSET Nat
         /\ sc.mode \in {"DELETE", "WAL", "MEMORY"} /\ sc.faults \in BOOLEAN
         /\ PendingByte \in Nat /\ PendingByte >= 2
         /\ SrcPending \in Nat /\ SrcPending >= 2 /\ DestPending \in Nat \ {0}
         /\ SrcPending * sc.srcSz = PendingByte + sc.srcSz
         /\ DestPending * sc.destSz = PendingByte + sc.destSz
<1>1. /\ sc.srcSz \in {1, 2} /\ sc.destSz \in {1, 2} /\ sc.maxPage \in Nat
      /\ sc.nSrc \in (1 .. sc.maxPage) \ {PENDING_BYTE_PAGE(sc.srcSz)} /\ sc.nDest \in Nat
      /\ sc.header \in Nat /\ sc.txns \in 0 .. MaxTxn /\ sc.steps \in SUBSET Nat
      /\ sc.mode \in {"DELETE", "WAL", "MEMORY"} /\ sc.faults \in BOOLEAN
  BY BackupAssumption DEF ScenarioType
<1>2. PendingByte \in Nat /\ PendingByte >= 2 /\ PendingByte % 2 = 0
  BY BackupAssumption
<1>3. ASSUME NEW sz \in {1, 2}
      PROVE  /\ PENDING_BYTE_PAGE(sz) \in Nat /\ PENDING_BYTE_PAGE(sz) >= 2
             /\ PENDING_BYTE_PAGE(sz) * sz = PendingByte + sz
  <2>1. CASE sz = 1
    BY <1>2, <2>1 DEF PENDING_BYTE_PAGE
  <2>2. CASE sz = 2
    BY <1>2, <2>2 DEF PENDING_BYTE_PAGE
  <2> QED BY <2>1, <2>2
<1>4. SrcPending = PENDING_BYTE_PAGE(sc.srcSz) /\ DestPending = PENDING_BYTE_PAGE(sc.destSz)
  BY DEF SrcPending, DestPending
<1> QED BY <1>1, <1>2, <1>3, <1>4

\* A file of n units.
LEMMA FileOf ==
  ASSUME NEW n \in Nat, NEW f \in [1 .. n -> Content]
  PROVE  f \in Image /\ Len(f) = n /\ DOMAIN f = 1 .. n
BY DEF Image

\* An image is a file: an array of units.
LEMMA FileFacts ==
  ASSUME NEW f \in Image
  PROVE  /\ Len(f) \in Nat /\ DOMAIN f = 1 .. Len(f)
         /\ \A u \in DOMAIN f : f[u] \in Content
         /\ f = [u \in DOMAIN f |-> f[u]]
BY DEF Image

\* What the pages and units of an image contain.
LEMMA ContentFacts ==
  ASSUME NEW x \in Content
  PROVE  x[1] \in Version /\ x[2] \in Nat
BY DEF Content

\* A hole of a file reads as zeros.
LEMMA ZeroType == Zero \in Content
BY BackupAssumption DEF Zero, Content, Version, Old

\* A unit of an image belongs to one page of it.
LEMMA UnitFacts ==
  ASSUME sc \in Scenarios, NEW img \in Image, NEW p \in 1 .. Len(img),
         NEW u \in Units(p, sc.srcSz)
  PROVE  /\ u \in Nat \ {0} /\ PageOf(u, sc.srcSz) = p
         /\ Unit(img, u) \in Content /\ Unit(img, u)[1] = img[p][1]
<1>1. sc.srcSz \in {1, 2}
  BY ScFacts
<1>2. u \in Nat \ {0}
  BY <1>1 DEF Units
<1>3. PageOf(u, sc.srcSz) = p
  <2>1. p \in Nat
    BY FileFacts
  <2> QED BY <1>1, <1>2, <2>1, PageFacts
<1>4. img[p] \in Content
  BY FileFacts
<1>5. img[p][1] \in Version /\ img[p][2] \in Nat
  BY <1>4, ContentFacts
<1>6. Unit(img, u) = <<img[p][1], IF u = 1 THEN img[p][2] ELSE 0>>
  BY <1>3 DEF Unit
<1>7. Unit(img, u) \in Content
  BY <1>5, <1>6 DEF Content
<1> QED BY <1>2, <1>3, <1>6, <1>7

-----------------------------------------------------------------------------
(* Steps *)

\* The invariant in the next state, from its parts.
LEMMA StepFacts ==
  ASSUME sc \in Scenarios, sc' = sc, faulty' \in BOOLEAN, SrcOK(src'),
         bk' \in [Bk -> BkSet], dst' \in [Bk -> DestSet],
         \A b \in Bk : Good(src', bk'[b], dst'[b]),
         \A b, c \in Bk : b # c => dst'[b].at = "idle" \/ dst'[c].at = "idle"
  PROVE  IInv'
<1>1. SrcOK(src)'
  BY DEF SrcOK, SrcSet, ImageOK, Clean, SrcPending
<1>2. ASSUME NEW b \in Bk PROVE Good(src, bk[b], dst[b])'
  <2>1. SrcPending' = SrcPending /\ DestPending' = DestPending /\ (Smaller' <=> Smaller)
    BY DEF SrcPending, DestPending, Smaller
  <2>2. dst'[b] \in DestSet'
    BY DEF DestSet, DestPages
  <2>3. BkOK(bk'[b], dst'[b]) => BkOK(bk[b], dst[b])'
    BY DEF BkOK, BkSet, Going
  <2>4. CopyOK(src', bk'[b], dst'[b]) => CopyOK(src, bk[b], dst[b])'
    BY <2>1 DEF CopyOK, Going, Current, Used
  <2>5. OldOK(bk'[b], dst'[b]) => OldOK(bk[b], dst[b])'
    BY <2>1 DEF OldOK, Journaled, Going, CacheOK, DestPages
  <2>6. NewOK(src', bk'[b], dst'[b]) => NewOK(src, bk[b], dst[b])'
    BY <2>1 DEF NewOK, Has, Used
  <2>7. SameFile(dst'[b]) => SameFile(dst[b])'
    BY <2>1 DEF SameFile
  <2>8. CommitOK(src', bk'[b], dst'[b]) => CommitOK(src, bk[b], dst[b])'
    BY <2>1 DEF CommitOK, HasBut, Has, Current, TailSafe, Used
  <2>9. Good(src', bk'[b], dst'[b])
    OBVIOUS
  <2> QED BY <2>2, <2>3, <2>4, <2>5, <2>6, <2>7, <2>8, <2>9 DEF Good
<1>3. bk' \in [Bk -> BkSet'] /\ dst' \in [Bk -> DestSet']
  BY DEF BkSet, DestSet, DestPages
<1> QED BY <1>1, <1>2, <1>3 DEF IInv

\* The fields of a backup, and of a destination.
LEMMA BkFields ==
  ASSUME NEW k \in BkSet
  PROVE  /\ k.state \in {"none", "open", "closed"} /\ k.iNext \in 1 .. sc.maxPage + 1
         /\ k.rc \in {"OK", "BUSY", "IOERR", "DONE"}
         /\ k.bDestLocked \in BOOLEAN /\ k.isAttached \in BOOLEAN
BY DEF BkSet

\* The types of the fields of a destination.
LEMMA DestFields ==
  ASSUME NEW d \in DestSet
  PROVE  /\ d.orig \in Image /\ d.file \in Image /\ d.disk \in Image /\ d.img \in Image
         /\ d.dirty \in SUBSET DestPages /\ d.journal \in SUBSET (1 .. sc.nDest)
         /\ d.reader \in {"new", "on", "left"} /\ d.close \in BOOLEAN /\ d.copied \in Nat
         /\ d.at \in {"idle", "commit", "extra", "cut", "sync", "final", "trunc"}
BY DEF DestSet

\* d2 is d, but for who reads it and whether the transaction is to be closed.
Alike(d, d2) ==
  /\ d2.orig = d.orig /\ d2.file = d.file /\ d2.disk = d.disk /\ d2.img = d.img
  /\ d2.dirty = d.dirty /\ d2.journal = d.journal /\ d2.at = d.at /\ d2.copied = d.copied

\* d2 is d after pages were written to the cache of the destination.
Extends(d, d2) ==
  /\ d2.orig = d.orig /\ d2.file = d.file /\ d2.disk = d.disk
  /\ d2.at = d.at /\ d2.copied = d.copied
  /\ Len(d2.img) >= Len(d.img) /\ d.dirty \subseteq d2.dirty /\ d.journal \subseteq d2.journal
  /\ DestPending \notin d2.dirty \ d.dirty
  /\ \A p \in d2.dirty \ d.dirty : /\ p * sc.destSz <= Len(d.orig) => p \in d2.journal
                                   /\ p * sc.destSz <= Len(d2.img)
  /\ \A p \in Nat \ {0} : p * sc.destSz <= Len(d2.img) =>
       p * sc.destSz <= Len(d.img) \/ p \in DestPages
  /\ d2.dirty = {} => d2.journal = d.journal

\* k2 is k after anything but sqlite3_backup_step() and finish().
Moves(k, k2) ==
  /\ k2 \in BkSet /\ k2.bDestLocked = k.bDestLocked /\ k2.isAttached = k.isAttached
  /\ k2.state = k.state \/ (k.state = "none" /\ k2.state = "open")
  /\ k2.rc = k.rc \/ (Going(k) /\ k.state = "open" /\ k2.rc \in {"BUSY", "IOERR"})
  /\ k2.iNext \in {k.iNext, 1}

\* s2 remembers what s does.
KeepsHist(s, s2) ==
  /\ Len(s.hist) \in Nat /\ Len(s2.hist) \in Nat /\ Len(s.hist) <= Len(s2.hist)
  /\ \A i \in 1 .. Len(s.hist) : s2.hist[i] = s.hist[i]

\* Nothing depends on who reads the destination.
LEMMA AlikeGood ==
  ASSUME NEW s, NEW k, NEW d, Good(s, k, d), NEW d2 \in DestSet, Alike(d, d2)
  PROVE  Good(s, k, d2)
BY DEF Good, Alike, BkOK, CopyOK, OldOK, CommitOK, NewOK, Journaled, TailSafe, Current,
       SameFile, CacheOK

\* A file of n pages ends with the last of them.
LEMMA OrigPages ==
  ASSUME sc \in Scenarios, NEW d \in DestSet, Len(d.orig) = sc.nDest * sc.destSz,
         NEW u \in DOMAIN d.orig
  PROVE  /\ u \in Nat \ {0} /\ PageOf(u, sc.destSz) \in Nat \ {0}
         /\ PageOf(u, sc.destSz) * sc.destSz <= Len(d.orig)
<1>1. sc.destSz \in {1, 2} /\ sc.nDest \in Nat /\ d.orig \in Image
  BY ScFacts, DestFields
<1>2. u \in 1 .. Len(d.orig) /\ Len(d.orig) \in Nat
  BY <1>1, FileFacts
<1>3. CASE sc.destSz = 1
  BY <1>1, <1>2, <1>3 DEF PageOf
<1>4. CASE sc.destSz = 2
  <2>1. u \in Nat \ {0} /\ u <= 2 * sc.nDest /\ Len(d.orig) = 2 * sc.nDest
    BY <1>1, <1>2, <1>4
  <2>2. PageOf(u, 2) \in Nat \ {0} /\ PageOf(u, 2) <= sc.nDest
    <3>1. \A v \in Nat \ {0}, n \in Nat : v <= 2 * n =>
            (v - 1) \div 2 + 1 \in Nat \ {0} /\ (v - 1) \div 2 + 1 <= n
      OBVIOUS
    <3> QED BY <1>1, <2>1, <3>1 DEF PageOf
  <2>3. PageOf(u, 2) * 2 <= 2 * sc.nDest
    BY <1>1, <2>2
  <2> QED BY <1>4, <2>1, <2>2, <2>3
<1> QED BY <1>1, <1>3, <1>4

\* The cache stays one when pages are written to it.
LEMMA CacheExtends ==
  ASSUME sc \in Scenarios, NEW d \in DestSet, CacheOK(d), NEW d2 \in DestSet, Extends(d, d2)
  PROVE  CacheOK(d2)
<1>1. Len(d.orig) \in Nat /\ Len(d.img) \in Nat /\ Len(d2.img) \in Nat
  BY DestFields, FileFacts
<1>2. ASSUME NEW p \in d.dirty PROVE p * sc.destSz <= Len(d2.img)
  <2>1. p \in Nat /\ sc.destSz \in Nat
    BY DestFields, ScFacts DEF DestPages
  <2>2. p * sc.destSz \in Nat /\ p * sc.destSz <= Len(d.img)
    BY <2>1 DEF CacheOK
  <2> QED BY <1>1, <2>2 DEF Extends
<1>3. \A p \in d2.dirty : p * sc.destSz <= Len(d2.img)
  BY <1>2 DEF Extends
<1>4. Len(d2.img) >= Len(d2.orig)
  BY <1>1 DEF CacheOK, Extends
<1>5. \A p \in Nat \ {0} : p * sc.destSz <= Len(d2.img) => p \in DestPages
  BY DEF CacheOK, Extends
<1> QED BY <1>3, <1>4, <1>5 DEF CacheOK

\* The invariant of one backup, between its steps: whatever was written to the
\* cache of the destination, only CopyOK remains to be shown.
LEMMA IdleGood ==
  ASSUME sc \in Scenarios, NEW s, NEW k, NEW d, Good(s, k, d), d.at = "idle",
         NEW s2, KeepsHist(s, s2), NEW k2, Moves(k, k2), NEW d2 \in DestSet, Extends(d, d2),
         Alike(d, d2) \/ (k.isAttached /\ Going(k)), CopyOK(s2, k2, d2)
  PROVE  Good(s2, k2, d2)
<1>1. BkOK(k, d) /\ k \in BkSet /\ k2 \in BkSet
  BY DEF Good, BkOK, Moves
<1>2. Going(k2) => Going(k)
  BY <1>1, BkFields DEF Going, isFatalError, Moves
<1>3. BkOK(k2, d2)
  <2>1. k2.isAttached => k2.state = "open" /\ k2.bDestLocked
    BY <1>1 DEF BkOK, Moves
  <2>2. k2.bDestLocked => k2.state # "none"
    BY <1>1 DEF BkOK, Moves
  <2>3. k2.state = "none" => k2.rc = "OK"
    BY <1>1 DEF BkOK, Moves
  <2>4. k2.rc = "DONE" => k2.bDestLocked
    BY <1>1 DEF BkOK, Moves
  <2>5. Going(k2) /\ ~k2.isAttached => k2.iNext = 1
    BY <1>1, <1>2 DEF BkOK, Moves
  <2> QED BY <1>1, <2>1, <2>2, <2>3, <2>4, <2>5 DEF BkOK
<1>4. d2.at = "idle" /\ d2.orig = d.orig /\ d2.copied = d.copied
  BY DEF Extends
<1>5. ASSUME d.copied # 0 PROVE Alike(d, d2) /\ NewOK(s2, k2, d2) /\ ~Going(k)
  <2>1. NewOK(s, k, d)
    BY <1>5 DEF Good
  <2>2. ~Going(k)
    BY <2>1 DEF NewOK, Going, isFatalError
  <2>3. Alike(d, d2) /\ k2.rc = k.rc
    BY <2>2 DEF Moves
  <2>4. k.rc = "DONE" \/ k.state = "closed"
    BY <2>1 DEF NewOK
  <2>5. k2.rc = "DONE" \/ k2.state = "closed"
    BY <2>3, <2>4 DEF Moves
  <2>6. k2.state = "open" => k.state = "open" \/ k.state = "none"
    BY DEF Moves
  <2>7. k.state # "none"
    BY <2>1, <1>1 DEF NewOK, BkOK
  <2>8. s2.hist[d.copied] = s.hist[d.copied] /\ d.copied \in 1 .. Len(s2.hist)
    BY <2>1 DEF NewOK, KeepsHist
  <2>9. k2.bDestLocked = k.bDestLocked
    BY DEF Moves
  <2> QED BY <1>4, <2>1, <2>2, <2>3, <2>5, <2>6, <2>7, <2>8, <2>9 DEF NewOK, Alike
<1>6. ASSUME d.copied = 0, k.state = "closed" PROVE SameFile(d2) /\ k2.state = "closed"
  <2>1. SameFile(d)
    BY <1>6 DEF Good
  <2> QED BY <1>6, <2>1 DEF SameFile, Extends, Moves
<1>7. ASSUME d.copied = 0, k.state # "closed" PROVE OldOK(k2, d2)
  <2>1. OldOK(k, d) /\ d \in DestSet
    BY <1>7 DEF Good
  <2>2. DestPending \notin d2.dirty
    BY <2>1 DEF OldOK, Extends
  <2>3. \A p \in d2.dirty : p * sc.destSz <= Len(d2.orig) => p \in d2.journal
    BY <2>1 DEF OldOK, Extends
  <2>4. Journaled(d2, d2.file) /\ Journaled(d2, d2.disk)
    BY <2>1 DEF OldOK, Extends, Journaled
  <2>5. d2.dirty = {} => d2.journal = {} /\ d2.file = d2.orig /\ d2.disk = d2.orig
    BY <2>1 DEF OldOK, Extends
  <2>6. ~k2.bDestLocked => d2.dirty = {}
    BY <2>1, <1>1 DEF OldOK, Moves, Alike, BkOK
  <2>7. ASSUME Going(k2) PROVE d2.file = d2.orig /\ d2.disk = d2.orig /\ CacheOK(d2)
    <3>1. d.file = d.orig /\ d.disk = d.orig /\ CacheOK(d)
      BY <1>2, <2>1, <2>7 DEF OldOK
    <3>2. d.orig \in Image /\ d.orig = d2.orig
      BY <2>1, DestFields DEF Extends
    <3>3. CacheOK(d2)
      BY <2>1, <3>1, CacheExtends
    <3> QED BY <3>1, <3>3 DEF Extends
  <2>8. k2.rc # "DONE"
    BY <2>1 DEF OldOK, Moves
  <2> QED BY <1>4, <2>2, <2>3, <2>4, <2>5, <2>6, <2>7, <2>8 DEF OldOK
<1>8. k.state = "closed" <=> k2.state = "closed"
  BY DEF Moves
<1> QED BY <1>3, <1>4, <1>5, <1>6, <1>7, <1>8 DEF Good

-----------------------------------------------------------------------------
(* Copying into the destination *)

\* w is d after sqlite3PagerWrite() on a set of its pages.
Written(d, pages, w) ==
  /\ w \in DestSet /\ Extends(d, w)
  /\ w.dirty = d.dirty \cup pages
  /\ \A p \in pages : p * sc.destSz <= Len(w.img)
  /\ \A u \in DOMAIN d.img : u \in DOMAIN w.img /\ w.img[u] = d.img[u]
  /\ pages = {} => Alike(d, w)

\* sqlite3PagerWrite() on a set of pages of the destination.
LEMMA WriteFacts ==
  ASSUME sc \in Scenarios, NEW d \in DestSet, Len(d.orig) = sc.nDest * sc.destSz,
         NEW pages \in SUBSET DestPages, DestPending \notin pages
  PROVE  /\ Written(d, pages, PagerWrite(d, pages))
         /\ \A p \in pages : p * sc.destSz <= Len(d.orig) =>
              p \in PagerWrite(d, pages).journal
<1> DEFINE D == sc.destSz
           orig == {p \in pages : p * D <= Len(d.orig)}
           L == {Len(d.img)} \cup {p * D : p \in pages}
           len == Max(L)
           img == [u \in 1 .. len |-> IF u <= Len(d.img) THEN d.img[u] ELSE Zero]
           w == PagerWrite(d, pages)
<1>1. /\ d.orig \in Image /\ d.file \in Image /\ d.disk \in Image /\ d.img \in Image
      /\ d.dirty \in SUBSET DestPages /\ d.journal \in SUBSET (1 .. sc.nDest)
  BY DEF DestSet
<1>2. w = [d EXCEPT !.journal = d.journal \cup orig, !.dirty = d.dirty \cup pages, !.img = img]
  BY DEF PagerWrite
<1>3. Len(d.img) \in Nat /\ D \in {1, 2} /\ sc.nDest \in Nat /\ sc.maxPage \in Nat
  BY <1>1, FileFacts, ScFacts
<1>4. len \in Nat /\ len \in L /\ len >= Len(d.img) /\ \A p \in pages : p * D <= len
  <2> DEFINE m == 2 * sc.maxPage
             n == Len(d.img) + 2 * m + 2 * sc.nDest
  <2>0. m \in Nat
    BY <1>3
  <2>1. n \in Nat /\ Len(d.img) <= n /\ 2 * m <= n /\ 2 * sc.nDest <= n
    <3> HIDE DEF m
    <3>1. \A x, y, z \in Nat : /\ x + 2 * y + 2 * z \in Nat /\ x <= x + 2 * y + 2 * z
                               /\ 2 * y <= x + 2 * y + 2 * z /\ 2 * z <= x + 2 * y + 2 * z
      OBVIOUS
    <3> QED BY <1>3, <2>0, <3>1
  <2>2. \A p \in pages : p * D \in 0 .. n
    <3> SUFFICES ASSUME NEW p \in pages PROVE p * D \in 0 .. n
      OBVIOUS
    <3>1. p \in Nat /\ (p <= m \/ p <= sc.nDest)
      BY <1>3 DEF DestPages
    <3>2. p * D \in Nat /\ p * D <= 2 * p
      BY <1>3, <3>1
    <3>3. 2 * p <= n
      <4> HIDE DEF n, m
      <4> QED BY <1>3, <2>0, <2>1, <3>1
    <3> HIDE DEF n, D
    <3> QED BY <2>1, <3>1, <3>2, <3>3
  <2>3. L \in SUBSET (0 .. n) /\ L # {}
    <3> HIDE DEF n
    <3> QED BY <1>3, <2>1, <2>2
  <2>4. Max(L) \in L /\ \A j \in L : j <= Max(L)
    <3> HIDE DEF L, n
    <3> QED BY <2>1, <2>3, MaxFacts, Zenon
  <2>5. \A j \in L : j <= len
    BY <2>4
  <2>6. len \in Nat /\ len \in L
    <3> HIDE DEF L, n
    <3>1. len \in L
      BY <2>4, Zenon
    <3>2. \A j \in 0 .. n : j \in Nat
      BY <2>1
    <3> HIDE DEF len
    <3> QED BY <2>3, <3>1, <3>2
  <2> HIDE DEF len
  <2> QED BY <2>5, <2>6
<1>11. \A p \in Nat \ {0} : p * D <= len => p * D <= Len(d.img) \/ p \in DestPages
  <2> SUFFICES ASSUME NEW p \in Nat \ {0}, p * D <= len, NEW q \in pages, len = q * D
               PROVE  p \in DestPages
    BY <1>4
  <2>1. q \in Nat /\ q \in DestPages
    BY <1>3 DEF DestPages
  <2>2. p <= q
    <3>1. CASE D = 1
      BY <2>1, <3>1
    <3>2. CASE D = 2
      <4>1. 2 * p <= 2 * q
        BY <2>1, <3>2
      <4> QED BY <2>1, <4>1
    <3> QED BY <1>3, <3>1, <3>2
  <2> QED BY <1>3, <2>1, <2>2 DEF DestPages
<1>12. pages = {} => len = Len(d.img)
  BY <1>4
<1> HIDE DEF len, L
<1>5. img \in Image /\ Len(img) = len /\ DOMAIN img = 1 .. len
  <2>1. \A u \in 1 .. len : u <= Len(d.img) => d.img[u] \in Content
    BY <1>1, <1>3, <1>4, FileFacts
  <2>2. img \in [1 .. len -> Content]
    BY <2>1, ZeroType
  <2> QED BY <1>4, <2>2, FileOf
<1>6. \A u \in DOMAIN d.img : u \in DOMAIN img /\ img[u] = d.img[u]
  BY <1>1, <1>3, <1>4, <1>5, FileFacts
<1>13. pages = {} => img = d.img
  <2> SUFFICES ASSUME pages = {} PROVE img = d.img
    OBVIOUS
  <2>1. DOMAIN d.img = 1 .. len /\ d.img = [u \in DOMAIN d.img |-> d.img[u]]
    BY <1>1, <1>12, FileFacts DEF Image
  <2> QED BY <1>3, <1>12, <2>1
<1> HIDE DEF img
<1>7. /\ w.orig = d.orig /\ w.file = d.file /\ w.disk = d.disk /\ w.reader = d.reader
      /\ w.at = d.at /\ w.close = d.close /\ w.copied = d.copied /\ w.img = img
      /\ w.dirty = d.dirty \cup pages /\ w.journal = d.journal \cup orig
  BY <1>2 DEF DestSet
<1>8. orig \in SUBSET (1 .. sc.nDest)
  <2> SUFFICES ASSUME NEW p \in orig PROVE p \in 1 .. sc.nDest
    OBVIOUS
  <2>1. p \in Nat \ {0} /\ p * D <= sc.nDest * D
    BY <1>3 DEF DestPages
  <2>2. CASE D = 1
    BY <1>3, <2>1, <2>2
  <2>3. CASE D = 2
    BY <1>3, <2>1, <2>3
  <2> QED BY <1>3, <2>2, <2>3
<1>9. w \in DestSet
  <2> DEFINE jj == d.journal \cup orig
             dd == d.dirty \cup pages
  <2>1. jj \in SUBSET (1 .. sc.nDest) /\ dd \in SUBSET DestPages /\ img \in Image
    BY <1>1, <1>5, <1>8
  <2>2. w = [d EXCEPT !.journal = jj, !.dirty = dd, !.img = img]
    BY <1>2
  <2> HIDE DEF jj, dd, w
  <2> QED BY <2>1, <2>2 DEF DestSet
<1>10. Extends(d, w)
  <2>1. DestPending \notin w.dirty \ d.dirty
    BY <1>7
  <2>2. \A p \in w.dirty \ d.dirty : p * D <= Len(d.orig) => p \in w.journal
    BY <1>7
  <2>3. w.dirty = {} => w.journal = d.journal
    BY <1>7
  <2>4. Len(w.img) >= Len(d.img)
    BY <1>4, <1>5, <1>7
  <2>5. \A p \in w.dirty \ d.dirty : p * D <= Len(w.img)
    BY <1>4, <1>5, <1>7
  <2>6. \A p \in Nat \ {0} : p * D <= Len(w.img) => p * D <= Len(d.img) \/ p \in DestPages
    BY <1>5, <1>7, <1>11
  <2> HIDE DEF w
  <2> QED BY <1>7, <2>1, <2>2, <2>3, <2>4, <2>5, <2>6 DEF Extends
<1>14. pages = {} => Alike(d, w)
  BY <1>7, <1>13 DEF Alike
<1>15. \A p \in pages : p * sc.destSz <= Len(d.orig) => p \in w.journal
  BY <1>7
<1>16. Len(w.img) = len /\ \A p \in pages : p * sc.destSz <= Len(w.img)
  BY <1>4, <1>5, <1>7
<1>17. \A u \in DOMAIN d.img : u \in DOMAIN w.img /\ w.img[u] = d.img[u]
  BY <1>6, <1>7
<1>18. w.dirty = d.dirty \cup pages
  BY <1>7
<1> HIDE DEF w
<1>19. Written(d, pages, w)
  BY <1>9, <1>10, <1>14, <1>16, <1>17, <1>18 DEF Written
<1> QED BY <1>15, <1>19 DEF w

\* r is d after pages of img were copied into its cache.
Copied(d, img, pages, r) ==
  /\ r \in DestSet /\ Extends(d, r)
  /\ \A p \in pages : Current(r, img, p)
  /\ \A p \in Nat \ {0}, v \in Image : p \notin pages /\ Current(d, v, p) => Current(r, v, p)
  /\ pages = {} => Alike(d, r)

\* backupOnePage(), whatever count the header is given.
LEMMA CopyUnitsFacts ==
  ASSUME sc \in Scenarios, NEW d \in DestSet, Len(d.orig) = sc.nDest * sc.destSz,
         NEW img \in Image, Len(img) <= sc.maxPage, NEW pages \in SUBSET (1 .. Len(img)),
         NEW header \in Content, header[1] = img[1][1]
  PROVE  Copied(d, img, pages, CopyUnits(d, img, pages, header))
<1> DEFINE D == sc.destSz
           in == {u \in UNION {Units(p, sc.srcSz) : p \in pages} : PageOf(u, D) # DestPending}
           wr == {PageOf(u, D) : u \in in}
           w == PagerWrite(d, wr)
           x == [u \in DOMAIN w.img |-> IF u \notin in THEN w.img[u]
                                        ELSE IF u = 1 THEN header ELSE Unit(img, u)]
           r == CopyUnits(d, img, pages, header)
<1>1. sc.srcSz \in {1, 2} /\ D \in {1, 2} /\ sc.maxPage \in Nat /\ Len(img) \in Nat
  BY ScFacts, FileFacts
<1>2. ASSUME NEW u \in in
      PROVE  \E p \in pages : u \in Units(p, sc.srcSz)
  OBVIOUS
<1>3. ASSUME NEW p \in pages, NEW u \in Units(p, sc.srcSz)
      PROVE  /\ u \in Nat \ {0} /\ u <= 2 * sc.maxPage /\ Unit(img, u) \in Content
             /\ Unit(img, u)[1] = img[p][1] /\ PageOf(u, sc.srcSz) = p
             /\ PageOf(u, D) \in Nat \ {0} /\ PageOf(u, D) <= u /\ u <= PageOf(u, D) * D
  <2>1. p \in 1 .. Len(img)
    OBVIOUS
  <2>2. u <= 2 * sc.maxPage
    BY <1>1, <2>1 DEF Units
  <2>3. /\ u \in Nat \ {0} /\ PageOf(u, sc.srcSz) = p
        /\ Unit(img, u) \in Content /\ Unit(img, u)[1] = img[p][1]
    BY <2>1, UnitFacts
  <2>4. PageOf(u, D) \in Nat \ {0} /\ PageOf(u, D) <= u /\ u <= PageOf(u, D) * D
    BY <1>1, <2>3, PageFacts
  <2> QED BY <2>2, <2>3, <2>4
<1>4. wr \in SUBSET DestPages /\ DestPending \notin wr
  <2>1. ASSUME NEW u \in in PROVE PageOf(u, D) \in DestPages /\ PageOf(u, D) # DestPending
    <3>1. PICK p \in pages : u \in Units(p, sc.srcSz)
      BY <1>2
    <3>2. u \in Nat \ {0} /\ u <= 2 * sc.maxPage /\ PageOf(u, D) \in Nat \ {0} /\ PageOf(u, D) <= u
      BY <1>3, <3>1
    <3>3. PageOf(u, D) \in 1 .. 2 * sc.maxPage
      BY <1>1, <3>2
    <3> QED BY <3>3 DEF DestPages
  <2> QED BY <2>1
<1>5. Written(d, wr, w)
  <2> HIDE DEF wr
  <2> QED BY <1>4, WriteFacts
<1>6. r = [w EXCEPT !.img = x]
  BY DEF CopyUnits
<1> HIDE DEF w
<1>7. w \in DestSet /\ w.img \in Image /\ DOMAIN w.img = 1 .. Len(w.img) /\ Len(w.img) \in Nat
  BY <1>5, DestFields, FileFacts DEF Written
<1>8. x \in Image /\ Len(x) = Len(w.img) /\ DOMAIN x = DOMAIN w.img
  <2>1. ASSUME NEW u \in DOMAIN w.img PROVE x[u] \in Content
    <3>1. CASE u \notin in
      BY <1>7, <3>1, FileFacts
    <3>2. CASE u \in in
      BY <1>2, <1>3, <3>2
    <3> QED BY <3>1, <3>2
  <2>2. x \in [1 .. Len(w.img) -> Content]
    BY <1>7, <2>1
  <2> HIDE DEF x
  <2> QED BY <1>7, <2>2, FileOf
<1>9. /\ r.orig = w.orig /\ r.file = w.file /\ r.disk = w.disk /\ r.at = w.at
      /\ r.copied = w.copied /\ r.img = x /\ r.dirty = w.dirty /\ r.journal = w.journal
  BY <1>6, <1>7 DEF DestSet
<1>10. r \in DestSet
  <2> HIDE DEF x, r
  <2> QED BY <1>6, <1>7, <1>8 DEF DestSet
<1>11. Extends(d, r)
  <2>1. Extends(d, w)
    BY <1>5 DEF Written
  <2> HIDE DEF x, r
  <2> QED BY <1>8, <1>9, <2>1 DEF Extends
<1>12. w.dirty = d.dirty \cup wr /\ \A p \in wr : p * D <= Len(w.img)
  BY <1>5 DEF Written
<1>13. ASSUME NEW p \in pages PROVE Current(r, img, p)
  <2> SUFFICES ASSUME NEW u \in Units(p, sc.srcSz), PageOf(u, D) # DestPending
               PROVE  u \in DOMAIN x /\ x[u][1] = img[p][1] /\ PageOf(u, D) \in w.dirty
    <3> HIDE DEF x, in, r
    <3> QED BY <1>9 DEF Current
  <2>1. u \in in /\ PageOf(u, D) \in wr
    OBVIOUS
  <2>2. /\ u \in Nat \ {0} /\ Unit(img, u)[1] = img[p][1] /\ PageOf(u, sc.srcSz) = p
        /\ u <= PageOf(u, D) * D /\ PageOf(u, D) \in Nat
    BY <1>3
  <2>3. PageOf(u, D) * D \in Nat /\ PageOf(u, D) * D <= Len(w.img)
    BY <1>1, <1>12, <2>1, <2>2
  <2>4. u \in DOMAIN w.img
    BY <1>7, <2>2, <2>3
  <2>5. u = 1 => p = 1
    <3>1. 1 \in Units(1, sc.srcSz) /\ PageOf(1, sc.srcSz) = 1
      <4>1. CASE sc.srcSz = 1
        BY <4>1 DEF Units, PageOf
      <4>2. CASE sc.srcSz = 2
        BY <4>2 DEF Units, PageOf
      <4> QED BY <1>1, <4>1, <4>2
    <3> QED BY <2>2, <3>1
  <2>6. x[u] = IF u = 1 THEN header ELSE Unit(img, u)
    BY <2>1, <2>4
  <2>7. x[u][1] = img[p][1]
    BY <2>2, <2>5, <2>6
  <2> QED BY <1>12, <2>1, <2>4, <2>7
<1>14. ASSUME NEW p \in Nat \ {0}, NEW v \in Image, p \notin pages, Current(d, v, p)
       PROVE  Current(r, v, p)
  <2> SUFFICES ASSUME NEW u \in Units(p, sc.srcSz), PageOf(u, D) # DestPending
               PROVE  u \in DOMAIN x /\ x[u][1] = v[p][1] /\ PageOf(u, D) \in w.dirty
    <3> HIDE DEF x, in, r
    <3> QED BY <1>9 DEF Current
  <2>1. u \in DOMAIN d.img /\ d.img[u][1] = v[p][1] /\ PageOf(u, D) \in d.dirty
    BY <1>14 DEF Current
  <2>2. u \in DOMAIN w.img /\ w.img[u] = d.img[u]
    BY <1>5, <2>1 DEF Written
  <2>3. u \notin in
    <3>1. SUFFICES ASSUME NEW q \in pages, u \in Units(q, sc.srcSz) PROVE FALSE
      BY <1>2
    <3>2. u \in Nat \ {0} /\ PageOf(u, sc.srcSz) = q
      BY <1>3, <3>1
    <3>3. p = PageOf(u, sc.srcSz)
      BY <1>1, <3>2, PageFacts
    <3> QED BY <3>2, <3>3, <1>14
  <2>4. x[u] = d.img[u]
    BY <2>2, <2>3
  <2> QED BY <1>12, <2>1, <2>2, <2>4
<1>15. pages = {} => Alike(d, r)
  <2> SUFFICES ASSUME pages = {} PROVE Alike(d, r)
    OBVIOUS
  <2>1. in = {} /\ wr = {}
    OBVIOUS
  <2>2. Alike(d, w)
    BY <1>5, <2>1 DEF Written
  <2>3. x = [u \in DOMAIN w.img |-> w.img[u]]
    BY <2>1
  <2>4. w.img = [u \in DOMAIN w.img |-> w.img[u]]
    BY <1>7, FileFacts
  <2> HIDE DEF x, r
  <2> QED BY <1>9, <2>2, <2>3, <2>4 DEF Alike
<1> HIDE DEF r
<1>16. Copied(d, img, pages, r)
  BY <1>10, <1>11, <1>13, <1>14, <1>15 DEF Copied
<1> QED BY <1>16 DEF r

\* backupOnePage() for pages of a whole image, in a step or in an update.
LEMMA OnePageFacts ==
  ASSUME sc \in Scenarios, NEW d \in DestSet, Len(d.orig) = sc.nDest * sc.destSz,
         NEW img, ImageOK(img), NEW pages \in SUBSET (1 .. Len(img)), NEW upd \in BOOLEAN
  PROVE  Copied(d, img, pages, backupOnePage(d, img, pages, upd))
<1> DEFINE header == IF upd THEN Unit(img, 1) ELSE <<img[1][1], Len(img)>>
<1>1. img \in Image /\ Len(img) \in Nat /\ Len(img) <= sc.maxPage /\ 1 \in 1 .. Len(img)
  BY FileFacts, ScFacts DEF ImageOK
<1>2. 1 \in Units(1, sc.srcSz)
  BY ScFacts DEF Units
<1>3. Unit(img, 1) \in Content /\ Unit(img, 1)[1] = img[1][1]
  BY <1>1, <1>2, UnitFacts
<1>4. img[1] \in Content
  BY <1>1, FileFacts
<1>5. img[1][1] \in Version
  BY <1>4, ContentFacts
<1>6. header \in Content /\ header[1] = img[1][1]
  <2>1. CASE upd
    BY <1>3, <2>1
  <2>2. CASE ~upd
    BY <1>1, <1>5, <2>2 DEF Content
  <2> QED BY <2>1, <2>2
<1>7. backupOnePage(d, img, pages, upd) = CopyUnits(d, img, pages, header)
  BY DEF backupOnePage
<1> HIDE DEF header
<1> QED BY <1>1, <1>6, <1>7, CopyUnitsFacts

-----------------------------------------------------------------------------
(* What the source tells the backups *)

\* Writing nothing.
LEMMA AlikeExtends ==
  ASSUME NEW d \in DestSet, NEW d2, Alike(d, d2)
  PROVE  Extends(d, d2)
<1>1. Len(d.img) \in Nat
  BY DestFields, FileFacts
<1> QED BY <1>1 DEF Alike, Extends

\* What is unchanged is alike, and has moved nowhere.
LEMMA AlikeSelf == \A d : Alike(d, d)
BY DEF Alike

\* A backup that is not attached, or was restarted, has copied nothing.
LEMMA FreshCopy ==
  ASSUME NEW s, SrcOK(s), NEW k, NEW d, Going(k) => k.iNext = 1
  PROVE  CopyOK(s, k, d)
<1>1. ImageOK(s.view) /\ ImageOK(s.hist[s.seen])
  BY DEF SrcOK
<1>2. \A p \in Used(s.view) \cup Used(s.hist[s.seen]) : ~(p < 1)
  BY <1>1, FileFacts DEF Used, ImageOK
<1> QED BY <1>2 DEF CopyOK

\* d2 and k2 are d and k after the backup was told of pages of img.
Told(k, d, img, pages, k2, d2) ==
  /\ Moves(k, k2) /\ k2.iNext = k.iNext /\ d2 \in DestSet /\ Extends(d, d2)
  /\ Alike(d, d2) \/ (k.isAttached /\ Going(k))
  /\ Going(k2) =>
       /\ \A p \in pages : p < k.iNext => Current(d2, img, p)
       /\ \A p \in Nat \ {0}, v \in Image : p \notin pages /\ Current(d, v, p) => Current(d2, v, p)

\* The parts of the invariant that concern one backup.
LEMMA BkParts ==
  ASSUME IInv, NEW b \in Bk
  PROVE  /\ sc \in Scenarios /\ SrcOK(src) /\ Good(src, bk[b], dst[b])
         /\ bk[b] \in BkSet /\ dst[b] \in DestSet /\ BkOK(bk[b], dst[b])
         /\ Len(dst[b].orig) = sc.nDest * sc.destSz /\ CopyOK(src, bk[b], dst[b])
BY DEF IInv, Good

\* A backup that is left alone.
LEMMA MovesSelf ==
  ASSUME NEW k \in BkSet
  PROVE  Moves(k, k)
BY DEF Moves

\* sqlite3BackupUpdate()
LEMMA UpdateFacts ==
  ASSUME IInv, ~InCall, NEW img, ImageOK(img), NEW pages \in SUBSET (1 .. Len(img)),
         Update(img, pages)
  PROVE  /\ bk' \in [Bk -> BkSet] /\ dst' \in [Bk -> DestSet] /\ faulty' \in BOOLEAN
         /\ \A b \in Bk : Told(bk[b], dst[b], img, pages, bk'[b], dst'[b])
<1>1. bk \in [Bk -> BkSet] /\ dst \in [Bk -> DestSet] /\ faulty \in BOOLEAN /\ sc \in Scenarios
  BY DEF IInv
<1>2. /\ faulty' \in BOOLEAN
      /\ \A b \in Bk : bk'[b] = bk[b] \/ (/\ bk'[b] = [bk[b] EXCEPT !.rc = "IOERR"]
                                          /\ \E p \in pages : Wants(b, p))
      /\ bk' = [b \in Bk |-> bk'[b]]
  <2>1. CASE UNCHANGED <<bk, faulty>>
    BY <1>1, <2>1
  <2>2. CASE \E c \in Bk : UpdateFails(c, pages)
    BY <1>1, <2>2 DEF UpdateFails
  <2> QED BY <2>1, <2>2 DEF Update
<1>3. dst' = [b \in Bk |-> backupOnePage(dst[b], img, {p \in pages : Wants(b, p)}, TRUE)]
  BY DEF Update, BackupUpdate
<1>4. ASSUME NEW b \in Bk
      PROVE  bk'[b] \in BkSet /\ dst'[b] \in DestSet
             /\ Told(bk[b], dst[b], img, pages, bk'[b], dst'[b])
  <2> DEFINE k == bk[b]  d == dst[b]  d2 == dst'[b]  k2 == bk'[b]
             W == {p \in pages : Wants(b, p)}
  <2>1. /\ k \in BkSet /\ d \in DestSet /\ BkOK(k, d)
        /\ Len(d.orig) = sc.nDest * sc.destSz /\ d.at = "idle"
    BY BkParts DEF InCall
  <2>2. Copied(d, img, W, d2)
    <3>1. W \in SUBSET (1 .. Len(img)) /\ d2 = backupOnePage(d, img, W, TRUE)
      BY <1>3
    <3> HIDE DEF W, d, d2
    <3> QED BY <1>1, <2>1, <3>1, OnePageFacts
  <2>3. \A p \in pages : p \in W <=> k.isAttached /\ ~isFatalError(k.rc) /\ p < k.iNext
    BY DEF Wants, Attached
  <2>4. W # {} => k.isAttached /\ Going(k)
    BY <2>1, <2>3 DEF BkOK, Going
  <2>5. k2 \in BkSet /\ Moves(k, k2) /\ k2.iNext = k.iNext /\ (Going(k2) => k2 = k)
    <3>1. CASE k2 = k
      BY <2>1, <3>1, MovesSelf
    <3>2. CASE k2 = [k EXCEPT !.rc = "IOERR"] /\ W # {}
      <4>1. /\ k2 \in BkSet /\ k2.rc = "IOERR" /\ k2.state = k.state /\ k2.iNext = k.iNext
            /\ k2.bDestLocked = k.bDestLocked /\ k2.isAttached = k.isAttached
        BY <2>1, <3>2 DEF BkSet
      <4>2. k.state = "open" /\ Going(k)
        BY <2>1, <2>4, <3>2 DEF BkOK
      <4>3. ~Going(k2)
        BY <4>1 DEF Going, isFatalError
      <4> QED BY <4>1, <4>2, <4>3 DEF Moves
    <3> QED BY <1>2, <3>1, <3>2
  <2>6. d2 \in DestSet /\ Extends(d, d2) /\ (W = {} => Alike(d, d2))
    BY <2>2 DEF Copied
  <2>7. ASSUME Going(k2), NEW p \in pages, p < k.iNext PROVE Current(d2, img, p)
    <3>1. Going(k)
      BY <2>5, <2>7
    <3>2. p \in Nat \ {0}
      BY FileFacts DEF ImageOK
    <3>3. k.iNext # 1
      BY <2>7, <3>2
    <3>4. p \in W
      BY <2>1, <2>3, <2>7, <3>1, <3>3 DEF BkOK, Going
    <3> QED BY <2>2, <3>4 DEF Copied
  <2>8. ASSUME NEW p \in Nat \ {0}, NEW v \in Image, p \notin pages, Current(d, v, p)
        PROVE  Current(d2, v, p)
    <3>1. p \notin W
      BY <2>8
    <3> QED BY <2>2, <2>8, <3>1 DEF Copied
  <2> HIDE DEF k, d, k2, d2, W
  <2>9. Told(k, d, img, pages, k2, d2)
    BY <2>4, <2>5, <2>6, <2>7, <2>8 DEF Told
  <2> QED BY <2>5, <2>6, <2>9 DEF k, d, k2, d2
<1>5. bk' \in [Bk -> BkSet]
  BY <1>2, <1>4
<1>6. dst' \in [Bk -> DestSet]
  BY <1>3, <1>4
<1> QED BY <1>2, <1>4, <1>5, <1>6

\* sqlite3BackupRestart()
LEMMA RestartFacts ==
  ASSUME IInv, ~InCall
  PROVE  /\ BackupRestart \in [Bk -> BkSet]
         /\ \A b \in Bk : /\ Moves(bk[b], BackupRestart[b])
                          /\ BackupRestart[b].rc = bk[b].rc
                          /\ Going(BackupRestart[b]) => BackupRestart[b].iNext = 1
<1> SUFFICES ASSUME NEW b \in Bk
             PROVE  /\ BackupRestart[b] \in BkSet /\ Moves(bk[b], BackupRestart[b])
                    /\ BackupRestart[b].rc = bk[b].rc
                    /\ Going(BackupRestart[b]) => BackupRestart[b].iNext = 1
  BY DEF BackupRestart
<1>1. bk[b] \in BkSet /\ BkOK(bk[b], dst[b]) /\ dst[b].at = "idle" /\ sc.maxPage \in Nat
  BY BkParts, ScFacts DEF InCall
<1>2. CASE bk[b].isAttached
  <2>1. BackupRestart[b] = [bk[b] EXCEPT !.iNext = 1]
    BY <1>2 DEF BackupRestart, Attached
  <2>2. BackupRestart[b] \in BkSet
    BY <1>1, <2>1 DEF BkSet
  <2>3. /\ BackupRestart[b].iNext = 1 /\ BackupRestart[b].rc = bk[b].rc
        /\ BackupRestart[b].state = bk[b].state
        /\ BackupRestart[b].bDestLocked = bk[b].bDestLocked
        /\ BackupRestart[b].isAttached = bk[b].isAttached
    BY <1>1, <2>1 DEF BkSet
  <2> QED BY <2>2, <2>3 DEF Moves
<1>3. CASE ~bk[b].isAttached
  <2>1. BackupRestart[b] = bk[b]
    BY <1>3 DEF BackupRestart, Attached
  <2> QED BY <1>1, <1>3, <2>1, MovesSelf DEF BkOK
<1> QED BY <1>2, <1>3

\* A step between the steps of the backups.
LEMMA IdleStep ==
  ASSUME IInv, ~InCall, sc' = sc, faulty' \in BOOLEAN, SrcOK(src'), KeepsHist(src, src'),
         bk' \in [Bk -> BkSet], dst' \in [Bk -> DestSet],
         \A b \in Bk : Moves(bk[b], bk'[b]) /\ Extends(dst[b], dst'[b]),
         \A b \in Bk : Alike(dst[b], dst'[b]) \/ (bk[b].isAttached /\ Going(bk[b])),
         \A b \in Bk : CopyOK(src', bk'[b], dst'[b])
  PROVE  IInv'
<1>1. ASSUME NEW b \in Bk PROVE Good(src', bk'[b], dst'[b]) /\ dst'[b].at = "idle"
  <2>1. sc \in Scenarios /\ Good(src, bk[b], dst[b]) /\ dst[b].at = "idle" /\ dst'[b] \in DestSet
    BY BkParts DEF InCall
  <2>2. dst'[b].at = "idle"
    BY <2>1 DEF Extends
  <2> QED BY <2>1, <2>2, IdleGood
<1>2. sc \in Scenarios
  BY DEF IInv
<1> HIDE DEF IInv
<1> QED BY <1>1, <1>2, StepFacts

\* Such a step that leaves the destinations alone.
LEMMA SameDestStep ==
  ASSUME IInv, ~InCall, sc' = sc, faulty' \in BOOLEAN, SrcOK(src'), KeepsHist(src, src'),
         bk' \in [Bk -> BkSet], dst' = dst,
         \A b \in Bk : Moves(bk[b], bk'[b]) /\ CopyOK(src', bk'[b], dst[b])
  PROVE  IInv'
<1>1. dst \in [Bk -> DestSet]
  BY DEF IInv
<1>2. \A b \in Bk : Alike(dst[b], dst'[b]) /\ Extends(dst[b], dst'[b])
  BY <1>1, AlikeSelf, AlikeExtends
<1> HIDE DEF IInv
<1> QED BY <1>1, <1>2, IdleStep

-----------------------------------------------------------------------------
(* The source *)

\* The fields of the source.
LEMMA SrcFields ==
  ASSUME NEW s \in SrcSet
  PROVE  /\ s.hist \in Seq(Image) /\ s.view \in Image /\ s.seen \in Nat
         /\ s.trans \in {"none", "read", "write"} /\ s.txn \in 0 .. sc.txns
         /\ s.dirty \in SUBSET (1 .. sc.maxPage) /\ s.journal \in SUBSET (1 .. sc.maxPage)
         /\ s.synced \in SUBSET (1 .. sc.maxPage) /\ s.spilled \in BOOLEAN
BY DEF SrcSet

\* What the pager of the source relies on.
LEMMA SrcFacts ==
  ASSUME NEW s, SrcOK(s)
  PROVE  /\ s \in SrcSet /\ s.hist \in Seq(Image) /\ Len(s.hist) \in Nat
         /\ s.seen \in 1 .. Len(s.hist) /\ ImageOK(s.view) /\ ImageOK(s.hist[s.seen])
         /\ \A i \in 1 .. Len(s.hist) : ImageOK(s.hist[i])
         /\ Len(s.hist) \in 1 .. Len(s.hist) /\ ImageOK(s.hist[Len(s.hist)])
         /\ KeepsHist(s, s)
BY SrcFields DEF SrcOK, KeepsHist

\* A transaction number is a version.
LEMMA TxnFacts ==
  ASSUME sc \in Scenarios, NEW t \in 0 .. sc.txns
  PROVE  t \in Version
BY ScFacts, BackupAssumption DEF Version, Old

\* One page of an image is replaced.
LEMMA PageSet ==
  ASSUME NEW img, ImageOK(img), NEW p \in 1 .. Len(img), NEW pg \in Content
  PROVE  /\ ImageOK([img EXCEPT ![p] = pg]) /\ Len([img EXCEPT ![p] = pg]) = Len(img)
         /\ \A q \in 1 .. Len(img) : q # p => [img EXCEPT ![p] = pg][q] = img[q]
<1>1. img \in Seq(Content)
  BY DEF ImageOK, Image
<1>2. [img EXCEPT ![p] = pg] \in Seq(Content) /\ Len([img EXCEPT ![p] = pg]) = Len(img)
  BY <1>1
<1>3. \A q \in 1 .. Len(img) : q # p => [img EXCEPT ![p] = pg][q] = img[q]
  BY <1>1
<1> HIDE DEF ImageOK
<1> QED BY <1>2, <1>3 DEF ImageOK, Image

\* A page that says who wrote it.
LEMMA NewPage ==
  ASSUME sc \in Scenarios, NEW t \in Version, NEW n \in Nat
  PROVE  <<t, n>> \in Content
BY DEF Content

\* A page is appended.
LEMMA GrownFacts ==
  ASSUME sc \in Scenarios, NEW img, ImageOK(img), NEW t \in Version
  PROVE  LET g == Grown(img, t) IN
         /\ g \in Image /\ Len(g) \in Nat /\ Len(g) # SrcPending /\ Len(img) < Len(g)
         /\ Len(g) = Len(Grown(img, 0))
         /\ \A q \in 1 .. Len(img) : g[q] = img[q]
         /\ \A q \in Used(g) : q \in Used(img) \/ q = Len(g)
<1> DEFINE more == Append(img, <<t, 0>>)
           most == Append(more, <<t, 0>>)
           g == Grown(img, t)
<1>1. img \in Seq(Content) /\ Len(img) \in Nat /\ <<t, 0>> \in Content /\ SrcPending \in Nat
  BY NewPage, ScFacts DEF ImageOK, Image
<1>2. /\ more \in Seq(Content) /\ Len(more) = Len(img) + 1
      /\ \A q \in 1 .. Len(img) : more[q] = img[q]
  BY <1>1
<1>3. /\ most \in Seq(Content) /\ Len(most) = Len(img) + 2
      /\ \A q \in 1 .. Len(img) : most[q] = img[q]
  BY <1>1, <1>2
<1>4. Len(Append(img, <<0, 0>>)) = Len(img) + 1
  BY <1>1
<1>5. Len(Append(Append(img, <<0, 0>>), <<0, 0>>)) = Len(img) + 2
  <2>1. <<0, 0>> \in Nat \X Nat /\ 0 \in Version
    BY BackupAssumption DEF Version, Old
  <2>2. <<0, 0>> \in Content
    BY <2>1 DEF Content
  <2> QED BY <1>1, <2>2
<1> HIDE DEF more, most
<1>6. g = IF Len(img) + 1 = SrcPending THEN most ELSE more
  BY <1>2 DEF Grown, more, most
<1>7. Len(Grown(img, 0)) = IF Len(img) + 1 = SrcPending THEN Len(img) + 2 ELSE Len(img) + 1
  BY <1>4, <1>5 DEF Grown
<1> HIDE DEF g
<1>8. CASE Len(img) + 1 = SrcPending
  <2>1. g = most
    BY <1>6, <1>8
  <2> QED BY <1>1, <1>3, <1>7, <1>8, <2>1 DEF Used, Image, g
<1>9. CASE Len(img) + 1 # SrcPending
  <2>1. g = more
    BY <1>6, <1>9
  <2> QED BY <1>1, <1>2, <1>7, <1>9, <2>1 DEF Used, Image, g
<1> QED BY <1>8, <1>9

\* The last page is cut off.
LEMMA ShrunkFacts ==
  ASSUME sc \in Scenarios, NEW img, ImageOK(img), Len(img) > 1
  PROVE  /\ ImageOK(Shrunk(img)) /\ Len(Shrunk(img)) < Len(img)
         /\ \A q \in 1 .. Len(Shrunk(img)) : Shrunk(img)[q] = img[q]
<1> DEFINE less == Front(img)
           least == Front(less)
<1>1. /\ img \in Seq(Content) /\ Len(img) \in 1 .. sc.maxPage /\ Len(img) # SrcPending
      /\ SrcPending \in Nat /\ SrcPending >= 2 /\ sc.maxPage \in Nat
  BY ScFacts DEF ImageOK, Image
<1>2. /\ less \in Seq(Content) /\ Len(less) = Len(img) - 1
      /\ \A q \in 1 .. Len(img) - 1 : less[q] = img[q]
  BY <1>1 DEF Front
<1>3. ASSUME Len(img) > 2
      PROVE  /\ least \in Seq(Content) /\ Len(least) = Len(img) - 2
             /\ \A q \in 1 .. Len(img) - 2 : least[q] = img[q]
  BY <1>1, <1>2, <1>3 DEF Front
<1> HIDE DEF less, least
<1>4. Shrunk(img) = IF Len(less) = SrcPending THEN least ELSE less
  BY DEF Shrunk, less, least
<1>5. CASE Len(less) = SrcPending
  BY <1>1, <1>2, <1>3, <1>4, <1>5 DEF ImageOK, Image
<1>6. CASE Len(less) # SrcPending
  BY <1>1, <1>2, <1>4, <1>6 DEF ImageOK, Image
<1> QED BY <1>5, <1>6

\* A source whose pager has nothing to write.
LEMMA RestingOK ==
  ASSUME NEW s \in SrcSet, \A i \in 1 .. Len(s.hist) : ImageOK(s.hist[i]),
         s.seen \in 1 .. Len(s.hist), s.view = s.hist[s.seen],
         s.dirty = {}, s.journal = {}, s.synced = {}, s.spilled = FALSE
  PROVE  SrcOK(s) /\ Clean(s)
BY DEF SrcOK, Clean

\* Its pages are current if they are in the image it knows.
LEMMA CleanCopy ==
  ASSUME NEW s, s.dirty = {}, s.view = s.hist[s.seen], NEW k, NEW d,
         Going(k) /\ d.at = "idle" =>
           \A p \in Used(s.view) : p < k.iNext => Current(d, s.view, p)
  PROVE  CopyOK(s, k, d)
BY DEF CopyOK

\* A source that is not writing has nothing to write.
LEMMA NotWriting ==
  ASSUME NEW s, SrcOK(s), s.trans # "write"
  PROVE  /\ s.dirty = {} /\ s.journal = {} /\ s.synced = {} /\ s.spilled = FALSE
         /\ s.view = s.hist[s.seen]
<1>1. s \in SrcSet /\ Clean(s) /\ s.journal = {} /\ s.synced \subseteq s.journal
  BY DEF SrcOK
<1> QED BY <1>1, SrcFields DEF SrcOK, Clean

\* Locks of the source come and go.
LEMMA SetTrans ==
  ASSUME NEW s, SrcOK(s), s.trans # "write", NEW tr \in {"none", "read"}
  PROVE  /\ SrcOK([s EXCEPT !.trans = tr]) /\ KeepsHist(s, [s EXCEPT !.trans = tr])
         /\ \A k, d : CopyOK(s, k, d) => CopyOK([s EXCEPT !.trans = tr], k, d)
<1> DEFINE r == [s EXCEPT !.trans = tr]
<1>1. s \in SrcSet /\ KeepsHist(s, s)
  BY SrcFacts
<1>2. r \in SrcSet
  BY <1>1 DEF SrcSet
<1>3. /\ r.hist = s.hist /\ r.view = s.view /\ r.seen = s.seen /\ r.dirty = s.dirty
      /\ r.journal = s.journal /\ r.synced = s.synced /\ r.spilled = s.spilled
  BY <1>1 DEF SrcSet
<1> HIDE DEF r
<1>4. SrcOK(r)
  BY <1>2, <1>3 DEF SrcOK, Clean
<1>5. KeepsHist(s, r)
  BY <1>1, <1>3 DEF KeepsHist
<1>6. \A k, d : CopyOK(s, k, d) => CopyOK(r, k, d)
  BY <1>3 DEF CopyOK
<1> QED BY <1>4, <1>5, <1>6 DEF r

\* What was copied stays so while the source and the destination do.
LEMMA MovesCopy ==
  ASSUME NEW s, SrcOK(s), NEW k \in BkSet, NEW d, CopyOK(s, k, d), NEW k2, Moves(k, k2)
  PROVE  CopyOK(s, k2, d)
<1>1. Going(k2) => Going(k)
  BY BkFields DEF Going, isFatalError, Moves
<1>2. CASE k2.iNext = k.iNext
  BY <1>1, <1>2 DEF CopyOK
<1>3. CASE k2.iNext = 1
  BY <1>3, FreshCopy
<1> QED BY <1>2, <1>3 DEF Moves

\* pager_reset(), with whatever transaction there was given up.
LEMMA ResetFacts ==
  ASSUME IInv, ~InCall
  PROVE  /\ SrcOK(Idle(pager_reset.s)) /\ KeepsHist(src, Idle(pager_reset.s))
         /\ src.trans = "none" => Idle(pager_reset.s) = pager_reset.s
         /\ pager_reset.b \in [Bk -> BkSet]
         /\ \A b \in Bk : \A d :
              /\ Moves(bk[b], pager_reset.b[b])
              /\ pager_reset.b[b].rc = bk[b].rc
              /\ CopyOK(Idle(pager_reset.s), pager_reset.b[b], d)
<1> DEFINE r == Idle(pager_reset.s)
<1>1. SrcOK(src)
  BY DEF IInv
<1>2. /\ src \in SrcSet /\ KeepsHist(src, src) /\ Len(src.hist) \in 1 .. Len(src.hist)
      /\ Len(src.hist) \in Nat /\ \A i \in 1 .. Len(src.hist) : ImageOK(src.hist[i])
  BY <1>1, SrcFacts
<1>3. Disk \in Image /\ Disk = src.hist[Len(src.hist)]
  BY <1>2 DEF Disk, Last1, ImageOK
<1>4. r = [src EXCEPT !.view = Disk, !.seen = Len(src.hist), !.trans = "none", !.dirty = {},
                      !.journal = {}, !.synced = {}, !.spilled = FALSE]
  BY DEF pager_reset, Idle
<1>5. r \in SrcSet
  <2> HIDE DEF r
  <2> QED BY <1>2, <1>3, <1>4 DEF SrcSet
<1>6. /\ r.hist = src.hist /\ r.view = Disk /\ r.seen = Len(src.hist) /\ r.dirty = {}
      /\ r.journal = {} /\ r.synced = {} /\ r.spilled = FALSE
  <2> HIDE DEF r
  <2> QED BY <1>2, <1>4 DEF SrcSet
<1>7. src.trans = "none" => r = pager_reset.s
  <2> SUFFICES ASSUME src.trans = "none" PROVE r = pager_reset.s
    OBVIOUS
  <2>1. /\ src.dirty = {} /\ src.journal = {} /\ src.synced = {} /\ src.spilled = FALSE
    BY <1>1, NotWriting
  <2>2. pager_reset.s = [src EXCEPT !.view = Disk, !.seen = Len(src.hist)]
    BY DEF pager_reset
  <2>3. DOMAIN src = {"hist", "view", "seen", "trans", "txn", "dirty", "journal", "synced", "spilled"}
        /\ src = [f \in DOMAIN src |-> src[f]]
    BY <1>2 DEF SrcSet
  <2> HIDE DEF r
  <2>4. r = [f \in DOMAIN src |-> pager_reset.s[f]]
    BY <1>4, <2>1, <2>2, <2>3
  <2>5. pager_reset.s = [f \in DOMAIN src |-> pager_reset.s[f]]
    BY <2>2, <2>3
  <2> QED BY <2>4, <2>5
<1> HIDE DEF r
<1>8. SrcOK(r)
  BY <1>2, <1>3, <1>5, <1>6, RestingOK
<1>9. KeepsHist(src, r)
  BY <1>2, <1>6 DEF KeepsHist
<1>10. pager_reset.b = BackupRestart
  BY DEF pager_reset
<1>11. \A b \in Bk : \A d : CopyOK(r, pager_reset.b[b], d)
  BY <1>8, <1>10, RestartFacts, FreshCopy
<1> QED BY <1>7, <1>8, <1>9, <1>10, <1>11, RestartFacts DEF r

\* sqlite3PagerSharedLock()
LEMMA SharedLockFacts ==
  ASSUME IInv, ~InCall, src.trans # "write"
  PROVE  /\ SrcOK(SharedLock.s) /\ KeepsHist(src, SharedLock.s)
         /\ SharedLock.s.trans = src.trans /\ SharedLock.s.txn = src.txn
         /\ SharedLock.s.hist = src.hist
         /\ SharedLock.b \in [Bk -> BkSet]
         /\ \A b \in Bk : /\ Moves(bk[b], SharedLock.b[b])
                          /\ SharedLock.b[b].rc = bk[b].rc
                          /\ CopyOK(SharedLock.s, SharedLock.b[b], dst[b])
<1>1. SrcOK(src) /\ bk \in [Bk -> BkSet]
  BY DEF IInv
<1>2. src \in SrcSet /\ KeepsHist(src, src)
  BY <1>1, SrcFacts
<1>3. CASE src.trans = "none" /\ src.seen # Len(src.hist)
  <2>1. SharedLock = pager_reset
    BY <1>3 DEF SharedLock
  <2>2. pager_reset.s = [src EXCEPT !.view = Disk, !.seen = Len(src.hist)]
    BY DEF pager_reset
  <2>3. /\ pager_reset.s.trans = src.trans /\ pager_reset.s.txn = src.txn
        /\ pager_reset.s.hist = src.hist
    BY <1>2, <2>2 DEF SrcSet
  <2> QED BY <1>3, <2>1, <2>3, ResetFacts
<1>4. CASE ~(src.trans = "none" /\ src.seen # Len(src.hist))
  <2>1. SharedLock = [s |-> src, b |-> bk]
    BY <1>4 DEF SharedLock
  <2>2. SharedLock.s = src /\ SharedLock.b = bk
    BY <2>1
  <2>3. \A b \in Bk : Moves(bk[b], bk[b]) /\ CopyOK(src, bk[b], dst[b])
    BY BkParts, MovesSelf
  <2> QED BY <1>1, <1>2, <2>2, <2>3
<1> QED BY <1>3, <1>4

\* sqlite3PagerWrite() on the source: what was copied of the other pages stays
\* current.
LEMMA SourceWriteFacts ==
  ASSUME sc \in Scenarios, NEW s, SrcOK(s), s.trans = "write", s.hist = src.hist,
         NEW img, ImageOK(img), NEW pages \in SUBSET (1 .. sc.maxPage), pages # {},
         \A p \in Used(img) \ pages : p \in Used(s.view) /\ img[p] = s.view[p]
  PROVE  /\ SrcOK(SourceWrite(s, img, pages)) /\ KeepsHist(s, SourceWrite(s, img, pages))
         /\ \A k, d : CopyOK(s, k, d) => CopyOK(SourceWrite(s, img, pages), k, d)
<1> DEFINE j == s.journal \cup {p \in pages : p <= Len(s.hist[s.seen])}
           r == SourceWrite(s, img, pages)
<1>1. /\ s \in SrcSet /\ KeepsHist(s, s) /\ ImageOK(s.hist[s.seen])
      /\ \A i \in 1 .. Len(s.hist) : ImageOK(s.hist[i])
  BY SrcFacts
<1>2. /\ s.dirty \in SUBSET (1 .. sc.maxPage) /\ s.journal \in SUBSET (1 .. sc.maxPage)
      /\ img \in Image
  BY <1>1, SrcFields DEF ImageOK
<1>3. r = [s EXCEPT !.view = img, !.dirty = s.dirty \cup pages, !.journal = j]
  BY DEF SourceWrite
<1>4. j \in SUBSET (1 .. sc.maxPage) /\ s.dirty \cup pages \in SUBSET (1 .. sc.maxPage)
  BY <1>2
<1>5. j \subseteq 1 .. Len(s.hist[s.seen])
  <2>1. s.journal \subseteq 1 .. Len(s.hist[s.seen]) /\ Len(s.hist[s.seen]) \in Nat
    BY <1>1 DEF SrcOK, ImageOK, Image
  <2>2. \A q \in pages : q <= Len(s.hist[s.seen]) => q \in 1 .. Len(s.hist[s.seen])
    BY <2>1, ScFacts
  <2> QED BY <2>1, <2>2
<1>6. (s.dirty \cup pages) \cap (1 .. Len(s.hist[s.seen])) \subseteq j
  BY DEF SrcOK
<1>7. s.journal \subseteq j
  OBVIOUS
<1> HIDE DEF j, r
<1>8. r \in SrcSet
  BY <1>1, <1>2, <1>3, <1>4 DEF SrcSet
<1>9. /\ r.hist = s.hist /\ r.view = img /\ r.seen = s.seen /\ r.dirty = s.dirty \cup pages
      /\ r.journal = j /\ r.synced = s.synced /\ r.spilled = s.spilled /\ r.trans = s.trans
  BY <1>1, <1>3 DEF SrcSet
<1>10. SrcOK(r)
  BY <1>1, <1>5, <1>6, <1>7, <1>8, <1>9 DEF SrcOK, Clean
<1>11. ASSUME NEW k, NEW d, CopyOK(s, k, d) PROVE CopyOK(r, k, d)
  <2> SUFFICES ASSUME Going(k), d.at = "idle",
                      NEW p \in Used(img) \ (s.dirty \cup pages), p < k.iNext
               PROVE  Current(d, img, p)
    BY <1>9, <1>11 DEF CopyOK
  <2>1. p \in Used(s.view) /\ img[p] = s.view[p]
    OBVIOUS
  <2>2. Current(d, s.view, p)
    BY <1>11, <2>1 DEF CopyOK
  <2> QED BY <2>1, <2>2 DEF Current
<1>12. KeepsHist(s, r)
  BY <1>1, <1>9 DEF KeepsHist
<1> QED BY <1>10, <1>11, <1>12 DEF r

\* A read transaction of the source: pager_reset() may restart the backups.
LEMMA BeginReadStep ==
  ASSUME IInv, BeginRead PROVE IInv'
<1> DEFINE s == SharedLock.s
<1>1. ~InCall /\ src.trans # "write" /\ sc' = sc /\ faulty' = faulty /\ dst' = dst
      /\ src' = [s EXCEPT !.trans = "read"] /\ bk' = SharedLock.b
  BY DEF BeginRead
<1>2. /\ SrcOK(s) /\ KeepsHist(src, s) /\ s.trans # "write" /\ s.hist = src.hist
      /\ SharedLock.b \in [Bk -> BkSet]
      /\ \A b \in Bk : Moves(bk[b], SharedLock.b[b]) /\ CopyOK(s, SharedLock.b[b], dst[b])
  BY <1>1, SharedLockFacts
<1> HIDE DEF s
<1>3. /\ SrcOK(src') /\ KeepsHist(s, src')
      /\ \A k, d : CopyOK(s, k, d) => CopyOK(src', k, d)
  BY <1>1, <1>2, SetTrans
<1>4. KeepsHist(src, src')
  BY <1>2, <1>3 DEF KeepsHist
<1>5. faulty \in BOOLEAN
  BY DEF IInv
<1> QED BY <1>1, <1>2, <1>3, <1>4, <1>5, SameDestStep

\* The end of a read transaction of the source.
LEMMA EndReadStep ==
  ASSUME IInv, EndRead PROVE IInv'
<1>1. ~InCall /\ src.trans # "write" /\ sc' = sc /\ faulty' = faulty /\ dst' = dst /\ bk' = bk
      /\ src' = [src EXCEPT !.trans = "none"]
  BY DEF EndRead
<1>2. SrcOK(src) /\ bk \in [Bk -> BkSet] /\ faulty \in BOOLEAN
  BY DEF IInv
<1>3. /\ SrcOK(src') /\ KeepsHist(src, src')
      /\ \A k, d : CopyOK(src, k, d) => CopyOK(src', k, d)
  BY <1>1, <1>2, SetTrans
<1>4. \A b \in Bk : Moves(bk[b], bk'[b]) /\ CopyOK(src', bk'[b], dst[b])
  BY <1>1, <1>3, BkParts, MovesSelf
<1> QED BY <1>1, <1>2, <1>3, <1>4, SameDestStep

\* A write transaction begins; a stale page count in the header is corrected,
\* which makes page 1 a changed page.
LEMMA BeginWriteStep ==
  ASSUME IInv, BeginWrite PROVE IInv'
<1> DEFINE l == SharedLock.s
           s == [l EXCEPT !.trans = "write", !.txn = l.txn + 1]
           img == [s.view EXCEPT ![1] = <<s.view[1][1], Len(s.view)>>]
<1>1. /\ ~InCall /\ src.trans # "write" /\ sc' = sc /\ faulty' = faulty /\ dst' = dst
      /\ bk' = SharedLock.b /\ src.txn < sc.txns
      /\ src' = IF s.view[1][2] = Len(s.view) THEN s ELSE SourceWrite(s, img, {1})
  BY DEF BeginWrite
<1>2. /\ SrcOK(l) /\ KeepsHist(src, l) /\ l.hist = src.hist /\ l.trans = src.trans
      /\ l.txn = src.txn /\ SharedLock.b \in [Bk -> BkSet]
      /\ \A b \in Bk : Moves(bk[b], SharedLock.b[b]) /\ CopyOK(l, SharedLock.b[b], dst[b])
  BY <1>1, SharedLockFacts
<1> HIDE DEF l
<1>3. /\ l.dirty = {} /\ l.journal = {} /\ l.synced = {} /\ l.spilled = FALSE
      /\ l.view = l.hist[l.seen] /\ l \in SrcSet
  BY <1>1, <1>2, NotWriting, SrcFacts
<1>4. sc \in Scenarios /\ faulty \in BOOLEAN /\ src \in SrcSet
  BY SrcFacts DEF IInv
<1>5. l.txn + 1 \in 0 .. sc.txns
  BY <1>1, <1>2, <1>4, ScFacts, SrcFields
<1>6. s \in SrcSet
  BY <1>3, <1>5 DEF SrcSet
<1>7. /\ s.hist = l.hist /\ s.view = l.view /\ s.seen = l.seen /\ s.dirty = {}
      /\ s.journal = {} /\ s.synced = {} /\ s.spilled = FALSE /\ s.trans = "write"
  BY <1>3 DEF SrcSet
<1> HIDE DEF s
<1>8. \A i \in 1 .. Len(s.hist) : ImageOK(s.hist[i])
  BY <1>2, <1>7, SrcFacts
<1>9. s.seen \in 1 .. Len(s.hist)
  BY <1>2, <1>7, SrcFacts
<1>10. SrcOK(s) /\ ImageOK(s.view)
  BY <1>3, <1>6, <1>7, <1>8, <1>9, RestingOK
<1>11. KeepsHist(src, s)
  BY <1>2, <1>7 DEF KeepsHist
<1>12. \A b \in Bk : CopyOK(s, SharedLock.b[b], dst[b])
  BY <1>2, <1>3, <1>7 DEF CopyOK
<1>13. CASE s.view[1][2] = Len(s.view)
  <2>1. src' = s
    BY <1>1, <1>13
  <2> QED BY <1>1, <1>2, <1>4, <1>10, <1>11, <1>12, <2>1, SameDestStep
<1>14. CASE s.view[1][2] # Len(s.view)
  <2>1. src' = SourceWrite(s, img, {1})
    BY <1>1, <1>14
  <2>2. 1 \in 1 .. Len(s.view) /\ s.view \in Image /\ Len(s.view) \in Nat /\ 1 \in 1 .. sc.maxPage
    BY <1>4, <1>10, ScFacts, FileFacts DEF ImageOK
  <2>3. s.view[1][1] \in Version
    BY <2>2, FileFacts, ContentFacts
  <2>4. <<s.view[1][1], Len(s.view)>> \in Content
    BY <1>4, <2>2, <2>3, NewPage
  <2>5. /\ ImageOK(img) /\ Len(img) = Len(s.view)
        /\ \A q \in 1 .. Len(s.view) : q # 1 => img[q] = s.view[q]
    BY <1>10, <2>2, <2>4, PageSet
  <2> HIDE DEF img
  <2>6. \A p \in Used(img) \ {1} : p \in Used(s.view) /\ img[p] = s.view[p]
    BY <2>5 DEF Used
  <2>7. s.hist = src.hist
    BY <1>2, <1>7
  <2>8. /\ SrcOK(src') /\ KeepsHist(s, src')
        /\ \A k, d : CopyOK(s, k, d) => CopyOK(src', k, d)
    BY <1>4, <1>7, <1>10, <2>1, <2>2, <2>5, <2>6, <2>7, SourceWriteFacts
  <2>9. KeepsHist(src, src')
    BY <1>11, <2>8 DEF KeepsHist
  <2> QED BY <1>1, <1>2, <1>4, <1>12, <2>8, <2>9, SameDestStep
<1> QED BY <1>13, <1>14

\* sqlite3PagerWrite(): the page is in the journal before it is changed.
LEMMA ChangeStep ==
  ASSUME IInv, Change PROVE IInv'
<1>1. /\ ~InCall /\ src.trans = "write" /\ sc' = sc /\ faulty' = faulty /\ dst' = dst /\ bk' = bk
  BY DEF Change
<1>2. sc \in Scenarios /\ SrcOK(src) /\ bk \in [Bk -> BkSet] /\ faulty \in BOOLEAN
  BY DEF IInv
<1>3. /\ ImageOK(src.view) /\ src \in SrcSet /\ src.view \in Image /\ Len(src.view) \in Nat
      /\ 1 \in 1 .. Len(src.view) /\ 1 \in 1 .. sc.maxPage /\ Len(src.view) <= sc.maxPage
      /\ sc.maxPage \in Nat
  BY <1>2, SrcFacts, ScFacts, FileFacts DEF ImageOK
<1>4. src.txn \in Version
  BY <1>2, <1>3, SrcFields, TxnFacts
<1>5. SUFFICES ASSUME NEW img, ImageOK(img), NEW pages \in SUBSET (1 .. sc.maxPage), pages # {},
                      \A p \in Used(img) \ pages : p \in Used(src.view) /\ img[p] = src.view[p],
                      src' = SourceWrite(src, img, pages)
               PROVE  IInv'
  <2>1. ASSUME NEW p \in Used(src.view),
               src' = SourceWrite(src, [src.view EXCEPT ![p] = <<src.txn, @[2]>>], {p})
        PROVE  IInv'
    <3> DEFINE img == [src.view EXCEPT ![p] = <<src.txn, src.view[p][2]>>]
    <3>1. p \in 1 .. Len(src.view) /\ p \in 1 .. sc.maxPage
      BY <1>3 DEF Used
    <3>2. <<src.txn, src.view[p][2]>> \in Content
      BY <1>2, <1>3, <1>4, <3>1, FileFacts, ContentFacts, NewPage
    <3>3. /\ ImageOK(img) /\ Len(img) = Len(src.view)
          /\ \A q \in 1 .. Len(src.view) : q # p => img[q] = src.view[q]
      BY <1>3, <3>1, <3>2, PageSet
    <3>4. src' = SourceWrite(src, img, {p})
      BY <2>1
    <3> HIDE DEF img
    <3>5. \A q \in Used(img) \ {p} : q \in Used(src.view) /\ img[q] = src.view[q]
      BY <3>3 DEF Used
    <3> QED BY <1>5, <3>1, <3>3, <3>4, <3>5
  <2>2. ASSUME Len(Grown(src.view, 0)) <= sc.maxPage,
               LET g == Claim(Grown(src.view, src.txn), src.txn) IN
               src' = SourceWrite(src, g, {1, Len(g)})
        PROVE  IInv'
    <3> DEFINE g == Grown(src.view, src.txn)
               img == Claim(g, src.txn)
    <3>1. /\ g \in Image /\ Len(g) \in Nat /\ Len(g) # SrcPending /\ Len(src.view) < Len(g)
          /\ Len(g) = Len(Grown(src.view, 0))
          /\ \A q \in 1 .. Len(src.view) : g[q] = src.view[q]
          /\ \A q \in Used(g) : q \in Used(src.view) \/ q = Len(g)
      <4> HIDE DEF g
      <4> QED BY <1>2, <1>3, <1>4, GrownFacts DEF g
    <3> HIDE DEF g
    <3>2. ImageOK(g) /\ 1 \in 1 .. Len(g) /\ Len(g) \in 1 .. sc.maxPage
      BY <1>3, <2>2, <3>1 DEF ImageOK
    <3>3. <<src.txn, Len(g)>> \in Content
      BY <1>2, <1>4, <3>1, NewPage
    <3>4. /\ ImageOK(img) /\ Len(img) = Len(g)
          /\ \A q \in 1 .. Len(g) : q # 1 => img[q] = g[q]
      <4>1. img = [g EXCEPT ![1] = <<src.txn, Len(g)>>]
        BY DEF Claim
      <4> HIDE DEF img
      <4>2. ImageOK(g) /\ 1 \in 1 .. Len(g)
        BY <3>2
      <4> DEFINE pg == <<src.txn, Len(g)>>
      <4>3. pg \in Content /\ img = [g EXCEPT ![1] = pg]
        BY <3>3, <4>1
      <4> HIDE DEF pg
      <4>4. /\ ImageOK([g EXCEPT ![1] = pg]) /\ Len([g EXCEPT ![1] = pg]) = Len(g)
            /\ \A q \in 1 .. Len(g) : q # 1 => [g EXCEPT ![1] = pg][q] = g[q]
        BY <4>2, <4>3, PageSet
      <4> QED BY <4>3, <4>4
    <3>5. src' = SourceWrite(src, img, {1, Len(g)})
      BY <2>2, <3>4 DEF g
    <3> HIDE DEF img
    <3>6. \A q \in Used(img) \ {1, Len(g)} : q \in Used(src.view) /\ img[q] = src.view[q]
      BY <3>1, <3>4 DEF Used
    <3>7. {1, Len(g)} \in SUBSET (1 .. sc.maxPage) /\ {1, Len(g)} # {}
      BY <1>3, <3>2
    <3> QED BY <1>5, <3>4, <3>5, <3>6, <3>7
  <2>3. ASSUME Len(src.view) > 1, src' = SourceWrite(src, Claim(Shrunk(src.view), src.txn), {1})
        PROVE  IInv'
    <3> DEFINE g == Shrunk(src.view)
               img == Claim(g, src.txn)
    <3>1. /\ ImageOK(g) /\ Len(g) < Len(src.view)
          /\ \A q \in 1 .. Len(g) : g[q] = src.view[q]
      BY <1>2, <1>3, <2>3, ShrunkFacts
    <3>2. src' = SourceWrite(src, img, {1})
      BY <2>3
    <3> HIDE DEF g
    <3>3. 1 \in 1 .. Len(g) /\ Len(g) \in Nat
      BY <3>1, FileFacts DEF ImageOK
    <3>4. <<src.txn, Len(g)>> \in Content
      BY <1>2, <1>4, <3>3, NewPage
    <3>5. /\ ImageOK(img) /\ Len(img) = Len(g)
          /\ \A q \in 1 .. Len(g) : q # 1 => img[q] = g[q]
      BY <3>1, <3>3, <3>4, PageSet DEF Claim
    <3> HIDE DEF img
    <3>6. \A q \in Used(img) \ {1} : q \in Used(src.view) /\ img[q] = src.view[q]
      BY <1>3, <3>1, <3>3, <3>5 DEF Used
    <3> QED BY <1>3, <1>5, <3>2, <3>5, <3>6
  <2> QED BY <2>1, <2>2, <2>3 DEF Change
<1>6. /\ SrcOK(src') /\ KeepsHist(src, src')
      /\ \A k, d : CopyOK(src, k, d) => CopyOK(src', k, d)
  BY <1>1, <1>2, <1>5, SourceWriteFacts
<1>7. \A b \in Bk : Moves(bk[b], bk'[b]) /\ CopyOK(src', bk'[b], dst[b])
  BY <1>1, <1>6, BkParts, MovesSelf
<1> QED BY <1>1, <1>2, <1>6, <1>7, SameDestStep

\* A step of the source that tells the backups of pages of img.
LEMMA ToldStep ==
  ASSUME IInv, ~InCall, sc' = sc, SrcOK(src'), KeepsHist(src, src'),
         NEW img, ImageOK(img), NEW pages \in SUBSET (1 .. Len(img)), Update(img, pages),
         \A b \in Bk : \A k, d : Told(bk[b], dst[b], img, pages, k, d) => CopyOK(src', k, d)
  PROVE  IInv'
<1>1. /\ bk' \in [Bk -> BkSet] /\ dst' \in [Bk -> DestSet] /\ faulty' \in BOOLEAN
      /\ \A b \in Bk : Told(bk[b], dst[b], img, pages, bk'[b], dst'[b])
  BY UpdateFacts
<1>2. \A b \in Bk : /\ Moves(bk[b], bk'[b]) /\ Extends(dst[b], dst'[b])
                    /\ Alike(dst[b], dst'[b]) \/ (bk[b].isAttached /\ Going(bk[b]))
  BY <1>1 DEF Told
<1>3. \A b \in Bk : CopyOK(src', bk'[b], dst'[b])
  BY <1>1
<1> QED BY <1>1, <1>2, <1>3, IdleStep

\* What is known of a backup that was told of pages and goes on.
LEMMA ToldFacts ==
  ASSUME IInv, ~InCall, NEW b \in Bk, NEW img, ImageOK(img), NEW pages, NEW k, NEW d,
         Told(bk[b], dst[b], img, pages, k, d), Going(k)
  PROVE  /\ \A p \in pages : p < k.iNext => Current(d, img, p)
         /\ \A p \in Used(src.view) \ src.dirty : p < k.iNext /\ p \notin pages =>
              Current(d, src.view, p)
         /\ sc.mode # "WAL" =>
              \A p \in Used(src.hist[src.seen]) \ src.synced : p < k.iNext /\ p \notin pages =>
                Current(d, src.hist[src.seen], p)
<1>1. bk[b] \in BkSet /\ CopyOK(src, bk[b], dst[b]) /\ SrcOK(src) /\ dst[b].at = "idle"
  BY BkParts DEF InCall
<1>2. k.iNext = bk[b].iNext /\ Going(bk[b])
  BY <1>1, BkFields DEF Told, Moves, Going, isFatalError
<1>3. /\ src.view \in Image /\ src.hist[src.seen] \in Image
      /\ \A p \in Used(src.view) \cup Used(src.hist[src.seen]) : p \in Nat \ {0}
  BY <1>1, SrcFacts, FileFacts DEF ImageOK, Used
<1>4. \A p \in pages : p < k.iNext => Current(d, img, p)
  BY <1>2 DEF Told
<1>5. \A p \in Nat \ {0}, v \in Image :
        p \notin pages /\ Current(dst[b], v, p) => Current(d, v, p)
  BY DEF Told
<1>6. /\ \A p \in Used(src.view) \ src.dirty : p < k.iNext => Current(dst[b], src.view, p)
      /\ sc.mode # "WAL" =>
           \A p \in Used(src.hist[src.seen]) \ src.synced : p < k.iNext =>
             Current(dst[b], src.hist[src.seen], p)
  BY <1>1, <1>2 DEF CopyOK
<1> QED BY <1>3, <1>4, <1>5, <1>6

\* pagerStress(): the page goes to the file, the journal is synced, and the
\* backups are told.
LEMMA SpillStep ==
  ASSUME IInv, Spill PROVE IInv'
<1>1. PICK p \in src.dirty \ {1} :
        /\ p <= Len(src.view)
        /\ src' = [src EXCEPT !.dirty = @ \ {p}, !.spilled = TRUE,
                     !.synced = IF sc.mode = "DELETE" THEN src.journal ELSE @]
        /\ Update(src.view, {p})
  BY DEF Spill
<1>2. ~InCall /\ sc' = sc /\ sc.mode # "MEMORY" /\ src.trans = "write"
  BY DEF Spill
<1>3. SrcOK(src) /\ src \in SrcSet /\ KeepsHist(src, src) /\ ImageOK(src.view)
  BY SrcFacts DEF IInv
<1>4. DEFINE sy == IF sc.mode = "DELETE" THEN src.journal ELSE src.synced
             r == [src EXCEPT !.dirty = src.dirty \ {p}, !.spilled = TRUE, !.synced = sy]
<1>5. src.dirty \in SUBSET (1 .. sc.maxPage) /\ src.journal \in SUBSET (1 .. sc.maxPage)
  BY <1>3, SrcFields
<1>6. /\ sy \subseteq src.journal /\ src.synced \subseteq sy
      /\ sc.mode # "DELETE" => sy = {}
  BY <1>3 DEF SrcOK
<1> HIDE DEF sy
<1>7. r \in SrcSet
  BY <1>3, <1>5, <1>6 DEF SrcSet
<1>8. /\ r.hist = src.hist /\ r.view = src.view /\ r.seen = src.seen /\ r.dirty = src.dirty \ {p}
      /\ r.journal = src.journal /\ r.synced = sy /\ r.spilled = TRUE /\ r.trans = src.trans
  BY <1>3 DEF SrcSet
<1>9. src' = r
  BY <1>1 DEF sy
<1> HIDE DEF r
<1>10. SrcOK(r) /\ KeepsHist(src, r)
  BY <1>2, <1>3, <1>6, <1>7, <1>8 DEF SrcOK, Clean, KeepsHist
<1>11. p \in 1 .. Len(src.view) /\ {p} \in SUBSET (1 .. Len(src.view))
  BY <1>1, <1>5, <1>3, FileFacts DEF ImageOK
<1>12. ASSUME NEW b \in Bk, NEW k, NEW d, Told(bk[b], dst[b], src.view, {p}, k, d)
       PROVE  CopyOK(r, k, d)
  <2> SUFFICES ASSUME Going(k)
               PROVE  /\ \A q \in Used(r.view) \ r.dirty : q < k.iNext => Current(d, r.view, q)
                      /\ sc.mode # "WAL" =>
                           \A q \in Used(r.hist[r.seen]) \ r.synced :
                             q < k.iNext => Current(d, r.hist[r.seen], q)
    BY DEF CopyOK
  <2>1. /\ p < k.iNext => Current(d, src.view, p)
        /\ \A q \in Used(src.view) \ src.dirty : q < k.iNext /\ q # p => Current(d, src.view, q)
        /\ sc.mode # "WAL" =>
             \A q \in Used(src.hist[src.seen]) \ src.synced : q < k.iNext /\ q # p =>
               Current(d, src.hist[src.seen], q)
    BY <1>2, <1>3, <1>12, ToldFacts
  <2>2. \A q \in Used(r.view) \ r.dirty : q < k.iNext => Current(d, r.view, q)
    BY <1>8, <2>1
  <2>3. ASSUME sc.mode # "WAL", NEW q \in Used(r.hist[r.seen]) \ r.synced, q < k.iNext
        PROVE  Current(d, r.hist[r.seen], q)
    <3>1. sc.mode = "DELETE" /\ sy = src.journal
      BY <1>2, <2>3, ScFacts DEF IInv, sy
    <3>2. q \in Used(src.hist[src.seen]) \ src.synced /\ q \notin src.journal
      BY <1>6, <1>8, <2>3, <3>1
    <3>3. q # p
      <4>1. q \in 1 .. Len(src.hist[src.seen])
        BY <3>2 DEF Used
      <4> QED BY <1>1, <1>3, <3>2, <4>1 DEF SrcOK
    <3> QED BY <1>8, <2>1, <2>3, <3>2, <3>3
  <2> QED BY <2>2, <2>3
<1>13. \A b \in Bk : \A k, d : Told(bk[b], dst[b], src.view, {p}, k, d) => CopyOK(src', k, d)
  BY <1>9, <1>12
<1>14. SrcOK(src') /\ KeepsHist(src, src') /\ Update(src.view, {p})
  BY <1>1, <1>9, <1>10
<1> QED BY <1>2, <1>3, <1>11, <1>13, <1>14, ToldStep

\* The end of a transaction of the source.
LEMMA IdleSrc ==
  ASSUME NEW s \in SrcSet, \A i \in 1 .. Len(s.hist) : ImageOK(s.hist[i]),
         s.seen \in 1 .. Len(s.hist), s.view = s.hist[s.seen]
  PROVE  /\ SrcOK(Idle(s)) /\ Idle(s).hist = s.hist /\ Idle(s).view = s.view
         /\ Idle(s).seen = s.seen /\ Idle(s).dirty = {} /\ Idle(s).synced = {}
<1>1. Idle(s) \in SrcSet
  BY DEF Idle, SrcSet
<1>2. /\ Idle(s).hist = s.hist /\ Idle(s).view = s.view
      /\ Idle(s).seen = s.seen /\ Idle(s).dirty = {} /\ Idle(s).synced = {}
      /\ Idle(s).journal = {} /\ Idle(s).spilled = FALSE
  BY DEF Idle, SrcSet
<1> QED BY <1>1, <1>2, RestingOK

\* History grows at its end.
LEMMA AppendFacts ==
  ASSUME NEW h \in Seq(Image), NEW img, ImageOK(img), \A i \in 1 .. Len(h) : ImageOK(h[i])
  PROVE  /\ Append(h, img) \in Seq(Image) /\ Len(Append(h, img)) = Len(h) + 1 /\ Len(h) \in Nat
         /\ Append(h, img)[Len(h) + 1] = img
         /\ \A i \in 1 .. Len(h) : Append(h, img)[i] = h[i]
         /\ \A i \in 1 .. Len(h) + 1 : ImageOK(Append(h, img)[i])
<1>1. img \in Image
  BY DEF ImageOK
<1>2. /\ Append(h, img) \in Seq(Image) /\ Len(Append(h, img)) = Len(h) + 1 /\ Len(h) \in Nat
      /\ Append(h, img)[Len(h) + 1] = img
      /\ \A i \in 1 .. Len(h) : Append(h, img)[i] = h[i]
  BY <1>1
<1>3. \A i \in 1 .. Len(h) + 1 : i \in 1 .. Len(h) \/ i = Len(h) + 1
  BY <1>2
<1> QED BY <1>2, <1>3

\* The commit of the source: the backups are told of every changed page.
LEMMA CommitStepOfSource ==
  ASSUME IInv, Commit PROVE IInv'
<1> DEFINE img == IF sc.mode = "DELETE" THEN [src.view EXCEPT ![1] = <<src.txn, src.view[1][2]>>]
                  ELSE src.view
           out == InImage(IF sc.mode = "DELETE" THEN src.dirty \cup {1}
                          ELSE IF src.dirty = {} THEN {1} ELSE src.dirty)
           n == Len(src.hist) + 1
           s == [src EXCEPT !.hist = Append(src.hist, img), !.view = img, !.seen = n]
<1>1. ~InCall /\ sc' = sc /\ src.trans = "write"
  BY DEF Commit
<1>2. sc \in Scenarios /\ SrcOK(src) /\ faulty \in BOOLEAN /\ bk \in [Bk -> BkSet]
  BY DEF IInv
<1>3. /\ src \in SrcSet /\ ImageOK(src.view) /\ src.hist \in Seq(Image)
      /\ \A i \in 1 .. Len(src.hist) : ImageOK(src.hist[i])
  BY <1>2, SrcFacts
<1>4. /\ src.view \in Image /\ Len(src.view) \in Nat /\ 1 \in 1 .. Len(src.view)
      /\ src.dirty \in SUBSET (1 .. sc.maxPage)
  BY <1>3, SrcFields, FileFacts DEF ImageOK
<1>5. /\ ImageOK(img) /\ Len(img) = Len(src.view)
      /\ \A q \in 1 .. Len(src.view) : q # 1 \/ sc.mode # "DELETE" => img[q] = src.view[q]
  <2>1. CASE sc.mode = "DELETE"
    <3> DEFINE pg == <<src.txn, src.view[1][2]>>
    <3>1. pg \in Content
      BY <1>2, <1>3, <1>4, SrcFields, TxnFacts, FileFacts, ContentFacts, NewPage
    <3>2. img = [src.view EXCEPT ![1] = pg]
      BY <2>1
    <3> HIDE DEF pg, img
    <3>3. /\ ImageOK([src.view EXCEPT ![1] = pg]) /\ Len([src.view EXCEPT ![1] = pg]) = Len(src.view)
          /\ \A q \in 1 .. Len(src.view) : q # 1 => [src.view EXCEPT ![1] = pg][q] = src.view[q]
      BY <1>3, <1>4, <3>1, PageSet
    <3> QED BY <2>1, <3>2, <3>3
  <2>2. CASE sc.mode # "DELETE"
    BY <1>3, <2>2
  <2> QED BY <2>1, <2>2
<1>6. /\ out \in SUBSET (1 .. Len(img))
      /\ \A q \in Used(img) : q \notin out => q \notin src.dirty /\ (q # 1 \/ sc.mode # "DELETE")
  <2>1. \A q \in src.dirty \cup {1} : q \in Nat \ {0}
    BY <1>4
  <2>2. out \in SUBSET (1 .. Len(img))
    BY <1>4, <1>5, <2>1 DEF InImage
  <2>3. \A q \in Used(img) : q \notin out => q \notin src.dirty /\ (q # 1 \/ sc.mode # "DELETE")
    BY <1>4, <1>5 DEF InImage, Used
  <2> QED BY <2>2, <2>3
<1>7. Used(img) = Used(src.view)
  BY <1>5 DEF Used
<1>8. CASE Changed
  <2>1. /\ src' = Idle(s)
        /\ IF sc.mode = "MEMORY" THEN bk' = BackupRestart /\ UNCHANGED <<dst, faulty>>
           ELSE Update(img, out)
    BY <1>8 DEF Commit
  <2> HIDE DEF img, out
  <2>2. /\ Append(src.hist, img) \in Seq(Image) /\ Len(Append(src.hist, img)) = n
        /\ Append(src.hist, img)[n] = img /\ Len(src.hist) \in Nat
        /\ \A i \in 1 .. Len(src.hist) : Append(src.hist, img)[i] = src.hist[i]
        /\ \A i \in 1 .. n : ImageOK(Append(src.hist, img)[i])
    BY <1>3, <1>5, AppendFacts
  <2>3. img \in Image /\ n \in Nat
    BY <1>5, <2>2 DEF ImageOK
  <2>4. s \in SrcSet
    <3> HIDE DEF n
    <3> QED BY <1>3, <2>2, <2>3 DEF SrcSet
  <2>5. s.hist = Append(src.hist, img) /\ s.view = img /\ s.seen = n
    BY <1>3 DEF SrcSet
  <2> HIDE DEF s
  <2>6. s.hist[s.seen] = img /\ s.seen \in 1 .. Len(s.hist)
        /\ \A i \in 1 .. Len(s.hist) : ImageOK(s.hist[i])
    BY <2>2, <2>5
  <2>7. /\ SrcOK(src') /\ src'.hist = s.hist /\ src'.view = img
        /\ src'.seen = n /\ src'.dirty = {} /\ src'.view = src'.hist[src'.seen]
    BY <2>1, <2>4, <2>5, <2>6, IdleSrc
  <2>8. KeepsHist(src, src')
    BY <2>2, <2>5, <2>7 DEF KeepsHist
  <2>9. CASE sc.mode = "MEMORY"
    <3>1. bk' = BackupRestart /\ dst' = dst /\ faulty' = faulty
      BY <2>1, <2>9
    <3>2. \A b \in Bk : Moves(bk[b], bk'[b]) /\ CopyOK(src', bk'[b], dst[b])
      BY <1>1, <2>7, <3>1, RestartFacts, FreshCopy
    <3> QED BY <1>1, <1>2, <2>7, <2>8, <3>1, <3>2, RestartFacts, SameDestStep
  <2>10. CASE sc.mode # "MEMORY"
    <3>1. ASSUME NEW b \in Bk, NEW k, NEW d, Told(bk[b], dst[b], img, out, k, d)
          PROVE  CopyOK(src', k, d)
      <4> SUFFICES ASSUME Going(k), NEW q \in Used(img), q < k.iNext PROVE Current(d, img, q)
        BY <2>7, CleanCopy
      <4>1. /\ \A p \in out : p < k.iNext => Current(d, img, p)
            /\ \A p \in Used(src.view) \ src.dirty : p < k.iNext /\ p \notin out =>
                 Current(d, src.view, p)
        BY <1>1, <1>5, <3>1, ToldFacts
      <4>2. CASE q \in out
        BY <4>1, <4>2
      <4>3. CASE q \notin out
        <5>1. q \in Used(src.view) \ src.dirty /\ img[q] = src.view[q]
          BY <1>5, <1>6, <1>7, <4>3 DEF Used
        <5>2. Current(d, src.view, q)
          BY <4>1, <4>3, <5>1
        <5> QED BY <5>1, <5>2 DEF Current
      <4> QED BY <4>2, <4>3
    <3> QED BY <1>1, <1>5, <1>6, <2>1, <2>7, <2>8, <2>10, <3>1, ToldStep
  <2> QED BY <2>9, <2>10
<1>9. CASE ~Changed
  <2>1. src' = Idle(src) /\ bk' = bk /\ dst' = dst /\ faulty' = faulty
    BY <1>9 DEF Commit
  <2>2. src.dirty = {} /\ src.view = src.hist[src.seen]
    BY <1>2, <1>9 DEF SrcOK, Clean, Changed
  <2>3. /\ SrcOK(src') /\ src'.hist = src.hist /\ src'.view = src.view
        /\ src'.seen = src.seen /\ src'.dirty = {}
    BY <1>2, <1>3, <2>1, <2>2, SrcFacts, IdleSrc
  <2>4. KeepsHist(src, src')
    BY <1>2, <2>3, SrcFacts DEF KeepsHist
  <2>5. ASSUME NEW b \in Bk PROVE Moves(bk[b], bk'[b]) /\ CopyOK(src', bk'[b], dst[b])
    <3>1. Moves(bk[b], bk[b]) /\ CopyOK(src, bk[b], dst[b])
      BY BkParts, MovesSelf
    <3>2. CopyOK(src', bk[b], dst[b])
      BY <2>2, <2>3, <3>1, CleanCopy DEF CopyOK
    <3> QED BY <2>1, <3>1, <3>2
  <2> QED BY <1>1, <1>2, <2>1, <2>3, <2>4, <2>5, SameDestStep
<1> QED BY <1>8, <1>9

\* The rollback of the source: the backups are told of what is played back.
LEMMA RollbackStep ==
  ASSUME IInv, Rollback PROVE IInv'
<1> DEFINE img == src.hist[src.seen]
           s == [src EXCEPT !.view = img]
<1>1. ~InCall /\ sc' = sc /\ src.trans = "write" /\ src' = Idle(s)
  BY DEF Rollback
<1>2. sc \in Scenarios /\ SrcOK(src) /\ faulty \in BOOLEAN /\ bk \in [Bk -> BkSet]
  BY DEF IInv
<1>3. /\ src \in SrcSet /\ ImageOK(img) /\ src.seen \in 1 .. Len(src.hist)
      /\ \A i \in 1 .. Len(src.hist) : ImageOK(src.hist[i]) /\ KeepsHist(src, src)
  BY <1>2, SrcFacts
<1>4. s \in SrcSet
  <2>1. img \in Image
    BY <1>3 DEF ImageOK
  <2> HIDE DEF img
  <2> QED BY <1>3, <2>1 DEF SrcSet
<1>5. s.hist = src.hist /\ s.view = img /\ s.seen = src.seen
  BY <1>3 DEF SrcSet
<1> HIDE DEF s
<1>6. /\ SrcOK(src') /\ src'.hist = src.hist /\ src'.view = img /\ src'.seen = src.seen
      /\ src'.dirty = {} /\ src'.view = src'.hist[src'.seen]
  BY <1>1, <1>3, <1>4, <1>5, IdleSrc
<1>7. KeepsHist(src, src')
  BY <1>3, <1>6 DEF KeepsHist
<1>8. CASE sc.mode = "DELETE"
  <2>1. Update(img, src.synced)
    BY <1>8 DEF Rollback
  <2>2. src.synced \in SUBSET (1 .. Len(img))
    BY <1>2 DEF SrcOK
  <2>3. ASSUME NEW b \in Bk, NEW k, NEW d, Told(bk[b], dst[b], img, src.synced, k, d)
        PROVE  CopyOK(src', k, d)
    <3> SUFFICES ASSUME Going(k), NEW q \in Used(img), q < k.iNext PROVE Current(d, img, q)
      BY <1>6, CleanCopy
    <3>1. /\ \A p \in src.synced : p < k.iNext => Current(d, img, p)
          /\ \A p \in Used(img) \ src.synced : p < k.iNext /\ p \notin src.synced =>
               Current(d, img, p)
      BY <1>1, <1>3, <1>8, <2>3, ToldFacts
    <3> QED BY <3>1
  <2> HIDE DEF img
  <2>4. \A b \in Bk : \A k, d : Told(bk[b], dst[b], img, src.synced, k, d) => CopyOK(src', k, d)
    BY <2>3
  <2> QED BY <1>1, <1>3, <1>6, <1>7, <2>1, <2>2, <2>4, ToldStep
<1>9. CASE sc.mode = "WAL" /\ Changed
  <2>1. bk' = BackupRestart /\ dst' = dst /\ faulty' = faulty
    BY <1>9 DEF Rollback
  <2>2. \A b \in Bk : Moves(bk[b], bk'[b]) /\ CopyOK(src', bk'[b], dst[b])
    BY <1>1, <1>6, <2>1, RestartFacts, FreshCopy
  <2> QED BY <1>1, <1>2, <1>6, <1>7, <2>1, <2>2, RestartFacts, SameDestStep
<1>10. CASE sc.mode # "DELETE" /\ ~(sc.mode = "WAL" /\ Changed)
  <2>1. bk' = bk /\ dst' = dst /\ faulty' = faulty
    BY <1>10 DEF Rollback
  <2>2. ASSUME NEW b \in Bk PROVE Moves(bk[b], bk'[b]) /\ CopyOK(src', bk'[b], dst[b])
    <3>1. Moves(bk[b], bk[b]) /\ CopyOK(src, bk[b], dst[b])
      BY BkParts, MovesSelf
    <3>2. CASE sc.mode = "WAL"
      <4>1. src.dirty = {} /\ src.view = img
        BY <1>2, <1>10, <3>2 DEF SrcOK, Clean, Changed
      <4>2. CopyOK(src', bk[b], dst[b])
        BY <1>6, <3>1, <4>1, CleanCopy DEF CopyOK
      <4> QED BY <2>1, <3>1, <4>2
    <3>3. CASE sc.mode # "WAL"
      <4>1. src.synced = {}
        BY <1>2, <1>10 DEF SrcOK
      <4>2. Going(bk[b]) /\ dst[b].at = "idle" =>
              \A p \in Used(img) : p < bk[b].iNext => Current(dst[b], img, p)
        BY <3>1, <3>3, <4>1 DEF CopyOK
      <4>3. CopyOK(src', bk[b], dst[b])
        BY <1>6, <4>2, CleanCopy
      <4> QED BY <2>1, <3>1, <4>3
    <3> QED BY <3>2, <3>3
  <2> QED BY <1>1, <1>2, <1>6, <1>7, <2>1, <2>2, SameDestStep
<1> QED BY <1>8, <1>9, <1>10

\* An I/O error of the source: its cache is dropped, so the backups restart.
LEMMA SourceFailsStep ==
  ASSUME IInv, SourceFails PROVE IInv'
<1>1. /\ ~InCall /\ sc' = sc /\ faulty' = FALSE /\ dst' = dst
      /\ src' = Idle(pager_reset.s) /\ bk' = pager_reset.b
  BY DEF SourceFails
<1>2. /\ SrcOK(src') /\ KeepsHist(src, src') /\ bk' \in [Bk -> BkSet]
      /\ \A b \in Bk : Moves(bk[b], bk'[b]) /\ CopyOK(src', bk'[b], dst[b])
  BY <1>1, ResetFacts
<1> QED BY <1>1, <1>2, SameDestStep

\* Nothing but history has changed.
LEMMA HistGood ==
  ASSUME NEW s, SrcOK(s), NEW k, NEW d, Good(s, k, d), NEW s2, KeepsHist(s, s2),
         s2.view = s.view, s2.seen = s.seen, s2.dirty = s.dirty, s2.synced = s.synced,
         s2.trans = s.trans
  PROVE  Good(s2, k, d)
<1>1. s2.hist[s.seen] = s.hist[s.seen]
  BY SrcFacts DEF KeepsHist
<1>2. CopyOK(s2, k, d)
  BY <1>1 DEF Good, CopyOK
<1>3. d.copied # 0 => NewOK(s2, k, d)
  <2> SUFFICES ASSUME d.copied # 0 PROVE NewOK(s2, k, d)
    OBVIOUS
  <2>1. NewOK(s, k, d)
    BY DEF Good
  <2>2. d.copied \in 1 .. Len(s2.hist) /\ s2.hist[d.copied] = s.hist[d.copied]
    BY <2>1 DEF NewOK, KeepsHist
  <2> QED BY <2>1, <2>2 DEF NewOK
<1>4. d.at # "idle" => CommitOK(s2, k, d)
  BY DEF Good, CommitOK
<1> QED BY <1>2, <1>3, <1>4 DEF Good

\* A commit by another process: only history has changed.
LEMMA ExternalCommitStep ==
  ASSUME IInv, ExternalCommit PROVE IInv'
<1> DEFINE t == src.txn + 1
           claim(img) == IF sc.header = sc.nSrc THEN Claim(img, t)
                         ELSE [img EXCEPT ![1] = <<t, @[2]>>]
<1>1. t <= sc.txns /\ sc' = sc /\ bk' = bk /\ dst' = dst /\ faulty' = faulty
  BY DEF ExternalCommit
<1>2. sc \in Scenarios /\ SrcOK(src) /\ faulty \in BOOLEAN /\ src \in SrcSet
  BY SrcFacts DEF IInv
<1>3. t \in 0 .. sc.txns /\ t \in Version
  BY <1>1, <1>2, SrcFields, ScFacts, TxnFacts
<1>4. ImageOK(Disk) /\ Disk \in Image /\ Len(Disk) \in 1 .. sc.maxPage /\ sc.maxPage \in Nat
  BY <1>2, SrcFacts, ScFacts DEF Disk, Last1, ImageOK
<1> HIDE DEF t
<1>5. ASSUME NEW img, ImageOK(img) PROVE ImageOK(claim(img))
  <2>1. 1 \in 1 .. Len(img) /\ img \in Image /\ Len(img) \in Nat
    BY <1>5, FileFacts DEF ImageOK
  <2>2. img[1][2] \in Nat
    BY <2>1, FileFacts, ContentFacts
  <2>3. <<t, Len(img)>> \in Content /\ <<t, img[1][2]>> \in Content
    BY <1>2, <1>3, <2>1, <2>2, NewPage
  <2>4. ASSUME NEW pg \in Content PROVE ImageOK([img EXCEPT ![1] = pg])
    BY <1>5, <2>1, PageSet
  <2>5. ImageOK([img EXCEPT ![1] = <<t, Len(img)>>])
    BY <2>3, <2>4
  <2>6. ImageOK([img EXCEPT ![1] = <<t, img[1][2]>>])
    BY <2>3, <2>4
  <2> QED BY <2>5, <2>6 DEF Claim
<1>6. PICK img \in {[Disk EXCEPT ![p] = <<t, @[2]>>] : p \in Used(Disk)}
                    \cup {i \in {Grown(Disk, t)} : Len(i) <= sc.maxPage}
                    \cup (IF Len(Disk) > 1 THEN {Shrunk(Disk)} ELSE {}) :
        src' = [src EXCEPT !.hist = Append(src.hist, claim(img)), !.txn = t]
  <2> HIDE DEF claim
  <2> QED BY DEF ExternalCommit, claim, t
<1>7. ImageOK(img)
  <2>1. ASSUME NEW p \in Used(Disk), img = [Disk EXCEPT ![p] = <<t, Disk[p][2]>>]
        PROVE  ImageOK(img)
    <3> DEFINE pg == <<t, Disk[p][2]>>
    <3>1. p \in 1 .. Len(Disk)
      BY DEF Used
    <3>2. pg \in Content
      BY <1>2, <1>3, <1>4, <3>1, FileFacts, ContentFacts, NewPage
    <3>3. img = [Disk EXCEPT ![p] = pg]
      BY <2>1
    <3> HIDE DEF pg
    <3>4. ImageOK([Disk EXCEPT ![p] = pg])
      BY <1>4, <3>1, <3>2, PageSet
    <3> QED BY <3>3, <3>4
  <2>2. ASSUME img = Grown(Disk, t), Len(img) <= sc.maxPage PROVE ImageOK(img)
    <3>1. img \in Image /\ Len(img) \in Nat /\ Len(img) # SrcPending /\ Len(Disk) < Len(img)
      BY <1>2, <1>3, <1>4, <2>2, GrownFacts
    <3> QED BY <1>4, <2>2, <3>1 DEF ImageOK
  <2>3. ASSUME Len(Disk) > 1, img = Shrunk(Disk) PROVE ImageOK(img)
    BY <1>2, <1>4, <2>3, ShrunkFacts
  <2> HIDE DEF claim
  <2> QED BY <1>6, <2>1, <2>2, <2>3
<1> DEFINE new == claim(img)
<1>8. ImageOK(new)
  BY <1>5, <1>7
<1>9. src' = [src EXCEPT !.hist = Append(src.hist, new), !.txn = t]
  BY <1>6
<1> HIDE DEF claim, new
<1>10. src.hist \in Seq(Image) /\ \A i \in 1 .. Len(src.hist) : ImageOK(src.hist[i])
  BY <1>2, SrcFacts
<1>11. /\ Append(src.hist, new) \in Seq(Image)
       /\ Len(Append(src.hist, new)) = Len(src.hist) + 1 /\ Len(src.hist) \in Nat
       /\ \A i \in 1 .. Len(src.hist) : Append(src.hist, new)[i] = src.hist[i]
       /\ \A i \in 1 .. Len(src.hist) + 1 : ImageOK(Append(src.hist, new)[i])
  BY <1>8, <1>10, AppendFacts
<1>12. src' \in SrcSet
  BY <1>2, <1>3, <1>9, <1>11 DEF SrcSet
<1>13. /\ src'.hist = Append(src.hist, new) /\ src'.view = src.view /\ src'.seen = src.seen
       /\ src'.dirty = src.dirty /\ src'.journal = src.journal /\ src'.synced = src.synced
       /\ src'.spilled = src.spilled /\ src'.trans = src.trans
  BY <1>2, <1>9 DEF SrcSet
<1>14. KeepsHist(src, src')
  BY <1>11, <1>13 DEF KeepsHist
<1>15. src.seen \in 1 .. Len(src'.hist) /\ src'.hist[src.seen] = src.hist[src.seen]
       /\ \A i \in 1 .. Len(src'.hist) : ImageOK(src'.hist[i])
  <2>1. src.seen \in 1 .. Len(src.hist)
    BY <1>2, SrcFacts
  <2> QED BY <1>11, <1>13, <2>1
<1>16. SrcOK(src')
  BY <1>2, <1>12, <1>13, <1>15 DEF SrcOK, Clean
<1>17. \A b \in Bk : Good(src', bk'[b], dst'[b])
  BY <1>1, <1>2, <1>13, <1>14, BkParts, HistGood
<1>18. /\ bk' \in [Bk -> BkSet] /\ dst' \in [Bk -> DestSet]
       /\ \A b, c \in Bk : b # c => dst'[b].at = "idle" \/ dst'[c].at = "idle"
  BY <1>1 DEF IInv
<1> HIDE DEF IInv
<1> QED BY <1>1, <1>2, <1>16, <1>17, <1>18, StepFacts

-----------------------------------------------------------------------------
(* The backup: its steps that copy nothing *)

\* An error code is set by a step that was allowed to begin.
LEMMA SetRc ==
  ASSUME NEW k \in BkSet, NEW l, Moves(k, l), l.rc = k.rc, Going(k), k.state = "open",
         NEW rc \in {"BUSY", "IOERR"}
  PROVE  Moves(k, [l EXCEPT !.rc = rc]) /\ Moves(l, [l EXCEPT !.rc = rc])
<1> DEFINE r == [l EXCEPT !.rc = rc]
<1>1. l \in BkSet /\ l.state = "open" /\ Going(l)
  BY DEF Moves, Going
<1>2. r \in BkSet
  BY <1>1 DEF BkSet
<1>3. /\ r.rc = rc /\ r.state = l.state /\ r.iNext = l.iNext
      /\ r.bDestLocked = l.bDestLocked /\ r.isAttached = l.isAttached
  BY <1>1 DEF BkSet
<1> HIDE DEF r
<1>4. Moves(k, r) /\ Moves(l, r)
  BY <1>1, <1>2, <1>3 DEF Moves
<1> QED BY <1>4 DEF r

\* sqlite3_backup_init()
LEMMA BackupInitStep ==
  ASSUME IInv, NEW b \in Bk, BackupInit(b) PROVE IInv'
<1>1. /\ ~InCall /\ bk[b].state = "none" /\ bk' = [bk EXCEPT ![b].state = "open"]
      /\ sc' = sc /\ src' = src /\ dst' = dst /\ faulty' = faulty
  BY DEF BackupInit
<1>2. SrcOK(src) /\ faulty \in BOOLEAN /\ bk \in [Bk -> BkSet] /\ KeepsHist(src, src)
  BY SrcFacts DEF IInv
<1> DEFINE k == [bk[b] EXCEPT !.state = "open"]
<1>3. k \in BkSet
  BY <1>2 DEF BkSet
<1>4. /\ k.state = "open" /\ k.rc = bk[b].rc /\ k.iNext = bk[b].iNext
      /\ k.bDestLocked = bk[b].bDestLocked /\ k.isAttached = bk[b].isAttached
  BY <1>2 DEF BkSet
<1>5. \A c \in Bk : bk'[c] = IF c = b THEN k ELSE bk[c]
  BY <1>1, <1>2
<1>6. bk' \in [Bk -> BkSet]
  BY <1>1, <1>2, <1>3
<1> HIDE DEF k
<1>7. Moves(bk[b], k)
  BY <1>1, <1>3, <1>4 DEF Moves
<1>8. ASSUME NEW c \in Bk PROVE Moves(bk[c], bk'[c]) /\ CopyOK(src', bk'[c], dst[c])
  <2>1. Moves(bk[c], bk'[c])
    BY <1>2, <1>5, <1>7, MovesSelf
  <2> QED BY <1>1, <1>2, <2>1, BkParts, MovesCopy
<1> QED BY <1>1, <1>2, <1>6, <1>8, SameDestStep

\* Somebody begins or stops to read a destination.
LEMMA ReaderStep ==
  ASSUME IInv, NEW b \in Bk, DestReader(b) \/ DestReaderLeaves(b) PROVE IInv'
<1>1. PICK r \in {"on", "left"} : dst' = [dst EXCEPT ![b].reader = r]
  BY DEF DestReader, DestReaderLeaves
<1>2. sc' = sc /\ src' = src /\ bk' = bk /\ faulty' = faulty
  BY DEF DestReader, DestReaderLeaves
<1>3. SrcOK(src) /\ faulty \in BOOLEAN /\ bk \in [Bk -> BkSet] /\ dst \in [Bk -> DestSet]
      /\ sc \in Scenarios /\ \A c \in Bk : Good(src, bk[c], dst[c])
  BY DEF IInv
<1> DEFINE d == [dst[b] EXCEPT !.reader = r]
<1>4. d \in DestSet
  BY <1>3 DEF DestSet
<1>5. Alike(dst[b], d)
  BY <1>3 DEF DestSet, Alike
<1>6. \A c \in Bk : dst'[c] = IF c = b THEN d ELSE dst[c]
  BY <1>1, <1>3
<1>7. dst' \in [Bk -> DestSet]
  BY <1>1, <1>3, <1>4
<1> HIDE DEF d
<1>8. \A c \in Bk : Good(src', bk'[c], dst'[c])
  BY <1>2, <1>3, <1>4, <1>5, <1>6, AlikeGood
<1>9. \A c, e \in Bk : c # e => dst'[c].at = "idle" \/ dst'[e].at = "idle"
  BY <1>5, <1>6 DEF IInv, Alike
<1> HIDE DEF IInv
<1> QED BY <1>2, <1>3, <1>7, <1>8, <1>9, StepFacts

\* backup_step() is told that the source is being written.
LEMMA StepBusyStep ==
  ASSUME IInv, NEW b \in Bk, StepBusy(b) PROVE IInv'
<1>1. /\ ~InCall /\ bk[b].state = "open" /\ ~isFatalError(bk[b].rc)
      /\ bk' = [bk EXCEPT ![b].rc = "BUSY"]
      /\ sc' = sc /\ src' = src /\ dst' = dst /\ faulty' = faulty
  BY DEF StepBusy, CanStep
<1>2. SrcOK(src) /\ faulty \in BOOLEAN /\ bk \in [Bk -> BkSet] /\ KeepsHist(src, src)
  BY SrcFacts DEF IInv
<1> DEFINE k == [bk[b] EXCEPT !.rc = "BUSY"]
<1>3. Moves(bk[b], k)
  BY <1>1, <1>2, MovesSelf, SetRc DEF Going
<1>4. \A c \in Bk : bk'[c] = IF c = b THEN k ELSE bk[c]
  BY <1>1, <1>2
<1>5. bk' \in [Bk -> BkSet]
  BY <1>1, <1>2, <1>3 DEF Moves
<1> HIDE DEF k
<1>6. ASSUME NEW c \in Bk PROVE Moves(bk[c], bk'[c]) /\ CopyOK(src', bk'[c], dst[c])
  <2>1. Moves(bk[c], bk'[c])
    BY <1>2, <1>3, <1>4, MovesSelf
  <2> QED BY <1>1, <1>2, <2>1, BkParts, MovesCopy
<1> QED BY <1>1, <1>2, <1>5, <1>6, SameDestStep

\* backup_step() fails once the source is locked, before it has copied anything.
LEMMA LockedFails ==
  ASSUME IInv, NEW b \in Bk, CanStep(b), src.trans # "write", NEW rc \in {"BUSY", "IOERR"},
         src' = SharedLock.s, bk' = [SharedLock.b EXCEPT ![b].rc = rc]
  PROVE  /\ SrcOK(src') /\ KeepsHist(src, src') /\ bk' \in [Bk -> BkSet]
         /\ \A c \in Bk : Moves(bk[c], bk'[c]) /\ CopyOK(src', bk'[c], dst[c])
<1>1. ~InCall /\ bk[b].state = "open" /\ Going(bk[b])
  BY DEF CanStep, Going
<1>2. /\ SrcOK(SharedLock.s) /\ KeepsHist(src, SharedLock.s)
      /\ SharedLock.b \in [Bk -> BkSet]
      /\ \A c \in Bk : /\ Moves(bk[c], SharedLock.b[c])
                       /\ SharedLock.b[c].rc = bk[c].rc
                       /\ CopyOK(SharedLock.s, SharedLock.b[c], dst[c])
  BY <1>1, SharedLockFacts
<1> DEFINE l == SharedLock.b
           k == [l[b] EXCEPT !.rc = rc]
<1> HIDE DEF l
<1>3. bk[b] \in BkSet
  BY BkParts
<1>4. Moves(bk[b], k) /\ Moves(l[b], k)
  BY <1>1, <1>2, <1>3, SetRc DEF l
<1>5. \A c \in Bk : bk'[c] = IF c = b THEN k ELSE l[c]
  BY <1>2 DEF l
<1>6. bk' \in [Bk -> BkSet]
  BY <1>2, <1>4 DEF Moves, l
<1> HIDE DEF k
<1>7. ASSUME NEW c \in Bk PROVE Moves(bk[c], bk'[c]) /\ CopyOK(src', bk'[c], dst[c])
  <2>1. CASE c = b
    <3>1. CopyOK(src', k, dst[b]) 
      BY <1>2, <1>4, MovesCopy DEF l
    <3> QED BY <1>4, <1>5, <2>1, <3>1
  <2>2. CASE c # b
    BY <1>2, <1>5, <2>2 DEF l
  <2> QED BY <2>1, <2>2
<1> QED BY <1>2, <1>6, <1>7

\* backup_step() cannot lock the destination.
LEMMA StepDestBusyStep ==
  ASSUME IInv, NEW b \in Bk, StepDestBusy(b) PROVE IInv'
<1>1. /\ CanStep(b) /\ src.trans # "write" /\ src' = SharedLock.s
      /\ bk' = [SharedLock.b EXCEPT ![b].rc = "BUSY"]
      /\ sc' = sc /\ dst' = dst /\ faulty' = faulty
  BY DEF StepDestBusy
<1>2. /\ SrcOK(src') /\ KeepsHist(src, src') /\ bk' \in [Bk -> BkSet]
      /\ \A c \in Bk : Moves(bk[c], bk'[c]) /\ CopyOK(src', bk'[c], dst[c])
  BY <1>1, LockedFails
<1>3. ~InCall
  BY <1>1 DEF CanStep
<1>4. faulty' \in BOOLEAN
  BY <1>1 DEF IInv
<1> QED BY <1>1, <1>2, <1>3, <1>4, SameDestStep

\* The first half of StepFails.
LEMMA StepFailsEarly ==
  ASSUME IInv, NEW b \in Bk, CanStep(b), src.trans # "write", src' = SharedLock.s,
         bk' = [SharedLock.b EXCEPT ![b].rc = "IOERR"],
         dst' = [dst EXCEPT ![b].at = "idle", ![b].close = FALSE], sc' = sc,
         faulty' = FALSE
  PROVE  IInv'
<1>1. /\ SrcOK(src') /\ KeepsHist(src, src') /\ bk' \in [Bk -> BkSet]
      /\ \A c \in Bk : Moves(bk[c], bk'[c]) /\ CopyOK(src', bk'[c], dst[c])
  BY LockedFails
<1>2. ~InCall
  BY DEF CanStep
<1>3. dst \in [Bk -> DestSet] /\ dst[b].at = "idle"
  BY <1>2 DEF IInv, InCall
<1> DEFINE d == [dst[b] EXCEPT !.at = "idle", !.close = FALSE]
<1>4. d \in DestSet /\ Alike(dst[b], d)
  <2>1. dst[b] \in DestSet
    BY <1>3
  <2> QED BY <1>3, <2>1 DEF DestSet, Alike
<1>5. \A c \in Bk : dst'[c] = IF c = b THEN d ELSE dst[c]
  BY <1>3
<1>6. dst' \in [Bk -> DestSet]
  BY <1>3, <1>4
<1> HIDE DEF d
<1>7. \A c \in Bk : Alike(dst[c], dst'[c]) /\ Extends(dst[c], dst'[c])
  BY <1>3, <1>4, <1>5, AlikeSelf, AlikeExtends
<1>8. ASSUME NEW c \in Bk PROVE CopyOK(src', bk'[c], dst'[c])
  <2>1. \A v, p : Current(dst[c], v, p) => Current(dst'[c], v, p)
    BY <1>7 DEF Alike, Current
  <2>2. CopyOK(src', bk'[c], dst[c]) /\ dst'[c].at = dst[c].at
    BY <1>1, <1>7 DEF Alike
  <2> QED BY <2>1, <2>2 DEF CopyOK
<1> HIDE DEF IInv
<1> QED BY <1>1, <1>2, <1>6, <1>7, <1>8, IdleStep

-----------------------------------------------------------------------------
(* The backup: a step that copies pages *)

\* The smaller and the larger of two numbers.
LEMMA MinOfTwo ==
  ASSUME NEW a \in Nat, NEW b \in Nat
  PROVE  Min({a, b}) = IF a <= b THEN a ELSE b
<1> DEFINE S == {a, b}
<1>1. S \in SUBSET (0 .. a + b) /\ S # {} /\ a + b \in Nat
  OBVIOUS
<1> HIDE DEF S
<1>2. Min(S) \in S /\ \A j \in S : Min(S) <= j
  BY <1>1, MinFacts, Zenon
<1>3. Min({a, b}) \in {a, b} /\ Min({a, b}) <= a /\ Min({a, b}) <= b
  BY <1>2 DEF S
<1> QED BY <1>3

\* The larger of two numbers.
LEMMA MaxOfTwo ==
  ASSUME NEW a \in Nat, NEW b \in Nat
  PROVE  Max({a, b}) = IF a <= b THEN b ELSE a
<1> DEFINE S == {a, b}
<1>1. S \in SUBSET (0 .. a + b) /\ S # {} /\ a + b \in Nat
  OBVIOUS
<1> HIDE DEF S
<1>2. Max(S) \in S /\ \A j \in S : j <= Max(S)
  BY <1>1, MaxFacts, Zenon
<1>3. Max({a, b}) \in {a, b} /\ a <= Max({a, b}) /\ b <= Max({a, b})
  BY <1>2 DEF S
<1> QED BY <1>3

\* A step goes from page first to page next - 1 of img, or to its end.
StepRange(img, first, next, pages) ==
  /\ next \in 1 .. sc.maxPage + 1 /\ pages \in SUBSET (1 .. Len(img))
  /\ \A p \in Used(img) : p < next => p < first \/ p \in pages
  /\ next > Len(img) => \A p \in Used(img) : p < next

\* The pages of one step, and where it ends.
LEMMA StepPages ==
  ASSUME NEW img, ImageOK(img), sc \in Scenarios, NEW first \in 1 .. sc.maxPage + 1,
         NEW n \in Nat
  PROVE  LET last  == Min({first + n - 1, Len(img)})
             next  == Max({first, last + 1}) IN
         StepRange(img, first, next, (first .. last) \ {SrcPending})
<1> DEFINE m == Len(img)
           last == Min({first + n - 1, m})
           next == Max({first, last + 1})
<1>1. m \in 1 .. sc.maxPage /\ sc.maxPage \in Nat /\ first \in Nat
  BY ScFacts DEF ImageOK
<1>2. first + n - 1 \in Nat /\ m \in Nat
  BY <1>1
<1>3. last = IF first + n - 1 <= m THEN first + n - 1 ELSE m
  BY <1>2, MinOfTwo
<1> HIDE DEF m, last
<1>4. last \in Nat /\ last <= m
  BY <1>2, <1>3
<1>5. next = IF first <= last + 1 THEN last + 1 ELSE first
  BY <1>1, <1>4, MaxOfTwo
<1> HIDE DEF next
<1>6. next \in 1 .. sc.maxPage + 1
  BY <1>1, <1>4, <1>5
<1>7. (first .. last) \ {SrcPending} \in SUBSET (1 .. m)
  BY <1>1, <1>4
<1>8. ASSUME NEW p \in (1 .. m) \ {SrcPending}
      PROVE  /\ p < next => p < first \/ p \in (first .. last) \ {SrcPending}
             /\ next > m => p < next
  BY <1>1, <1>4, <1>5, <1>6, <1>8
<1> QED BY <1>6, <1>7, <1>8 DEF Used, m, last, next, StepRange

\* A page that is in the cache as changed is there.
LEMMA CurrentHas ==
  ASSUME NEW d, NEW img, NEW p, Current(d, img, p)
  PROVE  HasBut(d.img, img, p)
BY DEF Current, HasBut

\* The first page is one of them.
LEMMA CurrentDirty ==
  ASSUME sc \in Scenarios, NEW d, NEW img, ImageOK(img),
         \A p \in Used(img) : Current(d, img, p)
  PROVE  d.dirty # {}
<1>1. 1 \in Used(img)
  BY ScFacts DEF Used, ImageOK
<1>2. 1 \in Units(1, sc.srcSz)
  BY ScFacts DEF Units
<1>3. PageOf(1, sc.destSz) # DestPending
  <2>1. PendingByte >= 2 /\ PendingByte \in Nat /\ sc.destSz \in {1, 2}
        /\ DestPending * sc.destSz = PendingByte + sc.destSz
    BY ScFacts
  <2>2. CASE sc.destSz = 1
    BY <2>1, <2>2 DEF PageOf
  <2>3. CASE sc.destSz = 2
    BY <2>1, <2>3 DEF PageOf
  <2> QED BY <2>1, <2>2, <2>3
<1> QED BY <1>1, <1>2, <1>3 DEF Current

\* A backup that has something left to do has not changed its destination yet.
LEMMA StillOld ==
  ASSUME IInv, NEW b \in Bk, CanStep(b)
  PROVE  /\ dst[b].at = "idle" /\ dst[b].copied = 0 /\ bk[b].state = "open"
         /\ Going(bk[b]) /\ OldOK(bk[b], dst[b])
         /\ dst[b].file = dst[b].orig /\ dst[b].disk = dst[b].orig /\ CacheOK(dst[b])
<1>1. Good(src, bk[b], dst[b]) /\ dst[b].at = "idle" /\ bk[b].state = "open" /\ Going(bk[b])
  BY BkParts DEF CanStep, InCall, Going
<1>2. dst[b].copied = 0
  BY <1>1 DEF Good, NewOK, Going, isFatalError
<1>3. OldOK(bk[b], dst[b])
  BY <1>1, <1>2 DEF Good
<1> QED BY <1>1, <1>2, <1>3 DEF OldOK

\* What a step of n pages makes of the backup l and its destination d.
StepLast(l, img, n) == Min({l.iNext + n - 1, Len(img)})
StepNext(l, img, n) == Max({l.iNext, StepLast(l, img, n) + 1})
Done(l, img, n)     == StepNext(l, img, n) > Len(img)
StepBk(l, img, n) ==
  [l EXCEPT !.bDestLocked = TRUE, !.iNext = StepNext(l, img, n), !.rc = "OK",
            !.isAttached = l.isAttached \/ ~Done(l, img, n)]
StepDst(d, l, img, n, cl) ==
  [CopyPages(d, img, l.iNext, StepLast(l, img, n)) EXCEPT
     !.at = IF Done(l, img, n) THEN "commit" ELSE "idle", !.close = cl]

\* What the copying leaves in the destination's cache.
LEMMA StepDest ==
  ASSUME sc \in Scenarios, NEW k \in BkSet, NEW d \in DestSet, OldOK(k, d), d.copied = 0,
         d.at = "idle", Len(d.orig) = sc.nDest * sc.destSz, k.state = "open", Going(k),
         NEW s, SrcOK(s), NEW l, Moves(k, l), CopyOK(s, l, d), Going(l), s.trans # "write",
         NEW n \in Nat, NEW s2, SrcOK(s2), s2.view = s.view, s2.dirty = s.dirty,
         s2.hist = s.hist, s2.seen = s.seen, NEW cl \in BOOLEAN,
         s2.trans = IF Done(l, s.view, n) THEN "read" ELSE s.trans
  PROVE  /\ Good(s2, StepBk(l, s.view, n), StepDst(d, l, s.view, n, cl))
         /\ StepBk(l, s.view, n) \in BkSet /\ StepDst(d, l, s.view, n, cl) \in DestSet
<1> DEFINE img   == s.view
           first == l.iNext
           last  == Min({first + n - 1, Len(img)})
           next  == Max({first, last + 1})
           done  == next > Len(img)
           att   == l.isAttached \/ ~done
           at    == IF done THEN "commit" ELSE "idle"
           pages == (first .. last) \ {SrcPending}
           c     == backupOnePage(d, img, pages, FALSE)
           l2    == [l EXCEPT !.bDestLocked = TRUE, !.iNext = next, !.rc = "OK",
                              !.isAttached = att]
           d2    == [c EXCEPT !.at = at, !.close = cl]
<1>1. l \in BkSet /\ l.state = "open" /\ first \in 1 .. sc.maxPage + 1
  BY BkFields DEF Moves
<1>2. ImageOK(img) /\ img = s.hist[s.seen] /\ s.dirty = {} /\ s2.dirty = {}
  BY NotWriting, SrcFacts
<1> HIDE DEF first, img
<1>3. /\ next \in 1 .. sc.maxPage + 1 /\ pages \in SUBSET (1 .. Len(img))
      /\ \A p \in Used(img) : p < next => p < first \/ p \in pages
      /\ done => \A p \in Used(img) : p < next
  <2>1. StepRange(img, first, next, pages)
    BY <1>1, <1>2, StepPages
  <2> HIDE DEF next, pages
  <2> QED BY <2>1 DEF StepRange
<1>4. Copied(d, img, pages, c)
  <2> HIDE DEF pages
  <2> QED BY <1>2, <1>3, OnePageFacts
<1>5. s2.trans = IF done THEN "read" ELSE s.trans
  BY DEF first, img, Done, StepNext, StepLast
<1>6. att \in BOOLEAN /\ at \in {"idle", "commit"} /\ (done <=> at = "commit")
      /\ (at = "idle" => att)
  BY <1>1, BkFields
<1> HIDE DEF c, pages, done, next, last
<1>7. c \in DestSet /\ Extends(d, c) /\ \A p \in pages : Current(c, img, p)
  BY <1>4 DEF Copied
<1>8. \A p \in Used(img) : p < next => Current(c, img, p)
  <2> SUFFICES ASSUME NEW p \in Used(img), p < next, p \notin pages PROVE Current(c, img, p)
    BY <1>7
  <2>1. p < first
    BY <1>3
  <2>2. Current(d, img, p)
    BY <1>2, <2>1 DEF CopyOK, first, img
  <2>3. p \in Nat \ {0} /\ img \in Image
    BY <1>2, FileFacts DEF Used, ImageOK
  <2> QED BY <1>4, <2>2, <2>3 DEF Copied
<1> HIDE DEF att, at
<1>9. /\ l2 \in BkSet /\ l2.state = "open" /\ l2.iNext = next /\ l2.rc = "OK"
      /\ l2.bDestLocked = TRUE /\ l2.isAttached = att
  BY <1>1, <1>3, <1>6 DEF BkSet
<1>10. /\ d2 \in DestSet /\ d2.orig = c.orig /\ d2.file = c.file /\ d2.disk = c.disk
       /\ d2.img = c.img /\ d2.dirty = c.dirty /\ d2.journal = c.journal /\ d2.at = at
       /\ d2.copied = c.copied
  <2>1. at \in {"idle", "commit", "extra", "cut", "sync", "final", "trunc"}
    BY <1>6
  <2> QED BY <1>7, <2>1 DEF DestSet
<1> HIDE DEF l2, d2
<1>11. /\ d2.orig = d.orig /\ d2.file = d.orig /\ d2.disk = d.orig /\ d2.copied = 0
  BY <1>7, <1>10 DEF Extends, OldOK
<1>12. \A p \in Used(img) : p < next => Current(d2, img, p)
  BY <1>8, <1>10 DEF Current
<1>13. CacheOK(d2)
  <2>1. CacheOK(d)
    BY DEF OldOK
  <2>2. CacheOK(c)
    BY <1>7, <2>1, CacheExtends
  <2> QED BY <1>10, <2>2 DEF CacheOK
<1>14. OldOK(l2, d2)
  <2>1. DestPending \notin d2.dirty
    BY <1>7, <1>10 DEF OldOK, Extends
  <2>2. \A p \in d2.dirty : p * sc.destSz <= Len(d2.orig) => p \in d2.journal
    BY <1>7, <1>10, <1>11 DEF OldOK, Extends
  <2>3. Journaled(d2, d2.file) /\ Journaled(d2, d2.disk)
    BY <1>11 DEF Journaled
  <2>4. d2.dirty = {} => d2.journal = {}
    BY <1>7, <1>10 DEF OldOK, Extends
  <2> QED BY <1>6, <1>9, <1>10, <1>11, <1>13, <2>1, <2>2, <2>3, <2>4 DEF OldOK
<1>15. BkOK(l2, d2)
  BY <1>6, <1>9, <1>10 DEF BkOK
<1>16. CopyOK(s2, l2, d2)
  BY <1>2, <1>9, <1>12, CleanCopy DEF img
<1>17. d2.at # "idle" => CommitOK(s2, l2, d2)
  <2> SUFFICES ASSUME d2.at # "idle" PROVE CommitOK(s2, l2, d2)
    OBVIOUS
  <2>1. d2.at = "commit" /\ done
    BY <1>6, <1>10
  <2>2. \A p \in Used(img) : Current(d2, img, p)
    BY <1>3, <1>12, <2>1
  <2>3. \A p \in Used(img) : HasBut(d2.img, img, p)
    BY <2>2, CurrentHas
  <2>4. d2.dirty # {}
    BY <1>2, <2>2, CurrentDirty
  <2> QED BY <1>5, <1>9, <2>1, <2>2, <2>3, <2>4 DEF CommitOK, img
<1>18. Good(s2, l2, d2)
  BY <1>9, <1>10, <1>11, <1>14, <1>15, <1>16, <1>17 DEF Good
<1> QED BY <1>9, <1>10, <1>18 DEF l2, d2, c, pages, done, next, last, at, att, first, img, CopyPages,
         StepBk, StepDst, Done, StepNext, StepLast

\* sqlite3_backup_step(), but for the commit.
LEMMA StepCopyStep ==
  ASSUME IInv, NEW b \in Bk, NEW n \in sc.steps, StepCopy(b, n) PROVE IInv'
<1> DEFINE s     == SharedLock.s
           l     == SharedLock.b
           d     == dst[b]
           done  == Done(l[b], s.view, n)
           cl    == done /\ src.trans = "none"
           l2    == StepBk(l[b], s.view, n)
           d2    == StepDst(d, l[b], s.view, n, cl)
<1>1. CanStep(b) /\ src.trans # "write" /\ sc' = sc /\ faulty' = faulty
  BY DEF StepCopy
<1>2. /\ src' = IF done THEN [s EXCEPT !.trans = "read"] ELSE s
      /\ bk' = [l EXCEPT ![b] = l2] /\ dst' = [dst EXCEPT ![b] = d2]
  BY DEF StepCopy, StepBk, StepDst, Done, StepNext, StepLast
<1>3. ~InCall /\ bk[b].state = "open" /\ Going(bk[b])
  BY <1>1 DEF CanStep, Going
<1>4. sc \in Scenarios /\ faulty \in BOOLEAN /\ dst \in [Bk -> DestSet] /\ n \in Nat
  BY ScFacts DEF IInv
<1>5. /\ SrcOK(s) /\ KeepsHist(src, s) /\ s.trans = src.trans /\ l \in [Bk -> BkSet]
      /\ \A c \in Bk : /\ Moves(bk[c], l[c]) /\ l[c].rc = bk[c].rc
                       /\ CopyOK(s, l[c], dst[c])
  BY <1>1, <1>3, SharedLockFacts
<1> HIDE DEF s, l
<1>6. /\ SrcOK(src') /\ KeepsHist(s, src') /\ \A k, e : CopyOK(s, k, e) => CopyOK(src', k, e)
  <2>1. /\ SrcOK([s EXCEPT !.trans = "read"]) /\ KeepsHist(s, [s EXCEPT !.trans = "read"])
        /\ \A k, e : CopyOK(s, k, e) => CopyOK([s EXCEPT !.trans = "read"], k, e)
    BY <1>1, <1>5, SetTrans
  <2>2. KeepsHist(s, s)
    BY <1>5, SrcFacts
  <2> QED BY <1>2, <1>5, <2>1, <2>2
<1>7. /\ src'.view = s.view /\ src'.dirty = s.dirty /\ src'.hist = s.hist
      /\ src'.seen = s.seen /\ src'.trans = IF done THEN "read" ELSE s.trans
  <2>1. s \in SrcSet
    BY <1>5, SrcFacts
  <2> HIDE DEF done
  <2> QED BY <1>2, <2>1 DEF SrcSet
<1>8. KeepsHist(src, src')
  BY <1>5, <1>7 DEF KeepsHist
<1>9. /\ bk[b] \in BkSet /\ d \in DestSet /\ Len(d.orig) = sc.nDest * sc.destSz
      /\ OldOK(bk[b], d) /\ d.copied = 0 /\ d.at = "idle"
  BY <1>1, BkParts, StillOld
<1>10. Going(l[b]) /\ Moves(bk[b], l[b]) /\ CopyOK(s, l[b], d)
  BY <1>3, <1>5 DEF Going, Moves
<1>11. Good(src', l2, d2) /\ l2 \in BkSet /\ d2 \in DestSet
  <2>1. cl \in BOOLEAN
    OBVIOUS
  <2> HIDE DEF cl, d
  <2> QED BY <1>1, <1>3, <1>4, <1>5, <1>6, <1>7, <1>9, <1>10, <2>1, StepDest
<1> HIDE DEF l2, d2
<1>12. \A c \in Bk : /\ bk'[c] = IF c = b THEN l2 ELSE l[c]
                     /\ dst'[c] = IF c = b THEN d2 ELSE dst[c]
  BY <1>2, <1>4, <1>5
<1>13. ASSUME NEW c \in Bk, c # b PROVE Good(src', bk'[c], dst'[c]) /\ dst'[c].at = "idle"
  <2>1. /\ Good(src, bk[c], dst[c]) /\ dst[c].at = "idle" /\ dst[c] \in DestSet
    BY <1>3, BkParts DEF InCall
  <2>2. Alike(dst[c], dst[c]) /\ Extends(dst[c], dst[c])
    BY <2>1, AlikeSelf, AlikeExtends
  <2>3. Moves(bk[c], l[c]) /\ CopyOK(src', l[c], dst[c])
    BY <1>5, <1>6
  <2>4. Good(src', l[c], dst[c])
    BY <1>4, <1>8, <2>1, <2>2, <2>3, IdleGood
  <2> QED BY <1>12, <1>13, <2>1, <2>4
<1>14. \A c \in Bk : Good(src', bk'[c], dst'[c])
  BY <1>11, <1>12, <1>13
<1>15. \A c, e \in Bk : c # e => dst'[c].at = "idle" \/ dst'[e].at = "idle"
  BY <1>13
<1>16. bk' \in [Bk -> BkSet] /\ dst' \in [Bk -> DestSet]
  BY <1>2, <1>4, <1>5, <1>11
<1> HIDE DEF IInv
<1> QED BY <1>1, <1>4, <1>6, <1>14, <1>15, <1>16, StepFacts

-----------------------------------------------------------------------------
(* The commit of the destination: what its steps share *)

\* A file cut to n units.
LEMMA UptoFacts ==
  ASSUME NEW f \in Image, NEW n \in Nat, n <= Len(f)
  PROVE  /\ Upto(f, n) \in Image /\ Len(Upto(f, n)) = n
         /\ \A u \in 1 .. n : Upto(f, n)[u] = f[u]
<1>1. f \in Seq(Content) /\ Len(f) \in Nat
  BY DEF Image
<1>2. Min({n, Len(f)}) = n
  BY <1>1, MinOfTwo
<1>3. Upto(f, n) = SubSeq(f, 1, n)
  BY <1>2 DEF Upto
<1>4. /\ SubSeq(f, 1, n) \in Seq(Content) /\ Len(SubSeq(f, 1, n)) = n
      /\ \A u \in 1 .. n : SubSeq(f, 1, n)[u] = f[u]
  BY <1>1
<1> QED BY <1>3, <1>4 DEF Image

\* The units of an image, which ends on a page that is used.
LEMMA SizeFacts ==
  ASSUME sc \in Scenarios, NEW img, ImageOK(img)
  PROVE  /\ sc.srcSz * Len(img) \in Nat \ {0} /\ Len(img) \in Nat \ {0}
         /\ Len(img) \in Used(img) /\ 1 \in Used(img)
         /\ sc.srcSz * Len(img) \in Units(Len(img), sc.srcSz)
         /\ \A p \in Used(img) : \A u \in Units(p, sc.srcSz) : u \in 1 .. sc.srcSz * Len(img)
<1>1. Len(img) \in Nat \ {0} /\ Len(img) # SrcPending /\ SrcPending >= 2 /\ SrcPending \in Nat
  BY ScFacts DEF ImageOK
<1>2. Len(img) \in Used(img) /\ 1 \in Used(img)
  BY <1>1 DEF Used
<1>3. CASE sc.srcSz = 1
  BY <1>1, <1>2, <1>3 DEF Units, Used
<1>4. CASE sc.srcSz = 2
  BY <1>1, <1>2, <1>4 DEF Units, Used
<1> QED BY <1>3, <1>4, ScFacts

\* The pages of the destination are not larger than those of the source: no unit
\* that is used lies on the page with the pending byte, and no page beyond the end.
LEMMA NoPending ==
  ASSUME sc \in Scenarios, ~Smaller, NEW img, ImageOK(img), NEW p \in Used(img),
         NEW u \in Units(p, sc.srcSz)
  PROVE  /\ PageOf(u, sc.destSz) # DestPending /\ PageOf(u, sc.destSz) \in Nat \ {0}
         /\ PageOf(u, sc.destSz) * sc.destSz <= sc.srcSz * Len(img)
<1>1. /\ sc.srcSz \in {1, 2} /\ sc.destSz \in {1, 2} /\ PendingByte \in Nat
      /\ SrcPending * sc.srcSz = PendingByte + sc.srcSz
      /\ DestPending * sc.destSz = PendingByte + sc.destSz
      /\ SrcPending \in Nat /\ DestPending \in Nat
  BY ScFacts
<1>2. /\ p \in Nat \ {0} /\ p # SrcPending /\ p <= Len(img) /\ Len(img) \in Nat
      /\ u \in Nat \ {0} /\ u <= sc.srcSz * Len(img)
  <2>1. Len(img) \in Nat \ {0} /\ u \in 1 .. sc.srcSz * Len(img) /\ sc.srcSz * Len(img) \in Nat
    BY SizeFacts
  <2> HIDE DEF ImageOK
  <2> QED BY <2>1 DEF Used
<1>3. p = PageOf(u, sc.srcSz)
  BY <1>1, <1>2, PageFacts
<1>4. CASE sc.srcSz = sc.destSz
  <2>1. SrcPending = DestPending
    BY <1>4 DEF SrcPending, DestPending
  <2>2. p * sc.srcSz <= sc.srcSz * Len(img)
    BY <1>1, <1>2
  <2> QED BY <1>2, <1>3, <1>4, <2>1, <2>2
<1>5. CASE sc.srcSz = 2 /\ sc.destSz = 1
  <2>1. PageOf(u, 1) = u
    BY <1>2 DEF PageOf
  <2>2. u = PendingByte + 1 => p = SrcPending
    <3>1. PendingByte % 2 = 0
      BY BackupAssumption
    <3>2. SrcPending = (PendingByte \div 2) + 1
      BY <1>5 DEF SrcPending, PENDING_BYTE_PAGE
    <3>3. PageOf(PendingByte + 1, 2) = (PendingByte \div 2) + 1
      BY <1>1 DEF PageOf
    <3> QED BY <1>3, <1>5, <3>2, <3>3
  <2> QED BY <1>1, <1>2, <1>5, <2>1, <2>2
<1> QED BY <1>1, <1>4, <1>5 DEF Smaller

\* What is known of a backup in its commit.
LEMMA CommitFacts ==
  ASSUME IInv, NEW b \in Bk, dst[b].at # "idle"
  PROVE  /\ sc \in Scenarios /\ SrcOK(src) /\ src.trans = "read" /\ ImageOK(src.view)
         /\ src.view = src.hist[src.seen] /\ src.seen \in 1 .. Len(src.hist)
         /\ bk[b] \in BkSet /\ dst[b] \in DestSet /\ BkOK(bk[b], dst[b])
         /\ Len(dst[b].orig) = sc.nDest * sc.destSz
         /\ bk[b].state = "open" /\ bk[b].rc = "OK" /\ bk[b].bDestLocked /\ Going(bk[b])
         /\ CommitOK(src, bk[b], dst[b])
         /\ IF dst[b].at = "trunc" THEN dst[b].copied # 0 /\ NewOK(src, bk[b], dst[b])
            ELSE dst[b].copied = 0 /\ OldOK(bk[b], dst[b])
<1>1. /\ sc \in Scenarios /\ SrcOK(src) /\ Good(src, bk[b], dst[b])
      /\ bk[b] \in BkSet /\ dst[b] \in DestSet /\ BkOK(bk[b], dst[b])
      /\ Len(dst[b].orig) = sc.nDest * sc.destSz
  BY BkParts
<1>2. CommitOK(src, bk[b], dst[b])
  BY <1>1 DEF Good
<1>3. bk[b].state = "open" /\ bk[b].rc = "OK" /\ bk[b].bDestLocked /\ src.trans = "read"
  BY <1>2 DEF CommitOK
<1>4. Going(bk[b])
  BY <1>3 DEF Going, isFatalError
<1>5. ImageOK(src.view) /\ src.view = src.hist[src.seen] /\ src.seen \in 1 .. Len(src.hist)
  BY <1>1, <1>3, SrcFacts, NotWriting
<1>6. IF dst[b].at = "trunc" THEN dst[b].copied # 0 /\ NewOK(src, bk[b], dst[b])
      ELSE dst[b].copied = 0 /\ OldOK(bk[b], dst[b])
  BY <1>1, <1>3 DEF Good, OldOK, NewOK
<1> QED BY <1>1, <1>2, <1>3, <1>4, <1>5, <1>6

\* A step of the commit of b.
LEMMA InCommitStep ==
  ASSUME IInv, NEW b \in Bk, dst[b].at # "idle", sc' = sc, faulty' \in BOOLEAN,
         src' = [src EXCEPT !.trans = "none"] \/ src' = src,
         NEW k \in BkSet, NEW d \in DestSet, bk' = [bk EXCEPT ![b] = k],
         dst' = [dst EXCEPT ![b] = d], Good(src', k, d)
  PROVE  IInv'
<1>1. sc \in Scenarios /\ SrcOK(src) /\ src.trans = "read"
  BY CommitFacts
<1>2. SrcOK(src') /\ KeepsHist(src, src') /\ \A m, e : CopyOK(src, m, e) => CopyOK(src', m, e)
  <2>1. CASE src' = src
    BY <1>1, <2>1, SrcFacts
  <2>2. CASE src' = [src EXCEPT !.trans = "none"]
    BY <1>1, <2>2, SetTrans
  <2> QED BY <2>1, <2>2
<1>3. bk \in [Bk -> BkSet] /\ dst \in [Bk -> DestSet]
  BY DEF IInv
<1>4. \A c \in Bk : /\ bk'[c] = IF c = b THEN k ELSE bk[c]
                    /\ dst'[c] = IF c = b THEN d ELSE dst[c]
  BY <1>3
<1>5. ASSUME NEW c \in Bk, c # b PROVE Good(src', bk'[c], dst'[c]) /\ dst'[c].at = "idle"
  <2>1. /\ Good(src, bk[c], dst[c]) /\ dst[c] \in DestSet /\ bk[c] \in BkSet
        /\ CopyOK(src, bk[c], dst[c])
    BY BkParts
  <2>2. dst[c].at = "idle"
    BY <1>5 DEF IInv
  <2>3. /\ Alike(dst[c], dst[c]) /\ Extends(dst[c], dst[c]) /\ Moves(bk[c], bk[c])
        /\ CopyOK(src', bk[c], dst[c])
    BY <1>2, <2>1, AlikeSelf, AlikeExtends, MovesSelf
  <2>4. Good(src', bk[c], dst[c])
    BY <1>1, <1>2, <2>1, <2>2, <2>3, IdleGood
  <2> QED BY <1>4, <1>5, <2>2, <2>4
<1>6. \A c \in Bk : Good(src', bk'[c], dst'[c])
  BY <1>4, <1>5
<1>7. \A c, e \in Bk : c # e => dst'[c].at = "idle" \/ dst'[e].at = "idle"
  BY <1>5
<1>8. bk' \in [Bk -> BkSet] /\ dst' \in [Bk -> DestSet]
  BY <1>3
<1> HIDE DEF IInv
<1> QED BY <1>1, <1>2, <1>6, <1>7, <1>8, StepFacts

\* Such a step that concerns only the destination, and is not the last.
LEMMA FileStep ==
  ASSUME IInv, NEW b \in Bk, dst[b].at \notin {"idle", "trunc"}, sc' = sc, faulty' = faulty,
         src' = src, bk' = bk, NEW d \in DestSet, dst' = [dst EXCEPT ![b] = d],
         d.orig = dst[b].orig, d.at \notin {"idle", "trunc"}, d.copied = 0,
         OldOK(bk[b], d), CommitOK(src, bk[b], d)
  PROVE  IInv'
<1>1. /\ bk[b] \in BkSet /\ BkOK(bk[b], dst[b]) /\ Len(d.orig) = sc.nDest * sc.destSz
      /\ bk[b].state = "open"
  BY CommitFacts
<1>2. BkOK(bk[b], d) /\ CopyOK(src, bk[b], d)
  BY <1>1 DEF BkOK, CopyOK
<1>3. Good(src', bk[b], d)
  BY <1>1, <1>2 DEF Good
<1>4. bk' = [bk EXCEPT ![b] = bk[b]] /\ faulty' \in BOOLEAN
  BY DEF IInv
<1> HIDE DEF IInv
<1> QED BY <1>1, <1>3, <1>4, InCommitStep

-----------------------------------------------------------------------------
(* The commit of the destination: the dirty pages *)

\* r is d, at at, after the pages out of its cache were written to the file.
Flushed(d, out, at, r) ==
  /\ r \in DestSet /\ r.orig = d.orig /\ r.disk = d.disk /\ r.img = d.img
  /\ r.dirty = d.dirty /\ r.journal = d.journal /\ r.copied = d.copied /\ r.at = at
  /\ Len(r.file) >= Len(d.file)
  /\ \A u \in Nat \ {0} : PageOf(u, sc.destSz) \in out =>
       u \in DOMAIN r.file /\ r.file[u] = d.img[u]
  /\ \A u \in DOMAIN d.file : PageOf(u, sc.destSz) \notin out =>
       u \in DOMAIN r.file /\ r.file[u] = d.file[u]

\* WriteDirty() flushes the pages of the cache that lie within the image.
LEMMA WriteDirtyFacts ==
  ASSUME sc \in Scenarios, NEW d \in DestSet, NEW at \in {"extra", "sync"}
  PROVE  Flushed(d, {p \in d.dirty : p * sc.destSz <= Len(d.img)}, at,
                 [WriteDirty(d) EXCEPT !.at = at])
<1> DEFINE D == sc.destSz
           out == {p \in d.dirty : p * D <= Len(d.img)}
           L == {Len(d.file)} \cup {p * D : p \in out}
           len == Max(L)
           f == [u \in 1 .. len |-> IF PageOf(u, D) \in out THEN d.img[u]
                                    ELSE IF u <= Len(d.file) THEN d.file[u] ELSE Zero]
           r == [WriteDirty(d) EXCEPT !.at = at]
<1>1. /\ d.file \in Image /\ d.img \in Image /\ D \in {1, 2} /\ d.dirty \in SUBSET DestPages
      /\ sc.maxPage \in Nat /\ sc.nDest \in Nat
  BY DestFields, ScFacts
<1>2. Len(d.file) \in Nat /\ Len(d.img) \in Nat /\ DOMAIN d.file = 1 .. Len(d.file)
      /\ DOMAIN d.img = 1 .. Len(d.img)
  BY <1>1, FileFacts
<1>3. \A p \in out : p \in Nat \ {0} /\ p * D \in Nat /\ p * D <= Len(d.img)
  BY <1>1 DEF DestPages
<1> DEFINE n == Len(d.file) + Len(d.img)
<1>4. L \in SUBSET (0 .. n) /\ L # {} /\ n \in Nat
  <2>1. \A x, y \in Nat : /\ x + y \in Nat /\ x \in 0 .. x + y
                          /\ \A j \in Nat : j <= y => j \in 0 .. x + y
    OBVIOUS
  <2>2. n \in Nat /\ Len(d.file) \in 0 .. n /\ \A j \in Nat : j <= Len(d.img) => j \in 0 .. n
    BY <1>2, <2>1
  <2> HIDE DEF out, D, n
  <2>3. \A p \in out : p * D \in 0 .. n
    BY <1>3, <2>2
  <2> QED BY <2>2, <2>3
<1>5. len \in L /\ \A j \in L : j <= len
  <2> HIDE DEF L, n
  <2> QED BY <1>4, MaxFacts, Zenon
<1>6. len \in Nat /\ Len(d.file) <= len /\ \A p \in out : p * D <= len
  <2>1. len \in Nat
    <3> HIDE DEF L, len, n
    <3> QED BY <1>4, <1>5
  <2> HIDE DEF len, out, D
  <2> QED BY <1>5, <2>1
<1> HIDE DEF L, len, out, n
<1>7. ASSUME NEW u \in Nat \ {0}, PageOf(u, D) \in out
      PROVE  u \in 1 .. len /\ u \in DOMAIN d.img
  <2>1. PageOf(u, D) \in Nat /\ u <= PageOf(u, D) * D
    BY <1>1, PageFacts
  <2>2. PageOf(u, D) * D \in Nat /\ PageOf(u, D) * D <= len /\ PageOf(u, D) * D <= Len(d.img)
    BY <1>3, <1>6, <1>7
  <2> HIDE DEF D
  <2> QED BY <1>2, <1>6, <2>1, <2>2
<1>8. f \in Image /\ Len(f) = len /\ DOMAIN f = 1 .. len
  <2>1. ASSUME NEW u \in 1 .. len PROVE f[u] \in Content
    <3>1. CASE PageOf(u, D) \in out
      <4>1. u \in DOMAIN d.img
        BY <1>6, <1>7, <3>1
      <4> QED BY <1>1, <3>1, <4>1, FileFacts
    <3>2. CASE PageOf(u, D) \notin out /\ u <= Len(d.file)
      <4>1. u \in DOMAIN d.file
        BY <1>2, <1>6, <3>2
      <4> QED BY <1>1, <3>2, <4>1, FileFacts
    <3>3. CASE PageOf(u, D) \notin out /\ ~(u <= Len(d.file))
      BY <3>3, ZeroType
    <3> QED BY <3>1, <3>2, <3>3
  <2>2. f \in [1 .. len -> Content]
    BY <2>1
  <2> HIDE DEF f
  <2> QED BY <1>6, <2>2, FileOf
<1>9. \A u \in Nat \ {0} : PageOf(u, D) \in out => u \in DOMAIN f /\ f[u] = d.img[u]
  BY <1>7, <1>8
<1>10. \A u \in DOMAIN d.file : PageOf(u, D) \notin out => u \in DOMAIN f /\ f[u] = d.file[u]
  BY <1>2, <1>6, <1>8
<1>11. r = [[d EXCEPT !.file = f] EXCEPT !.at = at]
  BY DEF WriteDirty, len, L, out
<1> HIDE DEF f
<1>12. r \in DestSet
  <2> HIDE DEF r
  <2> QED BY <1>8, <1>11 DEF DestSet
<1>13. /\ r.orig = d.orig /\ r.disk = d.disk /\ r.img = d.img /\ r.dirty = d.dirty
       /\ r.journal = d.journal /\ r.copied = d.copied /\ r.at = at /\ r.file = f
  <2> HIDE DEF r
  <2> QED BY <1>11 DEF DestSet
<1> HIDE DEF r
<1>14. Flushed(d, out, at, r)
  BY <1>6, <1>8, <1>9, <1>10, <1>12, <1>13 DEF Flushed
<1> QED BY <1>14 DEF out, r

\* What is written keeps the journal complete.
LEMMA FlushOld ==
  ASSUME sc \in Scenarios, NEW k, k.bDestLocked, NEW d \in DestSet, OldOK(k, d),
         d.at = "commit", Len(d.orig) = sc.nDest * sc.destSz,
         d.file = d.orig, d.disk = d.orig, d.dirty # {},
         NEW d1 \in DestSet, d1.orig = d.orig, d1.file = d.file, d1.disk = d.disk,
         d.dirty \subseteq d1.dirty, d.journal \subseteq d1.journal,
         DestPending \notin d1.dirty,
         \A p \in d1.dirty : p * sc.destSz <= Len(d1.orig) => p \in d1.journal,
         NEW out \in SUBSET d1.dirty, NEW at \in {"extra", "sync"},
         NEW r, Flushed(d1, out, at, r)
  PROVE  OldOK(k, r)
<1>1. /\ r.orig = d.orig /\ r.disk = d.orig /\ r.dirty = d1.dirty /\ r.journal = d1.journal
      /\ r.at = at
  BY DEF Flushed
<1>2. Journaled(r, r.file)
  <2> SUFFICES ASSUME NEW u \in DOMAIN d.orig,
                      PageOf(u, sc.destSz) \notin d1.journal \cup {DestPending}
               PROVE  u \in DOMAIN r.file /\ r.file[u] = d.orig[u]
    BY <1>1 DEF Journaled
  <2>1. PageOf(u, sc.destSz) \notin d1.dirty
    BY OrigPages
  <2>2. u \in DOMAIN d1.file /\ d1.file[u] = d.orig[u]
    OBVIOUS
  <2> QED BY <2>1, <2>2 DEF Flushed
<1>3. Journaled(r, r.disk)
  BY <1>1 DEF Journaled
<1>4. r.dirty # {}
  BY <1>1
<1> QED BY <1>1, <1>2, <1>3, <1>4 DEF OldOK

\* The destination has larger pages: nothing is cut off yet, and the pages the
\* truncation will destroy are in the journal.
LEMMA PhaseOneSmaller ==
  ASSUME IInv, NEW b \in Bk, CommitPhaseOne(b), Smaller PROVE IInv'
<1> DEFINE s == src
           k == bk[b]
           d == dst[b]
           D == sc.destSz
           h == Len(d.img) \div D
           tail == (nDestTruncate .. h) \ {DestPending}
           d1 == PagerWrite(d, tail)
           out == {p \in d1.dirty : p * D <= Len(d1.img)}
           r == [WriteDirty(d1) EXCEPT !.at = "extra"]
<1>1. /\ d.at = "commit" /\ dst' = [dst EXCEPT ![b] = r]
      /\ sc' = sc /\ src' = src /\ bk' = bk /\ faulty' = faulty
  BY DEF CommitPhaseOne
<1>2. /\ sc \in Scenarios /\ ImageOK(s.view) /\ k \in BkSet /\ d \in DestSet
      /\ Len(d.orig) = sc.nDest * D /\ k.bDestLocked /\ Going(k)
      /\ CommitOK(s, k, d) /\ d.copied = 0 /\ OldOK(k, d)
  BY <1>1, CommitFacts
<1>3. d.file = d.orig /\ d.disk = d.orig /\ CacheOK(d) /\ DestPending \notin d.dirty
  BY <1>1, <1>2 DEF OldOK
<1>4. /\ sc.srcSz = 1 /\ D = 2 /\ Len(s.view) \in Nat \ {0} /\ DestPending \in Nat
      /\ DestPending >= 2
  <2>1. sc.srcSz = 1 /\ D = 2
    BY <1>2, ScFacts DEF Smaller
  <2>2. DestPending * 2 = PendingByte + 2 /\ PendingByte >= 2 /\ PendingByte \in Nat
        /\ DestPending \in Nat
    BY <1>2, <2>1, ScFacts
  <2> QED BY <1>2, <2>1, <2>2, SizeFacts
<1>5. Len(d.img) \in Nat /\ Len(d.orig) \in Nat /\ DOMAIN d.orig = 1 .. Len(d.orig)
      /\ Len(d.orig) <= Len(d.img)
  BY <1>2, <1>3, DestFields, FileFacts DEF CacheOK
<1>6. nDestTruncate \in Nat \ {0} /\ 2 * nDestTruncate <= Len(s.view) + 1
  <2>1. nDestTruncate = IF (Len(s.view) + 1) \div 2 = DestPending
                        THEN (Len(s.view) + 1) \div 2 - 1 ELSE (Len(s.view) + 1) \div 2
    <3>1. sc.destSz \div sc.srcSz = 2
      BY <1>4
    <3> QED BY <1>4, <3>1 DEF nDestTruncate, Smaller, nSrcPage
  <2>2. \A m, q \in Nat : m # 0 /\ q >= 2 =>
          LET t == IF (m + 1) \div 2 = q THEN (m + 1) \div 2 - 1 ELSE (m + 1) \div 2 IN
          t \in Nat \ {0} /\ 2 * t <= m + 1
    OBVIOUS
  <2> QED BY <1>4, <2>1, <2>2
<1>7. h \in Nat /\ \A p \in Nat : p <= h <=> p * D <= Len(d.img)
  <2>1. \A x \in Nat : x \div 2 \in Nat /\ \A p \in Nat : p <= x \div 2 <=> p * 2 <= x
    OBVIOUS
  <2> QED BY <1>4, <1>5, <2>1
<1> HIDE DEF h
<1>8. tail \in SUBSET DestPages /\ DestPending \notin tail
  <2> SUFFICES ASSUME NEW p \in tail PROVE p \in DestPages
    OBVIOUS
  <2>1. p \in Nat \ {0} /\ p <= h
    BY <1>6, <1>7
  <2>2. p * D <= Len(d.img)
    BY <1>7, <2>1
  <2> QED BY <1>3, <2>1, <2>2 DEF CacheOK
<1> HIDE DEF tail, s, k, d
<1>9. Written(d, tail, d1) /\ \A p \in tail : p * D <= Len(d.orig) => p \in d1.journal
  BY <1>2, <1>8, WriteFacts
<1> HIDE DEF d1
<1>10. /\ d1 \in DestSet /\ Extends(d, d1) /\ d1.dirty = d.dirty \cup tail
      /\ \A u \in DOMAIN d.img : u \in DOMAIN d1.img /\ d1.img[u] = d.img[u]
  BY <1>9 DEF Written
<1>11. Flushed(d1, out, "extra", r)
  BY <1>2, <1>10, WriteDirtyFacts
<1>12. CacheOK(d1)
  BY <1>2, <1>3, <1>10, CacheExtends
<1>13. out = d1.dirty
  BY <1>12 DEF CacheOK
<1> HIDE DEF out, r
<1>14. d.dirty # {}
  BY <1>1, <1>2 DEF CommitOK
<1>15. OldOK(k, r)
  <2>1. /\ d1.orig = d.orig /\ d1.file = d.file /\ d1.disk = d.disk
        /\ d.dirty \subseteq d1.dirty /\ d.journal \subseteq d1.journal
        /\ DestPending \notin d1.dirty
    BY <1>3, <1>8, <1>10 DEF Extends
  <2>2. \A p \in d1.dirty : p * D <= Len(d1.orig) => p \in d1.journal
    BY <1>2, <1>9, <1>10, <2>1 DEF OldOK
  <2>3. k.bDestLocked /\ d.dirty # {} /\ out \in SUBSET d1.dirty
    BY <1>2, <1>13, <1>14
  <2> QED BY <1>1, <1>2, <1>3, <1>10, <1>11, <2>1, <2>2, <2>3, FlushOld
<1>16. /\ r \in DestSet /\ r.orig = d.orig /\ r.img = d1.img /\ r.at = "extra" /\ r.copied = 0
       /\ r.journal = d1.journal /\ Len(r.file) >= Len(r.orig)
  BY <1>2, <1>3, <1>10, <1>11 DEF Flushed, Extends
<1>17. r.dirty = d1.dirty
  BY <1>11 DEF Flushed
<1>18. ASSUME NEW p \in Used(s.view), NEW u \in Units(p, sc.srcSz), PageOf(u, D) # DestPending
       PROVE  /\ u \in DOMAIN r.img /\ r.img[u][1] = s.view[p][1]
              /\ u \in DOMAIN r.file /\ r.file[u][1] = s.view[p][1]
  <2>1. u \in DOMAIN d.img /\ d.img[u][1] = s.view[p][1] /\ PageOf(u, D) \in d.dirty
    BY <1>1, <1>2, <1>18 DEF CommitOK, Current
  <2>2. u \in DOMAIN d1.img /\ d1.img[u] = d.img[u]
    BY <1>10, <2>1
  <2>3. PageOf(u, D) \in out
    BY <1>10, <1>13, <2>1
  <2>4. u \in Nat \ {0}
    <3>1. u \in 1 .. sc.srcSz * Len(s.view) /\ sc.srcSz * Len(s.view) \in Nat
      BY <1>2, SizeFacts
    <3> QED BY <3>1
  <2>5. u \in DOMAIN r.file /\ r.file[u] = d1.img[u]
    BY <1>11, <2>3, <2>4 DEF Flushed
  <2> QED BY <1>16, <2>1, <2>2, <2>5
<1>19. TailSafe(r, sc.srcSz * Len(s.view))
  <2> SUFFICES ASSUME NEW u \in DOMAIN d.orig, u > Len(s.view), PageOf(u, D) # DestPending
               PROVE  PageOf(u, D) \in d1.journal
    <3>1. sc.srcSz * Len(s.view) = Len(s.view)
      BY <1>4
    <3> QED BY <1>16, <3>1 DEF TailSafe
  <2>1. u \in Nat \ {0} /\ PageOf(u, D) \in Nat \ {0} /\ PageOf(u, D) * D <= Len(d.orig)
    BY <1>2, OrigPages
  <2>2. u <= PageOf(u, D) * D
    BY <1>4, <2>1, PageFacts
  <2> DEFINE q == PageOf(u, D)
  <2> HIDE DEF q
  <2>3. q \in Nat \ {0} /\ q * D <= Len(d.orig) /\ u <= q * D
    BY <2>1, <2>2 DEF q
  <2>5. q * D <= Len(d.img) /\ nDestTruncate <= q
    <3>1. u >= Len(s.view) + 1 /\ q * D = 2 * q
      BY <1>4, <2>1, <2>3
    <3>2. \A x, y, z, m \in Nat : x >= m + 1 /\ 2 * z <= m + 1 /\ x <= 2 * y => z <= y
      OBVIOUS
    <3>3. nDestTruncate <= q
      BY <1>4, <1>6, <2>1, <2>3, <3>1, <3>2
    <3>4. 2 * q \in Nat
      BY <2>3
    <3> QED BY <1>5, <2>3, <3>1, <3>3, <3>4
  <2>6. q <= h
    BY <1>7, <2>3, <2>5
  <2>4. PageOf(u, D) \in tail
    BY <1>6, <1>7, <2>3, <2>5, <2>6 DEF tail, q
  <2> QED BY <1>9, <2>1, <2>4
<1>20. CommitOK(s, k, r)
  BY <1>2, <1>10, <1>14, <1>16, <1>18, <1>19, <1>17 DEF CommitOK, HasBut
<1>21. dst[b].at \notin {"idle", "trunc"} /\ r.at \notin {"idle", "trunc"}
  BY <1>1, <1>16 DEF d
<1> QED BY <1>1, <1>15, <1>16, <1>20, <1>21, FileStep DEF s, k, d

\* The destination has pages as large or smaller: its image is cut first.
LEMMA PhaseOneOther ==
  ASSUME IInv, NEW b \in Bk, CommitPhaseOne(b), ~Smaller PROVE IInv'
<1> DEFINE s == src
           k == bk[b]
           d == dst[b]
           D == sc.destSz
           N == sc.srcSz * Len(s.view)
           i == Upto(d.img, nDestTruncate * D)
           d1 == [d EXCEPT !.img = i]
           out == {p \in d1.dirty : p * D <= Len(d1.img)}
           r == [WriteDirty(d1) EXCEPT !.at = "sync"]
<1>1. /\ d.at = "commit" /\ dst' = [dst EXCEPT ![b] = r]
      /\ sc' = sc /\ src' = src /\ bk' = bk /\ faulty' = faulty
  BY DEF CommitPhaseOne
<1>2. /\ sc \in Scenarios /\ ImageOK(s.view) /\ k \in BkSet /\ d \in DestSet
      /\ Len(d.orig) = sc.nDest * D /\ k.bDestLocked /\ Going(k)
      /\ CommitOK(s, k, d) /\ d.copied = 0 /\ OldOK(k, d)
  BY <1>1, CommitFacts
<1>3. d.file = d.orig /\ d.disk = d.orig /\ CacheOK(d) /\ DestPending \notin d.dirty
  BY <1>1, <1>2 DEF OldOK
<1>4. N \in Nat \ {0} /\ Len(s.view) \in Nat \ {0} /\ nDestTruncate * D = N
  <2>1. Len(s.view) \in Nat \ {0} /\ N \in Nat \ {0}
    BY <1>2, SizeFacts
  <2>2. sc.srcSz \in {1, 2} /\ D \in {1, 2} /\ sc.srcSz >= D
    BY <1>2, ScFacts DEF Smaller
  <2>3. nDestTruncate = Len(s.view) * (sc.srcSz \div D)
    BY DEF nDestTruncate, nSrcPage
  <2>4. CASE sc.srcSz = D
    <3>1. sc.srcSz \div D = 1
      BY <2>2, <2>4
    <3> QED BY <2>1, <2>2, <2>3, <2>4, <3>1
  <2>5. CASE sc.srcSz = 2 /\ D = 1
    <3>1. sc.srcSz \div D = 2
      BY <2>5
    <3> QED BY <2>1, <2>3, <2>5, <3>1
  <2> QED BY <2>2, <2>4, <2>5
<1>5. \A p \in Used(s.view) : \A u \in Units(p, sc.srcSz) :
        /\ u \in DOMAIN d.img /\ d.img[u][1] = s.view[p][1] /\ PageOf(u, D) \in d.dirty
        /\ u \in 1 .. N /\ PageOf(u, D) * D <= N
  <2> SUFFICES ASSUME NEW p \in Used(s.view), NEW u \in Units(p, sc.srcSz)
               PROVE  /\ u \in DOMAIN d.img /\ d.img[u][1] = s.view[p][1]
                      /\ PageOf(u, D) \in d.dirty /\ u \in 1 .. N /\ PageOf(u, D) * D <= N
    OBVIOUS
  <2>1. PageOf(u, D) # DestPending /\ PageOf(u, D) * D <= N
    BY <1>2, NoPending
  <2>2. Current(d, s.view, p)
    BY <1>1, <1>2 DEF CommitOK
  <2>3. u \in DOMAIN d.img /\ d.img[u][1] = s.view[p][1] /\ PageOf(u, D) \in d.dirty
    BY <2>1, <2>2 DEF Current
  <2>4. u \in 1 .. N
    BY <1>2, SizeFacts
  <2> QED BY <2>1, <2>3, <2>4
<1>6. d.img \in Image /\ Len(d.img) \in Nat /\ DOMAIN d.img = 1 .. Len(d.img) /\ N <= Len(d.img)
  <2>1. d.img \in Image /\ Len(d.img) \in Nat /\ DOMAIN d.img = 1 .. Len(d.img)
    BY <1>2, DestFields, FileFacts
  <2>2. N \in DOMAIN d.img
    BY <1>2, <1>5, SizeFacts
  <2> HIDE DEF N
  <2> QED BY <2>1, <2>2
<1>7. i \in Image /\ Len(i) = N /\ \A u \in 1 .. N : i[u] = d.img[u]
  <2>1. i = Upto(d.img, N)
    BY <1>4
  <2> HIDE DEF i, N
  <2> QED BY <1>4, <1>6, <2>1, UptoFacts
<1> HIDE DEF i, N, s, k, d
<1>8. /\ d1 \in DestSet /\ d1.img = i /\ d1.orig = d.orig /\ d1.file = d.file
      /\ d1.disk = d.disk /\ d1.dirty = d.dirty /\ d1.journal = d.journal
      /\ d1.copied = d.copied
  BY <1>2, <1>7 DEF DestSet
<1>9. r = [WriteDirty(d1) EXCEPT !.at = "sync"]
  OBVIOUS
<1> HIDE DEF d1
<1>10. Flushed(d1, out, "sync", r)
  BY <1>2, <1>8, WriteDirtyFacts
<1>11. \A p \in d.dirty : p * D <= N => p \in out
  BY <1>7, <1>8
<1>12. out \in SUBSET d1.dirty
  OBVIOUS
<1> HIDE DEF out, r
<1>13. d.dirty # {}
  BY <1>1, <1>2 DEF CommitOK
<1>14. OldOK(k, r)
  <2>1. /\ d1.orig = d.orig /\ d1.file = d.file /\ d1.disk = d.disk
        /\ d.dirty \subseteq d1.dirty /\ d.journal \subseteq d1.journal
        /\ DestPending \notin d1.dirty
    BY <1>3, <1>8
  <2>2. \A p \in d1.dirty : p * D <= Len(d1.orig) => p \in d1.journal
    BY <1>2, <1>8 DEF OldOK
  <2>3. k.bDestLocked /\ d.dirty # {}
    BY <1>2, <1>13
  <2> QED BY <1>1, <1>2, <1>3, <1>8, <1>10, <1>12, <2>1, <2>2, <2>3, FlushOld
<1>15. /\ r \in DestSet /\ r.orig = d.orig /\ r.img = i /\ r.at = "sync" /\ r.copied = 0
       /\ r.dirty = d.dirty
  BY <1>2, <1>8, <1>10 DEF Flushed
<1>16. ASSUME NEW p \in Used(s.view), NEW u \in Units(p, sc.srcSz)
       PROVE  /\ u \in DOMAIN r.img /\ r.img[u][1] = s.view[p][1]
              /\ u \in DOMAIN r.file /\ r.file[u][1] = s.view[p][1]
  <2>1. /\ d.img[u][1] = s.view[p][1] /\ PageOf(u, D) \in out /\ u \in 1 .. N
        /\ u \in Nat \ {0}
    <3>1. /\ d.img[u][1] = s.view[p][1] /\ PageOf(u, D) \in d.dirty /\ u \in 1 .. N
          /\ PageOf(u, D) * D <= N
      BY <1>5, <1>16
    <3> QED BY <1>4, <1>11, <3>1
  <2>2. i[u] = d.img[u] /\ u \in DOMAIN i
    <3>1. DOMAIN i = 1 .. N
      BY <1>7, FileFacts
    <3> QED BY <1>7, <2>1, <3>1
  <2>3. u \in DOMAIN r.file /\ r.file[u] = i[u]
    BY <1>8, <1>10, <2>1 DEF Flushed
  <2> QED BY <1>15, <2>1, <2>2, <2>3
<1>17. CommitOK(s, k, r)
  BY <1>2, <1>7, <1>13, <1>15, <1>16 DEF CommitOK, HasBut, Has, N
<1>18. dst[b].at \notin {"idle", "trunc"} /\ r.at \notin {"idle", "trunc"}
  BY <1>1, <1>15 DEF d
<1> QED BY <1>1, <1>14, <1>15, <1>17, <1>18, FileStep DEF s, k, d

-----------------------------------------------------------------------------
(* The commit of the destination: the other steps *)

\* A unit of the source beside the pending byte, where the destination's page
\* with the pending byte is larger.
LEMMA BesidePending ==
  ASSUME sc \in Scenarios, Smaller, NEW img, ImageOK(img), NEW u \in Nat \ {0}
  PROVE  /\ sc.srcSz = 1 /\ sc.destSz = 2 /\ Units(u, sc.srcSz) = {u}
         /\ PageOf(u, sc.srcSz) = u
         /\ PageOf(PendingByte + 2, sc.destSz) = DestPending
         /\ u \in Used(img) /\ PageOf(u, sc.destSz) = DestPending => u = PendingByte + 2
<1>1. sc.srcSz = 1 /\ sc.destSz = 2
  BY ScFacts DEF Smaller
<1>2. /\ PendingByte \in Nat /\ PendingByte % 2 = 0 /\ SrcPending = PendingByte + 1
      /\ DestPending = (PendingByte \div 2) + 1
  <2>1. PendingByte \in Nat /\ PendingByte % 2 = 0
    BY BackupAssumption
  <2>2. SrcPending = PendingByte + 1
    BY <1>1, <2>1 DEF SrcPending, PENDING_BYTE_PAGE
  <2> QED BY <1>1, <2>1, <2>2 DEF DestPending, PENDING_BYTE_PAGE
<1>3. Units(u, 1) = {u} /\ PageOf(u, 1) = u
  BY DEF Units, PageOf
<1>4. PageOf(PendingByte + 2, 2) = DestPending
  BY <1>2 DEF PageOf
<1>5. PageOf(u, 2) = DestPending /\ u # SrcPending => u = PendingByte + 2
  <2>1. \A x, y \in Nat : x # 0 /\ y % 2 = 0 /\ (x - 1) \div 2 + 1 = (y \div 2) + 1 =>
          x = y + 1 \/ x = y + 2
    OBVIOUS
  <2> QED BY <1>2, <2>1 DEF PageOf
<1> QED BY <1>1, <1>3, <1>4, <1>5 DEF Used

\* What the commit knows of the end of the files while the destination's pages
\* are larger, and its file is not cut yet.
LEMMA BeforeCut ==
  ASSUME IInv, NEW b \in Bk, dst[b].at \in {"extra", "cut"}
  PROVE  /\ Smaller /\ TailSafe(dst[b], sc.srcSz * Len(src.view))
         /\ Len(dst[b].file) >= Len(dst[b].orig)
         /\ dst[b].file \in Image /\ Len(dst[b].file) \in Nat /\ Len(dst[b].orig) \in Nat
         /\ DOMAIN dst[b].file = 1 .. Len(dst[b].file)
         /\ DOMAIN dst[b].orig = 1 .. Len(dst[b].orig)
<1>1. CommitOK(src, bk[b], dst[b]) /\ dst[b] \in DestSet
  BY CommitFacts
<1> QED BY <1>1, DestFields, FileFacts DEF CommitOK

\* pages beside the pending byte are written without the pager.
LEMMA WriteExtraStep ==
  ASSUME IInv, NEW b \in Bk, WriteExtra(b) PROVE IInv'
<1> DEFINE s == src
           k == bk[b]
           d == dst[b]
           D == sc.destSz
           iEnd == Min({PendingByte + D, iSize})
           out == PendingByte + sc.srcSz + 1 .. iEnd
           len == Max({Len(d.file)} \cup out)
           f == [u \in 1 .. len |-> IF u \in out THEN Unit(s.view, u)
                                    ELSE IF u <= Len(d.file) THEN d.file[u] ELSE Zero]
           r == [d EXCEPT !.at = "cut", !.file = f]
<1>1. d.at = "extra" /\ sc' = sc /\ src' = src /\ bk' = bk /\ faulty' = faulty
  BY DEF WriteExtra
<1>2. /\ sc \in Scenarios /\ ImageOK(s.view) /\ s.view \in Image /\ k \in BkSet /\ d \in DestSet
      /\ Len(d.orig) = sc.nDest * D /\ k.bDestLocked /\ Going(k)
      /\ CommitOK(s, k, d) /\ d.copied = 0 /\ OldOK(k, d)
  BY <1>1, CommitFacts DEF ImageOK
<1>3. dst' = [dst EXCEPT ![b] = r]
  BY DEF WriteExtra
<1>4. /\ Smaller /\ TailSafe(d, sc.srcSz * Len(s.view)) /\ Len(d.file) >= Len(d.orig)
      /\ d.file \in Image /\ Len(d.file) \in Nat /\ Len(d.orig) \in Nat
      /\ DOMAIN d.file = 1 .. Len(d.file) /\ DOMAIN d.orig = 1 .. Len(d.orig)
  BY <1>1, BeforeCut
<1>5. /\ sc.srcSz = 1 /\ D = 2 /\ Len(s.view) \in Nat \ {0} /\ iSize = Len(s.view)
      /\ PendingByte \in Nat /\ DOMAIN s.view = 1 .. Len(s.view)
  <2>1. Len(s.view) \in Nat \ {0} /\ PendingByte \in Nat /\ DOMAIN s.view = 1 .. Len(s.view)
    BY <1>2, SizeFacts, ScFacts, FileFacts
  <2>2. sc.srcSz = 1 /\ D = 2
    BY <1>2, <1>4, ScFacts DEF Smaller
  <2> QED BY <2>1, <2>2 DEF iSize, nSrcPage
<1>6. out = IF PendingByte + 2 <= Len(s.view) THEN {PendingByte + 2} ELSE {}
  <2>1. iEnd = IF PendingByte + 2 <= Len(s.view) THEN PendingByte + 2 ELSE Len(s.view)
    BY <1>5, MinOfTwo
  <2> HIDE DEF iEnd
  <2>2. out = PendingByte + 2 .. iEnd
    BY <1>5
  <2>3. \A x, y \in Nat : /\ x + 2 <= y => (x + 2) .. (x + 2) = {x + 2}
                          /\ ~(x + 2 <= y) => (x + 2) .. y = {}
    OBVIOUS
  <2> HIDE DEF out
  <2> QED BY <1>5, <2>1, <2>2, <2>3
<1> HIDE DEF out
<1>7. len \in Nat /\ Len(d.file) <= len /\ \A u \in out : u <= len
  <2> DEFINE L == {Len(d.file)} \cup out
             n == Len(d.file) + PendingByte + 2
  <2>1. n \in Nat /\ L \in SUBSET (0 .. n) /\ L # {}
    <3>1. \A x, y \in Nat : /\ x + y + 2 \in Nat /\ x \in 0 .. x + y + 2
                            /\ y + 2 \in 0 .. x + y + 2
      OBVIOUS
    <3> QED BY <1>4, <1>5, <1>6, <3>1
  <2>2. Max(L) \in L /\ \A j \in L : j <= Max(L)
    <3> HIDE DEF L, n
    <3> QED BY <2>1, MaxFacts, Zenon
  <2>3. len = Max(L)
    OBVIOUS
  <2>4. Max(L) \in Nat
    <3> DEFINE m == Max(L)
    <3> HIDE DEF L, n, m
    <3>1. m \in L
      BY <2>2 DEF m
    <3>2. m \in Nat
      BY <2>1, <3>1
    <3> QED BY <3>2 DEF m
  <2> HIDE DEF len
  <2> QED BY <2>2, <2>3, <2>4
<1> HIDE DEF len
<1>8. \A u \in out : /\ u \in 1 .. Len(s.view) /\ u \in Nat \ {0} /\ PageOf(u, D) = DestPending
                     /\ Unit(s.view, u) \in Content /\ Unit(s.view, u)[1] = s.view[u][1]
  <2> SUFFICES ASSUME NEW u \in out
               PROVE  /\ u \in 1 .. Len(s.view) /\ u \in Nat \ {0}
                      /\ PageOf(u, D) = DestPending
                      /\ Unit(s.view, u) \in Content /\ Unit(s.view, u)[1] = s.view[u][1]
    OBVIOUS
  <2>1. u = PendingByte + 2 /\ u \in 1 .. Len(s.view) /\ u \in Nat \ {0}
    BY <1>5, <1>6
  <2>2. PageOf(u, D) = DestPending /\ u \in Units(u, sc.srcSz)
    BY <1>2, <1>4, <2>1, BesidePending
  <2>3. Unit(s.view, u) \in Content /\ Unit(s.view, u)[1] = s.view[u][1]
    BY <1>2, <2>1, <2>2, UnitFacts
  <2> QED BY <2>1, <2>2, <2>3
<1>9. f \in Image /\ Len(f) = len /\ DOMAIN f = 1 .. len
  <2>1. ASSUME NEW u \in 1 .. len, u \notin out, u <= Len(d.file) PROVE d.file[u] \in Content
    <3>1. u \in DOMAIN d.file
      BY <1>4, <1>7, <2>1
    <3> QED BY <1>4, <3>1, FileFacts
  <2>2. f \in [1 .. len -> Content]
    BY <1>8, <2>1, ZeroType
  <2> HIDE DEF f
  <2> QED BY <1>7, <2>2, FileOf
<1>10. \A u \in out : u \in DOMAIN f /\ f[u] = Unit(s.view, u)
  BY <1>7, <1>8, <1>9
<1>11. \A u \in DOMAIN d.file : u \notin out => u \in DOMAIN f /\ f[u] = d.file[u]
  BY <1>4, <1>7, <1>9
<1> HIDE DEF f, s, k, d
<1>12. /\ r \in DestSet /\ r.orig = d.orig /\ r.disk = d.disk /\ r.img = d.img
       /\ r.dirty = d.dirty /\ r.journal = d.journal /\ r.copied = 0 /\ r.at = "cut"
       /\ r.file = f
  BY <1>2, <1>9 DEF DestSet
<1> HIDE DEF r
<1>13. OldOK(k, r)
  <2>1. Journaled(r, r.file)
    <3> SUFFICES ASSUME NEW u \in DOMAIN d.orig, PageOf(u, D) \notin d.journal \cup {DestPending}
                 PROVE  u \in DOMAIN f /\ f[u] = d.orig[u]
      BY <1>12 DEF Journaled
    <3>1. u \in DOMAIN d.file /\ d.file[u] = d.orig[u]
      BY <1>2 DEF OldOK, Journaled
    <3>2. u \notin out
      BY <1>8
    <3> QED BY <1>11, <3>1, <3>2
  <2>2. Journaled(r, r.disk) /\ r.dirty # {}
    <3>1. d.dirty # {}
      BY <1>1, <1>2 DEF CommitOK
    <3> QED BY <1>2, <1>12, <3>1 DEF OldOK, Journaled
  <2> QED BY <1>2, <1>12, <2>1, <2>2 DEF OldOK
<1>14. ASSUME NEW p \in Used(s.view) PROVE Has(r.file, s.view, p)
  <2> SUFFICES ASSUME NEW u \in Units(p, sc.srcSz)
               PROVE  u \in DOMAIN f /\ f[u][1] = s.view[p][1]
    BY <1>12 DEF Has
  <2>1. p \in Nat \ {0} /\ p <= Len(s.view)
    BY <1>5 DEF Used
  <2>2. u = p
    BY <1>2, <1>4, <2>1, BesidePending
  <2>3. CASE PageOf(u, D) = DestPending
    <3>1. u \in out
      BY <1>2, <1>4, <1>6, <2>1, <2>2, <2>3, BesidePending
    <3> QED BY <1>8, <1>10, <2>2, <3>1
  <2>4. CASE PageOf(u, D) # DestPending
    <3>1. u \in DOMAIN d.file /\ d.file[u][1] = s.view[p][1] /\ u \notin out
      BY <1>1, <1>2, <1>8, <2>4 DEF CommitOK, HasBut
    <3> QED BY <1>11, <3>1
  <2> QED BY <2>3, <2>4
<1>15. CommitOK(s, k, r)
  <2>1. Len(r.file) >= Len(r.orig)
    BY <1>4, <1>7, <1>9, <1>12
  <2> QED BY <1>1, <1>2, <1>4, <1>12, <1>14, <2>1 DEF CommitOK, TailSafe
<1>16. dst[b].at \notin {"idle", "trunc"} /\ r.at \notin {"idle", "trunc"}
  BY <1>1, <1>12 DEF d
<1> QED BY <1>1, <1>3, <1>12, <1>13, <1>15, <1>16, FileStep DEF s, k, d

\* backupTruncateFile()
LEMMA TruncateStep ==
  ASSUME IInv, NEW b \in Bk, backupTruncateFile(b) PROVE IInv'
<1> DEFINE s == src
           k == bk[b]
           d == dst[b]
           N == sc.srcSz * Len(s.view)
           f == Upto(d.file, N)
           r == [d EXCEPT !.at = "sync", !.file = f]
<1>1. d.at = "cut" /\ sc' = sc /\ src' = src /\ bk' = bk /\ faulty' = faulty
  BY DEF backupTruncateFile
<1>2. /\ sc \in Scenarios /\ ImageOK(s.view) /\ k \in BkSet /\ d \in DestSet
      /\ Len(d.orig) = sc.nDest * sc.destSz /\ k.bDestLocked /\ Going(k)
      /\ CommitOK(s, k, d) /\ d.copied = 0 /\ OldOK(k, d)
  BY <1>1, CommitFacts
<1>3. dst' = [dst EXCEPT ![b] = r]
  BY DEF backupTruncateFile, iSize, nSrcPage
<1>4. /\ Smaller /\ TailSafe(d, N) /\ d.file \in Image /\ Len(d.file) \in Nat
      /\ DOMAIN d.file = 1 .. Len(d.file) /\ Len(d.orig) \in Nat
      /\ DOMAIN d.orig = 1 .. Len(d.orig)
  BY <1>1, BeforeCut
<1>5. /\ N \in Nat \ {0} /\ \A p \in Used(s.view) : \A u \in Units(p, sc.srcSz) : u \in 1 .. N
  BY <1>2, SizeFacts
<1>6. \A p \in Used(s.view) : Has(d.file, s.view, p)
  BY <1>1, <1>2 DEF CommitOK
<1>7. N <= Len(d.file)
  <2>1. N \in DOMAIN d.file
    BY <1>2, <1>6, SizeFacts DEF Has
  <2> HIDE DEF N
  <2> QED BY <1>4, <1>5, <2>1
<1>8. f \in Image /\ Len(f) = N /\ DOMAIN f = 1 .. N /\ \A u \in 1 .. N : f[u] = d.file[u]
  <2> HIDE DEF N
  <2>1. f \in Image /\ Len(f) = N /\ \A u \in 1 .. N : f[u] = d.file[u]
    BY <1>4, <1>5, <1>7, UptoFacts
  <2> QED BY <2>1, FileFacts
<1> HIDE DEF f, N, s, k, d
<1>9. /\ r \in DestSet /\ r.orig = d.orig /\ r.disk = d.disk /\ r.img = d.img
      /\ r.dirty = d.dirty /\ r.journal = d.journal /\ r.copied = 0 /\ r.at = "sync"
      /\ r.file = f
  BY <1>2, <1>8 DEF DestSet
<1> HIDE DEF r
<1>10. d.dirty # {}
  BY <1>1, <1>2 DEF CommitOK
<1>11. OldOK(k, r)
  <2>1. Journaled(r, r.file)
    <3> SUFFICES ASSUME NEW u \in DOMAIN d.orig,
                        PageOf(u, sc.destSz) \notin d.journal \cup {DestPending}
                 PROVE  u \in DOMAIN f /\ f[u] = d.orig[u]
      BY <1>9 DEF Journaled
    <3>1. u \in DOMAIN d.file /\ d.file[u] = d.orig[u]
      BY <1>2 DEF OldOK, Journaled
    <3>2. ~(u > N)
      BY <1>4 DEF TailSafe
    <3>3. u \in 1 .. N
      BY <1>4, <1>5, <3>2
    <3> QED BY <1>8, <3>1, <3>3
  <2> QED BY <1>2, <1>9, <1>10, <2>1 DEF OldOK, Journaled
<1>12. \A p \in Used(s.view) : Has(f, s.view, p)
  BY <1>5, <1>6, <1>8 DEF Has
<1>13. CommitOK(s, k, r)
  BY <1>2, <1>4, <1>8, <1>9, <1>10, <1>12 DEF CommitOK, N
<1>14. dst[b].at \notin {"idle", "trunc"} /\ r.at \notin {"idle", "trunc"}
  BY <1>1, <1>9 DEF d
<1> QED BY <1>1, <1>3, <1>9, <1>11, <1>13, <1>14, FileStep DEF s, k, d

\* sqlite3PagerSync()
LEMMA SyncStep ==
  ASSUME IInv, NEW b \in Bk, PagerSync(b) PROVE IInv'
<1> DEFINE k == bk[b]
           d == dst[b]
           r == [d EXCEPT !.at = "final", !.disk = d.file]
<1>1. /\ d.at = "sync" /\ sc' = sc /\ src' = src /\ bk' = bk /\ faulty' = faulty
      /\ dst' = [dst EXCEPT ![b] = r]
  BY DEF PagerSync
<1>2. d \in DestSet /\ CommitOK(src, k, d) /\ d.copied = 0 /\ OldOK(k, d)
  BY <1>1, CommitFacts
<1> HIDE DEF k, d
<1>3. /\ r \in DestSet /\ r.orig = d.orig /\ r.disk = d.file /\ r.img = d.img
      /\ r.dirty = d.dirty /\ r.journal = d.journal /\ r.copied = 0 /\ r.at = "final"
      /\ r.file = d.file
  BY <1>2, DestFields DEF DestSet
<1> HIDE DEF r
<1>4. d.dirty # {}
  BY <1>1, <1>2 DEF CommitOK
<1>5. OldOK(k, r)
  BY <1>2, <1>3, <1>4 DEF OldOK, Journaled
<1>6. CommitOK(src, k, r)
  BY <1>1, <1>2, <1>3 DEF CommitOK
<1>7. dst[b].at \notin {"idle", "trunc"} /\ r.at \notin {"idle", "trunc"}
  BY <1>1, <1>3 DEF d
<1> QED BY <1>1, <1>3, <1>5, <1>6, <1>7, FileStep DEF k, d

\* The journal is deleted: from here on the destination is the copy.
LEMMA DeleteJournalStep ==
  ASSUME IInv, NEW b \in Bk, DeleteJournal(b) PROVE IInv'
<1> DEFINE s == src
           k == bk[b]
           d == dst[b]
           r == [d EXCEPT !.at = "trunc", !.journal = {}, !.dirty = {}, !.copied = s.seen]
<1>1. /\ d.at = "final" /\ sc' = sc /\ src' = src /\ bk' = bk /\ faulty' = faulty
      /\ dst' = [dst EXCEPT ![b] = r]
  BY DEF DeleteJournal
<1>2. /\ k \in BkSet /\ d \in DestSet /\ CommitOK(s, k, d) /\ BkOK(k, d) /\ k.state = "open"
      /\ s.seen \in 1 .. Len(s.hist) /\ s.view = s.hist[s.seen] /\ k.bDestLocked
      /\ Len(d.orig) = sc.nDest * sc.destSz /\ s.seen \in Nat /\ s.seen # 0
  <2>1. SrcOK(src)
    BY <1>1, CommitFacts
  <2>2. src.seen \in Nat /\ src.seen # 0
    BY <2>1, SrcFacts
  <2> QED BY <1>1, <2>2, CommitFacts
<1> HIDE DEF s, k, d
<1>3. /\ r \in DestSet /\ r.orig = d.orig /\ r.disk = d.disk /\ r.img = d.img
      /\ r.dirty = {} /\ r.copied = s.seen /\ r.at = "trunc" /\ r.file = d.file
  BY <1>2 DEF DestSet
<1> HIDE DEF r
<1>4. /\ \A p \in Used(s.view) : Has(d.file, s.view, p)
      /\ Len(IF Smaller THEN d.file ELSE d.img) = sc.srcSz * Len(s.view)
      /\ d.disk = d.file
  BY <1>1, <1>2 DEF CommitOK
<1>5. NewOK(s, k, r)
  BY <1>2, <1>3, <1>4 DEF NewOK
<1>6. CommitOK(s, k, r)
  BY <1>2, <1>3 DEF CommitOK
<1>7. BkOK(k, r) /\ CopyOK(s, k, r)
  BY <1>2, <1>3 DEF BkOK, CopyOK
<1>8. Good(s, k, r)
  BY <1>2, <1>3, <1>5, <1>6, <1>7 DEF Good
<1>9. bk' = [bk EXCEPT ![b] = k] /\ faulty' \in BOOLEAN
  BY <1>1 DEF IInv, k
<1>10. dst[b].at # "idle"
  BY <1>1 DEF d
<1> HIDE DEF IInv
<1> QED BY <1>1, <1>2, <1>3, <1>8, <1>9, <1>10, InCommitStep DEF s, k

\* The read lock of the source is given back, if the step took it.
LEMMA CloseFacts ==
  ASSUME NEW s, SrcOK(s), NEW cl \in BOOLEAN,
         NEW s2, s2 = [s EXCEPT !.trans = IF cl THEN "none" ELSE s.trans]
  PROVE  /\ s2 = [s EXCEPT !.trans = "none"] \/ s2 = s
         /\ s2.hist = s.hist
<1>1. s \in SrcSet
  BY SrcFacts
<1>2. CASE cl
  BY <1>1, <1>2 DEF SrcSet
<1>3. CASE ~cl
  BY <1>1, <1>3 DEF SrcSet
<1> QED BY <1>2, <1>3

\* backup_step() returns SQLITE_DONE; pager_truncate() has cut the file.
LEMMA StepDoneStep ==
  ASSUME IInv, NEW b \in Bk, StepDone(b) PROVE IInv'
<1> DEFINE s == src
           k == bk[b]
           d == dst[b]
           k2 == [k EXCEPT !.rc = "DONE"]
           f == IF Smaller THEN d.file ELSE Upto(d.file, Len(d.img))
           r == [d EXCEPT !.at = "idle", !.close = FALSE, !.file = f]
           img == s.hist[d.copied]
           N == sc.srcSz * Len(img)
<1>1. d.at = "trunc" /\ sc' = sc /\ faulty' = faulty /\ bk' = [bk EXCEPT ![b] = k2]
  BY DEF StepDone
<1>2. /\ sc \in Scenarios /\ SrcOK(s) /\ k \in BkSet /\ d \in DestSet
      /\ Len(d.orig) = sc.nDest * sc.destSz /\ k.state = "open" /\ k.bDestLocked
      /\ BkOK(k, d) /\ d.copied # 0 /\ NewOK(s, k, d)
  BY <1>1, CommitFacts
<1>3. dst' = [dst EXCEPT ![b] = r]
  BY DEF StepDone
<1>4. /\ src' = [s EXCEPT !.trans = "none"] \/ src' = s
      /\ src'.hist = s.hist
  <2>1. src' = [s EXCEPT !.trans = IF d.close THEN "none" ELSE s.trans] /\ d.close \in BOOLEAN
    BY <1>2, DestFields DEF StepDone
  <2> HIDE DEF s, d
  <2> QED BY <1>2, <2>1, CloseFacts
<1>5. /\ d.copied \in 1 .. Len(s.hist) /\ ImageOK(img) /\ d.dirty = {}
      /\ \A p \in Used(img) : Has(d.file, img, p) /\ Has(d.disk, img, p)
      /\ Len(IF Smaller THEN d.file ELSE d.img) = N
  BY <1>1, <1>2, SrcFacts DEF NewOK
<1>6. /\ N \in Nat \ {0} /\ \A p \in Used(img) : \A u \in Units(p, sc.srcSz) : u \in 1 .. N
  BY <1>2, <1>5, SizeFacts
<1>7. d.file \in Image /\ Len(d.file) \in Nat /\ DOMAIN d.file = 1 .. Len(d.file)
  BY <1>2, DestFields, FileFacts
<1>8. N <= Len(d.file)
  <2>1. N \in DOMAIN d.file
    BY <1>2, <1>5, SizeFacts DEF Has
  <2> HIDE DEF N
  <2> QED BY <1>6, <1>7, <2>1
<1>9. f \in Image /\ Len(f) = N /\ \A u \in 1 .. N : u \in DOMAIN f /\ f[u] = d.file[u]
  <2>1. CASE Smaller
    <3>1. f = d.file /\ Len(d.file) = N
      BY <1>5, <2>1
    <3> HIDE DEF N, f
    <3> QED BY <1>6, <1>7, <3>1
  <2>2. CASE ~Smaller
    <3>1. f = Upto(d.file, N)
      BY <1>5, <2>2
    <3> HIDE DEF N, f
    <3>2. f \in Image /\ Len(f) = N /\ \A u \in 1 .. N : f[u] = d.file[u]
      BY <1>6, <1>7, <1>8, <3>1, UptoFacts
    <3> QED BY <3>2, FileFacts
  <2> QED BY <2>1, <2>2
<1>10. /\ k2 \in BkSet /\ k2.rc = "DONE" /\ k2.state = "open" /\ k2.bDestLocked
       /\ k2.isAttached = k.isAttached
  <2> HIDE DEF k
  <2> QED BY <1>2 DEF BkSet
<1> HIDE DEF f, N, s, k, d, k2, img
<1>11. /\ r \in DestSet /\ r.orig = d.orig /\ r.disk = d.disk /\ r.img = d.img
       /\ r.dirty = {} /\ r.copied = d.copied /\ r.at = "idle" /\ r.file = f
  BY <1>2, <1>5, <1>9 DEF DestSet
<1> HIDE DEF r
<1>12. NewOK(src', k2, r)
  <2>1. \A p \in Used(img) : Has(r.file, img, p) /\ Has(r.disk, img, p)
    BY <1>5, <1>6, <1>9, <1>11 DEF Has
  <2>2. src'.hist[r.copied] = img /\ Len(r.file) = N
    BY <1>4, <1>9, <1>11 DEF img
  <2> QED BY <1>4, <1>5, <1>10, <1>11, <2>1, <2>2 DEF NewOK, N
<1>13. ~Going(k2)
  BY <1>10 DEF Going, isFatalError
<1>14. BkOK(k2, r)
  BY <1>2, <1>10, <1>13 DEF BkOK
<1>15. Good(src', k2, r)
  BY <1>2, <1>11, <1>12, <1>13, <1>14 DEF Good, CopyOK
<1>16. faulty' \in BOOLEAN
  BY <1>1 DEF IInv
<1>17. dst[b].at # "idle"
  BY <1>1 DEF d
<1> HIDE DEF IInv
<1> QED BY <1>1, <1>3, <1>4, <1>10, <1>11, <1>15, <1>16, <1>17, InCommitStep DEF s

\* An I/O error in the commit: the transaction stays open, and can be rolled back.
LEMMA StepFailsStep ==
  ASSUME IInv, NEW b \in Bk, StepFails(b) PROVE IInv'
<1> DEFINE s == src
           k == bk[b]
           d == dst[b]
           k2 == [k EXCEPT !.rc = "IOERR"]
           r == [d EXCEPT !.at = "idle", !.close = FALSE]
<1>1. CASE /\ CanStep(b) /\ src.trans # "write" /\ src' = SharedLock.s
           /\ bk' = [SharedLock.b EXCEPT ![b].rc = "IOERR"]
  <2>1. /\ dst' = [dst EXCEPT ![b].at = "idle", ![b].close = FALSE] /\ sc' = sc
        /\ faulty' = FALSE
    BY DEF StepFails
  <2> QED BY <1>1, <2>1, StepFailsEarly
<1>2. CASE /\ d.at \in {"commit", "extra", "cut", "sync"} /\ bk' = [bk EXCEPT ![b] = k2]
           /\ src' = [s EXCEPT !.trans = IF d.close THEN "none" ELSE s.trans]
  <2>1. dst' = [dst EXCEPT ![b] = r] /\ sc' = sc /\ faulty' = FALSE
    BY DEF StepFails
  <2>2. /\ sc \in Scenarios /\ SrcOK(s) /\ k \in BkSet /\ d \in DestSet
        /\ Len(d.orig) = sc.nDest * sc.destSz /\ k.state = "open" /\ k.bDestLocked
        /\ BkOK(k, d) /\ d.copied = 0 /\ OldOK(k, d)
    BY <1>2, CommitFacts
  <2>3. src' = [s EXCEPT !.trans = "none"] \/ src' = s
    <3>1. d.close \in BOOLEAN
      BY <2>2, DestFields
    <3> HIDE DEF s, d
    <3> QED BY <1>2, <2>2, <3>1, CloseFacts
  <2>4. /\ k2 \in BkSet /\ k2.rc = "IOERR" /\ k2.state = "open" /\ k2.bDestLocked
        /\ k2.isAttached = k.isAttached
    <3> HIDE DEF k
    <3> QED BY <2>2 DEF BkSet
  <2> HIDE DEF s, k, d, k2
  <2>5. /\ r \in DestSet /\ r.orig = d.orig /\ r.disk = d.disk /\ r.img = d.img
        /\ r.dirty = d.dirty /\ r.journal = d.journal /\ r.copied = 0 /\ r.at = "idle"
        /\ r.file = d.file
    BY <2>2 DEF DestSet
  <2> HIDE DEF r
  <2>6. ~Going(k2)
    BY <2>4 DEF Going, isFatalError
  <2>7. OldOK(k2, r)
    BY <2>2, <2>4, <2>5, <2>6 DEF OldOK, Journaled
  <2>8. BkOK(k2, r)
    BY <2>2, <2>4, <2>6 DEF BkOK
  <2>9. Good(src', k2, r)
    BY <2>2, <2>4, <2>5, <2>6, <2>7, <2>8 DEF Good, CopyOK
  <2>10. dst[b].at # "idle" /\ faulty' \in BOOLEAN
    BY <1>2, <2>1 DEF d
  <2> HIDE DEF IInv
  <2> QED BY <1>2, <2>1, <2>3, <2>4, <2>5, <2>9, <2>10, InCommitStep DEF s
<1> QED BY <1>1, <1>2 DEF StepFails

\* The commit of the destination.
LEMMA CommitStepStep ==
  ASSUME IInv, NEW b \in Bk, CommitStep(b) PROVE IInv'
<1> HIDE DEF IInv
<1>1. ASSUME CommitPhaseOne(b) PROVE IInv'
  BY <1>1, PhaseOneSmaller, PhaseOneOther
<1> QED BY <1>1, WriteExtraStep, TruncateStep, SyncStep, DeleteJournalStep, StepDoneStep
        DEF CommitStep

-----------------------------------------------------------------------------
(* The end of a backup *)

\* A file that finish(), or a reader after a crash, may find: what is not in the
\* journal is as it was, or the copy is there.
Readable(s, d, f) ==
  /\ f \in Image
  /\ d.copied = 0 /\ d.dirty = {} => f = d.orig
  /\ d.copied = 0 => Journaled(d, f)
  /\ d.copied # 0 => \A p \in Used(s.hist[d.copied]) : Has(f, s.hist[d.copied], p)

\* The journal is played back, and the backup is over.
Over(k)         == [k EXCEPT !.state = "closed", !.isAttached = FALSE]
PlayedBack(d, f) == Closed(d, Restored(d, f))

\* A backup that is over, with its destination played back, is as it should be.
LEMMA ClosedGood ==
  ASSUME sc \in Scenarios, NEW s, NEW k, NEW d, Good(s, k, d), k.state = "open",
         NEW f, Readable(s, d, f), NEW s2, KeepsHist(s, s2)
  PROVE  /\ Over(k) \in BkSet /\ PlayedBack(d, f) \in DestSet
         /\ PlayedBack(d, f).at = "idle" /\ Good(s2, Over(k), PlayedBack(d, f))
<1> DEFINE g == Restored(d, f)
           k2 == Over(k)
           d2 == PlayedBack(d, f)
<1>1. /\ d \in DestSet /\ k \in BkSet /\ BkOK(k, d) /\ Len(d.orig) = sc.nDest * sc.destSz
      /\ f \in Image /\ d.orig \in Image
  BY DestFields DEF Good, BkOK, Readable
<1>2. /\ Len(f) \in Nat /\ DOMAIN f = 1 .. Len(f) /\ Len(d.orig) \in Nat
      /\ DOMAIN d.orig = 1 .. Len(d.orig)
  BY <1>1, FileFacts
<1>3. d.copied = 0 => OldOK(k, d)
  BY DEF Good
<1>4. d.copied # 0 => NewOK(s, k, d)
  BY DEF Good
<1>5. g \in Image
  <2>1. CASE d.dirty = {}
    BY <1>1, <2>1 DEF Restored
  <2>2. CASE d.dirty # {}
    <3> DEFINE h == [u \in 1 .. Len(d.orig) |->
                       IF PageOf(u, sc.destSz) \in d.journal THEN d.orig[u]
                       ELSE IF u <= Len(f) THEN f[u] ELSE Zero]
    <3>1. g = h
      BY <2>2 DEF Restored
    <3>2. \A u \in 1 .. Len(d.orig) : d.orig[u] \in Content
      BY <1>1, <1>2, FileFacts
    <3>3. \A u \in 1 .. Len(d.orig) : u <= Len(f) => f[u] \in Content
      BY <1>1, <1>2, FileFacts
    <3>4. h \in [1 .. Len(d.orig) -> Content]
      BY <3>2, <3>3, ZeroType
    <3> HIDE DEF h
    <3>5. h \in Image
      BY <1>2, <3>4, FileOf
    <3> QED BY <3>1, <3>5
  <2> QED BY <2>1, <2>2
<1>6. ASSUME d.copied = 0
      PROVE  /\ Len(g) = Len(d.orig)
             /\ \A u \in DOMAIN d.orig : PageOf(u, sc.destSz) # DestPending => g[u] = d.orig[u]
  <2>1. CASE d.dirty = {}
    BY <1>6, <2>1 DEF Restored, Readable
  <2>2. CASE d.dirty # {}
    <3>1. g = [u \in 1 .. Len(d.orig) |->
                 IF PageOf(u, sc.destSz) \in d.journal THEN d.orig[u]
                 ELSE IF u <= Len(f) THEN f[u] ELSE Zero]
      BY <2>2 DEF Restored
    <3> HIDE DEF g
    <3>2. Len(g) = Len(d.orig)
      BY <1>2, <1>5, <3>1, FileFacts DEF Image
    <3>3. ASSUME NEW u \in DOMAIN d.orig, PageOf(u, sc.destSz) # DestPending
          PROVE  g[u] = d.orig[u]
      <4>1. CASE PageOf(u, sc.destSz) \in d.journal
        BY <1>2, <3>1, <4>1
      <4>2. CASE PageOf(u, sc.destSz) \notin d.journal
        <5>1. u \in DOMAIN f /\ f[u] = d.orig[u]
          BY <1>6, <3>3, <4>2 DEF Readable, Journaled
        <5> QED BY <1>2, <3>1, <4>2, <5>1
      <4> QED BY <4>1, <4>2
    <3> QED BY <3>2, <3>3
  <2> QED BY <2>1, <2>2
<1>7. d.copied # 0 => g = f
  BY <1>4 DEF NewOK, Restored
<1>8. /\ k2 \in BkSet /\ k2.state = "closed" /\ k2.isAttached = FALSE /\ k2.rc = k.rc
      /\ k2.bDestLocked = k.bDestLocked
  BY <1>1 DEF BkSet, Over
<1> HIDE DEF g, k2
<1>9. /\ d2 \in DestSet /\ d2.orig = d.orig /\ d2.file = g /\ d2.disk = g /\ d2.dirty = {}
      /\ d2.at = "idle" /\ d2.copied = d.copied
  <2>1. d2 = Closed(d, g)
    BY DEF g, PlayedBack
  <2> HIDE DEF d2
  <2> QED BY <1>1, <1>5, <2>1 DEF DestSet, Closed
<1> HIDE DEF d2
<1>10. BkOK(k2, d2) /\ CopyOK(s2, k2, d2)
  BY <1>1, <1>8 DEF BkOK, CopyOK, Going
<1>11. d.copied = 0 => SameFile(d2)
  BY <1>6, <1>9 DEF SameFile
<1>12. ASSUME d.copied # 0 PROVE NewOK(s2, k2, d2)
  <2>1. /\ d.copied \in 1 .. Len(s2.hist) /\ s2.hist[d.copied] = s.hist[d.copied]
        /\ k.bDestLocked
    BY <1>4, <1>12 DEF NewOK, KeepsHist
  <2>2. \A p \in Used(s.hist[d.copied]) : Has(g, s.hist[d.copied], p)
    BY <1>7, <1>12 DEF Readable
  <2> QED BY <1>8, <1>9, <2>1, <2>2 DEF NewOK
<1>13. Good(s2, k2, d2)
  BY <1>1, <1>8, <1>9, <1>10, <1>11, <1>12 DEF Good
<1> QED BY <1>8, <1>9, <1>13 DEF k2, d2

\* What is in a destination's file and what was synced can be read.
LEMMA FilesReadable ==
  ASSUME NEW s, NEW k, NEW d, Good(s, k, d), k.state = "open"
  PROVE  Readable(s, d, d.file) /\ Readable(s, d, d.disk)
<1>1. d.file \in Image /\ d.disk \in Image
  BY DestFields DEF Good
<1>2. d.copied = 0 => OldOK(k, d)
  BY DEF Good
<1>3. d.copied # 0 => NewOK(s, k, d)
  BY DEF Good
<1>4. Journaled(d, d.orig)
  BY DEF Journaled
<1> QED BY <1>1, <1>2, <1>3, <1>4 DEF Readable, OldOK, NewOK

\* sqlite3_backup_finish()
LEMMA BackupFinishStep ==
  ASSUME IInv, NEW b \in Bk, BackupFinish(b) PROVE IInv'
<1> DEFINE k == bk[b]
           d == dst[b]
           k2 == Over(k)
           d2 == PlayedBack(d, d.file)
<1>1. /\ k.state = "open" /\ ~InCall /\ bk' = [bk EXCEPT ![b] = k2]
      /\ dst' = [dst EXCEPT ![b] = d2] /\ sc' = sc /\ src' = src /\ faulty' = faulty
  BY DEF BackupFinish, Over, PlayedBack
<1>2. /\ sc \in Scenarios /\ SrcOK(src) /\ faulty \in BOOLEAN /\ KeepsHist(src, src)
      /\ bk \in [Bk -> BkSet] /\ dst \in [Bk -> DestSet]
      /\ \A c \in Bk : Good(src, bk[c], dst[c]) /\ dst[c].at = "idle"
  BY <1>1, SrcFacts DEF IInv, InCall
<1>3. Good(src, k, d)
  BY <1>2
<1>4. k2 \in BkSet /\ d2 \in DestSet /\ d2.at = "idle" /\ Good(src, k2, d2)
  <2> HIDE DEF k, d
  <2>1. Readable(src, d, d.file)
    BY <1>1, <1>3, FilesReadable
  <2> QED BY <1>1, <1>2, <1>3, <2>1, ClosedGood
<1> HIDE DEF k2, d2
<1>5. \A c \in Bk : /\ bk'[c] = IF c = b THEN k2 ELSE bk[c]
                    /\ dst'[c] = IF c = b THEN d2 ELSE dst[c]
  BY <1>1, <1>2
<1>6. \A c \in Bk : Good(src', bk'[c], dst'[c]) /\ dst'[c].at = "idle"
  BY <1>1, <1>2, <1>4, <1>5
<1>7. bk' \in [Bk -> BkSet] /\ dst' \in [Bk -> DestSet]
  BY <1>1, <1>2, <1>4
<1> QED BY <1>1, <1>2, <1>6, <1>7, StepFacts

\* The power fails: any mixture of what was written and what was synced can be read.
LEMMA KeptReadable ==
  ASSUME NEW s, NEW d \in DestSet, Readable(s, d, d.file), Readable(s, d, d.disk),
         NEW kept, NEW long \in BOOLEAN
  PROVE  Readable(s, d, AfterLoss(d, kept, long))
<1> DEFINE n == IF long THEN Len(d.file) ELSE Len(d.disk)
           f == AfterLoss(d, kept, long)
<1>0. f = [u \in 1 .. n |-> IF u \in kept /\ u <= Len(d.file) THEN d.file[u]
                            ELSE IF u <= Len(d.disk) THEN d.disk[u] ELSE Zero]
  BY DEF AfterLoss
<1>1. /\ d.file \in Image /\ d.disk \in Image /\ Len(d.file) \in Nat /\ Len(d.disk) \in Nat
      /\ DOMAIN d.file = 1 .. Len(d.file) /\ DOMAIN d.disk = 1 .. Len(d.disk)
      /\ \A u \in DOMAIN d.file : d.file[u] \in Content
      /\ \A u \in DOMAIN d.disk : d.disk[u] \in Content
  BY DestFields, FileFacts
<1>2. n \in Nat
  BY <1>1
<1> HIDE DEF n, f
<1>3. f \in Image /\ DOMAIN f = 1 .. n
  <2>1. f \in [1 .. n -> Content]
    BY <1>0, <1>1, <1>2, ZeroType
  <2> QED BY <1>2, <2>1, FileOf
<1>4. \A u \in DOMAIN d.file : u \in DOMAIN d.disk => u \in DOMAIN f /\ f[u] \in {d.file[u], d.disk[u]}
  BY <1>0, <1>1, <1>2, <1>3 DEF n
<1>5. d.copied = 0 => Journaled(d, f)
  BY <1>4 DEF Readable, Journaled
<1>6. ASSUME d.copied # 0, NEW p \in Used(s.hist[d.copied]) PROVE Has(f, s.hist[d.copied], p)
  BY <1>4, <1>6 DEF Readable, Has
<1>7. ASSUME d.copied = 0, d.dirty = {} PROVE f = d.orig
  <2>1. d.file = d.orig /\ d.disk = d.orig /\ d.file = [u \in DOMAIN d.file |-> d.file[u]]
    BY <1>1, <1>7, FileFacts DEF Readable
  <2>2. n = Len(d.file) /\ \A u \in 1 .. n : f[u] = d.file[u]
    BY <1>0, <1>1, <2>1 DEF n
  <2>3. f = [u \in 1 .. n |-> f[u]]
    BY <1>0
  <2> QED BY <1>1, <2>1, <2>2, <2>3
<1> QED BY <1>3, <1>5, <1>6, <1>7 DEF Readable, f

\* Every backup is over, and the source is opened again.
LEMMA PowerLossStep ==
  ASSUME IInv, PowerLoss PROVE IInv'
<1>1. PICK kept, long :
        /\ long \in BOOLEAN
        /\ dst' = [b \in Bk |->
                     IF bk[b].state = "open"
                     THEN Closed(dst[b], Restored(dst[b], AfterLoss(dst[b], kept, long)))
                     ELSE dst[b]]
  BY DEF PowerLoss
<1>2. /\ faulty' = FALSE /\ sc' = sc /\ src' = Idle(pager_reset.s)
      /\ bk' = [b \in Bk |-> IF bk[b].state = "open"
                             THEN [bk[b] EXCEPT !.state = "closed", !.isAttached = FALSE]
                             ELSE bk[b]]
  BY DEF PowerLoss
<1>3. /\ sc \in Scenarios /\ SrcOK(src) /\ src \in SrcSet /\ KeepsHist(src, src)
      /\ Len(src.hist) \in 1 .. Len(src.hist) /\ ImageOK(Disk)
      /\ \A i \in 1 .. Len(src.hist) : ImageOK(src.hist[i])
  BY SrcFacts DEF IInv, Disk, Last1
<1>4. SrcOK(src') /\ KeepsHist(src, src')
  <2> DEFINE s == pager_reset.s
  <2>1. s = [src EXCEPT !.view = Disk, !.seen = Len(src.hist)]
    BY DEF pager_reset
  <2>2. Disk \in Image /\ Len(src.hist) \in Nat
    BY <1>3 DEF ImageOK
  <2> HIDE DEF s
  <2>3. s \in SrcSet
    BY <1>3, <2>1, <2>2 DEF SrcSet
  <2>4. s.hist = src.hist /\ s.view = Disk /\ s.seen = Len(src.hist)
    BY <1>3, <2>1 DEF SrcSet
  <2>5. s.view = s.hist[s.seen]
    BY <2>4 DEF Disk, Last1
  <2>6. SrcOK(Idle(s)) /\ Idle(s).hist = s.hist
    BY <1>3, <2>3, <2>4, <2>5, IdleSrc
  <2>7. src' = Idle(s)
    BY <1>2 DEF s
  <2> QED BY <1>3, <2>4, <2>6, <2>7 DEF KeepsHist
<1>5. ASSUME NEW b \in Bk
      PROVE  /\ bk'[b] \in BkSet /\ dst'[b] \in DestSet /\ dst'[b].at = "idle"
             /\ Good(src', bk'[b], dst'[b])
  <2>1. /\ Good(src, bk[b], dst[b]) /\ dst[b] \in DestSet /\ bk[b] \in BkSet
        /\ BkOK(bk[b], dst[b])
    BY BkParts
  <2>2. CASE bk[b].state = "open"
    <3> DEFINE f == AfterLoss(dst[b], kept, long)
    <3>1. Readable(src, dst[b], dst[b].file) /\ Readable(src, dst[b], dst[b].disk)
      BY <2>1, <2>2, FilesReadable
    <3>2. Readable(src, dst[b], f)
      BY <1>1, <2>1, <3>1, KeptReadable
    <3>3. bk'[b] = Over(bk[b]) /\ dst'[b] = PlayedBack(dst[b], f)
      BY <1>1, <1>2, <2>2 DEF Over, PlayedBack
    <3> HIDE DEF f
    <3> QED BY <1>3, <1>4, <2>1, <2>2, <3>2, <3>3, ClosedGood
  <2>3. CASE bk[b].state # "open"
    <3>1. bk'[b] = bk[b] /\ dst'[b] = dst[b]
      BY <1>1, <1>2, <2>3
    <3>2. dst[b].at = "idle"
      BY <2>1, <2>3 DEF Good, CommitOK
    <3>3. Going(bk[b]) => bk[b].iNext = 1
      BY <2>1, <2>3, <3>2 DEF BkOK
    <3>4. /\ Alike(dst[b], dst[b]) /\ Extends(dst[b], dst[b]) /\ Moves(bk[b], bk[b])
          /\ CopyOK(src', bk[b], dst[b])
      BY <1>4, <2>1, <3>3, AlikeSelf, AlikeExtends, MovesSelf, FreshCopy
    <3>5. Good(src', bk[b], dst[b])
      BY <1>3, <1>4, <2>1, <3>2, <3>4, IdleGood
    <3> QED BY <2>1, <3>1, <3>2, <3>5
  <2> QED BY <2>2, <2>3
<1>6. bk' \in [Bk -> BkSet]
  BY <1>2, <1>5
<1>7. dst' \in [Bk -> DestSet]
  BY <1>1, <1>5
<1> QED BY <1>2, <1>3, <1>4, <1>5, <1>6, <1>7, StepFacts

-----------------------------------------------------------------------------
(* The theorems *)

\* The invariant holds at first.
LEMMA InitIInv == Init => IInv
<1> SUFFICES ASSUME Init PROVE IInv
  OBVIOUS
<1> DEFINE img == [p \in 1 .. sc.nSrc |-> <<0, IF p = 1 THEN sc.header ELSE 0>>]
           nd == sc.nDest * sc.destSz
           f == [u \in 1 .. nd |-> <<Old, IF u = 1 THEN sc.nDest ELSE 0>>]
           d == NewDest(sc.nDest)
           k == NewBackup
<1>1. sc \in Scenarios /\ faulty \in BOOLEAN
  BY ScFacts DEF Init
<1>2. /\ sc.nSrc \in 1 .. sc.maxPage /\ sc.nSrc # SrcPending /\ sc.nDest \in Nat
      /\ sc.header \in Nat /\ sc.destSz \in {1, 2} /\ sc.maxPage \in Nat \ {0}
      /\ sc.txns \in 0 .. MaxTxn /\ sc.txns \in Nat
  BY <1>1, ScFacts, BackupAssumption
<1>3. 0 \in Version /\ Old \in Version
  BY BackupAssumption DEF Version, Old
<1>4. ImageOK(img)
  <2>1. sc.nSrc \in Nat
    BY <1>2
  <2>2. sc.nSrc \in Nat /\ img \in [1 .. sc.nSrc -> Content]
    BY <1>2, <1>3, <2>1 DEF Content
  <2> HIDE DEF img
  <2>3. img \in Image /\ Len(img) = sc.nSrc
    BY <2>2, FileOf
  <2> QED BY <1>2, <2>3 DEF ImageOK
<1>5. f \in Image /\ Len(f) = nd /\ nd \in Nat
  <2>1. nd \in Nat
    BY <1>2
  <2>2. f \in [1 .. nd -> Content]
    BY <1>2, <1>3 DEF Content
  <2> HIDE DEF f, nd
  <2> QED BY <2>1, <2>2, FileOf
<1>6. SrcOK(src)
  <2>1. src = [hist |-> <<img>>, view |-> img, seen |-> 1, trans |-> "none", txn |-> 0,
               dirty |-> {}, journal |-> {}, synced |-> {}, spilled |-> FALSE]
    BY DEF Init
  <2> HIDE DEF img
  <2>2. /\ <<img>> \in Seq(Image) /\ img \in Image /\ Len(<<img>>) = 1
        /\ \A i \in 1 .. 1 : ImageOK(<<img>>[i])
    BY <1>4 DEF ImageOK
  <2>3. src \in SrcSet
    BY <1>2, <2>1, <2>2 DEF SrcSet
  <2>4. /\ src.hist = <<img>> /\ src.view = img /\ src.seen = 1 /\ src.dirty = {}
        /\ src.journal = {} /\ src.synced = {} /\ src.spilled = FALSE
    BY <2>1
  <2>5. src.seen \in 1 .. Len(src.hist) /\ src.view = src.hist[src.seen]
        /\ \A i \in 1 .. Len(src.hist) : ImageOK(src.hist[i])
    BY <1>4, <2>2, <2>4
  <2> QED BY <2>3, <2>4, <2>5, RestingOK
<1>7. k \in BkSet /\ k.state = "none" /\ k.iNext = 1 /\ k.rc = "OK" /\ ~k.bDestLocked
      /\ ~k.isAttached
  BY <1>2 DEF NewBackup, BkSet
<1>8. /\ d.orig = f /\ d.file = f /\ d.disk = f /\ d.img = f /\ d.dirty = {} /\ d.journal = {}
      /\ d.reader = "new" /\ d.at = "idle" /\ d.close = FALSE /\ d.copied = 0
  BY DEF NewDest
<1>9. d \in DestSet
  <2> HIDE DEF f
  <2>1. d = [orig |-> f, file |-> f, disk |-> f, img |-> f, dirty |-> {}, journal |-> {},
             reader |-> "new", at |-> "idle", close |-> FALSE, copied |-> 0]
    BY DEF NewDest, f
  <2> HIDE DEF d
  <2> QED BY <1>5, <2>1 DEF DestSet
<1>10. CacheOK(d)
  <2> HIDE DEF f, nd, d
  <2>1. \A p \in Nat \ {0} : p * sc.destSz <= nd => p \in 1 .. sc.nDest
    <3>1. CASE sc.destSz = 1
      BY <1>2, <3>1 DEF nd
    <3>2. CASE sc.destSz = 2
      BY <1>2, <3>2 DEF nd
    <3> QED BY <1>2, <3>1, <3>2
  <2> QED BY <1>5, <1>8, <2>1 DEF CacheOK, DestPages
<1> HIDE DEF d, k, f
<1>11. OldOK(k, d)
  BY <1>7, <1>8, <1>10 DEF OldOK, Journaled
<1>12. BkOK(k, d) /\ CopyOK(src, k, d)
  BY <1>6, <1>7, FreshCopy DEF BkOK
<1>13. Good(src, k, d)
  BY <1>5, <1>7, <1>8, <1>9, <1>11, <1>12 DEF Good, nd
<1>14. bk = [b \in Bk |-> k] /\ dst = [b \in Bk |-> d]
  BY DEF Init, k, d
<1> QED BY <1>1, <1>6, <1>7, <1>8, <1>9, <1>13, <1>14 DEF IInv

\* Every step keeps it.
LEMMA NextIInv ==
  ASSUME IInv, [Next]_vars PROVE IInv'
<1> HIDE DEF IInv
<1>1. ASSUME UNCHANGED vars PROVE IInv'
  <2>1. sc' = sc /\ src' = src /\ bk' = bk /\ dst' = dst /\ faulty' = faulty
    BY <1>1 DEF vars
  <2>2. /\ sc \in Scenarios /\ faulty \in BOOLEAN /\ SrcOK(src)
        /\ bk \in [Bk -> BkSet] /\ dst \in [Bk -> DestSet]
        /\ \A b \in Bk : Good(src, bk[b], dst[b])
        /\ \A b, c \in Bk : b # c => dst[b].at = "idle" \/ dst[c].at = "idle"
    BY DEF IInv
  <2> QED BY <2>1, <2>2, StepFacts
<1>2. ASSUME Source PROVE IInv'
  BY <1>2, BeginReadStep, EndReadStep, BeginWriteStep, ChangeStep, SpillStep, CommitStepOfSource,
     RollbackStep, SourceFailsStep, ExternalCommitStep DEF Source
<1>3. ASSUME NEW b \in Bk, BackupInit(b) \/ DestReader(b) \/ DestReaderLeaves(b)
                           \/ StepBusy(b) \/ StepDestBusy(b)
      PROVE  IInv'
  BY <1>3, BackupInitStep, ReaderStep, StepBusyStep, StepDestBusyStep
<1>4. ASSUME NEW b \in Bk, NEW n \in sc.steps, StepCopy(b, n) PROVE IInv'
  BY <1>4, StepCopyStep
<1>5. ASSUME NEW b \in Bk, StepFails(b) \/ CommitStep(b) \/ BackupFinish(b) PROVE IInv'
  BY <1>5, StepFailsStep, CommitStepStep, BackupFinishStep
<1>6. ASSUME PowerLoss PROVE IInv'
  BY <1>6, PowerLossStep
<1> QED BY <1>1, <1>2, <1>3, <1>4, <1>5, <1>6 DEF Next

\* The invariant of the backup holds in every state of every run.
THEOREM BackupInvariant == Spec => []IInv
<1>1. Init => IInv
  BY InitIInv
<1>2. IInv /\ [Next]_vars => IInv'
  BY NextIInv
<1> QED BY <1>1, <1>2, PTL DEF Spec

\* The fields hold what the C structures could: iNext never runs more than one
\* page past what the source may have, and no page number is out of range.
THEOREM BackupTypeOK == Spec => []TypeOK
<1>1. IInv => TypeOK
  <2> SUFFICES ASSUME IInv PROVE TypeOK
    OBVIOUS
  <2>1. sc \in Scenarios /\ SrcOK(src) /\ bk \in [Bk -> BkSet] /\ faulty \in BOOLEAN
    BY DEF IInv
  <2>2. src \in [hist : Seq(Image), view : Image, seen : 1 .. Len(src.hist),
                 trans : {"none", "read", "write"}, txn : 0 .. MaxTxn,
                 dirty : SUBSET (1 .. sc.maxPage), journal : SUBSET (1 .. sc.maxPage),
                 synced : SUBSET src.journal, spilled : BOOLEAN]
    <3>1. /\ src \in SrcSet /\ src.seen \in 1 .. Len(src.hist)
          /\ src.synced \in SUBSET src.journal
      BY <2>1, SrcFacts DEF SrcOK
    <3>2. src.txn \in 0 .. MaxTxn
      BY <2>1, <3>1, SrcFields, ScFacts, BackupAssumption
    <3> QED BY <3>1, <3>2 DEF SrcSet
  <2>3. ASSUME NEW b \in Bk
        PROVE  /\ dst[b].dirty \subseteq (1 .. 2 * sc.maxPage) \cup (1 .. sc.nDest)
               /\ dst[b].journal \subseteq 1 .. sc.nDest
               /\ dst[b].reader \in {"new", "on", "left"}
               /\ dst[b].at \in {"idle", "commit", "extra", "cut", "sync", "final", "trunc"}
               /\ dst[b].copied \in 0 .. Len(src.hist)
    <3>1. dst[b] \in DestSet /\ Good(src, bk[b], dst[b])
      BY BkParts
    <3>2. dst[b].copied \in 0 .. Len(src.hist)
      <4>1. Len(src.hist) \in Nat
        BY <2>1, SrcFacts
      <4>2. dst[b].copied # 0 => dst[b].copied \in 1 .. Len(src.hist)
        BY <3>1 DEF Good, NewOK
      <4> QED BY <4>1, <4>2
    <3> QED BY <3>1, <3>2, DestFields DEF DestPages
  <2> QED BY <2>1, <2>2, <2>3 DEF TypeOK, BkSet
<1> QED BY <1>1, BackupInvariant, PTL

\* A page that the source's pager has written out is in the destination of every
\* backup that has copied it: no change of the source is missed.
THEOREM BackupCopiedPagesCurrent == Spec => []CopiedPagesCurrent
<1>1. IInv => CopiedPagesCurrent
  <2> SUFFICES ASSUME IInv, NEW b \in Attached, ~isFatalError(bk[b].rc),
                      NEW p \in Used(src.view) \ src.dirty, p < bk[b].iNext,
                      NEW u \in Units(p, sc.srcSz), PageOf(u, sc.destSz) # DestPending
               PROVE  dst[b].img[u][1] = Unit(src.view, u)[1]
    BY DEF CopiedPagesCurrent
  <2>1. b \in Bk /\ bk[b].isAttached
    BY DEF Attached
  <2>2. /\ sc \in Scenarios /\ SrcOK(src) /\ BkOK(bk[b], dst[b]) /\ CopyOK(src, bk[b], dst[b])
        /\ Good(src, bk[b], dst[b])
    BY <2>1, BkParts
  <2>3. Going(bk[b])
    BY <2>1, <2>2 DEF BkOK, Going
  <2>4. dst[b].img[u][1] = src.view[p][1]
    <3>1. CASE dst[b].at = "idle"
      BY <2>2, <2>3, <3>1 DEF CopyOK, Current
    <3>2. CASE dst[b].at # "idle"
      BY <2>2, <3>2 DEF Good, CommitOK, HasBut
    <3> QED BY <3>1, <3>2
  <2>5. Unit(src.view, u)[1] = src.view[p][1]
    BY <2>2, SrcFacts, UnitFacts DEF Used, ImageOK
  <2> QED BY <2>4, <2>5
<1> QED BY <1>1, BackupInvariant, PTL

\* Whoever can read a destination finds what was there before or exactly one image
\* that the source committed, whatever happens to the source and to the backup.
THEOREM BackupDestOldOrCopy == Spec => []DestOldOrCopy
<1>1. IInv => DestOldOrCopy
  <2> SUFFICES ASSUME IInv, NEW b \in Bk, ~TransOpen(b)
               PROVE  LET d == dst[b] IN
                      IF d.copied = 0
                      THEN /\ Len(d.file) = Len(d.orig)
                           /\ \A u \in DOMAIN d.orig :
                                PageOf(u, sc.destSz) # DestPending => d.file[u] = d.orig[u]
                      ELSE LET img == src.hist[d.copied] IN
                           /\ Len(d.file) >= sc.srcSz * Len(img)
                           /\ bk[b].state = "open" => Len(d.file) = sc.srcSz * Len(img)
                           /\ \A p \in Used(img) : \A u \in Units(p, sc.srcSz) :
                                d.file[u][1] = Unit(img, u)[1]
    BY DEF DestOldOrCopy
  <2> DEFINE d == dst[b]
             k == bk[b]
             img == src.hist[d.copied]
  <2>1. /\ sc \in Scenarios /\ SrcOK(src) /\ BkOK(k, d) /\ Good(src, k, d) /\ d \in DestSet
    BY BkParts
  <2>2. ASSUME d.copied = 0 PROVE SameFile(d)
    <3>1. CASE k.state = "closed"
      BY <2>1, <2>2, <3>1 DEF Good
    <3>2. CASE k.state # "closed"
      <4>1. OldOK(k, d)
        BY <2>1, <2>2, <3>2 DEF Good
      <4>2. ~k.bDestLocked
        BY <2>1, <3>2, <4>1, BkFields DEF OldOK, BkOK, TransOpen
      <4>3. d.file = d.orig
        BY <4>1, <4>2 DEF OldOK
      <4> QED BY <4>3 DEF SameFile
    <3> QED BY <3>1, <3>2
  <2>3. ASSUME d.copied # 0
        PROVE  /\ Len(d.file) >= sc.srcSz * Len(img)
               /\ k.state = "open" => Len(d.file) = sc.srcSz * Len(img)
               /\ \A p \in Used(img) : \A u \in Units(p, sc.srcSz) :
                    d.file[u][1] = Unit(img, u)[1]
    <3>1. NewOK(src, k, d)
      BY <2>1, <2>3 DEF Good
    <3>2. ImageOK(img) /\ img \in Image
      BY <2>1, <3>1, SrcFacts DEF NewOK, ImageOK
    <3>3. \A p \in Used(img) : Has(d.file, img, p)
      BY <3>1 DEF NewOK
    <3>4. d.file \in Image /\ Len(d.file) \in Nat /\ DOMAIN d.file = 1 .. Len(d.file)
      BY <2>1, DestFields, FileFacts
    <3>5. sc.srcSz * Len(img) \in DOMAIN d.file
      BY <2>1, <3>2, <3>3, SizeFacts DEF Has
    <3>6. Len(d.file) >= sc.srcSz * Len(img)
      <4> DEFINE n == sc.srcSz * Len(img)
      <4> HIDE DEF n
      <4>1. n \in 1 .. Len(d.file)
        BY <3>4, <3>5 DEF n
      <4>2. Len(d.file) >= n
        BY <3>4, <4>1
      <4> QED BY <4>2 DEF n
    <3>7. k.state = "open" => d.at = "idle"
      BY <2>1 DEF Good, CommitOK, TransOpen
    <3>8. k.state = "open" => Len(d.file) = sc.srcSz * Len(img)
      BY <3>1, <3>7 DEF NewOK
    <3>9. ASSUME NEW p \in Used(img), NEW u \in Units(p, sc.srcSz)
          PROVE  d.file[u][1] = Unit(img, u)[1]
      <4>1. d.file[u][1] = img[p][1]
        BY <3>3 DEF Has
      <4>2. Unit(img, u)[1] = img[p][1]
        BY <2>1, <3>2, UnitFacts DEF Used
      <4> QED BY <4>1, <4>2
    <3> QED BY <3>6, <3>8, <3>9
  <2> QED BY <2>2, <2>3 DEF SameFile
<1> QED BY <1>1, BackupInvariant, PTL

=============================================================================
