------------------------------ MODULE MCBackup ------------------------------
(* Instances of Backup for TLC. *)
EXTENDS Backup

CONSTANTS b1, b2

Base == [mode |-> "DELETE", srcSz |-> 1, destSz |-> 1, nSrc |-> 2, nDest |-> 1,
         maxPage |-> 4, txns |-> 2, steps |-> {1}, header |-> 2, backups |-> {b1},
         ext |-> TRUE, own |-> TRUE, faults |-> TRUE]

\* Each way the source is kept, with equal page sizes.
Kept == {Base, [Base EXCEPT !.mode = "WAL", !.nSrc = 4, !.header = 4, !.txns = 1],
         [Base EXCEPT !.mode = "MEMORY", !.txns = 1, !.steps = {1, 9}]}

\* Page sizes that differ, around the pending byte.
Sizes == {[Base EXCEPT !.destSz = 2, !.nSrc = n, !.header = n, !.nDest = 3,
                       !.maxPage = 5, !.txns = 1, !.steps = {2}] : n \in {2, 4}}
         \cup {[Base EXCEPT !.srcSz = 2, !.nSrc = 3, !.header = 3, !.nDest = 5,
                            !.maxPage = 3, !.txns = 1, !.steps = {0, 9}]}

\* Two backups of one source.
Two == {[Base EXCEPT !.backups = {b1, b2}, !.maxPage = 2, !.txns = 1,
                      !.ext = FALSE, !.faults = FALSE]}

\* The source is written by an old version, which leaves the header alone.
OldWriter == {[Base EXCEPT !.header = 1, !.own = FALSE, !.faults = FALSE]}

MCScenarios == Kept \cup Sizes \cup Two \cup OldWriter

\* The same source, written now by the connection that is backed up.
Legacy == {[Base EXCEPT !.header = 1, !.ext = FALSE, !.faults = FALSE]}
=============================================================================
