----------------------------- MODULE LockLevels -----------------------------
(***************************************************************************)
(* The lock levels of os.h: what the second argument of sqlite3OsLock()    *)
(* and sqlite3OsUnlock() may be, ordered from weakest to strongest.        *)
(***************************************************************************)
EXTENDS Naturals

NO_LOCK        == 0
SHARED_LOCK    == 1
RESERVED_LOCK  == 2
PENDING_LOCK   == 3
EXCLUSIVE_LOCK == 4
LockLevel      == NO_LOCK .. EXCLUSIVE_LOCK
=============================================================================
