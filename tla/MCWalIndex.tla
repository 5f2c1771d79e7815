----------------------------- MODULE MCWalIndex -----------------------------
(* Instances of WalIndex for TLC. *)
EXTENDS WalIndex, TLC

CONSTANTS a, b

\* The last connection may be any: the set of scenarios is symmetric.
Use(w, k, modes) ==
  [writers |-> w, checkpointers |-> k, modes |-> modes, pagesPerTxn |-> 1,
   nReader |-> 2, maxFrame |-> 2, maxTxn |-> 2, maxSalt |-> 2, maxCrash |-> 0]

\* A reader beside a connection that restarts or truncates the log.
Restart == {Use({c}, {c}, {"PASSIVE", "RESTART"}) : c \in Conn}
           \cup {[Use({c}, {c}, {"TRUNCATE"}) EXCEPT !.maxFrame = 1] : c \in Conn}
\* Two connections that both write and checkpoint one growing log, and two
\* that only write, one transaction more.
Writers == {[Use(Conn, Conn, {"FULL"}) EXCEPT !.maxFrame = 3, !.maxSalt = 1],
            [Use(Conn, {}, {}) EXCEPT !.maxFrame = 3, !.maxTxn = 3, !.maxSalt = 1]}
\* A process dies in a checkpoint, or in a commit of one or two pages.
Crash == {[s EXCEPT !.maxSalt = 1, !.maxCrash = 1] :
            s \in {[Use({c}, {c}, {"PASSIVE"}) EXCEPT !.maxTxn = 1] : c \in Conn}
                  \cup {[Use({c}, {}, {}) EXCEPT !.pagesPerTxn = 2, !.maxFrame = 3,
                                                 !.maxTxn = 3] : c \in Conn}}

MCScenarios == Restart \cup Writers \cup Crash

\* The checkpointer is not the connection that restarts the log.
Reset == {[Use({a}, {b}, {"PASSIVE"}) EXCEPT !.maxFrame = 3, !.maxTxn = 3,
             !.maxSalt = 3]}

\* A connection whose header was built by the recovery of an empty log, while
\* another commits, truncates the log twice, dies in the second truncation and
\* recovers again (README, section 6): CacheCoherent is violated.
Stale == {[Use({a}, {a}, {"TRUNCATE"}) EXCEPT !.maxFrame = 1, !.maxTxn = 1, !.maxSalt = 3,
             !.maxCrash = 1]}

Symmetry == Permutations(Conn)
=============================================================================
