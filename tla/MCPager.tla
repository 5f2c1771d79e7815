------------------------------- MODULE MCPager -------------------------------
(* Instances of Pager for TLC.                                             *)
EXTENDS Pager

CONSTANTS c1, c2

Modes == {"DELETE", "TRUNCATE", "PERSIST"}

\* One connection, two failures, among them power losses.  Only a journal
\* that is deleted looks at extraSync.
Alone == {[mode |-> m, fullSync |-> TRUE, extraSync |-> e, conns |-> {c},
           spills |-> TRUE, txns |-> 2, calls |-> 0, faults |-> 2,
           power |-> TRUE] :
          m \in Modes, e \in BOOLEAN, c \in Conn}

\* Two connections; a process may die or a call may fail, once.  Between
\* them a truncated journal is like a deleted one: it has no first byte.
Together == {[mode |-> m, fullSync |-> FALSE, extraSync |-> FALSE,
              conns |-> Conn, spills |-> FALSE, txns |-> 2, calls |-> 0,
              faults |-> 1, power |-> FALSE] : m \in {"DELETE", "PERSIST"}}

\* One connection with savepoints inside each other; a failure only in a
\* shorter program.
Nested == {[mode |-> "DELETE", fullSync |-> TRUE, extraSync |-> FALSE,
            conns |-> {c}, spills |-> TRUE, txns |-> 1, calls |-> 4 - f,
            faults |-> f, power |-> f = 1] : f \in {0, 1}, c \in Conn}

MCScenarios == {s \in Alone : s.extraSync => s.mode = "DELETE"} \cup Together
               \cup Nested

Symmetric == Permutations(Conn)
=============================================================================
