------------------------------ MODULE MCWalLog ------------------------------
(* Instances of WalLog for TLC: the ways the connection is used. *)
EXTENDS WalLog

Use(fullSync, sizeLimit, savepoints, maxCrash, maxWrite) ==
  [fullSync |-> fullSync, sizeLimit |-> sizeLimit, savepoints |-> savepoints,
   maxCrash |-> maxCrash, maxWrite |-> maxWrite]

\* Savepoints, for a process that goes on.
SavepointScenario == {Use(TRUE, FALSE, TRUE, 0, 3)}

\* synchronous=FULL, and NORMAL with a size limit, with one failure; two
\* failures in a row after shorter programs.
MCScenarios == {Use(TRUE, FALSE, FALSE, 1, 3), Use(FALSE, TRUE, FALSE, 1, 3),
                Use(FALSE, TRUE, FALSE, 2, 2)} \cup SavepointScenario

\* synchronous=FULL and two power losses.
TornHeaderScenario == {Use(TRUE, FALSE, FALSE, 2, 5)}

\* Steers that run: the first failure comes after two commits and leaves a
\* restarted log with a torn header, the second strikes while frames are
\* written.
TornHeader ==
  nCrash' > nCrash =>
    IF nCrash = 0 THEN ~wal'[0].ok /\ wal'[0].nCkpt > 0 /\ acked > 2
    ELSE pc = "frames"
=============================================================================
