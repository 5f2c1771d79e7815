--------------------------- MODULE MCSharedCache ---------------------------
(***************************************************************************)
(* Small instances of SharedCache for TLC.                                 *)
(***************************************************************************)
EXTENDS SharedCache

CONSTANTS c1, c2, c3

Two == {c1, c2}
Three == {c1, c2, c3}
OneReader == {c3}
\* Three connections; two with longer programs.
Budgets == {(c1 :> 2) @@ (c2 :> 1) @@ (c3 :> 1), (c1 :> 3) @@ (c2 :> 2) @@ (c3 :> 0)}
BudgetsTwo == {(c1 :> 2) @@ (c2 :> 2)}
NoReader == {}
Master == {1, 2}
=============================================================================
