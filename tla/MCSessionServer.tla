--------------------------- MODULE MCSessionServer ---------------------------
(* Budgets and symmetry for the runs of SessionServer: how many browsers,    *)
(* frames, commits, responses, polls, stops, workspace edits and failing     *)
(* file operations one behaviour has.  A workspace that does not compile     *)
(* when the session starts counts as an edit.                                *)
EXTENDS SessionServer, TLC

Spending(costs) == costs @@ [k \in Spendings |-> 0]

Conversing == Spending([browsers |-> 1, frames |-> 2, responses |-> 2, polls |-> 2])
Ending     == Spending([browsers |-> 1, frames |-> 2, responses |-> 1, polls |-> 1,
                        stops |-> 2, faults |-> 1])
Joining    == Spending([browsers |-> 1, frames |-> 1, stops |-> 1, faults |-> 1])
Committing == Spending([browsers |-> 2, commits |-> 2, stops |-> 1, edits |-> 2])

\* A conversation with one browser, or browsers that come, go and commit to a
\* workspace that others edit too.
TurnBudgets  == {Conversing, Committing}
EndBudgets   == {Ending}
GhostBudgets == {Joining}

Alike == Permutations(Sockets) \cup Permutations(ResponseIds \ EventIds)
=============================================================================
