------------------------- MODULE ConversationRecord -------------------------
(***************************************************************************)
(* What the session store promises whoever appends to a journal and        *)
(* whoever recovers from it, without caches, torn tails or crashes: the    *)
(* log only ever grows, by one legal record at a time; a caller is told    *)
(* "journaled" only of a record the log holds, and of that for good.       *)
(***************************************************************************)
EXTENDS SessionRecords

VARIABLES log, acknowledged

vars == <<log, acknowledged>>

Init ==
    /\ log = <<>>
    /\ acknowledged = {}

\* A record becomes part of the conversation.  Its caller may not know yet,
\* and may never be told.
Commit(r) ==
    /\ Legal(log, r)
    /\ log' = Append(log, r)
    /\ UNCHANGED acknowledged

Acknowledge(r) ==
    /\ r \in RecordsIn(log)
    /\ acknowledged' = acknowledged \cup {r}
    /\ UNCHANGED log

\* The bound names the committed record through the log it ends up in, so
\* that a step can be recognised without enumerating every record there is.
Next ==
    \/ \E r \in {s \in RecordsIn(log') : s \in Record} : Commit(r)
    \/ \E r \in RecordsIn(log) : Acknowledge(r)

Spec == Init /\ [][Next]_vars
=============================================================================
