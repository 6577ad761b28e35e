--------------------------- MODULE SessionRecords ---------------------------
(***************************************************************************)
(* The records a visual session journals, one JSON line each, and the pure *)
(* readings of a journal that the store and the server share.  A record is *)
(* abstracted to the fields some guard or some reader looks at: its        *)
(* session, its identifier, an event's sequence number and type, the event *)
(* a response answers and the response's type.                             *)
(***************************************************************************)
EXTENDS Naturals, Sequences

CONSTANTS
    Sessions,       \* session identifiers a caller may put on a record
    SessionId,      \* the one the marker names
    EventIds,       \* identifiers callers draw for events
    ClosingId,      \* the identifier the runtime draws for the closing record
    ResponseIds,    \* identifiers of responses
    EventTypes,     \* event types, "session.end" among them
    ResponseTypes,  \* response types, "handoff.complete" among them
    Reasons         \* termination reasons, "user-ended" among them

ASSUME RecordAssumption ==
    /\ SessionId \in Sessions
    /\ ClosingId \notin EventIds
    /\ "session.end" \in EventTypes
    /\ "handoff.complete" \in ResponseTypes
    /\ "user-ended" \in Reasons

Event ==
    [kind : {"event"}, session : Sessions, id : EventIds \cup {ClosingId},
     sequence : Nat \ {0}, type : EventTypes, reason : Reasons]

Response ==
    [kind : {"response"}, session : Sessions, id : ResponseIds,
     answers : EventIds \cup {ClosingId}, type : ResponseTypes]

\* A complete line that readJournal cannot parse: what an append onto a torn
\* tail would leave behind.
Malformed == [kind |-> "malformed"]

Record == Event \cup Response

IsEvent(r)    == r.kind = "event"
IsResponse(r) == r.kind = "response"
IsEnd(r)      == IsEvent(r) /\ r.type = "session.end"

EventsIn(log)      == {log[i] : i \in {j \in DOMAIN log : IsEvent(log[j])}}
ResponsesIn(log)   == {log[i] : i \in {j \in DOMAIN log : IsResponse(log[j])}}
RecordsIn(log)     == {log[i] : i \in DOMAIN log}
EventIdsIn(log)    == {e.id : e \in EventsIn(log)}
ResponseIdsIn(log) == {r.id : r \in ResponsesIn(log)}
EndsIn(log)        == {e \in EventsIn(log) : e.type = "session.end"}

\* Math.max over the journaled sequences, 0 for none (readJournal).
SequencesIn(log)  == {e.sequence : e \in EventsIn(log)}
LastSequence(log) ==
    CHOOSE n \in SequencesIn(log) \cup {0} : \A m \in SequencesIn(log) : m <= n

\* The first session.end of the journal (syncState's records.find).
FirstEnd(log) ==
    log[CHOOSE i \in DOMAIN log :
            IsEnd(log[i]) /\ \A j \in DOMAIN log : j < i => ~IsEnd(log[j])]

-----------------------------------------------------------------------------
(* The handoff recoverVisualSession reconstructs from a journal.           *)

HasSummary(log) == \E r \in ResponsesIn(log) : r.type = "handoff.complete"

\* The reason of the last session.end, which recovery takes as the cause.
LastEnd(log) ==
    log[CHOOSE i \in DOMAIN log :
            IsEnd(log[i]) /\ \A j \in DOMAIN log : j > i => ~IsEnd(log[j])]

TerminationReason(log) ==
    IF EndsIn(log) = {} THEN "server-failed"
    ELSE IF LastEnd(log).reason = "user-ended" /\ ~HasSummary(log)
         THEN "child-failed"
         ELSE LastEnd(log).reason

Decision(log) ==
    IF ~HasSummary(log) THEN "failed"
    ELSE IF TerminationReason(log) = "user-ended" THEN "completed"
    ELSE "cancelled"

-----------------------------------------------------------------------------
(* Well-formed journals.                                                   *)

InOrder(log) ==
    \A i, j \in DOMAIN log :
        (i < j /\ IsEvent(log[i]) /\ IsEvent(log[j]))
            => /\ log[i].sequence < log[j].sequence
               /\ ~IsEnd(log[i])

Answering(log) ==
    \A j \in DOMAIN log :
        IF IsEvent(log[j])
        THEN \A i \in DOMAIN log :
                 (IsEvent(log[i]) /\ log[i].id = log[j].id) => i = j
        ELSE /\ \E i \in DOMAIN log :
                    i < j /\ IsEvent(log[i]) /\ log[i].id = log[j].answers
             /\ \A i \in DOMAIN log :
                    (IsResponse(log[i]) /\ log[i].id = log[j].id) => i = j

WellFormed(log) ==
    /\ InOrder(log)
    /\ Answering(log)
    /\ \E n \in SequencesIn(log) \cup {0} : \A m \in SequencesIn(log) : m <= n
    /\ \A e \in EventsIn(log) : e.id = ClosingId => e \in EndsIn(log)

-----------------------------------------------------------------------------
\* What an append must satisfy to be a legal extension of a journal: the
\* checks of appendVisualEvent and appendVisualResponse, on the journal itself.
LegalEvent(log, e) ==
    /\ e.session = SessionId
    /\ e.id \notin EventIdsIn(log)
    /\ EndsIn(log) = {}
    /\ \A d \in EventsIn(log) : d.sequence < e.sequence

LegalResponse(log, r) ==
    /\ r.session = SessionId
    /\ r.answers \in EventIdsIn(log)
    /\ r.id \notin ResponseIdsIn(log)

Legal(log, r) == IF IsEvent(r) THEN LegalEvent(log, r) ELSE LegalResponse(log, r)
=============================================================================
