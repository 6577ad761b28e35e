--------------------------- MODULE SessionJournal ---------------------------
(***************************************************************************)
(* The append side of session-store.ts: one session's journal.jsonl, the   *)
(* in-process JournalState that caches it, and the per-journal promise     *)
(* chain that runs appendVisualEvent, appendVisualResponse and             *)
(* appendTerminalEvent one at a time, in call order.                       *)
(*                                                                         *)
(* Every file operation may fail.  The append of one line (open, write,    *)
(* fsync, close) may throw with nothing written, with a torn tail, or with *)
(* the whole line on disk; the process may crash at any point and a later  *)
(* one may go on with the same file.  Only the size of the file tells the  *)
(* cache that it is stale.                                                 *)
(***************************************************************************)
EXTENDS SessionRecords

CONSTANTS
    ByteLimit,  \* VISUAL_LIMITS.transcriptBytes
    MaxCalls,   \* bound: append calls made in one behaviour
    MaxQueue,   \* bound: calls waiting in the chain at one time
    MaxFaults,  \* bound: throwing writes and crashes in one behaviour
    MaxSequence \* bound: largest sequence a caller proposes

ASSUME JournalAssumption ==
    /\ ByteLimit \in Nat
    /\ MaxCalls \in Nat /\ MaxQueue \in Nat
    /\ MaxFaults \in Nat /\ MaxSequence \in Nat

VARIABLES
    lines,        \* complete lines of journal.jsonl
    torn,         \* the file ends in a fragment without its newline
    running,      \* a runtime process is alive
    cache,        \* states.get(paths.journal), or NoCache
    queue,        \* calls in the chain, the one being served first
    writing,      \* the record being written for Head(queue), or Nothing
    written,      \* that record's line is on disk and fsynced
    acknowledged, \* records whose caller was told they are journaled
    refusals,     \* freeze reasons handed to callers with a refusal
    closings,     \* records handed to the callers of appendTerminalEvent
    calls, faults

vars == <<lines, torn, running, cache, queue, writing, written,
          acknowledged, refusals, closings, calls, faults>>

-----------------------------------------------------------------------------
(* Calls.                                                                  *)

\* What callers submit: identifiers and sequences within the bounds, and a
\* session.end is the only type whose reason matters.
SubmittedEvents ==
    {e \in [kind : {"event"}, session : Sessions, id : EventIds,
            sequence : 1..MaxSequence, type : EventTypes, reason : Reasons] :
        e.type = "session.end" \/ e.reason = "user-ended"}

Submitted ==
    [op : {"event"}, record : SubmittedEvents]
        \cup [op : {"response"}, record : Response]
        \cup [op : {"terminal"}, reason : Reasons]

-----------------------------------------------------------------------------
(* The file and its cache.                                                 *)

\* Sizes count a line as two bytes and a torn tail as one: a tail is never as
\* long as the line it is torn from.
LineBytes == 2
FileSize  == LineBytes * Len(lines) + (IF torn THEN 1 ELSE 0)

Nothing == [kind |-> "nothing"]
NoCache == [bytes |-> 0, known |-> FALSE]
NoEnd   == [kind |-> "none"]

\* The JournalState syncState rebuilds from a journal's complete lines.
StateOf(log) ==
    [known        |-> TRUE,
     bytes        |-> LineBytes * Len(log),
     lastSequence |-> LastSequence(log),
     eventIds     |-> EventIdsIn(log),
     responseIds  |-> ResponseIdsIn(log),
     terminal     |-> IF EndsIn(log) = {} THEN NoEnd ELSE FirstEnd(log)]

\* Variant: a cache is trusted without comparing its size.
SizeIgnored == cache.known

CacheIsCurrent == cache.known /\ cache.bytes = FileSize

\* The state an append works from, and the cache syncState leaves behind.
Synced == IF CacheIsCurrent THEN cache ELSE StateOf(lines)

\* Variant: the torn tail is left in the file.
TailLeft == torn

\* A torn tail is truncated exactly when the state is rebuilt.
TornAfterSync == IF CacheIsCurrent THEN torn ELSE FALSE

\* readJournal rejects a journal with a complete line that is no record.
Unreadable == ~CacheIsCurrent /\ Malformed \in RecordsIn(lines)

\* Variant: a sequence may repeat the last one.
LateIfBefore(e)      == e.sequence < Synced.lastSequence

(* The checks of an append, on the synchronised state.                     *)
Foreign(r)  == r.session # SessionId
Ended       == Synced.terminal # NoEnd
Late(e)     == e.sequence <= Synced.lastSequence
Unasked(r)  == r.answers \notin Synced.eventIds
Answered(r) == r.id \in Synced.responseIds
Overflows   == Synced.bytes + LineBytes > ByteLimit

\* The line an 'a' write adds: glued to a torn tail it is one bad line.
AppendedLine(r) == IF torn THEN Malformed ELSE r

Init ==
    /\ lines = <<>> /\ torn = FALSE
    /\ running = TRUE
    /\ cache = NoCache
    /\ queue = <<>> /\ writing = Nothing /\ written = FALSE
    /\ acknowledged = {} /\ refusals = {} /\ closings = {}
    /\ calls = 0 /\ faults = 0

-----------------------------------------------------------------------------
\* serialize: the call joins the chain.
Submit(c) ==
    /\ running
    /\ calls < MaxCalls /\ Len(queue) < MaxQueue
    /\ calls' = calls + 1
    /\ queue' = Append(queue, c)
    /\ UNCHANGED <<lines, torn, running, cache, writing, written,
                   acknowledged, refusals, closings, faults>>

\* The call at the head of the chain is one of this kind and can be served.
Serving(op) ==
    /\ running /\ queue # <<>> /\ writing = Nothing
    /\ Head(queue).op = op
    /\ ~Unreadable

Sync ==
    /\ cache' = Synced
    /\ torn' = TornAfterSync
    /\ UNCHANGED <<lines, running, calls, faults>>

\* The call settles without writing; the chain goes on to the next one.
SettleUnwritten ==
    /\ queue' = Tail(queue)
    /\ UNCHANGED <<writing, written>>

\* Variant: the caller is answered before the line is on disk.
AnswerThenWrite(r) ==
    /\ writing' = r
    /\ acknowledged' = acknowledged \cup {r}
    /\ UNCHANGED <<queue, written, refusals, closings>>

StartWriting(r) ==
    /\ writing' = r
    /\ UNCHANGED <<queue, written, acknowledged, refusals, closings>>

\* Synchronising throws: the journal holds a malformed line (YMVS123), or a
\* file operation of syncState fails.
SyncThrows ==
    /\ running /\ queue # <<>> /\ writing = Nothing
    /\ Unreadable \/ faults < MaxFaults
    /\ faults' = IF Unreadable THEN faults ELSE faults + 1
    /\ SettleUnwritten
    /\ UNCHANGED <<lines, torn, running, cache, acknowledged, refusals,
                   closings, calls>>

\* appendVisualEvent up to its write, in the order of its checks.
BeginEvent ==
    /\ Serving("event")
    /\ Sync
    /\ LET e        == Head(queue).record
           rejected == Foreign(e) \/ e.id \in Synced.eventIds
           Refuse(reasons) ==
               /\ SettleUnwritten
               /\ refusals' = refusals \cup reasons
               /\ UNCHANGED <<acknowledged, closings>>
       IN \/ rejected /\ Refuse({})
          \/ ~rejected /\ Ended /\ Refuse({"terminal-event"})
          \/ ~rejected /\ ~Ended /\ Late(e) /\ Refuse({})
          \/ ~rejected /\ ~Ended /\ ~Late(e) /\ Overflows /\ Refuse({"transcript-bytes"})
          \/ ~rejected /\ ~Ended /\ ~Late(e) /\ ~Overflows /\ StartWriting(e)

\* appendVisualResponse up to its write.  A response already journaled is
\* answered as a duplicate and not written again.
BeginResponse ==
    /\ Serving("response")
    /\ Sync
    /\ LET r        == Head(queue).record
           rejected == Foreign(r) \/ Unasked(r)
           Settle(acks, reasons) ==
               /\ SettleUnwritten
               /\ acknowledged' = acknowledged \cup acks
               /\ refusals' = refusals \cup reasons
               /\ UNCHANGED closings
       IN \/ rejected /\ Settle({}, {})
          \/ ~rejected /\ Answered(r)
             /\ Settle({s \in ResponsesIn(lines) : s.id = r.id}, {})
          \/ ~rejected /\ ~Answered(r) /\ Overflows /\ Settle({}, {"transcript-bytes"})
          \/ ~rejected /\ ~Answered(r) /\ ~Overflows /\ StartWriting(r)

\* appendTerminalEvent up to its write: the record the session already has, or
\* a new one, which no byte limit holds back.
BeginTerminal ==
    /\ Serving("terminal")
    /\ Sync
    /\ \/ /\ Ended
          /\ SettleUnwritten
          /\ closings' = closings \cup {Synced.terminal}
          /\ UNCHANGED <<acknowledged, refusals>>
       \/ /\ ~Ended
          /\ StartWriting([kind     |-> "event",
                           session  |-> SessionId,
                           id       |-> ClosingId,
                           sequence |-> Synced.lastSequence + 1,
                           type     |-> "session.end",
                           reason   |-> Head(queue).reason])

-----------------------------------------------------------------------------
\* writeJournalLine succeeds: the line is on disk and fsynced.
WriteLine ==
    /\ running /\ writing # Nothing /\ ~written
    /\ lines' = Append(lines, AppendedLine(writing))
    /\ torn' = FALSE
    /\ written' = TRUE
    /\ UNCHANGED <<running, cache, queue, writing, acknowledged, refusals,
                   closings, calls, faults>>

\* How far a line that was not confirmed got: nowhere, part of it, all of it.
PartialWrite ==
    \/ UNCHANGED <<lines, torn>>
    \/ torn' = TRUE /\ UNCHANGED lines
    \/ lines' = Append(lines, AppendedLine(writing)) /\ torn' = FALSE

\* writeJournalLine throws.  The caller's promise rejects, the state is left as
\* it was, and serialize absorbs the rejection so that the next call runs.
WriteThrows ==
    /\ running /\ writing # Nothing /\ ~written
    /\ faults < MaxFaults
    /\ faults' = faults + 1
    /\ PartialWrite
    /\ queue' = Tail(queue) /\ writing' = Nothing
    /\ UNCHANGED <<running, cache, written, acknowledged, refusals, closings, calls>>

\* Variant: the update forgets the end.
CacheWithoutEnd(r) ==
    IF IsEvent(r)
    THEN [cache EXCEPT !.bytes = @ + LineBytes,
                       !.lastSequence = r.sequence,
                       !.eventIds = @ \cup {r.id}]
    ELSE [cache EXCEPT !.bytes = @ + LineBytes,
                       !.responseIds = @ \cup {r.id}]

\* The in-place update of the cached state after a write.
CacheAfter(r) ==
    IF IsEvent(r)
    THEN [cache EXCEPT !.bytes = @ + LineBytes,
                       !.lastSequence = r.sequence,
                       !.eventIds = @ \cup {r.id},
                       !.terminal = IF IsEnd(r) THEN r ELSE @]
    ELSE [cache EXCEPT !.bytes = @ + LineBytes,
                       !.responseIds = @ \cup {r.id}]

\* The code after the write: the cache moves on and the caller is answered.
FinishAppend ==
    /\ running /\ written
    /\ cache' = CacheAfter(writing)
    /\ IF Head(queue).op = "terminal"
       THEN closings' = closings \cup {writing} /\ UNCHANGED acknowledged
       ELSE acknowledged' = acknowledged \cup {writing} /\ UNCHANGED closings
    /\ queue' = Tail(queue) /\ writing' = Nothing /\ written' = FALSE
    /\ UNCHANGED <<lines, torn, running, refusals, calls, faults>>

-----------------------------------------------------------------------------
\* The runtime dies: the chain and the cache go with it, and a line being
\* written may be on disk in part or in full.
Crash ==
    /\ running /\ faults < MaxFaults
    /\ faults' = faults + 1
    /\ running' = FALSE
    /\ IF writing # Nothing /\ ~written THEN PartialWrite ELSE UNCHANGED <<lines, torn>>
    /\ cache' = NoCache
    /\ queue' = <<>> /\ writing' = Nothing /\ written' = FALSE
    /\ UNCHANGED <<acknowledged, refusals, closings, calls>>

\* Another process appends to the same journal.
Restart ==
    /\ ~running
    /\ running' = TRUE
    /\ UNCHANGED <<lines, torn, cache, queue, writing, written, acknowledged,
                   refusals, closings, calls, faults>>

\* Appends of the serving process, which its event loop runs to the end.
Serve ==
    \/ SyncThrows \/ BeginEvent \/ BeginResponse \/ BeginTerminal
    \/ WriteLine \/ WriteThrows \/ FinishAppend

Next ==
    \/ \E c \in Submitted : Submit(c)
    \/ Serve
    \/ Crash
    \/ Restart

Spec == Init /\ [][Next]_vars

-----------------------------------------------------------------------------
(* Properties.                                                             *)

CacheStates ==
    [known : {TRUE}, bytes : Nat, lastSequence : Nat,
     eventIds : SUBSET (EventIds \cup {ClosingId}),
     responseIds : SUBSET ResponseIds, terminal : Event \cup {NoEnd}]

\* Every line of the journal is a record of this session: a torn tail never
\* becomes part of a line that recovery would reject the journal for.
TypeOK ==
    /\ lines \in Seq(Record) /\ torn \in BOOLEAN /\ running \in BOOLEAN
    /\ cache \in CacheStates \cup {NoCache}
    /\ queue \in Seq(Submitted)
    /\ writing \in Record \cup {Nothing} /\ written \in BOOLEAN
    /\ acknowledged \subseteq Record
    /\ refusals \subseteq {"terminal-event", "transcript-bytes"}
    /\ closings \subseteq Event
    /\ calls \in Nat /\ faults \in Nat

\* A cache whose size matches the file describes the file: its sequence, its
\* identifiers and its end are those a fresh read of the journal would find,
\* whatever throws, torn tails and restarts came before.
CacheCoherent == CacheIsCurrent => cache = StateOf(lines)

\* Event sequences strictly increase along the journal, and no event comes
\* after the session.end, however calls overlap and whichever of them failed.
EventsInOrder == InOrder(lines)

\* An identifier is journaled once, and a response only after the event it
\* answers: a retry after a failed append never doubles a record.
AnswersFollowQuestions == Answering(lines)

\* Every caller of appendTerminalEvent is handed the same record, and it is
\* the one session.end of the journal: the causes of an end converge.
OneClosingRecord == closings \subseteq EndsIn(lines) /\ \A c, d \in EndsIn(lines) : c = d

\* The journal is one conversation, whoever appends to it and whatever fails.
ConversationHolds == EventsInOrder /\ AnswersFollowQuestions /\ OneClosingRecord

\* Once a journal holds an end and a summary, every later recovery reports the
\* same decision for the same reason.
HandoffSettles ==
    [][EndsIn(lines) # {} /\ HasSummary(lines)
         => /\ Decision(lines') = Decision(lines)
            /\ TerminationReason(lines') = TerminationReason(lines)]_lines

\* The inductive invariant behind the theorems of SessionJournalProofs: while a
\* record is being written the cache is the journal's and the record is a legal
\* extension of it, and once it is written the update brings the cache level.
BeingWritten ==
    /\ writing # Nothing =>
         /\ running /\ queue # <<>>
         /\ Head(queue).op = "terminal" => IsEnd(writing)
         /\ IsEvent(writing) /\ writing.id = ClosingId => IsEnd(writing)
         /\ ~torn /\ cache.known
    /\ writing # Nothing /\ ~written =>
         cache = StateOf(lines) /\ Legal(lines, writing)
    /\ written =>
         /\ writing # Nothing /\ writing \in RecordsIn(lines)
         /\ cache.bytes < FileSize
         /\ CacheAfter(writing) = StateOf(lines)

IndInv ==
    /\ TypeOK
    /\ WellFormed(lines)
    /\ BeingWritten
    /\ CacheCoherent
    /\ acknowledged \subseteq RecordsIn(lines)
    /\ closings \subseteq EndsIn(lines)

\* The store keeps what ConversationRecord promises: the journal grows by
\* legal records only, and what a caller was told is journaled stays journaled.
Promise == INSTANCE ConversationRecord WITH log <- lines

KeepsPromise == Promise!Spec
=============================================================================
