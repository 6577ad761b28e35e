------------------------ MODULE SessionJournalProofs ------------------------
(***************************************************************************)
(* Proofs about SessionJournal for every set of identifiers, every byte    *)
(* limit and every bound.                                                  *)
(***************************************************************************)
EXTENDS SessionJournal, SessionRecordsProofs

-----------------------------------------------------------------------------
(* The cache.                                                              *)

LEMMA StateOfType ==
    ASSUME NEW log \in Seq(Record), WellFormed(log)
    PROVE  StateOf(log) \in CacheStates
<1>1. LastSequence(log) \in Nat
  BY LastSequenceBound
<1>2. EndsIn(log) # {} => FirstEnd(log) \in Event
  BY OneEnd, ReadingTypes DEF WellFormed
<1>3. EventIdsIn(log) \subseteq EventIds \cup {ClosingId} /\ ResponseIdsIn(log) \subseteq ResponseIds
  BY ReadingTypes
<1>4. LineBytes * Len(log) \in Nat
  BY DEF LineBytes
<1> QED
  BY <1>1, <1>2, <1>3, <1>4 DEF StateOf, CacheStates

\* The in-place update computes what a rebuild would.
LEMMA CacheCatchesUp ==
    ASSUME NEW r \in Record, lines \in Seq(Record),
           WellFormed(lines), Legal(lines, r),
           IsEvent(r) /\ r.id = ClosingId => IsEnd(r),
           cache = StateOf(lines)
    PROVE  CacheAfter(r) = StateOf(Append(lines, r))
<1> DEFINE l2 == Append(lines, r)
<1>1. l2 \in Seq(Record) /\ Len(l2) = Len(lines) + 1
  OBVIOUS
<1>2. WellFormed(l2)
  BY LegalExtension
<1>3. LineBytes * Len(l2) = LineBytes * Len(lines) + LineBytes
  BY <1>1 DEF LineBytes
<1>4. LastSequence(l2) = IF IsEvent(r) THEN r.sequence ELSE LastSequence(lines)
  BY LastSequenceExtension
<1>5. CASE IsEvent(r)
  <2>1. EndsIn(lines) = {}
    BY <1>5 DEF Legal, LegalEvent
  <2>2. /\ EventIdsIn(l2) = EventIdsIn(lines) \cup {r.id}
        /\ ResponseIdsIn(l2) = ResponseIdsIn(lines)
        /\ EndsIn(l2) = IF IsEnd(r) THEN {r} ELSE {}
    BY <1>5, <2>1, AppendSets
  <2>3. (IF EndsIn(l2) = {} THEN NoEnd ELSE FirstEnd(l2)) = IF IsEnd(r) THEN r ELSE NoEnd
    BY <1>1, <1>2, <2>2, OneEnd DEF WellFormed
  <2> HIDE DEF l2
  <2> QED
    BY <1>3, <1>4, <1>5, <2>1, <2>2, <2>3 DEF CacheAfter, StateOf, l2
<1>6. CASE ~IsEvent(r)
  <2>1. /\ EventIdsIn(l2) = EventIdsIn(lines)
        /\ ResponseIdsIn(l2) = ResponseIdsIn(lines) \cup {r.id}
        /\ EndsIn(l2) = EndsIn(lines)
    BY <1>6, AppendSets
  <2>2. EndsIn(lines) # {} => FirstEnd(l2) = FirstEnd(lines)
    BY <1>1, <1>2, <2>1, OneEnd DEF WellFormed
  <2> HIDE DEF l2
  <2> QED
    BY <1>3, <1>4, <1>6, <2>1, <2>2 DEF CacheAfter, StateOf, l2
<1> QED
  BY <1>5, <1>6

\* Under the invariant, synchronising always yields the journal's own state.
LEMMA SyncIsExact ==
    ASSUME IndInv
    PROVE  /\ Synced = StateOf(lines)
           /\ TornAfterSync = FALSE
           /\ ~Unreadable
<1>1. lines \in Seq(Record) /\ torn \in BOOLEAN
  BY DEF IndInv, TypeOK
<1>2. CacheIsCurrent => cache = StateOf(lines)
  BY DEF IndInv, CacheCoherent
<1>3. CacheIsCurrent => torn = FALSE
  <2> SUFFICES ASSUME CacheIsCurrent, torn = TRUE PROVE FALSE
    BY <1>1
  <2>1. cache.bytes = LineBytes * Len(lines)
    BY <1>2 DEF StateOf
  <2>2. FileSize = LineBytes * Len(lines) + 1
    BY DEF FileSize
  <2>3. LineBytes * Len(lines) \in Nat
    BY <1>1 DEF LineBytes
  <2>4. cache.bytes = FileSize
    BY DEF CacheIsCurrent
  <2> QED
    BY <2>1, <2>2, <2>3, <2>4
<1>4. Malformed \notin RecordsIn(lines)
  BY <1>1, ReadingTypes DEF Malformed, Record, Event, Response
<1> QED
  BY <1>2, <1>3, <1>4 DEF Synced, TornAfterSync, Unreadable

-----------------------------------------------------------------------------
(* Preservation, one action at a time.                                     *)

LEMMA InitEstablishes == Init => IndInv
<1> SUFFICES ASSUME Init PROVE IndInv
  OBVIOUS
<1>1. lines = <<>> /\ DOMAIN lines = {}
  BY DEF Init
<1>2. WellFormed(lines)
  <2>1. EventsIn(lines) = {} /\ SequencesIn(lines) = {}
    BY <1>1 DEF SequencesIn, EventsIn
  <2>2. \E n \in SequencesIn(lines) \cup {0} : \A m \in SequencesIn(lines) : m <= n
    BY <2>1
  <2> QED
    BY <1>1, <2>1, <2>2 DEF WellFormed, InOrder, Answering
<1>3. TypeOK
  <2>1. lines \in Seq(Record) /\ queue \in Seq(Submitted)
    BY DEF Init
  <2>2. torn \in BOOLEAN /\ running \in BOOLEAN /\ written \in BOOLEAN
    BY DEF Init
  <2> QED
    BY <2>1, <2>2 DEF Init, TypeOK
<1>4. BeingWritten
  BY DEF Init, BeingWritten
<1>5. CacheCoherent
  BY DEF Init, CacheCoherent, CacheIsCurrent, NoCache
<1> QED
  BY <1>2, <1>3, <1>4, <1>5 DEF Init, IndInv

LEMMA SubmitPreserves ==
    ASSUME IndInv, NEW c \in Submitted, Submit(c)
    PROVE  IndInv'
<1>1. /\ queue' \in Seq(Submitted)
      /\ queue # <<>> => queue' # <<>> /\ Head(queue') = Head(queue)
  BY DEF IndInv, TypeOK, Submit
<1>2. TypeOK'
  BY <1>1 DEF IndInv, TypeOK, Submit
<1>3. BeingWritten'
  BY <1>1 DEF IndInv, BeingWritten, Submit, CacheAfter, FileSize
<1> QED
  BY <1>2, <1>3 DEF IndInv, Submit, CacheCoherent, CacheIsCurrent, FileSize

LEMMA SyncThrowsPreserves ==
    ASSUME IndInv, SyncThrows
    PROVE  IndInv'
<1>1. queue' \in Seq(Submitted)
  BY DEF IndInv, TypeOK, SyncThrows, SettleUnwritten
<1>2. TypeOK'
  BY <1>1 DEF IndInv, TypeOK, SyncThrows, SettleUnwritten
<1>3. BeingWritten'
  BY DEF IndInv, BeingWritten, SyncThrows, SettleUnwritten
<1> QED
  BY <1>2, <1>3
     DEF IndInv, SyncThrows, SettleUnwritten, CacheCoherent, CacheIsCurrent, FileSize

\* What every Begin step leaves behind, before its own outcome: the journal is
\* the same, without a torn tail, and the cache is exact.
LEMMA SyncPreserves ==
    ASSUME IndInv, Sync
    PROVE  /\ lines' = lines /\ torn' = FALSE /\ cache' = StateOf(lines')
           /\ cache' \in CacheStates /\ cache'.known
           /\ WellFormed(lines)' /\ CacheCoherent'
<1>1. lines' = lines /\ torn' = FALSE /\ cache' = StateOf(lines)
  BY SyncIsExact DEF Sync
<1>2. WellFormed(lines) /\ lines \in Seq(Record)
  BY DEF IndInv, TypeOK
<1> QED
  BY <1>1, <1>2, StateOfType DEF CacheCoherent, StateOf

\* A call that settles without writing.
LEMMA UnwrittenPreserves ==
    ASSUME IndInv, Sync, writing = Nothing, queue # <<>>,
           SettleUnwritten,
           acknowledged' \subseteq RecordsIn(lines),
           closings' \subseteq EndsIn(lines),
           refusals' \subseteq {"terminal-event", "transcript-bytes"}
    PROVE  IndInv'
<1>1. lines' = lines /\ torn' = FALSE /\ cache' \in CacheStates
  BY SyncPreserves
<1>2. queue' \in Seq(Submitted) /\ writing' = Nothing /\ written' = written
  BY DEF IndInv, TypeOK, SettleUnwritten
<1>3. TypeOK'
  BY <1>1, <1>2, ReadingTypes DEF IndInv, TypeOK, Sync
<1>4. BeingWritten'
  BY <1>2 DEF IndInv, BeingWritten
<1> QED
  BY <1>1, <1>3, <1>4, SyncPreserves DEF IndInv

\* A call that goes on to write a record.
LEMMA StartPreserves ==
    ASSUME IndInv, Sync, running, writing = Nothing, queue # <<>>,
           NEW r \in Record, StartWriting(r), Legal(lines, r),
           Head(queue).op = "terminal" => IsEnd(r),
           IsEvent(r) /\ r.id = ClosingId => IsEnd(r)
    PROVE  IndInv'
<1>1. /\ lines' = lines /\ torn' = FALSE
      /\ cache' \in CacheStates /\ cache'.known /\ cache' = StateOf(lines')
  BY SyncPreserves
<1>2. writing' = r /\ written' = FALSE /\ queue' = queue /\ running' = running
  BY DEF IndInv, TypeOK, BeingWritten, StartWriting, Sync
<1>3. TypeOK'
  BY <1>1, <1>2 DEF IndInv, TypeOK, Sync, StartWriting
<1>4. BeingWritten'
  BY <1>1, <1>2 DEF BeingWritten
<1> QED
  BY <1>1, <1>3, <1>4, SyncPreserves DEF IndInv, StartWriting

LEMMA BeginEventPreserves ==
    ASSUME IndInv, BeginEvent
    PROVE  IndInv'
<1> DEFINE e == Head(queue).record
<1>1. /\ running /\ queue # <<>> /\ writing = Nothing /\ Head(queue).op = "event"
      /\ Sync /\ Synced = StateOf(lines)
  BY SyncIsExact DEF BeginEvent, Serving
<1>2. e \in Record /\ IsEvent(e) /\ e.id \in EventIds
  <2>1. Head(queue) \in Submitted
    BY <1>1 DEF IndInv, TypeOK
  <2>2. e \in SubmittedEvents
    BY <1>1, <2>1 DEF Submitted
  <2>3. \A n \in 1..MaxSequence : n \in Nat \ {0}
    BY JournalAssumption
  <2> QED
    BY <2>2, <2>3 DEF SubmittedEvents, Record, Event, IsEvent
<1>3. CASE SettleUnwritten
  <2>1. /\ acknowledged' \subseteq RecordsIn(lines) /\ closings' \subseteq EndsIn(lines)
        /\ refusals' \subseteq {"terminal-event", "transcript-bytes"}
    BY <1>1, <1>3 DEF BeginEvent, SettleUnwritten, StartWriting, IndInv, TypeOK
  <2> QED
    BY <1>1, <1>3, <2>1, UnwrittenPreserves
<1>4. CASE /\ ~(Foreign(e) \/ e.id \in Synced.eventIds)
           /\ ~Ended /\ ~Late(e) /\ StartWriting(e)
  <2>1. EndsIn(lines) = {}
    <3>1. EndsIn(lines) # {} => FirstEnd(lines) \in Event
      BY OneEnd, ReadingTypes DEF IndInv, TypeOK, WellFormed
    <3> QED
      BY <1>1, <1>4, <3>1 DEF Ended, StateOf, NoEnd, Event
  <2>2. \A d \in EventsIn(lines) : d.sequence < e.sequence
    <3>1. LastSequence(lines) < e.sequence
      BY <1>1, <1>2, <1>4, LastSequenceBound
         DEF Late, StateOf, IndInv, TypeOK, Record, Event, Response, IsEvent
    <3>2. /\ LastSequence(lines) \in Nat
          /\ \A d \in EventsIn(lines) : d.sequence <= LastSequence(lines)
      BY LastSequenceBound DEF IndInv, TypeOK
    <3>3. \A d \in EventsIn(lines) : d.sequence \in Nat
      BY ReadingTypes DEF IndInv, TypeOK, Event
    <3>4. e.sequence \in Nat
      BY <1>2 DEF Record, Event, Response, IsEvent
    <3> QED
      BY <3>1, <3>2, <3>3, <3>4
  <2>3. Legal(lines, e)
    BY <1>1, <1>2, <1>4, <2>1, <2>2 DEF Legal, LegalEvent, Foreign, StateOf
  <2>4. e.id # ClosingId
    BY <1>2, RecordAssumption
  <2> HIDE DEF e
  <2> QED
    BY <1>1, <1>2, <1>4, <2>3, <2>4, StartPreserves
<1> QED
  BY <1>3, <1>4 DEF BeginEvent

LEMMA BeginResponsePreserves ==
    ASSUME IndInv, BeginResponse
    PROVE  IndInv'
<1> DEFINE r == Head(queue).record
<1>1. /\ running /\ queue # <<>> /\ writing = Nothing /\ Head(queue).op = "response"
      /\ Sync /\ Synced = StateOf(lines)
  BY SyncIsExact DEF BeginResponse, Serving
<1>2. r \in Record /\ ~IsEvent(r)
  <2>1. Head(queue) \in Submitted
    BY <1>1 DEF IndInv, TypeOK
  <2> QED
    BY <1>1, <2>1 DEF Submitted, Record, Response, IsEvent
<1>3. CASE SettleUnwritten
  <2>1. ResponsesIn(lines) \subseteq RecordsIn(lines)
    BY DEF ResponsesIn, RecordsIn
  <2>2. /\ acknowledged' \subseteq RecordsIn(lines) /\ closings' \subseteq EndsIn(lines)
        /\ refusals' \subseteq {"terminal-event", "transcript-bytes"}
    BY <1>1, <1>3, <2>1 DEF BeginResponse, StartWriting, IndInv, TypeOK
  <2> QED
    BY <1>1, <1>3, <2>2, UnwrittenPreserves
<1>4. CASE /\ ~(Foreign(r) \/ Unasked(r))
           /\ ~Answered(r) /\ StartWriting(r)
  <2>1. Legal(lines, r)
    BY <1>1, <1>2, <1>4 DEF Legal, LegalResponse, Foreign, Unasked, Answered, StateOf
  <2> HIDE DEF r
  <2> QED
    BY <1>1, <1>2, <1>4, <2>1, StartPreserves
<1> QED
  BY <1>3, <1>4 DEF BeginResponse

LEMMA BeginTerminalPreserves ==
    ASSUME IndInv, BeginTerminal
    PROVE  IndInv'
<1>1. /\ running /\ queue # <<>> /\ writing = Nothing /\ Head(queue).op = "terminal"
      /\ Sync /\ Synced = StateOf(lines)
  BY SyncIsExact DEF BeginTerminal, Serving
<1>2. lines \in Seq(Record) /\ WellFormed(lines)
  BY DEF IndInv, TypeOK
<1>3. EndsIn(lines) # {} => FirstEnd(lines) \in EndsIn(lines)
  BY <1>2, OneEnd DEF WellFormed
<1>4. CASE Ended /\ SettleUnwritten /\ closings' = closings \cup {Synced.terminal}
           /\ UNCHANGED <<acknowledged, refusals>>
  <2>1. Synced.terminal \in EndsIn(lines)
    BY <1>1, <1>3, <1>4 DEF Ended, StateOf
  <2>2. /\ acknowledged' \subseteq RecordsIn(lines) /\ closings' \subseteq EndsIn(lines)
        /\ refusals' \subseteq {"terminal-event", "transcript-bytes"}
    BY <1>4, <2>1 DEF IndInv, TypeOK
  <2> QED
    BY <1>1, <1>4, <2>2, UnwrittenPreserves
<1>5. ASSUME NEW r, ~Ended, StartWriting(r),
             r = [kind     |-> "event",
                  session  |-> SessionId,
                  id       |-> ClosingId,
                  sequence |-> Synced.lastSequence + 1,
                  type     |-> "session.end",
                  reason   |-> Head(queue).reason]
      PROVE  IndInv'
  <2>1. LastSequence(lines) \in Nat
        /\ \A d \in EventsIn(lines) : d.sequence \in Nat /\ d.sequence <= LastSequence(lines)
    BY <1>2, LastSequenceBound, ReadingTypes DEF Event
  <2>2. Head(queue).reason \in Reasons
    <3>1. Head(queue) \in Submitted
      BY <1>1 DEF IndInv, TypeOK
    <3> QED
      BY <1>1, <3>1 DEF Submitted
  <2>3. r.sequence = LastSequence(lines) + 1
    BY <1>1, <1>5 DEF StateOf
  <2>4. r \in Record /\ IsEnd(r) /\ IsEvent(r)
    BY <1>5, <2>1, <2>2, <2>3, RecordAssumption DEF Record, Event, IsEnd, IsEvent
  <2>5. EndsIn(lines) = {}
    BY <1>1, <1>3, <1>5, <1>2, ReadingTypes DEF Ended, StateOf, NoEnd, Event
  <2>6. ClosingId \notin EventIdsIn(lines)
    BY <1>2, <2>5 DEF WellFormed, EventIdsIn
  <2>7. Legal(lines, r)
    BY <1>5, <2>1, <2>3, <2>4, <2>5, <2>6 DEF Legal, LegalEvent
  <2> QED
    BY <1>1, <1>5, <2>4, <2>7, StartPreserves
<1> QED
  BY <1>4, <1>5 DEF BeginTerminal

\* What the invariant says of a record that is being written.
LEMMA WritingFacts ==
    ASSUME IndInv, writing # Nothing, ~written
    PROVE  /\ writing \in Record /\ Legal(lines, writing)
           /\ IsEvent(writing) /\ writing.id = ClosingId => IsEnd(writing)
           /\ cache = StateOf(lines) /\ ~torn
           /\ AppendedLine(writing) = writing
           /\ Append(lines, writing) \in Seq(Record)
           /\ WellFormed(Append(lines, writing))
           /\ RecordsIn(Append(lines, writing)) = RecordsIn(lines) \cup {writing}
           /\ EndsIn(lines) \subseteq EndsIn(Append(lines, writing))
<1>1. /\ writing \in Record /\ Legal(lines, writing)
      /\ IsEvent(writing) /\ writing.id = ClosingId => IsEnd(writing)
      /\ cache = StateOf(lines) /\ ~torn
  BY DEF IndInv, TypeOK, BeingWritten
<1>2. lines \in Seq(Record) /\ WellFormed(lines)
  BY DEF IndInv, TypeOK
<1>3. EndsIn(lines) \subseteq EndsIn(Append(lines, writing))
  BY <1>1, <1>2, AppendSets
<1> QED
  BY <1>1, <1>2, <1>3, LegalExtension, AppendReadings, AppendElements DEF AppendedLine

\* A write that was not confirmed leaves a journal at least as long.
LEMMA PartialWriteFacts ==
    ASSUME IndInv, writing # Nothing, ~written, PartialWrite
    PROVE  /\ lines' \in Seq(Record) /\ torn' \in BOOLEAN /\ WellFormed(lines)'
           /\ RecordsIn(lines) \subseteq RecordsIn(lines')
           /\ EndsIn(lines) \subseteq EndsIn(lines')
           /\ lines' = lines \/ lines' = Append(lines, writing)
           /\ (lines' = lines /\ torn' = torn) \/ FileSize' # cache.bytes
<1>1. lines \in Seq(Record) /\ WellFormed(lines) /\ torn \in BOOLEAN
  BY DEF IndInv, TypeOK
<1>2. cache.bytes = LineBytes * Len(lines) /\ Len(lines) \in Nat
  BY <1>1, WritingFacts DEF StateOf
<1>3. CASE UNCHANGED <<lines, torn>>
  BY <1>1, <1>3
<1>4. CASE torn' = TRUE /\ UNCHANGED lines
  <2>1. FileSize' = LineBytes * Len(lines) + 1
    BY <1>4 DEF FileSize
  <2>2. FileSize' # cache.bytes
    BY <1>2, <2>1 DEF LineBytes
  <2> QED
    BY <1>1, <1>4, <2>2
<1>5. CASE lines' = Append(lines, writing) /\ torn' = FALSE
  <2>1. Len(lines') = Len(lines) + 1
    BY <1>1, <1>5
  <2>2. FileSize' = LineBytes * (Len(lines) + 1)
    BY <1>1, <1>2, <1>5, <2>1 DEF FileSize, LineBytes
  <2>3. FileSize' # cache.bytes
    BY <1>2, <2>2 DEF LineBytes
  <2> QED
    BY <1>5, <2>3, WritingFacts
<1> QED
  BY <1>3, <1>4, <1>5, WritingFacts DEF PartialWrite

LEMMA WriteLinePreserves ==
    ASSUME IndInv, WriteLine
    PROVE  IndInv'
<1>1. writing # Nothing /\ ~written
  BY DEF WriteLine
<1>2. lines' = Append(lines, writing) /\ torn' = FALSE /\ written' = TRUE
  BY <1>1, WritingFacts DEF WriteLine
<1>3. lines' \in Seq(Record) /\ Len(lines') = Len(lines) + 1 /\ Len(lines) \in Nat
  BY <1>1, <1>2, WritingFacts DEF IndInv, TypeOK
<1>4. /\ FileSize' = LineBytes * (Len(lines) + 1)
      /\ cache.bytes = LineBytes * Len(lines)
      /\ cache.bytes < FileSize'
  BY <1>1, <1>2, <1>3, WritingFacts DEF FileSize, StateOf, LineBytes
<1>5. CacheAfter(writing) = StateOf(Append(lines, writing))
  BY <1>1, WritingFacts, CacheCatchesUp DEF IndInv, TypeOK
<1>6. TypeOK'
  BY <1>2, <1>3 DEF IndInv, TypeOK, WriteLine
<1>7. BeingWritten'
  <2>1. CacheAfter(writing)' = StateOf(lines')
    BY <1>2, <1>5 DEF WriteLine, CacheAfter
  <2>2. writing' = writing /\ cache' = cache /\ queue' = queue /\ running' = running
    BY DEF WriteLine
  <2>3. /\ running /\ queue # <<>> /\ cache.known
        /\ Head(queue).op = "terminal" => IsEnd(writing)
        /\ IsEvent(writing) /\ writing.id = ClosingId => IsEnd(writing)
    BY <1>1 DEF IndInv, BeingWritten
  <2>4. writing \in RecordsIn(lines')
    BY <1>1, <1>2, WritingFacts
  <2> QED
    BY <1>1, <1>2, <1>4, <2>1, <2>2, <2>3, <2>4 DEF BeingWritten
<1>8. CacheCoherent'
  <2>1. cache' = cache /\ cache.bytes \in Nat /\ FileSize' \in Nat
    BY <1>3, <1>4 DEF WriteLine, LineBytes
  <2> QED
    BY <1>4, <2>1 DEF CacheCoherent, CacheIsCurrent
<1> QED
  BY <1>1, <1>2, <1>6, <1>7, <1>8, WritingFacts DEF IndInv, WriteLine

LEMMA WriteThrowsPreserves ==
    ASSUME IndInv, WriteThrows
    PROVE  IndInv'
<1>1. /\ writing # Nothing /\ ~written /\ PartialWrite
      /\ writing' = Nothing /\ written' = FALSE /\ cache' = cache
  BY DEF WriteThrows, IndInv, TypeOK
<1>2. queue' \in Seq(Submitted)
  BY <1>1 DEF WriteThrows, IndInv, TypeOK, BeingWritten
<1>3. TypeOK'
  BY <1>1, <1>2, PartialWriteFacts DEF WriteThrows, IndInv, TypeOK
<1>4. BeingWritten'
  BY <1>1 DEF BeingWritten
<1>5. CacheCoherent'
  <2>1. cache = StateOf(lines)
    BY <1>1, WritingFacts
  <2> QED
    BY <1>1, <2>1, PartialWriteFacts DEF CacheCoherent, CacheIsCurrent
<1> QED
  BY <1>1, <1>3, <1>4, <1>5, PartialWriteFacts DEF IndInv, WriteThrows

LEMMA FinishAppendPreserves ==
    ASSUME IndInv, FinishAppend
    PROVE  IndInv'
<1>1. /\ written /\ writing # Nothing /\ writing \in RecordsIn(lines)
      /\ queue # <<>> /\ (Head(queue).op = "terminal" => IsEnd(writing))
      /\ cache' = StateOf(lines)
  BY DEF FinishAppend, IndInv, BeingWritten
<1>2. /\ lines' = lines /\ torn' = torn /\ writing' = Nothing /\ written' = FALSE
      /\ queue' = Tail(queue)
  BY DEF FinishAppend
<1>3. lines \in Seq(Record) /\ WellFormed(lines) /\ queue' \in Seq(Submitted)
  BY <1>1, <1>2 DEF IndInv, TypeOK
<1>4. closings' \subseteq EndsIn(lines) /\ acknowledged' \subseteq RecordsIn(lines)
  <2>1. IsEnd(writing) => writing \in EndsIn(lines)
    BY <1>1 DEF RecordsIn, EndsIn, EventsIn, IsEnd
  <2> QED
    BY <1>1, <2>1 DEF FinishAppend, IndInv
<1>5. TypeOK'
  BY <1>1, <1>2, <1>3, <1>4, ReadingTypes, StateOfType DEF FinishAppend, IndInv, TypeOK
<1>6. BeingWritten'
  BY <1>2 DEF BeingWritten
<1>7. CacheCoherent'
  BY <1>1, <1>2 DEF CacheCoherent
<1> QED
  BY <1>2, <1>3, <1>4, <1>5, <1>6, <1>7 DEF IndInv

LEMMA CrashPreserves ==
    ASSUME IndInv, Crash
    PROVE  IndInv'
<1>1. /\ cache' = NoCache /\ queue' = <<>> /\ writing' = Nothing /\ written' = FALSE
      /\ running' = FALSE
      /\ UNCHANGED <<acknowledged, refusals, closings, calls>>
  BY DEF Crash
<1>2. /\ lines' \in Seq(Record) /\ torn' \in BOOLEAN /\ WellFormed(lines)'
      /\ RecordsIn(lines) \subseteq RecordsIn(lines')
      /\ EndsIn(lines) \subseteq EndsIn(lines')
  <2>1. CASE writing # Nothing /\ ~written
    BY <2>1, PartialWriteFacts DEF Crash
  <2>2. CASE ~(writing # Nothing /\ ~written)
    BY <2>2 DEF Crash, IndInv, TypeOK
  <2> QED
    BY <2>1, <2>2
<1>3. faults' \in Nat
  BY DEF Crash, IndInv, TypeOK
<1>4. queue' \in Seq(Submitted)
  BY <1>1
<1>5. TypeOK'
  BY <1>1, <1>2, <1>3, <1>4 DEF IndInv, TypeOK
<1>6. BeingWritten'
  BY <1>1 DEF BeingWritten
<1>7. CacheCoherent'
  BY <1>1 DEF CacheCoherent, CacheIsCurrent, NoCache
<1> QED
  BY <1>1, <1>2, <1>5, <1>6, <1>7 DEF IndInv

LEMMA UnchangedPreserves ==
    ASSUME IndInv,
           UNCHANGED <<lines, torn, cache, queue, writing, written, acknowledged,
                       refusals, closings, calls, faults>>,
           running' \in BOOLEAN, running => running'
    PROVE  IndInv'
<1>1. TypeOK'
  BY DEF IndInv, TypeOK
<1>2. BeingWritten'
  BY DEF IndInv, BeingWritten, CacheAfter, FileSize
<1>3. CacheCoherent'
  BY DEF IndInv, CacheCoherent, CacheIsCurrent, FileSize
<1> QED
  BY <1>1, <1>2, <1>3 DEF IndInv

\* The invariant is inductive.
LEMMA NextPreserves == IndInv /\ [Next]_vars => IndInv'
<1> SUFFICES ASSUME IndInv, [Next]_vars PROVE IndInv'
  OBVIOUS
<1>1. CASE \E c \in Submitted : Submit(c)
  BY <1>1, SubmitPreserves
<1>2. CASE Serve
  BY <1>2, SyncThrowsPreserves, BeginEventPreserves, BeginResponsePreserves,
     BeginTerminalPreserves, WriteLinePreserves, WriteThrowsPreserves,
     FinishAppendPreserves DEF Serve
<1>3. CASE Crash
  BY <1>3, CrashPreserves
<1>4. CASE Restart
  BY <1>4, UnchangedPreserves DEF Restart
<1>5. CASE UNCHANGED vars
  BY <1>5, UnchangedPreserves DEF vars, IndInv, TypeOK
<1> QED
  BY <1>1, <1>2, <1>3, <1>4, <1>5 DEF Next

-----------------------------------------------------------------------------
(* Theorems.                                                               *)

\* IndInv holds throughout.
THEOREM Invariance == Spec => []IndInv
BY InitEstablishes, NextPreserves, PTL DEF Spec

\* Every reachable state is well typed; in particular every line of the journal
\* is a record, so a torn tail never corrupts one.
THEOREM TypeCorrect == Spec => []TypeOK
<1>1. IndInv => TypeOK
  BY DEF IndInv
<1> QED
  BY <1>1, Invariance, PTL

\* A cache of the file's size is the file's state: the size test of syncState
\* suffices.
THEOREM CacheCorrect == Spec => []CacheCoherent
<1>1. IndInv => CacheCoherent
  BY DEF IndInv
<1> QED
  BY <1>1, Invariance, PTL

\* Sequences increase and nothing follows the end.
THEOREM OrderCorrect == Spec => []EventsInOrder
<1>1. IndInv => EventsInOrder
  BY DEF IndInv, WellFormed, EventsInOrder
<1> QED
  BY <1>1, Invariance, PTL

\* Identifiers are unique and responses follow the events they answer.
THEOREM AnswersCorrect == Spec => []AnswersFollowQuestions
<1>1. IndInv => AnswersFollowQuestions
  BY DEF IndInv, WellFormed, AnswersFollowQuestions
<1> QED
  BY <1>1, Invariance, PTL

\* Every caller that ends the session is handed the one closing record.
THEOREM ClosingCorrect == Spec => []OneClosingRecord
<1>1. IndInv => OneClosingRecord
  BY OneEnd DEF IndInv, TypeOK, WellFormed, OneClosingRecord
<1> QED
  BY <1>1, Invariance, PTL

\* The journal is one conversation: order, answers and the end hold together.
THEOREM ConversationCorrect == Spec => []ConversationHolds
<1>1. EventsInOrder /\ AnswersFollowQuestions /\ OneClosingRecord => ConversationHolds
  BY DEF ConversationHolds
<1> QED
  BY <1>1, OrderCorrect, AnswersCorrect, ClosingCorrect, PTL

-----------------------------------------------------------------------------
\* The journal changes only by the append of the record being written.
LEMMA JournalStep ==
    ASSUME IndInv, [Next]_vars
    PROVE  \/ lines' = lines
           \/ /\ writing \in Record /\ Legal(lines, writing)
              /\ lines' = Append(lines, writing)
              /\ UNCHANGED acknowledged
<1>1. CASE WriteLine
  <2>1. writing # Nothing /\ ~written
    BY <1>1 DEF WriteLine
  <2> QED
    BY <1>1, <2>1, WritingFacts DEF WriteLine
<1>2. CASE WriteThrows
  <2>1. writing # Nothing /\ ~written /\ PartialWrite /\ UNCHANGED acknowledged
    BY <1>2 DEF WriteThrows
  <2> QED
    BY <2>1, WritingFacts, PartialWriteFacts
<1>3. CASE Crash
  <2>1. UNCHANGED acknowledged
    BY <1>3 DEF Crash
  <2>2. CASE writing # Nothing /\ ~written
    BY <1>3, <2>1, <2>2, WritingFacts, PartialWriteFacts DEF Crash
  <2>3. CASE ~(writing # Nothing /\ ~written)
    BY <1>3, <2>3 DEF Crash
  <2> QED
    BY <2>2, <2>3
<1>4. CASE \E c \in Submitted : Submit(c)
  BY <1>4 DEF Submit
<1>5. CASE SyncThrows \/ BeginEvent \/ BeginResponse \/ BeginTerminal
  BY <1>5 DEF SyncThrows, BeginEvent, BeginResponse, BeginTerminal, Sync
<1>6. CASE FinishAppend \/ Restart \/ UNCHANGED vars
  BY <1>6 DEF FinishAppend, Restart, vars
<1> QED
  BY <1>1, <1>2, <1>3, <1>4, <1>5, <1>6 DEF Next, Serve

\* A caller is acknowledged one record at a time, and one the journal holds.
LEMMA AcknowledgementStep ==
    ASSUME IndInv, [Next]_vars, lines' = lines
    PROVE  \/ UNCHANGED acknowledged
           \/ \E r \in RecordsIn(lines) : acknowledged' = acknowledged \cup {r}
<1>1. CASE BeginResponse
  <2> DEFINE r == Head(queue).record
             Twins == {s \in ResponsesIn(lines) : s.id = r.id}
  <2>1. CASE Answered(r) /\ acknowledged' = acknowledged \cup Twins
    <3>1. r.id \in ResponseIdsIn(lines)
      BY <2>1, SyncIsExact DEF Answered, StateOf
    <3>2. PICK s \in ResponsesIn(lines) : s.id = r.id
      BY <3>1 DEF ResponseIdsIn
    <3>3. \A t \in ResponsesIn(lines) : t.id = r.id => t = s
      BY <3>2 DEF IndInv, WellFormed, Answering, ResponsesIn, IsEvent, IsResponse
    <3>4. Twins = {s} /\ s \in RecordsIn(lines)
      BY <3>2, <3>3 DEF ResponsesIn, RecordsIn
    <3> QED
      BY <2>1, <3>4
  <2>2. CASE acknowledged' = acknowledged
    BY <2>2
  <2>3. \/ Answered(r) /\ acknowledged' = acknowledged \cup Twins
        \/ acknowledged' = acknowledged \cup {}
        \/ acknowledged' = acknowledged
    BY <1>1 DEF BeginResponse, StartWriting
  <2> QED
    BY <2>1, <2>2, <2>3
<1>2. CASE FinishAppend
  BY <1>2 DEF FinishAppend, IndInv, BeingWritten
<1>3. CASE Crash \/ Restart \/ UNCHANGED vars \/ \E c \in Submitted : Submit(c)
  BY <1>3 DEF Crash, Restart, vars, Submit
<1>4. CASE SyncThrows \/ BeginEvent \/ BeginTerminal \/ WriteLine \/ WriteThrows
  BY <1>4 DEF SyncThrows, BeginEvent, BeginTerminal, WriteLine, WriteThrows, StartWriting
<1> QED
  BY <1>1, <1>2, <1>3, <1>4 DEF Next, Serve

\* The definitions of SessionRecords mean the same through the instance.
LEMMA SameRecords ==
    /\ Promise!Record = Record
    /\ \A log : Promise!RecordsIn(log) = RecordsIn(log)
    /\ \A log, r : Promise!Legal(log, r) <=> Legal(log, r)
<1>1. Promise!Record = Record
  BY DEF Promise!Record, Promise!Event, Promise!Response, Record, Event, Response
<1>2. ASSUME NEW log PROVE Promise!RecordsIn(log) = RecordsIn(log)
  BY DEF Promise!RecordsIn, RecordsIn
<1>3. ASSUME NEW log, NEW r PROVE Promise!Legal(log, r) <=> Legal(log, r)
  BY DEF Promise!Legal, Promise!LegalEvent, Promise!LegalResponse, Promise!EventIdsIn,
         Promise!ResponseIdsIn, Promise!EventsIn, Promise!ResponsesIn, Promise!EndsIn,
         Promise!IsEvent, Promise!IsResponse,
         Legal, LegalEvent, LegalResponse, EventIdsIn, ResponseIdsIn, EventsIn,
         ResponsesIn, EndsIn, IsEvent, IsResponse
<1> QED
  BY <1>1, <1>2, <1>3

\* The store implements ConversationRecord: caches, torn tails, retries and
\* crashes are invisible to whoever appends to a session or recovers it.
THEOREM Refinement == Spec => KeepsPromise
<1>1. Init => Promise!Init
  BY DEF Init, Promise!Init
<1>2. IndInv /\ [Next]_vars => [Promise!Next]_(Promise!vars)
  <2> SUFFICES ASSUME IndInv, [Next]_vars
               PROVE  [Promise!Next]_(Promise!vars)
    OBVIOUS
  <2>1. CASE lines' = lines
    <3>1. ASSUME NEW r \in RecordsIn(lines), acknowledged' = acknowledged \cup {r}
          PROVE  Promise!Next
      BY <2>1, <3>1, SameRecords DEF Promise!Next, Promise!Acknowledge
    <3> QED
      BY <2>1, <3>1, AcknowledgementStep DEF Promise!vars
  <2>2. CASE /\ writing \in Record /\ Legal(lines, writing)
             /\ lines' = Append(lines, writing)
             /\ UNCHANGED acknowledged
    <3>1. writing \in {s \in RecordsIn(lines') : s \in Record}
      BY <2>2, AppendReadings DEF IndInv, TypeOK
    <3> QED
      BY <2>2, <3>1, SameRecords DEF Promise!Next, Promise!Commit
  <2> QED
    BY <2>1, <2>2, JournalStep
<1> QED
  BY <1>1, <1>2, Invariance, PTL DEF Spec, KeepsPromise, Promise!Spec

\* A recovered decision is final once the journal holds an end and a summary.
THEOREM HandoffFinal == Spec => HandoffSettles
<1> DEFINE Settled == EndsIn(lines) # {} /\ HasSummary(lines)
                       => /\ Decision(lines') = Decision(lines)
                          /\ TerminationReason(lines') = TerminationReason(lines)
<1>1. IndInv /\ [Next]_vars => [Settled]_lines
  <2> SUFFICES ASSUME IndInv, [Next]_vars, lines' # lines,
                      EndsIn(lines) # {}, HasSummary(lines)
               PROVE  /\ Decision(lines') = Decision(lines)
                      /\ TerminationReason(lines') = TerminationReason(lines)
    OBVIOUS
  <2>1. /\ writing \in Record /\ Legal(lines, writing)
        /\ lines' = Append(lines, writing)
        /\ lines \in Seq(Record) /\ InOrder(lines)
    BY JournalStep DEF IndInv, TypeOK, WellFormed
  <2>2. lines' \in Seq(Record) /\ InOrder(lines')
    BY NextPreserves DEF IndInv, TypeOK, WellFormed
  <2>3. ~IsEvent(writing)
    BY <2>1 DEF Legal, LegalEvent
  <2>4. EndsIn(lines') = EndsIn(lines)
    BY <2>1, <2>3, AppendSets
  <2>5. LastEnd(lines') = LastEnd(lines)
    BY <2>1, <2>2, <2>4, OneEnd
  <2>6. HasSummary(lines')
    BY <2>1, AppendReadings DEF HasSummary
  <2> QED
    BY <2>4, <2>5, <2>6 DEF Decision, TerminationReason
<1> QED
  BY <1>1, Invariance, PTL DEF Spec, HandoffSettles
=============================================================================
