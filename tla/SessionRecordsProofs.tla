------------------------ MODULE SessionRecordsProofs ------------------------
(***************************************************************************)
(* What appending one record does to a journal and to its readings: the    *)
(* facts the proofs about the store and about the server share.            *)
(***************************************************************************)
EXTENDS SessionRecords, TLAPS

-----------------------------------------------------------------------------
(* What appending one record does to the readings of a journal.            *)

LEMMA AppendElements ==
    ASSUME NEW S, NEW log \in Seq(S), NEW r \in S
    PROVE  /\ Append(log, r) \in Seq(S)
           /\ DOMAIN Append(log, r) = DOMAIN log \cup {Len(log) + 1}
           /\ Len(log) + 1 \notin DOMAIN log
           /\ DOMAIN log \subseteq Nat
           /\ \A i \in DOMAIN log : Append(log, r)[i] = log[i] /\ i < Len(log) + 1
           /\ Append(log, r)[Len(log) + 1] = r
OBVIOUS

LEMMA AppendReadings ==
    ASSUME NEW log \in Seq(Record), NEW r \in Record
    PROVE  /\ RecordsIn(Append(log, r)) = RecordsIn(log) \cup {r}
           /\ EventsIn(Append(log, r)) =
                 EventsIn(log) \cup (IF IsEvent(r) THEN {r} ELSE {})
           /\ ResponsesIn(Append(log, r)) =
                 ResponsesIn(log) \cup (IF IsResponse(r) THEN {r} ELSE {})
<1> DEFINE l2 == Append(log, r)
<1>1. /\ DOMAIN l2 = DOMAIN log \cup {Len(log) + 1}
      /\ \A i \in DOMAIN log : l2[i] = log[i]
      /\ l2[Len(log) + 1] = r
  BY AppendElements
<1> HIDE DEF l2
<1>2. RecordsIn(l2) = RecordsIn(log) \cup {r}
  BY <1>1 DEF RecordsIn
<1>3. EventsIn(l2) = EventsIn(log) \cup (IF IsEvent(r) THEN {r} ELSE {})
  BY <1>1 DEF EventsIn
<1>4. ResponsesIn(l2) = ResponsesIn(log) \cup (IF IsResponse(r) THEN {r} ELSE {})
  BY <1>1 DEF ResponsesIn
<1> QED
  BY <1>2, <1>3, <1>4 DEF l2

LEMMA ReadingTypes ==
    ASSUME NEW log \in Seq(Record)
    PROVE  /\ RecordsIn(log) \subseteq Record
           /\ EventsIn(log) \subseteq Event
           /\ ResponsesIn(log) \subseteq Response
           /\ EndsIn(log) \subseteq EventsIn(log)
           /\ SequencesIn(log) \subseteq Nat \ {0}
           /\ EventIdsIn(log) \subseteq EventIds \cup {ClosingId}
           /\ ResponseIdsIn(log) \subseteq ResponseIds
<1>1. \A i \in DOMAIN log : log[i] \in Record
  OBVIOUS
<1>2. EventsIn(log) \subseteq Event
  BY <1>1 DEF EventsIn, IsEvent, Record, Event, Response
<1>3. ResponsesIn(log) \subseteq Response
  BY <1>1 DEF ResponsesIn, IsResponse, Record, Event, Response
<1> QED
  BY <1>1, <1>2, <1>3
     DEF RecordsIn, EndsIn, SequencesIn, EventIdsIn, ResponseIdsIn, Event, Response

\* Each derived reading, after an append.
LEMMA AppendSets ==
    ASSUME NEW log \in Seq(Record), NEW r \in Record
    PROVE  /\ IsEvent(r) =>
                /\ EventIdsIn(Append(log, r)) = EventIdsIn(log) \cup {r.id}
                /\ SequencesIn(Append(log, r)) = SequencesIn(log) \cup {r.sequence}
                /\ EndsIn(Append(log, r)) = EndsIn(log) \cup (IF IsEnd(r) THEN {r} ELSE {})
                /\ ResponsesIn(Append(log, r)) = ResponsesIn(log)
                /\ ResponseIdsIn(Append(log, r)) = ResponseIdsIn(log)
           /\ ~IsEvent(r) =>
                /\ r \in Response
                /\ EventsIn(Append(log, r)) = EventsIn(log)
                /\ EventIdsIn(Append(log, r)) = EventIdsIn(log)
                /\ SequencesIn(Append(log, r)) = SequencesIn(log)
                /\ EndsIn(Append(log, r)) = EndsIn(log)
                /\ ResponseIdsIn(Append(log, r)) = ResponseIdsIn(log) \cup {r.id}
<1>1. IsEvent(r) => ~IsResponse(r)
  BY DEF IsEvent, IsResponse
<1>2. ~IsEvent(r) => IsResponse(r) /\ r \in Response
  BY DEF IsEvent, IsResponse, Record, Event, Response
<1>3. ASSUME IsEvent(r)
      PROVE  /\ EventIdsIn(Append(log, r)) = EventIdsIn(log) \cup {r.id}
             /\ SequencesIn(Append(log, r)) = SequencesIn(log) \cup {r.sequence}
             /\ EndsIn(Append(log, r)) = EndsIn(log) \cup (IF IsEnd(r) THEN {r} ELSE {})
             /\ ResponsesIn(Append(log, r)) = ResponsesIn(log)
             /\ ResponseIdsIn(Append(log, r)) = ResponseIdsIn(log)
  <2>1. /\ EventsIn(Append(log, r)) = EventsIn(log) \cup {r}
        /\ ResponsesIn(Append(log, r)) = ResponsesIn(log)
    BY <1>1, <1>3, AppendReadings
  <2> QED
    BY <2>1, <1>3 DEF EventIdsIn, SequencesIn, EndsIn, ResponseIdsIn, IsEnd
<1>4. ASSUME ~IsEvent(r)
      PROVE  /\ EventsIn(Append(log, r)) = EventsIn(log)
             /\ EventIdsIn(Append(log, r)) = EventIdsIn(log)
             /\ SequencesIn(Append(log, r)) = SequencesIn(log)
             /\ EndsIn(Append(log, r)) = EndsIn(log)
             /\ ResponseIdsIn(Append(log, r)) = ResponseIdsIn(log) \cup {r.id}
  <2>1. /\ EventsIn(Append(log, r)) = EventsIn(log)
        /\ ResponsesIn(Append(log, r)) = ResponsesIn(log) \cup {r}
    BY <1>2, <1>4, AppendReadings
  <2> QED
    BY <2>1 DEF EventIdsIn, SequencesIn, EndsIn, ResponseIdsIn
<1> QED
  BY <1>2, <1>3, <1>4

\* A legal extension of a well-formed journal is well-formed.
LEMMA LegalExtension ==
    ASSUME NEW log \in Seq(Record), NEW r \in Record,
           WellFormed(log), Legal(log, r),
           IsEvent(r) /\ r.id = ClosingId => IsEnd(r)
    PROVE  WellFormed(Append(log, r))
<1> DEFINE l2 == Append(log, r)
           n  == Len(log) + 1
<1>1. /\ DOMAIN l2 = DOMAIN log \cup {n}
      /\ n \notin DOMAIN log /\ n \in Nat /\ DOMAIN log \subseteq Nat
      /\ \A i \in DOMAIN log : l2[i] = log[i] /\ i < n
      /\ l2[n] = r
  BY AppendElements
<1>2. \A i \in DOMAIN log : log[i] \in Record
  OBVIOUS
<1>3. \A i \in DOMAIN log : IsEvent(log[i]) => log[i] \in EventsIn(log)
  BY DEF EventsIn
<1>4. \A i \in DOMAIN log : IsResponse(log[i]) => log[i] \in ResponsesIn(log)
  BY DEF ResponsesIn
<1>5. \A i \in DOMAIN l2 : IsEvent(l2[i]) \/ IsResponse(l2[i])
  BY <1>1, <1>2 DEF Record, Event, Response, IsEvent, IsResponse
<1> HIDE DEF l2, n
<1>6. InOrder(l2)
  <2>1. ASSUME NEW i \in DOMAIN log, IsEvent(log[i]), IsEvent(r)
        PROVE  log[i].sequence < r.sequence /\ ~IsEnd(log[i])
    BY <1>3, <2>1 DEF Legal, LegalEvent, EndsIn, IsEnd
  <2>2. ASSUME NEW i \in DOMAIN l2, NEW j \in DOMAIN l2,
               i < j, IsEvent(l2[i]), IsEvent(l2[j])
        PROVE  l2[i].sequence < l2[j].sequence /\ ~IsEnd(l2[i])
    <3>1. i \in DOMAIN log
      BY <1>1, <2>2
    <3>2. CASE j \in DOMAIN log
      BY <1>1, <2>2, <3>1, <3>2 DEF WellFormed, InOrder
    <3>3. CASE j = n
      BY <1>1, <2>1, <2>2, <3>1, <3>3
    <3> QED
      BY <1>1, <3>2, <3>3
  <2> QED
    BY <2>2 DEF InOrder
<1>7. Answering(l2)
  <2> SUFFICES ASSUME NEW j \in DOMAIN l2
               PROVE  IF IsEvent(l2[j])
                      THEN \A i \in DOMAIN l2 :
                               (IsEvent(l2[i]) /\ l2[i].id = l2[j].id) => i = j
                      ELSE /\ \E i \in DOMAIN l2 :
                                  i < j /\ IsEvent(l2[i]) /\ l2[i].id = l2[j].answers
                           /\ \A i \in DOMAIN l2 :
                                  (IsResponse(l2[i]) /\ l2[i].id = l2[j].id) => i = j
    BY DEF Answering
  <2>1. ASSUME NEW i \in DOMAIN log, IsEvent(log[i]), IsEvent(r)
        PROVE  log[i].id # r.id
    BY <1>3, <2>1 DEF Legal, LegalEvent, EventIdsIn
  <2>2. ASSUME NEW i \in DOMAIN log, IsResponse(log[i]), ~IsEvent(r)
        PROVE  log[i].id # r.id
    BY <1>4, <2>2 DEF Legal, LegalResponse, ResponseIdsIn
  <2>3. ~IsEvent(r) => \E i \in DOMAIN log : IsEvent(log[i]) /\ log[i].id = r.answers
    BY DEF Legal, LegalResponse, EventIdsIn, EventsIn
  <2>4. CASE j \in DOMAIN log /\ IsEvent(l2[j])
    BY <1>1, <2>1, <2>4 DEF WellFormed, Answering
  <2>5. CASE j \in DOMAIN log /\ ~IsEvent(l2[j])
    <3>1. /\ \E i \in DOMAIN log :
                i < j /\ IsEvent(log[i]) /\ log[i].id = log[j].answers
          /\ \A i \in DOMAIN log :
                (IsResponse(log[i]) /\ log[i].id = log[j].id) => i = j
      BY <1>1, <2>5 DEF WellFormed, Answering
    <3>2. IsResponse(r) => ~IsEvent(r)
      BY DEF IsEvent, IsResponse
    <3>3. IsResponse(log[j])
      BY <1>1, <1>5, <2>5
    <3> QED
      BY <1>1, <2>2, <2>5, <3>1, <3>2, <3>3
  <2>6. CASE j = n
    BY <1>1, <1>5, <2>1, <2>2, <2>3, <2>6 DEF IsEvent, IsResponse
  <2> QED
    BY <1>1, <2>4, <2>5, <2>6
<1>8. \E m \in SequencesIn(l2) \cup {0} : \A k \in SequencesIn(l2) : k <= m
  <2>1. CASE IsEvent(r)
    <3>1. SequencesIn(l2) = SequencesIn(log) \cup {r.sequence}
      BY <2>1, AppendSets DEF l2
    <3>2. \A k \in SequencesIn(log) : k < r.sequence
      BY <2>1 DEF Legal, LegalEvent, SequencesIn
    <3>3. r.sequence \in Nat /\ SequencesIn(log) \subseteq Nat
      BY <2>1, ReadingTypes DEF IsEvent, Record, Event, Response
    <3>4. r.sequence \in SequencesIn(l2) \cup {0}
      BY <3>1
    <3>5. \A k \in SequencesIn(l2) : k <= r.sequence
      BY <3>1, <3>2, <3>3
    <3> QED
      BY <3>4, <3>5
  <2>2. CASE ~IsEvent(r)
    <3>1. SequencesIn(l2) = SequencesIn(log)
      BY <2>2, AppendSets DEF l2
    <3> QED
      BY <3>1 DEF WellFormed
  <2> QED
    BY <2>1, <2>2
<1>9. \A e \in EventsIn(l2) : e.id = ClosingId => e \in EndsIn(l2)
  BY AppendReadings, AppendSets DEF l2, WellFormed, IsEvent, IsEnd, EndsIn
<1> QED
  BY <1>6, <1>7, <1>8, <1>9 DEF l2, WellFormed

\* The three readings a cache keeps that are not sets.
LEMMA LastSequenceExtension ==
    ASSUME NEW log \in Seq(Record), NEW r \in Record, Legal(log, r)
    PROVE  LastSequence(Append(log, r)) =
               IF IsEvent(r) THEN r.sequence ELSE LastSequence(log)
<1>1. CASE ~IsEvent(r)
  <2>1. SequencesIn(Append(log, r)) = SequencesIn(log)
    BY <1>1, AppendSets
  <2> QED
    BY <1>1, <2>1 DEF LastSequence
<1>2. CASE IsEvent(r)
  <2> DEFINE S == SequencesIn(Append(log, r))
  <2>1. S = SequencesIn(log) \cup {r.sequence}
    BY <1>2, AppendSets
  <2>2. \A k \in SequencesIn(log) : k < r.sequence
    BY <1>2 DEF Legal, LegalEvent, SequencesIn
  <2>3. r.sequence \in Nat \ {0} /\ SequencesIn(log) \subseteq Nat
    BY <1>2, ReadingTypes DEF IsEvent, Record, Event, Response
  <2>4. r.sequence \in S
    BY <2>1
  <2>5. \A k \in S \cup {0} : k \in Nat /\ k <= r.sequence
    BY <2>1, <2>2, <2>3
  <2>7. \A n \in S \cup {0} : (\A m \in S : m <= n) => n = r.sequence
    BY <2>3, <2>4, <2>5
  <2> HIDE DEF S
  <2>6. (CHOOSE n \in S \cup {0} : \A m \in S : m <= n) = r.sequence
    BY <2>4, <2>5, <2>7
  <2> QED
    BY <1>2, <2>6 DEF LastSequence, S
<1> QED
  BY <1>1, <1>2

LEMMA LastSequenceBound ==
    ASSUME NEW log \in Seq(Record), WellFormed(log)
    PROVE  /\ LastSequence(log) \in Nat
           /\ \A e \in EventsIn(log) : e.sequence <= LastSequence(log)
<1>1. /\ LastSequence(log) \in SequencesIn(log) \cup {0}
      /\ \A m \in SequencesIn(log) : m <= LastSequence(log)
  BY DEF WellFormed, LastSequence
<1> QED
  BY <1>1, ReadingTypes DEF SequencesIn

\* A well-formed journal has at most one session.end, and FirstEnd finds it.
LEMMA OneEnd ==
    ASSUME NEW log \in Seq(Record), InOrder(log)
    PROVE  /\ \A c, d \in EndsIn(log) : c = d
           /\ EndsIn(log) # {} => FirstEnd(log) \in EndsIn(log)
           /\ EndsIn(log) # {} => LastEnd(log) \in EndsIn(log)
<1> DEFINE EndAt == {i \in DOMAIN log : IsEnd(log[i])}
<1>1. DOMAIN log \subseteq Nat
  OBVIOUS
<1>2. \A i, j \in EndAt : i = j
  BY <1>1 DEF InOrder, IsEnd
<1>3. EndsIn(log) = {log[i] : i \in EndAt}
  BY DEF EndsIn, EventsIn, IsEnd
<1>4. ASSUME NEW i \in EndAt
      PROVE  /\ \A j \in DOMAIN log : j < i => ~IsEnd(log[j])
             /\ \A j \in DOMAIN log : j > i => ~IsEnd(log[j])
  BY <1>1, <1>2
<1>5. ASSUME EndsIn(log) # {}
      PROVE  FirstEnd(log) \in EndsIn(log) /\ LastEnd(log) \in EndsIn(log)
  <2>1. PICK i \in EndAt : TRUE
    BY <1>3, <1>5
  <2>2. \E k \in DOMAIN log :
            IsEnd(log[k]) /\ \A j \in DOMAIN log : j < k => ~IsEnd(log[j])
    BY <1>4, <2>1
  <2>3. \E k \in DOMAIN log :
            IsEnd(log[k]) /\ \A j \in DOMAIN log : j > k => ~IsEnd(log[j])
    BY <1>4, <2>1
  <2>4. FirstEnd(log) \in {log[k] : k \in EndAt}
    BY <2>2 DEF FirstEnd
  <2>5. LastEnd(log) \in {log[k] : k \in EndAt}
    BY <2>3 DEF LastEnd
  <2> QED
    BY <1>3, <2>4, <2>5
<1> QED
  BY <1>2, <1>3, <1>5

=============================================================================
