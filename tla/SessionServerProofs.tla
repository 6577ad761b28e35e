------------------------ MODULE SessionServerProofs ------------------------
(***************************************************************************)
(* Proofs about SessionServer for every set of sockets and identifiers,    *)
(* every limit and every bound.                                            *)
(***************************************************************************)
EXTENDS SessionServer, SessionRecordsProofs, FiniteSetTheorems, WellFoundedInduction

-----------------------------------------------------------------------------
(* The invariants.                                                         *)

\* A record is on its way to the store only on behalf of the entry that runs,
\* and the closing record's identifier is the transition's alone.
Held ==
    offered # Nothing =>
        /\ chain # <<>>
        /\ IsEvent(offered) => offered.id # ClosingId

JournalInv ==
    /\ JournalTypeOK
    /\ endReason \in Reasons
    /\ WellFormed(log)
    /\ Held

\* How far the transition and the stop have come says what may still happen to
\* the journal, and what has been read from it.
EndInv ==
    /\ terminating # "none" => lifecycle # "running"
    /\ terminating \in {"recording", "recovering", "done"} => offered = Nothing
    /\ terminating = "done" => handoff = Handoff
    /\ handoff # None => terminating = "done"
    /\ stopping \in {"removing", "done"} => terminating = "done"
    /\ outcome # None => terminating = "done" /\ outcome = Handoff

\* Every connection waiting on the chain holds a slot of its own.
Slotted(i) ==
    chain[i].op = "connected" =>
        /\ chain[i].socket \in reserved
        /\ sockets[chain[i].socket] # "new"

SlotInv ==
    /\ sockets \in [Sockets -> {"new", "open", "closing", "closed"}]
    /\ IsFiniteSet(connections \cup reserved)
    /\ Cardinality(connections \cup reserved) <= ConnectionLimit
    /\ \A i \in DOMAIN chain : Slotted(i)
    /\ \A i, j \in DOMAIN chain :
           (/\ chain[i].op = "connected" /\ chain[j].op = "connected"
            /\ chain[i].socket = chain[j].socket) => i = j

-----------------------------------------------------------------------------
(* Chains.                                                                 *)

LEMMA JoinChain ==
    ASSUME chain \in Seq(Entry), NEW entry \in Entry
    PROVE  Append(chain, entry) \in Seq(Entry) /\ Append(chain, entry) # <<>>
<1>1. Append(chain, entry) \in Seq(Entry)
  OBVIOUS
<1>2. Len(Append(chain, entry)) = Len(chain) + 1 /\ Len(chain) \in Nat
  OBVIOUS
<1>3. Len(Append(chain, entry)) # Len(<<>>)
  BY <1>2
<1> QED
  BY <1>1, <1>3

LEMMA LeaveChain ==
    ASSUME chain \in Seq(Entry), chain # <<>>
    PROVE  Head(chain) \in Entry /\ Tail(chain) \in Seq(Entry)
OBVIOUS

LEMMA EntryFields ==
    ASSUME NEW entry \in Entry
    PROVE  /\ entry.op \in {"connected", "disconnected"} => entry.socket \in Sockets
           /\ entry.op = "input" => entry.socket \in Sockets /\ entry.type \in InputTypes
           /\ entry.op = "response" => entry.record \in Response
           /\ entry.op = "report" => entry.landed \in BOOLEAN
BY DEF Entry

LEMMA RecordKinds ==
    /\ Nothing \notin Record
    /\ \A r \in Response : r \in Record /\ ~IsEvent(r)
    /\ \A e \in Event : e \in Record /\ IsEvent(e)
BY DEF Nothing, Record, Event, Response, IsEvent

LEMMA NewEventType ==
    ASSUME JournalTypeOK, NEW type \in EventTypes, drawn + 1 \in EventIds
    PROVE  /\ NewEvent(type) \in Event /\ NewEvent(type).id # ClosingId
           /\ NewEvent(type) \in Record /\ NewEvent(type) # Nothing
<1>1. lastSequence + 1 \in Nat \ {0}
  BY DEF JournalTypeOK
<1>2. NewEvent(type) \in Event
  BY <1>1, RecordAssumption DEF NewEvent, Event
<1>3. NewEvent(type).id = drawn + 1
  BY DEF NewEvent
<1> QED
  BY <1>2, <1>3, RecordAssumption, RecordKinds

LEMMA NewReportType ==
    ASSUME drawn + 1 \in EventIds, NEW answers \in EventIds \cup {ClosingId}
    PROVE  /\ NewReport(answers) \in Response /\ NewReport(answers) \in Record
           /\ NewReport(answers) # Nothing /\ ~IsEvent(NewReport(answers))
<1>1. NewReport(answers) \in Response
  BY RecordAssumption, ServerAssumption DEF NewReport, Response
<1> QED
  BY <1>1, RecordKinds

-----------------------------------------------------------------------------
(* The journal.                                                            *)

\* What every step does to the journal: nothing, or a legal extension.
Extends ==
    \/ log' = log
    \/ \E r \in Record :
           /\ Legal(log, r) /\ (IsEvent(r) /\ r.id = ClosingId => IsEnd(r))
           /\ log' = Append(log, r)

LEMMA ExtensionPreserves ==
    ASSUME JournalInv, Extends,
           lastSequence' \in Nat, drawn' \in {0} \cup EventIds,
           endReason' \in Reasons,
           chain' \in Seq(Entry), offered' \in Record \cup {Nothing}, Held'
    PROVE  JournalInv'
<1>1. log' \in Seq(Record) /\ WellFormed(log')
  <2>1. CASE log' = log
    BY <2>1 DEF JournalInv, JournalTypeOK
  <2>2. CASE \E r \in Record :
                 /\ Legal(log, r) /\ (IsEvent(r) /\ r.id = ClosingId => IsEnd(r))
                 /\ log' = Append(log, r)
    <3>1. PICK r \in Record :
                 /\ Legal(log, r) /\ (IsEvent(r) /\ r.id = ClosingId => IsEnd(r))
                 /\ log' = Append(log, r)
      BY <2>2
    <3>2. log \in Seq(Record) /\ WellFormed(log)
      BY DEF JournalInv, JournalTypeOK
    <3>3. WellFormed(Append(log, r))
      BY <3>1, <3>2, LegalExtension
    <3> QED
      BY <3>1, <3>2, <3>3
  <2> QED
    BY <2>1, <2>2 DEF Extends
<1> QED
  BY <1>1 DEF JournalInv, JournalTypeOK

\* Steps that only let an entry join the chain, or touch no record at all.
LEMMA JoinPreserves ==
    ASSUME JournalInv, UNCHANGED <<log, lastSequence, drawn, offered>>,
           endReason' \in Reasons,
           chain' = chain \/ \E entry \in Entry : chain' = Append(chain, entry)
    PROVE  JournalInv'
<1>1. chain \in Seq(Entry)
  BY DEF JournalInv, JournalTypeOK
<1>2. chain' \in Seq(Entry) /\ (chain # <<>> => chain' # <<>>)
  BY <1>1, JoinChain
<1>3. Held'
  BY <1>2 DEF JournalInv, Held
<1> QED
  BY <1>2, <1>3, ExtensionPreserves DEF JournalInv, JournalTypeOK, Extends

\* Steps by which the running entry leaves the chain.
LEMMA LeavePreserves ==
    ASSUME JournalInv, chain # <<>>, Leave, Extends, UNCHANGED endReason,
           lastSequence' \in Nat, drawn' \in {0} \cup EventIds
    PROVE  JournalInv'
<1>1. chain \in Seq(Entry)
  BY DEF JournalInv, JournalTypeOK
<1>2. chain' \in Seq(Entry) /\ offered' = Nothing
  BY <1>1, LeaveChain DEF Leave
<1>3. Held'
  BY <1>2 DEF Held
<1>4. offered' \in Record \cup {Nothing} /\ endReason' \in Reasons
  BY <1>2 DEF JournalInv
<1> QED
  BY <1>2, <1>3, <1>4, ExtensionPreserves

\* Steps by which the running entry hands the store a record.
LEMMA OfferPreserves ==
    ASSUME JournalInv, chain # <<>>,
           UNCHANGED <<log, lastSequence, chain, endReason>>,
           drawn' \in {0} \cup EventIds, offered' \in Record,
           IsEvent(offered') => offered'.id # ClosingId
    PROVE  JournalInv'
<1>1. Held'
  BY DEF Held
<1> QED
  BY <1>1, ExtensionPreserves DEF JournalInv, JournalTypeOK, Extends

LEMMA BeginInputPreserves ==
    ASSUME JournalInv, BeginInput
    PROVE  JournalInv'
<1> DEFINE input == Head(chain)
           full  == input.type \in Actionable /\ Len(pending) >= PendingLimit
<1>1. chain # <<>> /\ input \in Entry /\ input.op = "input"
  BY LeaveChain DEF JournalInv, JournalTypeOK, BeginInput, Running
<1>2. input.type \in EventTypes
  BY <1>1, EntryFields, ServerAssumption
<1>3. UNCHANGED <<log, lastSequence, endReason>>
  BY DEF BeginInput, endVars
<1>4. lastSequence \in Nat /\ drawn \in {0} \cup EventIds
  BY DEF JournalInv, JournalTypeOK
<1>5. CASE TurnedAway(input) /\ Leave /\ UNCHANGED drawn
  BY <1>1, <1>3, <1>4, <1>5, LeavePreserves DEF Extends
<1>6. CASE Draw /\ Leave
  BY <1>1, <1>3, <1>4, <1>6, LeavePreserves DEF Extends, Draw
<1>7. CASE Draw /\ offered' = NewEvent(input.type) /\ UNCHANGED chain
  <2>1. drawn + 1 \in EventIds /\ drawn' \in EventIds
    BY <1>7 DEF Draw
  <2>2. offered' \in Record /\ offered'.id # ClosingId
    BY <1>2, <1>7, <2>1, NewEventType DEF JournalInv
  <2> QED
    BY <1>1, <1>3, <1>7, <2>1, <2>2, OfferPreserves
<1> QED
  BY <1>5, <1>6, <1>7 DEF BeginInput

LEMMA BeginConnectionPreserves ==
    ASSUME JournalInv, BeginConnection
    PROVE  JournalInv'
<1>1. chain # <<>>
  BY DEF BeginConnection, Running
<1>2. UNCHANGED <<log, lastSequence, endReason>>
  BY DEF BeginConnection, endVars
<1>3. lastSequence \in Nat /\ drawn \in {0} \cup EventIds
  BY DEF JournalInv, JournalTypeOK
<1>4. CASE Leave /\ UNCHANGED drawn
  BY <1>1, <1>2, <1>3, <1>4, LeavePreserves DEF Extends
<1>5. ASSUME NEW type \in {"browser.connected", "browser.disconnected"},
             Draw, offered' = NewEvent(type), UNCHANGED chain
      PROVE  JournalInv'
  <2>1. drawn + 1 \in EventIds /\ drawn' \in EventIds
    BY <1>5 DEF Draw
  <2>2. type \in EventTypes
    BY ServerAssumption
  <2>3. offered' \in Record /\ offered'.id # ClosingId
    BY <1>5, <2>1, <2>2, NewEventType DEF JournalInv
  <2> QED
    BY <1>1, <1>2, <1>5, <2>1, <2>3, OfferPreserves
<1>6. \/ Leave /\ UNCHANGED drawn
      \/ /\ Draw /\ UNCHANGED chain
         /\ \E type \in {"browser.connected", "browser.disconnected"} :
                offered' = NewEvent(type)
  BY DEF BeginConnection
<1> QED
  BY <1>4, <1>5, <1>6

LEMMA BeginResponsePreserves ==
    ASSUME JournalInv, BeginResponse
    PROVE  JournalInv'
<1>1. chain # <<>> /\ Head(chain) \in Entry /\ Head(chain).op = "response"
  BY LeaveChain DEF JournalInv, JournalTypeOK, BeginResponse, Running
<1>2. UNCHANGED <<log, lastSequence, drawn, endReason>>
  BY DEF BeginResponse, endVars
<1>3. lastSequence \in Nat /\ drawn \in {0} \cup EventIds
  BY DEF JournalInv, JournalTypeOK
<1>4. CASE Leave
  BY <1>1, <1>2, <1>3, <1>4, LeavePreserves DEF Extends
<1>5. CASE offered' = Head(chain).record /\ UNCHANGED chain
  <2>1. offered' \in Record /\ ~IsEvent(offered')
    BY <1>1, <1>5, EntryFields, RecordKinds
  <2> QED
    BY <1>1, <1>2, <1>3, <1>5, <2>1, OfferPreserves
<1> QED
  BY <1>4, <1>5 DEF BeginResponse

LEMMA AppendRefusedPreserves ==
    ASSUME JournalInv, AppendRefused
    PROVE  JournalInv'
<1>1. chain # <<>> /\ Leave
  BY DEF JournalInv, Held, AppendRefused, Abandon
<1>2. UNCHANGED <<log, lastSequence, drawn, endReason>>
  BY DEF AppendRefused, endVars
<1>3. lastSequence \in Nat /\ drawn \in {0} \cup EventIds
  BY DEF JournalInv, JournalTypeOK
<1> QED
  BY <1>1, <1>2, <1>3, LeavePreserves DEF Extends

LEMMA OfferedExtends ==
    ASSUME JournalInv, offered # Nothing, Confirmable(offered),
           log' \in {log, Append(log, offered)}
    PROVE  Extends
<1>1. offered \in Record /\ Legal(log, offered)
  BY DEF JournalInv, JournalTypeOK, Confirmable
<1>2. IsEvent(offered) => offered.id # ClosingId
  BY DEF JournalInv, Held
<1> QED
  BY <1>1, <1>2 DEF Extends

LEMMA AppendThrowsPreserves ==
    ASSUME JournalInv, AppendThrows
    PROVE  JournalInv'
<1>1. chain # <<>> /\ Leave
  BY DEF JournalInv, Held, AppendThrows, Abandon
<1>2. UNCHANGED <<lastSequence, drawn, endReason>>
  BY DEF AppendThrows, endVars
<1>3. lastSequence \in Nat /\ drawn \in {0} \cup EventIds
  BY DEF JournalInv, JournalTypeOK
<1>4. Extends
  <2>1. CASE log' = log
    BY <2>1 DEF Extends
  <2>2. CASE log' # log
    BY <2>2, OfferedExtends DEF AppendThrows
  <2> QED
    BY <2>1, <2>2
<1> QED
  BY <1>1, <1>2, <1>3, <1>4, LeavePreserves

\* What an entry finds once its record is journaled.
LEMMA JournaledFacts ==
    ASSUME JournalInv, NEW op, Journaled(op)
    PROVE  /\ chain # <<>> /\ Extends /\ lastSequence' \in Nat
           /\ drawn \in {0} \cup EventIds
           /\ offered \in Record /\ Head(chain) \in Entry /\ Head(chain).op = op
<1>1. chain # <<>> /\ offered # Nothing /\ Head(chain).op = op
  BY DEF Journaled, Awaiting
<1>2. offered \in Record /\ chain \in Seq(Entry) /\ lastSequence \in Nat
      /\ drawn \in {0} \cup EventIds
  BY <1>1 DEF JournalInv, JournalTypeOK
<1>3. Extends
  BY <1>1, OfferedExtends DEF Journaled
<1>4. IsEvent(offered) => offered.sequence \in Nat
  BY <1>2 DEF Record, Event, Response, IsEvent
<1>5. lastSequence' \in Nat
  BY <1>2, <1>4 DEF Journaled
<1> QED
  BY <1>1, <1>2, <1>3, <1>5, LeaveChain

LEMMA JournaledLeaves ==
    ASSUME JournalInv, NEW op, Journaled(op), Leave,
           drawn' \in {0} \cup EventIds, UNCHANGED endReason
    PROVE  JournalInv'
BY JournaledFacts, LeavePreserves

LEMMA FinishPreserves ==
    ASSUME JournalInv,
           \/ FinishInput \/ FinishReport \/ FinishConnected
           \/ FinishDisconnected \/ FinishResponse
    PROVE  JournalInv'
<1>1. PICK op \in {"input", "report", "connected", "disconnected", "response"} :
          Journaled(op) /\ Leave /\ UNCHANGED <<drawn, endReason>>
  BY DEF FinishInput, FinishReport, FinishConnected, FinishDisconnected,
         FinishResponse, endVars
<1>2. drawn \in {0} \cup EventIds
  BY DEF JournalInv, JournalTypeOK
<1> QED
  BY <1>1, <1>2, JournaledLeaves

LEMMA ReportPreserves ==
    ASSUME JournalInv, Journaled("input"), Draw, UNCHANGED endReason,
           NEW answers \in EventIds \cup {ClosingId}, NEW landed \in BOOLEAN,
           Report(answers, landed)
    PROVE  JournalInv'
<1> DEFINE entry == [op |-> "report", landed |-> landed]
<1>1. entry \in Entry
  BY DEF Entry
<1>2. Tail(chain) \in Seq(Entry)
  BY LeaveChain, JournaledFacts DEF JournalInv, JournalTypeOK
<1>3. <<entry>> \o Tail(chain) \in Seq(Entry) /\ <<entry>> \o Tail(chain) # <<>>
  <2> HIDE DEF entry
  <2>1. <<entry>> \o Tail(chain) \in Seq(Entry)
    BY <1>1, <1>2
  <2>2. Len(<<entry>> \o Tail(chain)) = 1 + Len(Tail(chain)) /\ Len(Tail(chain)) \in Nat
    BY <1>1, <1>2
  <2>3. Len(<<entry>> \o Tail(chain)) # Len(<<>>)
    BY <2>2
  <2> QED
    BY <2>1, <2>3
<1>4. drawn + 1 \in EventIds /\ drawn' \in EventIds
  BY DEF Draw
<1>5. offered' \in Record /\ ~IsEvent(offered')
  BY <1>4, NewReportType DEF Report
<1>6. chain' \in Seq(Entry) /\ Held'
  BY <1>3, <1>5 DEF Report, Held
<1>7. Extends /\ lastSequence' \in Nat /\ endReason' \in Reasons
  BY JournaledFacts DEF JournalInv
<1> QED
  BY <1>4, <1>5, <1>6, <1>7, ExtensionPreserves

LEMMA FinishCommitPreserves ==
    ASSUME JournalInv, FinishCommit
    PROVE  JournalInv'
<1>1. Journaled("input") /\ UNCHANGED endReason
  BY DEF FinishCommit, endVars
<1>2. drawn \in {0} \cup EventIds /\ offered \in Record
  BY <1>1, JournaledFacts
<1>3. offered.id \in EventIds \cup {ClosingId}
  BY <1>2, ServerAssumption DEF FinishCommit, Record, Event, Response
<1>4. CASE Leave /\ UNCHANGED drawn
  BY <1>1, <1>2, <1>4, JournaledLeaves
<1>5. CASE Draw /\ Report(drawn + 1, FALSE)
  BY <1>1, <1>5, ReportPreserves DEF Draw
<1>6. CASE Draw /\ Report(offered.id, TRUE)
  BY <1>1, <1>3, <1>6, ReportPreserves
<1> QED
  BY <1>4, <1>5, <1>6 DEF FinishCommit

LEMMA FinishDuplicatePreserves ==
    ASSUME JournalInv, FinishDuplicate
    PROVE  JournalInv'
<1>1. chain # <<>> /\ Leave
  BY DEF JournalInv, Held, FinishDuplicate
<1>2. UNCHANGED <<log, lastSequence, drawn, endReason>>
  BY DEF FinishDuplicate, endVars
<1>3. lastSequence \in Nat /\ drawn \in {0} \cup EventIds
  BY DEF JournalInv, JournalTypeOK
<1> QED
  BY <1>1, <1>2, <1>3, LeavePreserves DEF Extends

LEMMA BrowserJoins ==
    ASSUME Browser
    PROVE  /\ UNCHANGED offered
           /\ chain' = chain \/ \E entry \in Entry : chain' = Append(chain, entry)
<1>1. ASSUME NEW s \in Sockets, Upgrade(s) \/ OversizedFrame(s) \/ Close(s)
      PROVE  chain' = chain \/ \E entry \in Entry : chain' = Append(chain, entry)
  <2>1. /\ [op |-> "connected", socket |-> s] \in Entry
        /\ [op |-> "disconnected", socket |-> s] \in Entry
    BY DEF Entry
  <2> QED
    BY <1>1, <2>1 DEF Upgrade, OversizedFrame, Close, journalVars
<1>2. ASSUME NEW s \in Sockets, NEW t \in InputTypes,
             NEW c \in Choices \cup {NoChoice}, NEW n \in Claims, Frame(s, t, c, n)
      PROVE  \E entry \in Entry : chain' = Append(chain, entry)
  <2>1. [op |-> "input", socket |-> s, type |-> t, choice |-> c, claim |-> n] \in Entry
    BY DEF Entry
  <2> QED
    BY <1>2, <2>1 DEF Frame
<1>3. UNCHANGED offered
  BY DEF Browser, Upgrade, OversizedFrame, Close, Frame, journalVars
<1> QED
  BY <1>1, <1>2, <1>3 DEF Browser

LEMMA BrowserPreserves ==
    ASSUME JournalInv, Browser
    PROVE  JournalInv'
<1>1. UNCHANGED <<log, lastSequence, drawn, offered>> /\ endReason' \in Reasons
  BY DEF Browser, Upgrade, OversizedFrame, Close, Frame, endVars, journalVars,
         JournalInv
<1> QED
  BY <1>1, BrowserJoins, JoinPreserves

\* A stop begins: the transition it starts, or joins, has a known reason.
LEMMA BeginStopPreserves ==
    ASSUME JournalInv, NEW reason \in Reasons, BeginStop(reason)
    PROVE  JournalInv'
<1>1. endReason' \in Reasons
  BY DEF BeginStop, Terminate, JournalInv
<1> QED
  BY <1>1, JoinPreserves DEF BeginStop, journalVars

LEMMA RespondJoins ==
    ASSUME JournalInv, NEW r \in Answers, NEW c \in Choices \cup {NoChoice}, Respond(r, c)
    PROVE  /\ UNCHANGED offered
           /\ \E entry \in Entry : chain' = Append(chain, entry)
<1>1. EventIdsIn(log) \subseteq EventIds \cup {ClosingId}
  BY ReadingTypes DEF JournalInv, JournalTypeOK
<1>2. r \in Response
  BY <1>1, RecordAssumption, ServerAssumption DEF Answers, Response
<1>3. [op |-> "response", record |-> r, choice |-> c] \in Entry
  BY <1>2 DEF Entry
<1> QED
  BY <1>3 DEF Respond

LEMMA RespondPreserves ==
    ASSUME JournalInv, NEW r \in Answers, NEW c \in Choices \cup {NoChoice}, Respond(r, c)
    PROVE  JournalInv'
BY RespondJoins, JoinPreserves DEF Respond, endVars, JournalInv

LEMMA AgentPreserves ==
    ASSUME JournalInv, Agent
    PROVE  JournalInv'
<1>1. CASE \E after \in Afters : Poll(after)
  BY <1>1, JoinPreserves DEF Poll, journalVars, endVars, JournalInv
<1>2. CASE \E i \in DOMAIN polls : PollEnds(i)
  BY <1>2, JoinPreserves DEF PollEnds, journalVars, endVars, JournalInv
<1>3. CASE \E r \in Answers, c \in Choices \cup {NoChoice} : Respond(r, c)
  BY <1>3, RespondPreserves
<1>4. CASE \E reason \in Reasons : Stop(reason)
  BY <1>4, BeginStopPreserves DEF Stop
<1> QED
  BY <1>1, <1>2, <1>3, <1>4 DEF Agent

LEMMA ServePreserves ==
    ASSUME JournalInv, Serve
    PROVE  JournalInv'
BY BeginInputPreserves, BeginConnectionPreserves, BeginResponsePreserves,
   AppendRefusedPreserves, AppendThrowsPreserves, FinishPreserves,
   FinishCommitPreserves, FinishDuplicatePreserves DEF Serve

\* The transition's own record is a legal extension, and the last event.
LEMMA RecordEndExtends ==
    ASSUME JournalInv, RecordEnd
    PROVE  Extends
<1>1. log \in Seq(Record) /\ WellFormed(log) /\ endReason \in Reasons
  BY DEF JournalInv, JournalTypeOK
<1>2. /\ LastSequence(log) \in Nat
      /\ \A e \in EventsIn(log) : e.sequence <= LastSequence(log)
  BY <1>1, LastSequenceBound
<1>3. LastSequence(log) + 1 \in Nat \ {0}
  BY <1>2
<1>4. Closing \in Event
  BY <1>1, <1>3, RecordAssumption DEF Closing, Event
<1>5. /\ Closing.session = SessionId /\ Closing.id = ClosingId
      /\ Closing.sequence = LastSequence(log) + 1 /\ Closing.type = "session.end"
      /\ IsEvent(Closing)
  BY DEF Closing, IsEvent
<1>6. ASSUME EndsIn(log) = {} PROVE Legal(log, Closing)
  <2>1. ClosingId \notin EventIdsIn(log)
    BY <1>1, <1>6 DEF WellFormed, EventIdsIn
  <2>2. \A d \in EventsIn(log) : d.sequence < LastSequence(log) + 1
    <3>1. \A d \in EventsIn(log) : d.sequence \in Nat
      BY <1>1, ReadingTypes DEF Event
    <3> QED
      BY <1>2, <3>1
  <2> HIDE DEF Closing
  <2> QED
    BY <1>5, <1>6, <2>1, <2>2 DEF Legal, LegalEvent
<1>7. CASE log' = log
  BY <1>7 DEF Extends
<1>8. CASE EndsIn(log) = {} /\ log' = Append(log, Closing)
  <2>1. Closing \in Record /\ IsEnd(Closing)
    BY <1>4, <1>5, RecordKinds DEF IsEnd
  <2> QED
    BY <1>6, <1>8, <2>1 DEF Extends
<1> QED
  BY <1>7, <1>8 DEF RecordEnd

\* Continuing the callers of a transition touches no record.
LEMMA TransitionPreserves ==
    ASSUME JournalInv, Transition
    PROVE  JournalInv'
<1>1. CASE Quiesced \/ Recover \/ RecoverThrows
  BY <1>1, JoinPreserves DEF Quiesced, Recover, RecoverThrows, journalVars, JournalInv
<1>2. CASE RecordEnd
  <2>1. UNCHANGED <<lastSequence, drawn, chain, offered, endReason>>
    BY <1>2 DEF RecordEnd
  <2>2. Held'
    BY <2>1 DEF JournalInv, Held
  <2> QED
    BY <1>2, <2>1, <2>2, RecordEndExtends, ExtensionPreserves DEF JournalInv, JournalTypeOK
<1> QED
  BY <1>1, <1>2 DEF Transition

LEMMA TimersPreserve ==
    ASSUME JournalInv, GraceExpires \/ BeginLimitFailure \/ Removal \/ EditWorkspace
    PROVE  JournalInv'
<1>1. CASE GraceExpires
  <2>1. CASE UNCHANGED <<journalVars, endVars>>
    BY <2>1, JoinPreserves DEF journalVars, endVars, JournalInv
  <2>2. CASE BeginStop("browser-timeout")
    BY <2>2, BeginStopPreserves, ServerAssumption
  <2> QED
    BY <1>1, <2>1, <2>2 DEF GraceExpires
<1>2. CASE BeginLimitFailure
  <2>1. endReason' \in Reasons
    BY <1>2, ServerAssumption DEF BeginLimitFailure, Terminate, JournalInv
  <2> QED
    BY <1>2, <2>1, JoinPreserves DEF BeginLimitFailure, journalVars
<1>3. CASE Removal
  BY <1>3, JoinPreserves DEF Removal, Remove, RemoveThrows, journalVars, JournalInv
<1>4. CASE EditWorkspace
  BY <1>4, JoinPreserves DEF EditWorkspace, journalVars, endVars, JournalInv
<1> QED
  BY <1>1, <1>2, <1>3, <1>4

LEMMA JournalInductive == JournalInv /\ [Next]_vars => JournalInv'
<1> SUFFICES ASSUME JournalInv, [Next]_vars PROVE JournalInv'
  OBVIOUS
<1>1. CASE UNCHANGED vars
  BY <1>1, JoinPreserves DEF vars, journalVars, endVars, JournalInv
<1> QED
  BY <1>1, BrowserPreserves, AgentPreserves, ServePreserves, TransitionPreserves,
     TimersPreserve DEF Next

LEMMA JournalInitially == Init => JournalInv
<1> SUFFICES ASSUME Init PROVE JournalInv
  OBVIOUS
<1>1. JournalTypeOK /\ endReason \in Reasons
  BY ServerAssumption DEF Init, JournalTypeOK
<1>2. log = <<>> /\ EventsIn(log) = {} /\ SequencesIn(log) = {}
  BY DEF Init, EventsIn, SequencesIn
<1>3. WellFormed(log)
  BY <1>2 DEF WellFormed, InOrder, Answering
<1> QED
  BY <1>1, <1>3 DEF JournalInv, Held, Init

\* The journal of a session stays well-formed, and what the server holds about
\* it well typed, whatever the browsers, the agent and the file system do.
THEOREM JournalCorrect == Spec => []JournalInv
BY JournalInitially, JournalInductive, PTL DEF Spec

-----------------------------------------------------------------------------
(* The end of a session.                                                   *)

\* Steps that neither move the transition nor the stop.
LEMMA ServingKeepsEnd ==
    ASSUME EndInv, UNCHANGED <<terminating, handoff, stopping, outcome, lifecycle>>,
           offered' \in {offered, Nothing} \/ lifecycle = "running" \/ offered # Nothing,
           log' = log \/ offered # Nothing
    PROVE  EndInv'
<1>1. terminating \in {"recording", "recovering", "done"} =>
          offered' = Nothing /\ log' = log
  BY DEF EndInv
<1>2. log' = log => Handoff' = Handoff
  BY DEF Handoff
<1> QED
  BY <1>1, <1>2 DEF EndInv

LEMMA ServeKeepsEnd ==
    ASSUME EndInv, Serve
    PROVE  EndInv'
<1>1. UNCHANGED <<terminating, handoff, stopping, outcome, lifecycle>>
  BY DEF Serve, BeginInput, BeginConnection, BeginResponse, AppendRefused,
         AppendThrows, FinishInput, FinishCommit, FinishReport, FinishConnected,
         FinishDisconnected, FinishResponse, FinishDuplicate, endVars
<1>2. CASE BeginInput \/ BeginConnection \/ BeginResponse
  <2>1. log' = log
    BY <1>2 DEF BeginInput, BeginConnection, BeginResponse
  <2>2. offered' = Nothing \/ lifecycle = "running"
    BY <1>2 DEF BeginInput, BeginConnection, BeginResponse, Leave, TurnedAway
  <2> QED
    BY <1>1, <2>1, <2>2, ServingKeepsEnd
<1>3. CASE ~(BeginInput \/ BeginConnection \/ BeginResponse)
  <2>1. offered # Nothing
    BY <1>3 DEF Serve, AppendRefused, AppendThrows, FinishInput, FinishCommit,
           FinishReport, FinishConnected, FinishDisconnected, FinishResponse,
           FinishDuplicate, Journaled, Awaiting
  <2> QED
    BY <1>1, <2>1, ServingKeepsEnd
<1> QED
  BY <1>2, <1>3

LEMMA OutsideKeepsEnd ==
    ASSUME EndInv,
           \/ Browser \/ EditWorkspace
           \/ \E after \in Afters : Poll(after)
           \/ \E i \in DOMAIN polls : PollEnds(i)
           \/ \E r \in Answers, c \in Choices \cup {NoChoice} : Respond(r, c)
    PROVE  EndInv'
<1>1. /\ UNCHANGED <<terminating, handoff, stopping, outcome, lifecycle>>
      /\ UNCHANGED <<log, offered>>
  BY DEF Browser, Upgrade, Frame, OversizedFrame, Close, EditWorkspace, Poll,
         PollEnds, Respond, endVars, journalVars
<1> QED
  BY <1>1, ServingKeepsEnd

LEMMA BeginStopKeepsEnd ==
    ASSUME EndInv, NEW reason \in Reasons, BeginStop(reason)
    PROVE  EndInv'
<1>1. log' = log /\ offered' = offered /\ handoff' = handoff /\ outcome' = outcome
  BY DEF BeginStop, journalVars
<1>2. lifecycle' = "draining"
  BY DEF BeginStop
<1>3. \/ terminating # "none" /\ terminating' = terminating
      \/ terminating = "none" /\ terminating' = "quiescing"
  BY DEF BeginStop, Terminate
<1>4. stopping' \in {"removing", "done"} => terminating = "done"
  BY DEF BeginStop
<1>5. Handoff' = Handoff
  BY <1>1 DEF Handoff
<1> QED
  BY <1>1, <1>2, <1>3, <1>4, <1>5 DEF EndInv

LEMMA TimersKeepEnd ==
    ASSUME EndInv, GraceExpires \/ BeginLimitFailure \/ Removal
    PROVE  EndInv'
<1>1. CASE GraceExpires
  <2>1. CASE UNCHANGED <<journalVars, endVars, lifecycle>>
    BY <2>1, ServingKeepsEnd DEF journalVars, endVars
  <2>2. CASE BeginStop("browser-timeout")
    BY <2>2, BeginStopKeepsEnd, ServerAssumption
  <2> QED
    BY <1>1, <2>1, <2>2 DEF GraceExpires
<1>2. CASE BeginLimitFailure
  <2>1. /\ UNCHANGED <<log, offered, handoff, outcome, stopping>>
        /\ lifecycle' # "running"
    BY <1>2 DEF BeginLimitFailure, journalVars
  <2>2. \/ terminating # "none" /\ terminating' = terminating
        \/ terminating = "none" /\ terminating' = "quiescing"
    BY <1>2 DEF BeginLimitFailure, Terminate
  <2>3. Handoff' = Handoff
    BY <2>1 DEF Handoff
  <2> QED
    BY <2>1, <2>2, <2>3 DEF EndInv
<1>3. CASE Removal
  <2>1. UNCHANGED <<log, offered, terminating, handoff>>
    BY <1>3 DEF Removal, Remove, RemoveThrows, journalVars
  <2>2. stopping = "removing" /\ terminating = "done"
    BY <1>3 DEF Removal, Remove, RemoveThrows, EndInv
  <2>3. outcome' = outcome \/ outcome' = Handoff \/ outcome' = handoff
    BY <1>3 DEF Removal, Remove, RemoveThrows
  <2>4. lifecycle' = lifecycle \/ lifecycle' = "stopped"
    BY <1>3 DEF Removal, Remove, RemoveThrows
  <2>5. Handoff' = Handoff
    BY <2>1 DEF Handoff
  <2> QED
    BY <2>1, <2>2, <2>3, <2>4, <2>5 DEF EndInv
<1> QED
  BY <1>1, <1>2, <1>3

LEMMA TransitionKeepsEnd ==
    ASSUME EndInv, JournalInv, Transition
    PROVE  EndInv'
<1>1. UNCHANGED <<offered, lifecycle, outcome>>
  BY DEF Transition, Quiesced, RecordEnd, Recover, RecoverThrows, journalVars
<1>2. terminating # "none" /\ terminating # "done" /\ lifecycle # "running"
  BY DEF Transition, Quiesced, RecordEnd, Recover, RecoverThrows, EndInv
<1>3. handoff = None /\ outcome = None /\ stopping \notin {"removing", "done"}
  BY <1>2 DEF EndInv
<1>4. CASE Quiesced
  <2>1. offered = Nothing
    BY <1>4 DEF Quiesced, Quiet, JournalInv, Held
  <2> QED
    BY <1>1, <1>2, <1>3, <1>4, <2>1 DEF Quiesced, EndInv
<1>5. CASE RecordEnd
  BY <1>1, <1>2, <1>3, <1>5 DEF RecordEnd, EndInv
<1>6. CASE Recover
  <2>1. Handoff' = Handoff
    BY <1>6 DEF Recover, journalVars, Handoff
  <2>2. stopping' \notin {"removing", "done"} \/ terminating' = "done"
    BY <1>6 DEF Recover
  <2> QED
    BY <1>1, <1>2, <1>3, <1>6, <2>1, <2>2 DEF Recover, EndInv
<1>7. CASE RecoverThrows
  <2>1. stopping' \notin {"removing", "done"}
    BY <1>3, <1>7 DEF RecoverThrows, Continue
  <2> QED
    BY <1>1, <1>2, <1>3, <1>7, <2>1 DEF RecoverThrows, EndInv
<1> QED
  BY <1>4, <1>5, <1>6, <1>7 DEF Transition

LEMMA EndInductive == JournalInv /\ EndInv /\ [Next]_vars => EndInv'
<1> SUFFICES ASSUME JournalInv, EndInv, [Next]_vars PROVE EndInv'
  OBVIOUS
<1>1. CASE UNCHANGED vars
  BY <1>1, ServingKeepsEnd DEF vars, journalVars, endVars
<1>2. CASE Agent
  BY <1>2, OutsideKeepsEnd, BeginStopKeepsEnd DEF Agent, Stop
<1> QED
  BY <1>1, <1>2, OutsideKeepsEnd, ServeKeepsEnd, TimersKeepEnd,
     TransitionKeepsEnd DEF Next

LEMMA EndInitially == Init => EndInv
BY DEF Init, EndInv

\* The invariants together.
THEOREM EndCorrect == Spec => [](JournalInv /\ EndInv)
<1>1. Init => JournalInv /\ EndInv
  BY JournalInitially, EndInitially
<1>2. (JournalInv /\ EndInv) /\ [Next]_vars => (JournalInv /\ EndInv)'
  BY JournalInductive, EndInductive
<1> QED
  BY <1>1, <1>2, PTL DEF Spec

\* One closing record, nothing but answers behind it, and every caller of stop
\* is handed the reading of the journal as it stays.
THEOREM EndingIsOne == Spec => []OneEnding
<1>1. JournalInv /\ EndInv => OneEnding
  <2> SUFFICES ASSUME JournalInv, EndInv PROVE OneEnding
    OBVIOUS
  <2>1. log \in Seq(Record) /\ InOrder(log)
    BY DEF JournalInv, JournalTypeOK, WellFormed
  <2>2. \A d, e \in EndsIn(log) : d = e
    BY <2>1, OneEnd
  <2>3. \A h \in {handoff, outcome} \ {None} : h = Handoff
    BY DEF EndInv
  <2> QED
    BY <2>1, <2>2, <2>3 DEF OneEnding
<1> QED
  BY <1>1, EndCorrect, PTL

\* Once the handoff has been recovered, no step writes to the journal.
THEOREM RecoveredJournalIsFinal == Spec => QuietAfterRecovery
<1>1. JournalInv /\ EndInv /\ [Next]_vars => [handoff # None => log' = log]_log
  <2> SUFFICES ASSUME JournalInv, EndInv, [Next]_vars, handoff # None
               PROVE  log' = log
    OBVIOUS
  <2>1. terminating = "done" /\ offered = Nothing
    BY DEF EndInv
  <2>2. CASE Serve
    BY <2>1, <2>2 DEF Serve, BeginInput, BeginConnection, BeginResponse,
           AppendRefused, AppendThrows, FinishInput, FinishCommit, FinishReport,
           FinishConnected, FinishDisconnected, FinishResponse,
           FinishDuplicate, Journaled, Awaiting
  <2>3. CASE Transition
    BY <2>1, <2>3 DEF Transition, Quiesced, RecordEnd, Recover, RecoverThrows
  <2>4. CASE Browser \/ Agent \/ EditWorkspace
    BY <2>4 DEF Browser, Agent, Upgrade, Frame, OversizedFrame, Close, Poll,
           PollEnds, Respond, Stop, BeginStop, EditWorkspace, journalVars
  <2>5. CASE GraceExpires \/ BeginLimitFailure \/ Removal \/ UNCHANGED vars
    BY <2>5 DEF GraceExpires, BeginStop, BeginLimitFailure, Removal, Remove,
           RemoveThrows, vars, journalVars
  <2> QED
    BY <2>2, <2>3, <2>4, <2>5 DEF Next
<1>2. Spec => [][Next]_vars
  BY DEF Spec
<1> QED
  BY <1>1, <1>2, EndCorrect, PTL DEF QuietAfterRecovery

-----------------------------------------------------------------------------
(* Browsers and their slots.                                               *)

\* No socket becomes new again, and every socket keeps its type.
SocketsAge ==
    /\ sockets' \in [Sockets -> {"new", "open", "closing", "closed"}]
    /\ \A s \in Sockets : sockets[s] # "new" => sockets'[s] # "new"

LEMMA FewerSlots ==
    ASSUME SlotInv, connections' \cup reserved' \subseteq connections \cup reserved
    PROVE  /\ IsFiniteSet(connections' \cup reserved')
           /\ Cardinality(connections' \cup reserved') <= ConnectionLimit
<1> DEFINE S == connections \cup reserved
           T == connections' \cup reserved'
<1>1. IsFiniteSet(S) /\ Cardinality(S) <= ConnectionLimit /\ T \in SUBSET S
  BY DEF SlotInv
<1> HIDE DEF S, T
<1>2. IsFiniteSet(T) /\ Cardinality(T) <= Cardinality(S)
  BY <1>1, FS_Subset
<1>3. Cardinality(S) \in Nat /\ Cardinality(T) \in Nat /\ ConnectionLimit \in Nat
  BY <1>1, <1>2, FS_CardinalityType, ServerAssumption
<1>4. Cardinality(T) <= ConnectionLimit
  BY <1>1, <1>2, <1>3
<1> QED
  BY <1>2, <1>4 DEF T

LEMMA EntriesOnChain ==
    ASSUME JournalInv
    PROVE  /\ chain \in Seq(Entry)
           /\ \A i \in DOMAIN chain :
                  chain[i] \in Entry /\ (chain[i].op = "connected" => chain[i].socket \in Sockets)
<1>1. chain \in Seq(Entry)
  BY DEF JournalInv, JournalTypeOK
<1>2. \A i \in DOMAIN chain : chain[i] \in Entry
  BY <1>1
<1> QED
  BY <1>1, <1>2, EntryFields

\* Another entry joins, or none.
LEMMA JoinKeepsSlots ==
    ASSUME JournalInv, SlotInv, SocketsAge, reserved' = reserved,
           connections' \subseteq connections,
           \/ chain' = chain
           \/ \E entry \in Entry : entry.op # "connected" /\ chain' = Append(chain, entry)
    PROVE  SlotInv'
<1>1. /\ IsFiniteSet(connections' \cup reserved')
      /\ Cardinality(connections' \cup reserved') <= ConnectionLimit
  BY FewerSlots
<1>2. \A i \in DOMAIN chain' :
          chain'[i].op = "connected" => i \in DOMAIN chain /\ chain'[i] = chain[i]
  <2>1. CASE chain' = chain
    BY <2>1
  <2>2. ASSUME NEW entry \in Entry, entry.op # "connected", chain' = Append(chain, entry)
        PROVE  \A i \in DOMAIN chain' :
                   chain'[i].op = "connected" => i \in DOMAIN chain /\ chain'[i] = chain[i]
    BY <2>2, EntriesOnChain, AppendElements
  <2> QED
    BY <2>1, <2>2
<1>3. \A i \in DOMAIN chain' : Slotted(i)'
  BY <1>2, EntriesOnChain DEF SlotInv, Slotted, SocketsAge
<1> QED
  BY <1>1, <1>2, <1>3 DEF SlotInv, SocketsAge

\* The running entry leaves, a connection with its slot.
LEMMA LeaveKeepsSlots ==
    ASSUME JournalInv, SlotInv, SocketsAge, chain # <<>>, chain' = Tail(chain),
           connections' \cup reserved' \subseteq connections \cup reserved,
           \A s \in reserved \ reserved' :
               Head(chain).op = "connected" /\ Head(chain).socket = s
    PROVE  SlotInv'
<1>1. /\ IsFiniteSet(connections' \cup reserved')
      /\ Cardinality(connections' \cup reserved') <= ConnectionLimit
  BY FewerSlots
<1>2. chain \in Seq(Entry) /\ 1 \in DOMAIN chain /\ Head(chain) = chain[1]
  BY EntriesOnChain
<1>3. \A i \in DOMAIN chain' :
          /\ i \in Nat /\ i + 1 \in DOMAIN chain /\ i + 1 # 1
          /\ chain'[i] = chain[i + 1]
  <2>1. Len(chain) \in Nat /\ Len(chain) # 0
    BY <1>2
  <2>2. DOMAIN chain' = 1..(Len(chain) - 1) /\ DOMAIN chain = 1..Len(chain)
    BY <1>2, <2>1
  <2>3. \A i \in 1..(Len(chain) - 1) : Tail(chain)[i] = chain[i + 1]
    BY <1>2, <2>1
  <2> QED
    BY <2>1, <2>2, <2>3
<1>4. ASSUME NEW i \in DOMAIN chain' PROVE Slotted(i)'
  <2>1. Slotted(i + 1) /\ (chain[i + 1].op = "connected" => chain[i + 1].socket \in Sockets)
    BY <1>3, EntriesOnChain DEF SlotInv
  <2>2. chain[i + 1].op = "connected" => chain[i + 1].socket \in reserved'
    <3>1. SUFFICES ASSUME chain[i + 1].op = "connected",
                          chain[i + 1].socket \in reserved \ reserved'
                   PROVE  FALSE
      BY <2>1 DEF Slotted
    <3>2. chain[1].op = "connected" /\ chain[1].socket = chain[i + 1].socket
      BY <1>2, <3>1
    <3>3. i + 1 = 1
      BY <1>2, <1>3, <3>1, <3>2 DEF SlotInv
    <3> QED
      BY <1>3, <3>3
  <2> QED
    BY <1>3, <2>1, <2>2 DEF Slotted, SocketsAge
<1>5. ASSUME NEW i \in DOMAIN chain', NEW j \in DOMAIN chain',
             chain'[i].op = "connected", chain'[j].op = "connected",
             chain'[i].socket = chain'[j].socket
      PROVE  i = j
  <2>1. i + 1 = j + 1
    BY <1>3, <1>5 DEF SlotInv
  <2> QED
    BY <1>3, <2>1
<1> QED
  BY <1>1, <1>4, <1>5 DEF SlotInv, SocketsAge

\* The running entry goes on as a report.
LEMMA ReportKeepsSlots ==
    ASSUME JournalInv, SlotInv, NEW answers, NEW landed, Report(answers, landed),
           chain # <<>>, UNCHANGED <<sockets, reserved, connections>>
    PROVE  SlotInv'
<1> DEFINE entry == [op |-> "report", landed |-> landed]
<1>1. chain \in Seq(Entry) /\ Len(chain) \in Nat /\ Len(chain) # 0
  BY EntriesOnChain
<1>2. \A i \in DOMAIN chain' :
          chain'[i].op = "connected" => i \in DOMAIN chain /\ chain'[i] = chain[i]
  <2>1. chain' = <<entry>> \o Tail(chain)
    BY DEF Report
  <2>2. Tail(chain) \in Seq(Entry) /\ Len(Tail(chain)) = Len(chain) - 1
    BY <1>1
  <2>3. \A i \in 1..(Len(chain) - 1) : Tail(chain)[i] = chain[i + 1]
    BY <1>1
  <2>4. entry.op # "connected"
    OBVIOUS
  <2> HIDE DEF entry
  <2>5. /\ DOMAIN chain' = 1..(1 + Len(Tail(chain)))
        /\ chain'[1] = entry
        /\ \A i \in 1..(1 + Len(Tail(chain))) : i # 1 => chain'[i] = Tail(chain)[i - 1]
    BY <2>1, <2>2
  <2>6. DOMAIN chain = 1..Len(chain)
    BY <1>1
  <2>7. DOMAIN chain' = DOMAIN chain
    BY <1>1, <2>2, <2>5, <2>6
  <2>8. ASSUME NEW i \in DOMAIN chain', i # 1 PROVE chain'[i] = chain[i]
    <3>1. i \in Nat /\ i - 1 \in 1..(Len(chain) - 1) /\ (i - 1) + 1 = i
      BY <1>1, <2>2, <2>5, <2>8
    <3>2. chain'[i] = Tail(chain)[i - 1]
      BY <2>5, <2>8
    <3>3. Tail(chain)[i - 1] = chain[(i - 1) + 1]
      BY <2>3, <3>1
    <3> QED
      BY <3>1, <3>2, <3>3
  <2> QED
    BY <2>4, <2>5, <2>7, <2>8
<1> QED
  BY <1>2 DEF SlotInv, Slotted

LEMMA SocketsUnchangedAge ==
    ASSUME SlotInv, sockets' = sockets
    PROVE  SocketsAge
BY DEF SlotInv, SocketsAge

\* A new connection takes a slot that is free.
LEMMA UpgradeKeepsSlots ==
    ASSUME JournalInv, SlotInv, NEW s \in Sockets, Upgrade(s)
    PROVE  SlotInv'
<1> DEFINE S == connections \cup reserved
           entry == [op |-> "connected", socket |-> s]
<1>1. /\ IsFiniteSet(connections' \cup reserved')
      /\ Cardinality(connections' \cup reserved') <= ConnectionLimit
  <2>1. IsFiniteSet(connections) /\ IsFiniteSet(reserved)
    BY FS_Subset DEF SlotInv
  <2>2. /\ Cardinality(connections) \in Nat /\ Cardinality(reserved) \in Nat
        /\ Cardinality(connections \cap reserved) \in Nat
    BY <2>1, FS_CardinalityType, FS_Intersection
  <2>3. IsFiniteSet(S) /\ Cardinality(S) <= Cardinality(connections) + Cardinality(reserved)
    <3>1. /\ IsFiniteSet(S)
          /\ Cardinality(S) = Cardinality(connections) + Cardinality(reserved)
                                  - Cardinality(connections \cap reserved)
      BY <2>1, FS_Union
    <3> HIDE DEF S
    <3> QED
      BY <2>2, <3>1
  <2>4. /\ IsFiniteSet(S \cup {s}) /\ Cardinality(S) \in Nat
        /\ Cardinality(S \cup {s}) \in {Cardinality(S), Cardinality(S) + 1}
    BY <2>3, FS_AddElement, FS_CardinalityType
  <2>5. Cardinality(connections) + Cardinality(reserved) < ConnectionLimit
    BY DEF Upgrade
  <2>6. ConnectionLimit \in Nat
    BY ServerAssumption
  <2>7. connections' \cup reserved' = S \cup {s}
    BY DEF Upgrade
  <2> HIDE DEF S
  <2>8. Cardinality(S \cup {s}) <= ConnectionLimit
    BY <2>2, <2>3, <2>4, <2>5, <2>6
  <2> QED
    BY <2>4, <2>7, <2>8
<1>2. /\ chain \in Seq(Entry) /\ entry \in Entry /\ chain' = Append(chain, entry)
  BY EntriesOnChain DEF Entry, Upgrade
<1>3. /\ DOMAIN chain' = DOMAIN chain \cup {Len(chain) + 1}
      /\ \A i \in DOMAIN chain : chain'[i] = chain[i]
      /\ chain'[Len(chain) + 1] = entry
  BY <1>2, AppendElements
<1>4. /\ entry.op = "connected" /\ entry.socket = s
      /\ sockets[s] = "new" /\ reserved' = reserved \cup {s}
      /\ sockets' = [sockets EXCEPT ![s] = "open"]
  BY DEF Upgrade
<1>5. SocketsAge
  BY <1>4 DEF SlotInv, SocketsAge
<1>6. ASSUME NEW i \in DOMAIN chain, chain[i].op = "connected"
      PROVE  /\ chain[i].socket \in reserved' /\ sockets'[chain[i].socket] # "new"
             /\ chain[i].socket # s
  BY <1>4, <1>5, <1>6, EntriesOnChain DEF SlotInv, Slotted, SocketsAge
<1> HIDE DEF entry
<1>7. \A i \in DOMAIN chain' : Slotted(i)'
  BY <1>3, <1>4, <1>5, <1>6 DEF Slotted, SlotInv
<1>8. \A i, j \in DOMAIN chain' :
          (/\ chain'[i].op = "connected" /\ chain'[j].op = "connected"
           /\ chain'[i].socket = chain'[j].socket) => i = j
  BY <1>3, <1>4, <1>6 DEF SlotInv
<1> QED
  BY <1>1, <1>5, <1>7, <1>8 DEF SlotInv, SocketsAge

LEMMA BrowserKeepsSlots ==
    ASSUME JournalInv, SlotInv, Browser
    PROVE  SlotInv'
<1>1. ASSUME NEW s \in Sockets, OversizedFrame(s) PROVE SlotInv'
  <2>1. SocketsAge
    BY <1>1 DEF OversizedFrame, SlotInv, SocketsAge
  <2> QED
    BY <1>1, <2>1, JoinKeepsSlots DEF OversizedFrame, journalVars
<1>2. ASSUME NEW s \in Sockets, Close(s) PROVE SlotInv'
  <2>1. SocketsAge
    BY <1>2 DEF Close, SlotInv, SocketsAge
  <2>2. [op |-> "disconnected", socket |-> s] \in Entry
    BY DEF Entry
  <2>3. \/ chain' = chain
        \/ \E entry \in Entry : entry.op # "connected" /\ chain' = Append(chain, entry)
    BY <1>2, <2>2 DEF Close
  <2>4. reserved' = reserved /\ connections' \subseteq connections
    BY <1>2 DEF Close
  <2> QED
    BY <2>1, <2>3, <2>4, JoinKeepsSlots
<1>3. ASSUME NEW s \in Sockets, NEW t \in InputTypes,
             NEW c \in Choices \cup {NoChoice}, NEW n \in Claims, Frame(s, t, c, n)
      PROVE  SlotInv'
  <2>1. [op |-> "input", socket |-> s, type |-> t, choice |-> c, claim |-> n] \in Entry
    BY DEF Entry
  <2>2. \E entry \in Entry : entry.op # "connected" /\ chain' = Append(chain, entry)
    BY <1>3, <2>1 DEF Frame
  <2>3. UNCHANGED <<sockets, reserved, connections>>
    BY <1>3 DEF Frame, socketVars
  <2> QED
    BY <2>2, <2>3, SocketsUnchangedAge, JoinKeepsSlots
<1> QED
  BY <1>1, <1>2, <1>3, UpgradeKeepsSlots DEF Browser

\* Steps of nobody's socket, and of nobody's entry.
LEMMA ElsewhereKeepsSlots ==
    ASSUME JournalInv, SlotInv, chain' = chain,
           UNCHANGED <<sockets, reserved, connections>>
    PROVE  SlotInv'
BY SocketsUnchangedAge, JoinKeepsSlots

LEMMA BeginStopKeepsSlots ==
    ASSUME JournalInv, SlotInv, NEW reason \in Reasons, BeginStop(reason)
    PROVE  SlotInv'
<1>1. SocketsAge
  BY DEF BeginStop, OpenSockets, SlotInv, SocketsAge
<1> QED
  BY <1>1, JoinKeepsSlots DEF BeginStop, journalVars

LEMMA AgentKeepsSlots ==
    ASSUME JournalInv, SlotInv, Agent
    PROVE  SlotInv'
<1>1. ASSUME NEW r \in Answers, NEW c \in Choices \cup {NoChoice}, Respond(r, c)
      PROVE  SlotInv'
  <2>1. EventIdsIn(log) \subseteq EventIds \cup {ClosingId}
    BY ReadingTypes DEF JournalInv, JournalTypeOK
  <2>2. r \in Response
    BY <2>1, RecordAssumption, ServerAssumption DEF Answers, Response
  <2>3. [op |-> "response", record |-> r, choice |-> c] \in Entry
    BY <2>2 DEF Entry
  <2>4. \E entry \in Entry : entry.op # "connected" /\ chain' = Append(chain, entry)
    BY <1>1, <2>3 DEF Respond
  <2>5. UNCHANGED <<sockets, reserved, connections>>
    BY <1>1 DEF Respond, socketVars
  <2> QED
    BY <2>4, <2>5, SocketsUnchangedAge, JoinKeepsSlots
<1>2. CASE \E after \in Afters : Poll(after)
  BY <1>2, ElsewhereKeepsSlots DEF Poll, socketVars, journalVars
<1>3. CASE \E i \in DOMAIN polls : PollEnds(i)
  BY <1>3, ElsewhereKeepsSlots DEF PollEnds, socketVars, journalVars
<1> QED
  BY <1>1, <1>2, <1>3, BeginStopKeepsSlots DEF Agent, Stop

\* A socket that was not admitted gives its slot back.
LEMMA ReleaseAges ==
    ASSUME SlotInv, NEW s, ReleaseUnadmitted(s)
    PROVE  SocketsAge /\ reserved' = reserved \ {s}
BY DEF SlotInv, SocketsAge, ReleaseUnadmitted

LEMMA ServeKeepsSlots ==
    ASSUME JournalInv, SlotInv, Serve
    PROVE  SlotInv'
<1>1. CASE BeginInput \/ BeginResponse \/ FinishInput \/ FinishDisconnected
           \/ FinishResponse \/ FinishDuplicate \/ FinishReport \/ FinishCommit
  <2>1. UNCHANGED <<sockets, reserved, connections>>
    BY <1>1 DEF BeginInput, BeginResponse, FinishInput, FinishDisconnected,
       FinishResponse, FinishDuplicate, FinishReport, FinishCommit, socketVars
  <2>2. chain # <<>>
    BY <1>1 DEF BeginInput, BeginResponse, FinishInput, FinishDisconnected,
       FinishResponse, FinishDuplicate, FinishReport, FinishCommit, Running,
       Journaled, Awaiting, JournalInv, Held
  <2>3. \/ chain' = chain \/ chain' = Tail(chain)
        \/ \E answers, landed : Report(answers, landed)
    BY <1>1 DEF BeginInput, BeginResponse, FinishInput, FinishDisconnected,
       FinishResponse, FinishDuplicate, FinishReport, FinishCommit, Leave
  <2>4. CASE chain' = Tail(chain)
    BY <2>1, <2>2, <2>4, SocketsUnchangedAge, LeaveKeepsSlots
  <2> QED
    BY <2>1, <2>2, <2>3, <2>4, ElsewhereKeepsSlots, ReportKeepsSlots
<1>2. CASE BeginConnection \/ AppendRefused \/ AppendThrows
  <2>1. chain # <<>> /\ connections' = connections
    BY <1>2 DEF BeginConnection, AppendRefused, AppendThrows, Running, JournalInv, Held
  <2>2. CASE UNCHANGED <<chain, sockets, reserved>>
    BY <2>1, <2>2, ElsewhereKeepsSlots
  <2>3. CASE Leave /\ UNCHANGED <<sockets, reserved>>
    BY <2>1, <2>3, SocketsUnchangedAge, LeaveKeepsSlots DEF Leave
  <2>4. CASE Leave /\ Head(chain).op = "connected" /\ ReleaseUnadmitted(Head(chain).socket)
    BY <2>1, <2>4, ReleaseAges, LeaveKeepsSlots DEF Leave
  <2> QED
    BY <1>2, <2>2, <2>3, <2>4 DEF BeginConnection, AppendRefused, AppendThrows, Abandon
<1>3. CASE FinishConnected
  <2>1. chain # <<>> /\ chain \in Seq(Entry) /\ Head(chain) = chain[1] /\ 1 \in DOMAIN chain
    BY <1>3, EntriesOnChain DEF FinishConnected, Journaled, Awaiting
  <2>2. Head(chain).op = "connected" /\ Head(chain).socket \in reserved
    BY <1>3, <2>1 DEF FinishConnected, Journaled, Awaiting, SlotInv, Slotted
  <2>3. /\ connections' = connections \cup {Head(chain).socket}
        /\ reserved' = reserved \ {Head(chain).socket}
        /\ sockets' = sockets /\ chain' = Tail(chain)
    BY <1>3 DEF FinishConnected, Leave
  <2> QED
    BY <2>1, <2>2, <2>3, SocketsUnchangedAge, LeaveKeepsSlots
<1> QED
  BY <1>1, <1>2, <1>3 DEF Serve

LEMMA SystemKeepsSlots ==
    ASSUME JournalInv, SlotInv,
           EditWorkspace \/ GraceExpires \/ BeginLimitFailure \/ Transition \/ Removal
    PROVE  SlotInv'
<1>1. CASE GraceExpires
  <2>1. CASE UNCHANGED <<journalVars, sockets, reserved, connections>>
    BY <2>1, ElsewhereKeepsSlots DEF journalVars
  <2>2. CASE BeginStop("browser-timeout")
    BY <2>2, BeginStopKeepsSlots, ServerAssumption
  <2> QED
    BY <1>1, <2>1, <2>2 DEF GraceExpires
<1>2. CASE ~GraceExpires
  <2>1. UNCHANGED <<chain, sockets, reserved, connections>>
    BY <1>2 DEF EditWorkspace, BeginLimitFailure, Transition, Quiesced, RecordEnd,
       Recover, RecoverThrows, Removal, Remove, RemoveThrows, journalVars, socketVars
  <2> QED
    BY <2>1, ElsewhereKeepsSlots
<1> QED
  BY <1>1, <1>2

LEMMA SlotInductive == JournalInv /\ SlotInv /\ [Next]_vars => SlotInv'
<1> SUFFICES ASSUME JournalInv, SlotInv, [Next]_vars PROVE SlotInv'
  OBVIOUS
<1>1. CASE UNCHANGED vars
  BY <1>1, ElsewhereKeepsSlots DEF vars, journalVars, socketVars
<1> QED
  BY <1>1, BrowserKeepsSlots, AgentKeepsSlots, ServeKeepsSlots, SystemKeepsSlots DEF Next

LEMMA SlotInitially == Init => SlotInv
<1> SUFFICES ASSUME Init PROVE SlotInv
  OBVIOUS
<1>1. connections \cup reserved = {} /\ DOMAIN chain = {}
  BY DEF Init
<1>2. IsFiniteSet({}) /\ Cardinality({}) = 0 /\ ConnectionLimit \in Nat
  BY FS_EmptySet, ServerAssumption
<1> QED
  BY <1>1, <1>2 DEF SlotInv, Init

\* The session never has more visible connections than its limit.
THEOREM ConnectionsAreBounded == Spec => []ConnectionsBounded
<1>1. Init => JournalInv /\ SlotInv
  BY JournalInitially, SlotInitially
<1>2. (JournalInv /\ SlotInv) /\ [Next]_vars => (JournalInv /\ SlotInv)'
  BY JournalInductive, SlotInductive
<1>3. SlotInv => ConnectionsBounded
  <2> SUFFICES ASSUME SlotInv PROVE ConnectionsBounded
    OBVIOUS
  <2> DEFINE S == connections \cup reserved
  <2>1. IsFiniteSet(S) /\ Cardinality(S) <= ConnectionLimit /\ connections \in SUBSET S
    BY DEF SlotInv
  <2> HIDE DEF S
  <2>2. IsFiniteSet(connections) /\ Cardinality(connections) <= Cardinality(S)
    BY <2>1, FS_Subset
  <2>3. /\ Cardinality(S) \in Nat /\ Cardinality(connections) \in Nat
        /\ ConnectionLimit \in Nat
    BY <2>1, <2>2, FS_CardinalityType, ServerAssumption
  <2>4. Cardinality(connections) <= ConnectionLimit
    BY <2>1, <2>2, <2>3
  <2> QED
    BY <2>4 DEF ConnectionsBounded
<1> QED
  BY <1>1, <1>2, <1>3, PTL DEF Spec

-----------------------------------------------------------------------------
(* The reconnect clock.                                                    *)

\* The clock as the handlers keep it, over the connections they count; what is counted joined.
ClockInv ==
    /\ connections \subseteq registered
    /\ (lifecycle = "running" /\ registered # {} /\ connections = {}) => grace

\* Steps that neither register a browser, lose one, nor touch the clock.
LEMMA ClockUntouched ==
    ASSUME ClockInv, UNCHANGED <<registered, connections, grace>>,
           lifecycle' = "running" => lifecycle = "running"
    PROVE  ClockInv'
BY DEF ClockInv

LEMMA BrowserKeepsClock ==
    ASSUME ClockInv, Browser
    PROVE  ClockInv'
<1>1. ASSUME NEW s \in Sockets, Close(s) PROVE ClockInv'
  <2>1. lifecycle' = lifecycle /\ registered' = registered
    BY <1>1 DEF Close
  <2>2. CASE s \in registered
    <3>1. /\ connections' = connections \ {s}
          /\ grace' = (grace \/ (connections' = {} /\ lifecycle = "running"))
      BY <1>1, <2>2 DEF Close
    <3> QED
      BY <2>1, <3>1, Zenon DEF ClockInv
  <2>3. CASE s \notin registered
    BY <1>1, <2>1, <2>3, ClockUntouched DEF Close
  <2> QED
    BY <2>2, <2>3
<1>2. ASSUME NEW s \in Sockets, Upgrade(s) \/ OversizedFrame(s)
      PROVE  ClockInv'
  BY <1>2, ClockUntouched DEF Upgrade, OversizedFrame
<1>3. ASSUME NEW s \in Sockets, NEW t \in InputTypes,
             NEW c \in Choices \cup {NoChoice}, NEW n \in Claims, Frame(s, t, c, n)
      PROVE  ClockInv'
  BY <1>3, ClockUntouched DEF Frame, socketVars
<1> QED
  BY <1>1, <1>2, <1>3 DEF Browser

LEMMA ServeKeepsClock ==
    ASSUME ClockInv, Serve
    PROVE  ClockInv'
<1>1. CASE FinishConnected
  <2>1. connections' # {} /\ (connections \subseteq registered
                                  => connections' \subseteq registered')
    BY <1>1 DEF FinishConnected
  <2> QED
    BY <2>1, Zenon DEF ClockInv
<1>2. CASE ~FinishConnected
  <2>1. UNCHANGED <<registered, connections, grace, lifecycle>>
    BY <1>2 DEF Serve, BeginInput, BeginConnection, BeginResponse, AppendRefused,
       AppendThrows, FinishInput, FinishCommit, FinishReport, FinishDisconnected,
       FinishResponse, FinishDuplicate, socketVars
  <2> QED
    BY <2>1, ClockUntouched
<1> QED
  BY <1>1, <1>2

LEMMA SystemKeepsClock ==
    ASSUME ClockInv,
           \/ Agent \/ EditWorkspace \/ GraceExpires \/ BeginLimitFailure
           \/ Transition \/ Removal
    PROVE  ClockInv'
<1>1. ASSUME NEW reason, BeginStop(reason) PROVE ClockInv'
  BY <1>1 DEF BeginStop, ClockInv
<1>2. CASE GraceExpires
  <2>1. CASE connections # {} \/ lifecycle # "running"
    BY <1>2, <2>1 DEF GraceExpires, ClockInv
  <2>2. CASE BeginStop("browser-timeout")
    BY <1>1, <2>2
  <2> QED
    BY <1>2, <2>1, <2>2 DEF GraceExpires
<1>3. CASE Agent
  <2>1. CASE \E reason \in Reasons : Stop(reason)
    BY <1>1, <2>1 DEF Stop
  <2>2. CASE ~\E reason \in Reasons : Stop(reason)
    <3>1. UNCHANGED <<registered, connections, grace, lifecycle>>
      BY <1>3, <2>2 DEF Agent, Poll, PollEnds, Respond, socketVars
    <3> QED
      BY <3>1, ClockUntouched
  <2> QED
    BY <2>1, <2>2
<1>4. CASE EditWorkspace \/ BeginLimitFailure \/ Transition \/ Removal
  <2>1. UNCHANGED <<registered, connections, grace>>
    BY <1>4 DEF EditWorkspace, BeginLimitFailure, Transition, Quiesced, RecordEnd,
       Recover, RecoverThrows, Removal, Remove, RemoveThrows, socketVars
  <2>2. lifecycle' \in {lifecycle, "draining", "stopped"}
    BY <1>4 DEF EditWorkspace, BeginLimitFailure, Transition, Quiesced, RecordEnd,
       Recover, RecoverThrows, Removal, Remove, RemoveThrows
  <2> QED
    BY <2>1, <2>2, ClockUntouched
<1> QED
  BY <1>2, <1>3, <1>4

\* When every browser that joined a running session has closed its socket and none is still
\* counted as a ghost, the reconnect timer is armed: the session cannot stay up with nobody on
\* it. Whoever is counted and is no ghost has a socket that is not closed, so in this case
\* nobody is counted at all.
THEOREM LeftSessionsTimeOut == Spec => []LeftSessionIsOnTheClock
<1>1. Init => ClockInv
  BY DEF Init, ClockInv
<1>2. ClockInv /\ [Next]_vars => ClockInv'
  <2> SUFFICES ASSUME ClockInv, [Next]_vars
               PROVE  ClockInv'
    OBVIOUS
  <2>1. CASE UNCHANGED vars
    BY <2>1, ClockUntouched DEF vars, socketVars
  <2> QED
    BY <2>1, BrowserKeepsClock, ServeKeepsClock, SystemKeepsClock DEF Next
<1>3. ClockInv => LeftSessionIsOnTheClock
  <2> SUFFICES ASSUME ClockInv, lifecycle = "running", registered # {}, Ghosts = {},
                      \A s \in registered : sockets[s] = "closed"
               PROVE  grace
    BY DEF LeftSessionIsOnTheClock
  <2>1. connections \subseteq Ghosts
    BY DEF ClockInv, Ghosts
  <2> QED
    BY <2>1 DEF ClockInv
<1> QED
  BY <1>1, <1>2, <1>3, PTL DEF Spec

-----------------------------------------------------------------------------
(* Held polls.                                                             *)

LEMMA WakeAddsNoPoll ==
    ASSUME NEW queue, NEW turn, DOMAIN polls = {}, Wake(queue, turn)
    PROVE  DOMAIN polls' = {}
BY DEF Wake

\* Steps that hold no new poll, and move the limit at most from "none".
LEMMA NoNewPoll ==
    ASSUME NoPollOutlivesTheSession, DOMAIN polls = {} => DOMAIN polls' = {},
           lifecycle' = lifecycle,
           limit' = limit \/ limit' = "draining"
    PROVE  NoPollOutlivesTheSession'
BY DEF NoPollOutlivesTheSession

LEMMA FreezeMovesLimit ==
    ASSUME NEW reason, Freeze(reason)
    PROVE  limit' = limit \/ limit' = "draining"
BY DEF Freeze, freezeVars

LEMMA OutsideKeepsPolls ==
    ASSUME NoPollOutlivesTheSession, Browser \/ Agent \/ EditWorkspace
    PROVE  NoPollOutlivesTheSession'
<1>1. CASE Browser \/ EditWorkspace
  <2>1. UNCHANGED <<polls, lifecycle>>
    BY <1>1 DEF Browser, EditWorkspace, Upgrade, Frame, OversizedFrame, Close, turnVars
  <2>2. limit' = limit \/ limit' = "draining"
    BY <1>1, FreezeMovesLimit DEF Browser, EditWorkspace, Upgrade, Frame,
       OversizedFrame, Close, freezeVars
  <2> QED
    BY <2>1, <2>2, NoNewPoll
<1>2. ASSUME NEW after \in Afters, Poll(after) PROVE NoPollOutlivesTheSession'
  <2>1. lifecycle' = lifecycle /\ limit' = limit
    BY <1>2 DEF Poll, freezeVars
  <2>2. polls' = polls \/ lifecycle = "running"
    BY <1>2 DEF Poll
  <2> QED
    BY <2>1, <2>2 DEF NoPollOutlivesTheSession
<1>3. ASSUME NEW i \in DOMAIN polls, PollEnds(i) PROVE NoPollOutlivesTheSession'
  <2>1. DOMAIN polls # {}
    BY <1>3
  <2> QED
    BY <1>3, <2>1, NoNewPoll DEF PollEnds, freezeVars
<1>4. ASSUME NEW r \in Answers, NEW c \in Choices \cup {NoChoice}, Respond(r, c)
      PROVE  NoPollOutlivesTheSession'
  <2>1. UNCHANGED <<polls, lifecycle>> /\ (limit' = limit \/ limit' = "draining")
    BY <1>4, FreezeMovesLimit DEF Respond, turnVars, freezeVars
  <2> QED
    BY <2>1, NoNewPoll
<1>5. ASSUME NEW reason \in Reasons, Stop(reason) PROVE NoPollOutlivesTheSession'
  BY <1>5 DEF Stop, BeginStop, NoPollOutlivesTheSession
<1> QED
  BY <1>1, <1>2, <1>3, <1>4, <1>5 DEF Agent

LEMMA ServeKeepsPolls ==
    ASSUME NoPollOutlivesTheSession, Serve
    PROVE  NoPollOutlivesTheSession'
<1>1. lifecycle' = lifecycle
  BY DEF Serve, BeginInput, BeginConnection, BeginResponse, AppendRefused,
     AppendThrows, FinishInput, FinishCommit, FinishReport, FinishConnected,
     FinishDisconnected, FinishResponse, FinishDuplicate
<1>2. limit' = limit \/ limit' = "draining"
  BY FreezeMovesLimit DEF Serve, BeginInput, BeginConnection, BeginResponse,
     AppendRefused, AppendThrows, FinishInput, FinishCommit, FinishReport,
     FinishConnected, FinishDisconnected, FinishResponse, FinishDuplicate, freezeVars
<1>3. CASE FinishInput
  <2>1. polls' = polls \/ Wake(pending', inFlight)
    BY <1>3 DEF FinishInput
  <2> QED
    BY <1>1, <1>2, <2>1, WakeAddsNoPoll, NoNewPoll
<1>4. CASE FinishResponse
  <2>1. polls' = polls \/ Wake(pending', None)
    BY <1>4 DEF FinishResponse, CompleteTurn
  <2> QED
    BY <1>1, <1>2, <2>1, WakeAddsNoPoll, NoNewPoll
<1>5. CASE ~FinishInput /\ ~FinishResponse
  <2>1. polls' = polls
    BY <1>5 DEF Serve, BeginInput, BeginConnection, BeginResponse, AppendRefused,
       AppendThrows, FinishCommit, FinishReport, FinishConnected,
       FinishDisconnected, FinishDuplicate, turnVars
  <2> QED
    BY <1>1, <1>2, <2>1, NoNewPoll
<1> QED
  BY <1>3, <1>4, <1>5

LEMMA SystemKeepsPolls ==
    ASSUME NoPollOutlivesTheSession, EndInv,
           GraceExpires \/ BeginLimitFailure \/ Transition \/ Removal
    PROVE  NoPollOutlivesTheSession'
<1>1. CASE GraceExpires
  <2>1. CASE UNCHANGED <<turnVars, lifecycle, freezeVars>>
    BY <2>1, NoNewPoll DEF turnVars, freezeVars
  <2>2. CASE BeginStop("browser-timeout")
    BY <2>2 DEF BeginStop, NoPollOutlivesTheSession
  <2> QED
    BY <1>1, <2>1, <2>2 DEF GraceExpires
<1>2. CASE BeginLimitFailure
  BY <1>2 DEF BeginLimitFailure, NoPollOutlivesTheSession
<1>3. CASE Transition
  <2>1. lifecycle' = lifecycle
    BY <1>3 DEF Transition, Quiesced, RecordEnd, Recover, RecoverThrows
  <2>2. UNCHANGED <<limit, polls>> \/ polls' = <<>>
    BY <1>3 DEF Transition, Quiesced, RecordEnd, Recover, RecoverThrows, Continue,
       turnVars, freezeVars
  <2> QED
    BY <2>1, <2>2 DEF NoPollOutlivesTheSession
<1>4. CASE Removal
  <2>1. lifecycle # "running" /\ UNCHANGED <<polls, limit>>
    BY <1>4 DEF Removal, Remove, RemoveThrows, EndInv, turnVars, freezeVars
  <2> QED
    BY <2>1 DEF NoPollOutlivesTheSession
<1> QED
  BY <1>1, <1>2, <1>3, <1>4

\* Whatever ends a session, no agent is left waiting on a poll: a stop settles
\* every poll, and a limit does when its transition has settled.
THEOREM PollsAreSettled == Spec => []NoPollOutlivesTheSession
<1>1. Init => NoPollOutlivesTheSession
  BY DEF Init, NoPollOutlivesTheSession
<1>2. EndInv /\ NoPollOutlivesTheSession /\ [Next]_vars => NoPollOutlivesTheSession'
  <2> SUFFICES ASSUME EndInv, NoPollOutlivesTheSession, [Next]_vars
               PROVE  NoPollOutlivesTheSession'
    OBVIOUS
  <2>1. CASE UNCHANGED vars
    BY <2>1, NoNewPoll DEF vars, turnVars, freezeVars
  <2> QED
    BY <2>1, OutsideKeepsPolls, ServeKeepsPolls, SystemKeepsPolls DEF Next
<1> QED
  BY <1>1, <1>2, EndCorrect, PTL DEF Spec

-----------------------------------------------------------------------------
(***************************************************************************)
(* What browsers and the agent are told: the turn queue, the polls, the    *)
(* answers and the open question.                                          *)
(***************************************************************************)

(* The queue.                                                              *)

LEMMA LeastOf ==
    ASSUME NEW S \in SUBSET Nat, S # {}
    PROVE  Min(S) \in S /\ \A m \in S : Min(S) <= m
<1>1. \E n \in S : \A m \in S : ~(<<m, n>> \in OpToRel(<, Nat))
  BY NatLessThanWellFounded, WFMin
<1>2. \A m, n \in Nat : m < n => <<m, n>> \in OpToRel(<, Nat)
  BY DEF OpToRel
<1>3. PICK n \in S : \A m \in S : ~(<<m, n>> \in OpToRel(<, Nat))
  BY <1>1
<1>4. \A m \in S : ~(m < n)
  BY <1>2, <1>3
<1>5. \A m \in S : n <= m
  BY <1>4
<1> QED
  BY <1>5 DEF Min

LEMMA NoneIsNoEvent == None \notin Event
BY DEF None, Event

\* An event that a poll may be given opens no other turn than the open one, and
\* is queued already.
LEMMA DeliverableIsQueued ==
    ASSUME NEW after, NEW queue \in Seq(Event), NEW turn \in Event \cup {None},
           NEW e \in Deliverable(after, queue, turn)
    PROVE  /\ e \in Event
           /\ turn # None => e = turn
           /\ turn = None => \E i \in DOMAIN queue : e = queue[i]
           /\ Queued(queue, e) = Queued(queue, turn)
<1>1. CASE turn # None
  <2>1. e = turn
    BY <1>1 DEF Deliverable
  <2> QED
    BY <1>1, <2>1
<1>2. CASE turn = None
  <2> DEFINE later == {i \in DOMAIN queue : queue[i].sequence > after}
  <2>1. later # {} /\ e = queue[Min(later)]
    BY <1>2 DEF Deliverable
  <2>2. later \in SUBSET Nat
    OBVIOUS
  <2>3. Min(later) \in later
    BY <2>1, <2>2, LeastOf
  <2>4. PICK i \in DOMAIN queue : e = queue[i]
    BY <2>1, <2>3
  <2>5. e \in Event /\ e # None
    BY <2>4, NoneIsNoEvent
  <2>6. Queued(queue, e) = {queue[j].id : j \in DOMAIN queue} \cup {e.id}
    BY <2>5 DEF Queued
  <2>7. Queued(queue, turn) = {queue[j].id : j \in DOMAIN queue}
    BY <1>2 DEF Queued
  <2> QED
    BY <1>2, <2>4, <2>5, <2>6, <2>7
<1> QED
  BY <1>1, <1>2

\* Once a turn is open, a poll past its event has to wait for the next one.
LEMMA OpenTurnHoldsBack ==
    ASSUME NEW queue, NEW turn \in Event, NEW after \in Nat, after >= turn.sequence
    PROVE  Deliverable(after, queue, turn) = {}
<1>1. turn # None /\ turn.sequence \in Nat
  BY NoneIsNoEvent DEF Event
<1> QED
  BY <1>1 DEF Deliverable

PollsTyped ==
    DOMAIN polls \subseteq 1..spent["polls"] /\ polls \in [DOMAIN polls -> Nat]

\* What wakePolls leaves: the queue as it was, and nobody waiting for an event
\* the queue could give.
LEMMA WakeWakes ==
    ASSUME NEW queue \in Seq(Event), NEW turn \in Event \cup {None},
           PollsTyped, UNCHANGED spent, spent["polls"] \in Nat,
           Wake(queue, turn)
    PROVE  /\ PollsTyped'
           /\ inFlight' \in Event \cup {None}
           /\ Queued(queue, inFlight') = Queued(queue, turn)
           /\ \A i \in DOMAIN polls' : Deliverable(polls'[i], queue, inFlight') = {}
<1> DEFINE ready == {i \in DOMAIN polls : Deliverable(polls[i], queue, turn) # {}}
<1>1. CASE ready = {}
  BY <1>1 DEF Wake, PollsTyped
<1>2. CASE ready # {}
  <2>1. ready \in SUBSET Nat
    BY DEF PollsTyped
  <2>2. Min(ready) \in ready
    BY <1>2, <2>1, LeastOf
  <2>3. PICK e \in Deliverable(polls[Min(ready)], queue, turn) :
            /\ inFlight' = e
            /\ polls' = [i \in {j \in DOMAIN polls : polls[j] >= e.sequence} |-> polls[i]]
    BY <1>2 DEF Wake
  <2>4. e \in Event /\ Queued(queue, e) = Queued(queue, turn)
    BY <2>3, DeliverableIsQueued
  <2>5. PollsTyped'
    BY <2>3 DEF PollsTyped
  <2>6. ASSUME NEW i \in DOMAIN polls'
        PROVE  Deliverable(polls'[i], queue, inFlight') = {}
    <3>1. polls'[i] \in Nat /\ polls'[i] >= e.sequence
      BY <2>3 DEF PollsTyped
    <3> QED
      BY <2>3, <2>4, <3>1, OpenTurnHoldsBack
  <2> QED
    BY <2>3, <2>4, <2>5, <2>6
<1> QED
  BY <1>1, <1>2

\* Only the entry with that identifier leaves.
LEMMA WithoutKeepsTheRest ==
    ASSUME NEW queue \in Seq(Event), NEW id
    PROVE  /\ Without(queue, id) \in Seq(Event)
           /\ \A i \in DOMAIN Without(queue, id) :
                  \E j \in DOMAIN queue : Without(queue, id)[i] = queue[j]
           /\ \A j \in DOMAIN queue :
                  queue[j].id = id
                    \/ \E i \in DOMAIN Without(queue, id) : Without(queue, id)[i] = queue[j]
<1> DEFINE at == {i \in DOMAIN queue : queue[i].id = id}
           n  == Len(queue)
           k  == Min(at)
           shorter == [i \in 1..(n - 1) |-> queue[IF i < k THEN i ELSE i + 1]]
<1>1. CASE at = {}
  BY <1>1 DEF Without
<1>2. CASE at # {}
  <2>1. at \in SUBSET Nat
    OBVIOUS
  <2>2. k \in at
    BY <1>2, <2>1, LeastOf
  <2>3. n \in Nat /\ DOMAIN queue = 1..n /\ k \in 1..n /\ queue[k].id = id
    BY <2>2
  <2> HIDE DEF at, k, n
  <2>4. \A i \in 1..(n - 1) : (IF i < k THEN i ELSE i + 1) \in 1..n
    BY <2>3
  <2>5. \A i \in 1..(n - 1) : queue[IF i < k THEN i ELSE i + 1] \in Event
    BY <2>3, <2>4
  <2>6. shorter \in [1..(n - 1) -> Event] /\ n - 1 \in Nat
    BY <2>3, <2>5
  <2>7. shorter \in Seq(Event) /\ DOMAIN shorter = 1..(n - 1)
    BY <2>6
  <2>8. ASSUME NEW j \in 1..n, queue[j].id # id
        PROVE  \E i \in 1..(n - 1) : shorter[i] = queue[j]
    <3>1. j # k
      BY <2>3, <2>8
    <3>2. CASE j < k
      <4>1. j \in 1..(n - 1) /\ shorter[j] = queue[j]
        BY <2>3, <3>2
      <4> QED
        BY <4>1
    <3>3. CASE j > k
      <4>1. j - 1 \in 1..(n - 1) /\ ~(j - 1 < k) /\ (j - 1) + 1 = j
        BY <2>3, <3>3
      <4>2. shorter[j - 1] = queue[j]
        BY <4>1
      <4> QED
        BY <4>1, <4>2
    <3> QED
      BY <2>3, <3>1, <3>2, <3>3
  <2>9. Without(queue, id) = shorter
    BY <1>2 DEF Without, at, k, n
  <2>10. \A i \in 1..(n - 1) : \E j \in DOMAIN queue : shorter[i] = queue[j]
    BY <2>3, <2>4
  <2> HIDE DEF shorter
  <2> QED
    BY <2>3, <2>7, <2>8, <2>9, <2>10
<1> QED
  BY <1>1, <1>2

-----------------------------------------------------------------------------
(* What the running entry has handed the store.                            *)

Carried ==
    offered # Nothing =>
        /\ Head(chain).op \in {"input", "connected", "disconnected"} => offered \in Event
        /\ Head(chain).op \in {"connected", "disconnected"} =>
               offered.type \in {"browser.connected", "browser.disconnected"}
        /\ Head(chain).op \in {"response", "report"} => offered \in Response

LEMMA JoinKeepsCarried ==
    ASSUME JournalInv, Carried, UNCHANGED offered,
           chain' = chain \/ \E entry \in Entry : chain' = Append(chain, entry)
    PROVE  Carried'
<1>1. chain \in Seq(Entry) /\ (offered # Nothing => chain # <<>>)
  BY DEF JournalInv, JournalTypeOK, Held
<1>2. ASSUME NEW entry \in Entry, chain # <<>>
      PROVE  Head(Append(chain, entry)) = Head(chain)
  BY <1>1, <1>2
<1>3. offered # Nothing => Head(chain') = Head(chain)
  BY <1>1, <1>2
<1> QED
  BY <1>3 DEF Carried

LEMMA LeaveKeepsCarried ==
    ASSUME Leave
    PROVE  Carried'
BY DEF Leave, Carried

LEMMA BeginKeepsCarried ==
    ASSUME JournalInv, Carried, BeginInput \/ BeginConnection \/ BeginResponse
    PROVE  Carried'
<1> DEFINE entry == Head(chain)
<1>1. chain # <<>> /\ entry \in Entry
  BY LeaveChain DEF JournalInv, JournalTypeOK, BeginInput, BeginConnection,
     BeginResponse, Running
<1>2. \/ entry.op = "input" \/ entry.op \in {"connected", "disconnected"}
      \/ entry.op = "response"
  BY DEF BeginInput, BeginConnection, BeginResponse, Running
<1>3. CASE BeginInput /\ ~Leave
  <2>1. /\ entry.op = "input" /\ UNCHANGED chain /\ drawn + 1 \in EventIds
        /\ offered' = NewEvent(entry.type)
    BY <1>3 DEF BeginInput, Running, Draw
  <2>2. entry.type \in EventTypes
    BY <1>1, <2>1, EntryFields, ServerAssumption
  <2>3. offered' \in Event
    BY <2>1, <2>2, NewEventType DEF JournalInv
  <2> QED
    BY <2>1, <2>3 DEF Carried
<1>4. CASE BeginConnection /\ ~Leave
  <2>1. PICK type \in {"browser.connected", "browser.disconnected"} :
            /\ UNCHANGED chain /\ drawn + 1 \in EventIds
            /\ offered' = NewEvent(type)
    BY <1>4 DEF BeginConnection, Draw
  <2>2. entry.op \in {"connected", "disconnected"}
    BY <1>4 DEF BeginConnection, Running
  <2>3. offered' \in Event /\ offered'.type = type
    BY <2>1, NewEventType, ServerAssumption DEF JournalInv, NewEvent
  <2> QED
    BY <2>1, <2>2, <2>3 DEF Carried
<1>5. CASE BeginResponse /\ ~Leave
  <2>1. entry.op = "response" /\ UNCHANGED chain /\ offered' = entry.record
    BY <1>5 DEF BeginResponse, Running
  <2>2. offered' \in Response
    BY <1>1, <2>1, EntryFields
  <2> QED
    BY <2>1, <2>2 DEF Carried
<1> QED
  BY <1>3, <1>4, <1>5, LeaveKeepsCarried

LEMMA ReportKeepsCarried ==
    ASSUME JournalInv, chain # <<>>, drawn + 1 \in EventIds,
           NEW answers \in EventIds \cup {ClosingId}, NEW landed \in BOOLEAN,
           Report(answers, landed)
    PROVE  Carried'
<1> DEFINE entry == [op |-> "report", landed |-> landed]
<1>1. entry \in Entry /\ entry.op = "report"
  BY DEF Entry
<1>2. Tail(chain) \in Seq(Entry)
  BY LeaveChain DEF JournalInv, JournalTypeOK
<1>3. Head(<<entry>> \o Tail(chain)) = entry
  <2> HIDE DEF entry
  <2> QED
    BY <1>1, <1>2
<1>4. Head(chain').op = "report"
  BY <1>1, <1>3 DEF Report
<1>5. offered' \in Response
  BY NewReportType DEF Report
<1> QED
  BY <1>4, <1>5 DEF Carried

LEMMA FinishCommitKeepsCarried ==
    ASSUME JournalInv, FinishCommit
    PROVE  Carried'
<1>1. chain # <<>> /\ offered \in Record
  BY JournaledFacts DEF FinishCommit
<1>2. offered.id \in EventIds \cup {ClosingId}
  BY <1>1, ServerAssumption DEF FinishCommit, Record, Event, Response
<1>3. CASE Draw /\ Report(drawn + 1, FALSE)
  BY <1>1, <1>3, ReportKeepsCarried DEF Draw
<1>4. CASE Draw /\ Report(offered.id, TRUE)
  BY <1>1, <1>2, <1>4, ReportKeepsCarried DEF Draw
<1> QED
  BY <1>3, <1>4, LeaveKeepsCarried DEF FinishCommit

LEMMA CarriedInductive == JournalInv /\ Carried /\ [Next]_vars => Carried'
<1> SUFFICES ASSUME JournalInv, Carried, [Next]_vars PROVE Carried'
  OBVIOUS
<1>1. CASE Serve
  <2>1. CASE \/ AppendRefused \/ AppendThrows \/ FinishInput \/ FinishReport
             \/ FinishConnected \/ FinishDisconnected \/ FinishResponse
             \/ FinishDuplicate
    BY <2>1, LeaveKeepsCarried DEF AppendRefused, AppendThrows, Abandon, FinishInput,
       FinishReport, FinishConnected, FinishDisconnected, FinishResponse,
       FinishDuplicate
  <2> QED
    BY <1>1, <2>1, BeginKeepsCarried, FinishCommitKeepsCarried DEF Serve
<1>2. CASE Browser
  BY <1>2, BrowserJoins, JoinKeepsCarried
<1>3. CASE \E r \in Answers, c \in Choices \cup {NoChoice} : Respond(r, c)
  BY <1>3, RespondJoins, JoinKeepsCarried
<1>4. CASE UNCHANGED <<chain, offered>>
  BY <1>4, JoinKeepsCarried
<1>5. CASE \/ Agent /\ ~\E r \in Answers, c \in Choices \cup {NoChoice} : Respond(r, c)
           \/ EditWorkspace \/ GraceExpires \/ BeginLimitFailure \/ Transition
           \/ Removal \/ UNCHANGED vars
  BY <1>4, <1>5 DEF Agent, Poll, PollEnds, Stop, BeginStop, EditWorkspace, GraceExpires,
     BeginLimitFailure, Transition, Quiesced, RecordEnd, Recover, RecoverThrows,
     Removal, Remove, RemoveThrows, vars, journalVars
<1> QED
  BY <1>1, <1>2, <1>3, <1>5 DEF Next

-----------------------------------------------------------------------------
(* Polls and the turn they are given.                                      *)

SpentTyped == spent \in [Spendings -> Nat]

LEMMA SpentMoves ==
    ASSUME [Next]_vars
    PROVE  UNCHANGED spent \/ \E kind \in Spendings : Spend(kind)
<1>1. CASE Browser \/ Agent \/ EditWorkspace
  BY <1>1 DEF Browser, Upgrade, OversizedFrame, Close, Frame, Agent, Poll, PollEnds,
     Respond, Stop, EditWorkspace, Spendings
<1>2. CASE Serve
  BY <1>2 DEF Serve, BeginInput, BeginConnection, BeginResponse, AppendRefused,
     AppendThrows, FinishInput, FinishCommit, FinishReport, FinishConnected,
     FinishDisconnected, FinishResponse, FinishDuplicate, Spendings
<1>3. CASE \/ GraceExpires \/ BeginLimitFailure \/ Transition \/ Removal
           \/ UNCHANGED vars
  BY <1>3 DEF GraceExpires, BeginLimitFailure, Transition, Quiesced, RecordEnd,
     Recover, RecoverThrows, Removal, Remove, RemoveThrows, vars, Spendings
<1> QED
  BY <1>1, <1>2, <1>3 DEF Next

LEMMA SpentGrows ==
    ASSUME SpentTyped, [Next]_vars
    PROVE  SpentTyped' /\ \A kind \in Spendings : spent'[kind] >= spent[kind]
<1>1. ASSUME NEW kind \in Spendings, Spend(kind)
      PROVE  SpentTyped' /\ \A k \in Spendings : spent'[k] >= spent[k]
  BY <1>1 DEF Spend, SpentTyped
<1>2. CASE UNCHANGED spent
  BY <1>2 DEF SpentTyped
<1> QED
  BY <1>1, <1>2, SpentMoves

QueueTyped ==
    /\ pending \in Seq(Event)
    /\ \A i \in DOMAIN pending : pending[i].type \in Actionable
    /\ inFlight \in Event \cup {None}
    /\ PollsTyped

QueueInv == QueueTyped /\ NoMissedWakeup

\* Steps that leave the queue alone, and at most let some polls go.
FewerPolls ==
    /\ UNCHANGED <<pending, inFlight>>
    /\ DOMAIN polls' \subseteq DOMAIN polls
    /\ polls' \in [DOMAIN polls' -> Nat]
    /\ \A i \in DOMAIN polls' : polls'[i] = polls[i]

LEMMA FewerPollsKeepQueue ==
    ASSUME SpentTyped, SpentTyped', QueueInv, FewerPolls,
           spent'["polls"] >= spent["polls"]
    PROVE  QueueInv'
<1>1. spent["polls"] \in Nat /\ spent'["polls"] \in Nat
  BY DEF SpentTyped, Spendings
<1>2. PollsTyped'
  BY <1>1 DEF QueueInv, QueueTyped, PollsTyped, FewerPolls
<1>3. NoMissedWakeup'
  BY DEF QueueInv, NoMissedWakeup, FewerPolls
<1> QED
  BY <1>2, <1>3 DEF QueueInv, QueueTyped, FewerPolls

LEMMA UntouchedPolls ==
    ASSUME QueueInv, UNCHANGED <<pending, inFlight>>, polls' \in {polls, <<>>}
    PROVE  FewerPolls
<1>1. CASE polls' = polls
  BY <1>1 DEF FewerPolls, QueueInv, QueueTyped, PollsTyped
<1>2. CASE polls' = <<>>
  <2>1. DOMAIN <<>> = {} /\ <<>> \in [DOMAIN <<>> -> Nat]
    OBVIOUS
  <2> QED
    BY <1>2, <2>1 DEF FewerPolls
<1> QED
  BY <1>1, <1>2

LEMMA PollKeepsQueue ==
    ASSUME SpentTyped, QueueInv, NEW after \in Afters, Poll(after)
    PROVE  QueueInv'
<1>1. /\ after \in Nat /\ spent["polls"] \in Nat
      /\ spent'["polls"] = spent["polls"] + 1 /\ pending' = pending
  BY ServerAssumption DEF Poll, Spend, SpentTyped, Spendings
<1>2. /\ pending \in Seq(Event) /\ inFlight \in Event \cup {None} /\ PollsTyped
      /\ \A i \in DOMAIN pending : pending[i].type \in Actionable
  BY DEF QueueInv, QueueTyped
<1>3. CASE Deliverable(after, pending, inFlight) # {}
  <2>1. inFlight' \in Deliverable(after, pending, inFlight) /\ polls' = polls
    BY <1>3 DEF Poll
  <2>2. /\ inFlight' \in Event
        /\ inFlight # None => inFlight' = inFlight
        /\ inFlight = None => \E i \in DOMAIN pending : inFlight' = pending[i]
    BY <1>2, <2>1, DeliverableIsQueued
  <2>3. NoMissedWakeup'
    <3>1. CASE inFlight # None
      BY <1>1, <2>1, <2>2, <3>1 DEF QueueInv, NoMissedWakeup
    <3>2. CASE inFlight = None
      <4>1. PICK k \in DOMAIN pending : inFlight' = pending[k]
        BY <2>2, <3>2
      <4>2. ASSUME NEW i \in DOMAIN polls
            PROVE  Deliverable(polls[i], pending, inFlight') = {}
        <5>1. ~(pending[k].sequence > polls[i])
          BY <3>2, <4>1 DEF QueueInv, NoMissedWakeup, Deliverable
        <5>2. pending[k].sequence \in Nat /\ polls[i] \in Nat
          BY <1>2, <2>2, <4>1 DEF PollsTyped, Event
        <5> QED
          BY <2>2, <4>1, <5>1, <5>2, OpenTurnHoldsBack
      <4> QED
        BY <1>1, <2>1, <4>2 DEF NoMissedWakeup
    <3> QED
      BY <3>1, <3>2
  <2>4. PollsTyped'
    BY <1>1, <1>2, <2>1 DEF PollsTyped
  <2> QED
    BY <1>1, <1>2, <2>2, <2>3, <2>4 DEF QueueInv, QueueTyped
<1>4. CASE Deliverable(after, pending, inFlight) = {}
  <2>1. inFlight' = inFlight /\ polls' \in {polls, Holding(after)}
    BY <1>4 DEF Poll
  <2>2. CASE polls' = polls
    <3>1. PollsTyped'
      BY <1>1, <1>2, <2>2 DEF PollsTyped
    <3> QED
      BY <1>1, <2>1, <2>2, <3>1 DEF QueueInv, QueueTyped, NoMissedWakeup
  <2>3. CASE polls' = Holding(after)
    <3>1. polls' = [i \in DOMAIN polls \cup {spent["polls"] + 1} |->
                        IF i = spent["polls"] + 1 THEN after ELSE polls[i]]
      BY <2>3 DEF Holding
    <3>2. PollsTyped'
      BY <1>1, <1>2, <3>1 DEF PollsTyped
    <3>3. \A i \in DOMAIN polls' :
              \/ polls'[i] = after
              \/ i \in DOMAIN polls /\ polls'[i] = polls[i]
      BY <3>1
    <3>4. NoMissedWakeup'
      BY <1>1, <1>4, <2>1, <3>3 DEF QueueInv, NoMissedWakeup
    <3> QED
      BY <1>1, <2>1, <3>2, <3>4 DEF QueueInv, QueueTyped
  <2> QED
    BY <2>1, <2>2, <2>3
<1> QED
  BY <1>3, <1>4

LEMMA FinishInputKeepsQueue ==
    ASSUME JournalInv, Carried, SpentTyped, QueueInv, FinishInput
    PROVE  QueueInv'
<1>1. offered \in Event
  BY DEF FinishInput, Journaled, Awaiting, Carried
<1>2. pending' = IF offered.type \in Actionable THEN Append(pending, offered) ELSE pending
  BY DEF FinishInput
<1>3. /\ pending \in Seq(Event) /\ inFlight \in Event \cup {None} /\ PollsTyped
      /\ \A i \in DOMAIN pending : pending[i].type \in Actionable
  BY DEF QueueInv, QueueTyped
<1>4. pending' \in Seq(Event) /\ \A i \in DOMAIN pending' : pending'[i].type \in Actionable
  <2>1. CASE offered.type \in Actionable
    <3>1. /\ Append(pending, offered) \in Seq(Event)
          /\ DOMAIN Append(pending, offered) = DOMAIN pending \cup {Len(pending) + 1}
          /\ \A i \in DOMAIN pending : Append(pending, offered)[i] = pending[i]
          /\ Append(pending, offered)[Len(pending) + 1] = offered
      BY <1>1, <1>3, AppendElements
    <3> QED
      BY <1>2, <1>3, <2>1, <3>1
  <2>2. CASE offered.type \notin Actionable
    BY <1>2, <1>3, <2>2
  <2> QED
    BY <2>1, <2>2
<1>5. UNCHANGED spent /\ spent["polls"] \in Nat
  BY DEF FinishInput, SpentTyped, Spendings
<1>6. CASE offered.type \in {"filter.query", "layout.save"}
  <2>1. pending' = pending /\ UNCHANGED <<inFlight, polls>>
    BY <1>2, <1>6 DEF FinishInput, Actionable
  <2> QED
    BY <1>5, <2>1 DEF QueueInv, QueueTyped, PollsTyped, NoMissedWakeup
<1>7. CASE offered.type \notin {"filter.query", "layout.save"}
  <2>1. Wake(pending', inFlight)
    BY <1>7 DEF FinishInput
  <2> QED
    BY <1>3, <1>4, <1>5, <2>1, WakeWakes DEF QueueInv, QueueTyped, NoMissedWakeup
<1> QED
  BY <1>6, <1>7

LEMMA FinishResponseKeepsQueue ==
    ASSUME SpentTyped, QueueInv, FinishResponse
    PROVE  QueueInv'
<1>1. /\ pending \in Seq(Event) /\ PollsTyped
      /\ \A i \in DOMAIN pending : pending[i].type \in Actionable
  BY DEF QueueInv, QueueTyped
<1>2. UNCHANGED spent /\ spent["polls"] \in Nat
  BY DEF FinishResponse, SpentTyped, Spendings
<1>3. CASE UNCHANGED <<pending, inFlight, polls>>
  BY <1>2, <1>3 DEF QueueInv, QueueTyped, PollsTyped, NoMissedWakeup
<1>4. CASE pending' = Without(pending, offered.answers) /\ Wake(pending', None)
  <2>1. /\ pending' \in Seq(Event)
        /\ \A i \in DOMAIN pending' : \E j \in DOMAIN pending : pending'[i] = pending[j]
    BY <1>1, <1>4, WithoutKeepsTheRest
  <2>2. \A i \in DOMAIN pending' : pending'[i].type \in Actionable
    BY <1>1, <2>1
  <2> QED
    BY <1>1, <1>2, <1>4, <2>1, <2>2, WakeWakes DEF QueueInv, QueueTyped, NoMissedWakeup
<1> QED
  BY <1>3, <1>4 DEF FinishResponse, CompleteTurn

LEMMA QueueInductive ==
    JournalInv /\ Carried /\ SpentTyped /\ QueueInv /\ [Next]_vars => QueueInv'
<1> SUFFICES ASSUME JournalInv, Carried, SpentTyped, QueueInv, [Next]_vars
             PROVE  QueueInv'
  OBVIOUS
<1>1. SpentTyped' /\ spent'["polls"] >= spent["polls"]
  BY SpentGrows DEF Spendings
<1>2. CASE UNCHANGED <<pending, inFlight>> /\ polls' \in {polls, <<>>}
  BY <1>1, <1>2, UntouchedPolls, FewerPollsKeepQueue
<1>3. CASE \E i \in DOMAIN polls : PollEnds(i)
  <2>1. PICK i \in DOMAIN polls : PollEnds(i)
    BY <1>3
  <2>2. polls' = [j \in DOMAIN polls \ {i} |-> polls[j]] /\ UNCHANGED <<pending, inFlight>>
    BY <2>1 DEF PollEnds
  <2>3. FewerPolls
    BY <2>2 DEF FewerPolls, QueueInv, QueueTyped, PollsTyped
  <2> QED
    BY <1>1, <2>3, FewerPollsKeepQueue
<1>4. CASE Serve
  <2>1. CASE ~FinishInput /\ ~FinishResponse
    BY <1>2, <1>4, <2>1 DEF Serve, BeginInput, BeginConnection, BeginResponse,
       AppendRefused, AppendThrows, FinishCommit, FinishReport, FinishConnected,
       FinishDisconnected, FinishDuplicate, turnVars
  <2> QED
    BY <2>1, FinishInputKeepsQueue, FinishResponseKeepsQueue
<1>5. CASE Browser \/ EditWorkspace
  BY <1>2, <1>5 DEF Browser, Upgrade, OversizedFrame, Close, Frame, EditWorkspace, turnVars
<1>6. CASE \/ \E r \in Answers, c \in Choices \cup {NoChoice} : Respond(r, c)
           \/ \E reason \in Reasons : Stop(reason)
  BY <1>2, <1>6 DEF Respond, Stop, BeginStop, turnVars
<1>7. CASE \E after \in Afters : Poll(after)
  BY <1>7, PollKeepsQueue
<1>8. CASE GraceExpires \/ BeginLimitFailure \/ Transition \/ Removal \/ UNCHANGED vars
  BY <1>2, <1>8 DEF GraceExpires, BeginStop, BeginLimitFailure, Transition, Quiesced,
     RecordEnd, Recover, RecoverThrows, Continue, Removal, Remove, RemoveThrows,
     vars, turnVars
<1> QED
  BY <1>3, <1>4, <1>5, <1>6, <1>7, <1>8 DEF Next, Agent

-----------------------------------------------------------------------------
(* What the browsers and the agent were told, against the journal.         *)

TurnsTold ==
    /\ acknowledged \subseteq EventIdsIn(log) \ {ClosingId}
    /\ NoLostTurn
    /\ \A id \in answered : AnsweredInLog(id)

AnswersShown ==
    /\ shown \in [ResponseIds -> {0, 1}]
    /\ \A r \in ResponseIds : shown[r] = 1 => r \in ResponseIdsIn(log)

LEMMA GrownReadings ==
    ASSUME JournalInv, Extends
    PROVE  /\ EventsIn(log) \subseteq EventsIn(log')
           /\ EventIdsIn(log) \subseteq EventIdsIn(log')
           /\ ResponsesIn(log) \subseteq ResponsesIn(log')
           /\ ResponseIdsIn(log) \subseteq ResponseIdsIn(log')
           /\ \A e \in EventsIn(log') : e \in EventsIn(log) \/ e.id \notin EventIdsIn(log)
           /\ \A id : AnsweredInLog(id) => AnsweredInLog(id)'
<1>1. log \in Seq(Record)
  BY DEF JournalInv, JournalTypeOK
<1>2. CASE log' = log
  BY <1>2 DEF AnsweredInLog
<1>3. CASE \E r \in Record : Legal(log, r) /\ log' = Append(log, r)
  <2>1. PICK r \in Record : Legal(log, r) /\ log' = Append(log, r)
    BY <1>3
  <2>2. /\ EventsIn(log') = EventsIn(log) \cup (IF IsEvent(r) THEN {r} ELSE {})
        /\ ResponsesIn(log') = ResponsesIn(log) \cup (IF IsResponse(r) THEN {r} ELSE {})
    BY <1>1, <2>1, AppendReadings
  <2>3. IsEvent(r) => r.id \notin EventIdsIn(log)
    BY <2>1 DEF Legal, LegalEvent
  <2>4. \A id : AnsweredInLog(id) => AnsweredInLog(id)'
    BY <2>2 DEF AnsweredInLog
  <2> QED
    BY <2>2, <2>3, <2>4 DEF EventIdsIn, ResponseIdsIn
<1> QED
  BY <1>2, <1>3 DEF Extends

\* Steps that acknowledge nothing, and let an event leave the queue only once
\* it is answered.
LEMMA TurnsKept ==
    ASSUME JournalInv, TurnsTold, Extends, UNCHANGED acknowledged,
           \A id \in Queued(pending, inFlight) :
               id \in Queued(pending', inFlight') \/ AnsweredInLog(id)',
           \A id \in answered' : id \in answered \/ AnsweredInLog(id)'
    PROVE  TurnsTold'
<1>1. acknowledged' \subseteq EventIdsIn(log') \ {ClosingId}
  BY GrownReadings DEF TurnsTold
<1>2. \A id \in answered' : AnsweredInLog(id)'
  BY GrownReadings DEF TurnsTold
<1>3. NoLostTurn'
  <2> SUFFICES ASSUME NEW e \in EventsIn(log'), e.type \in Actionable, e.id \in acknowledged'
               PROVE  e.id \in Queued(pending', inFlight') \/ AnsweredInLog(e.id)'
    BY DEF NoLostTurn
  <2>1. e.id \in acknowledged /\ e.id \in EventIdsIn(log)
    BY DEF TurnsTold
  <2>2. e \in EventsIn(log)
    BY <2>1, GrownReadings
  <2>3. e.id \in Queued(pending, inFlight) \/ AnsweredInLog(e.id)
    BY <2>1, <2>2 DEF TurnsTold, NoLostTurn
  <2> QED
    BY <2>3, GrownReadings
<1> QED
  BY <1>1, <1>2, <1>3 DEF TurnsTold

LEMMA UntouchedTurns ==
    ASSUME JournalInv, TurnsTold, Extends,
           UNCHANGED <<pending, inFlight, answered, acknowledged>>
    PROVE  TurnsTold'
BY TurnsKept

LEMMA FinishInputKeepsTurns ==
    ASSUME JournalInv, Carried, SpentTyped, QueueInv, TurnsTold, FinishInput
    PROVE  TurnsTold'
<1>1. offered \in Event /\ offered.id # ClosingId /\ offered \in Record /\ IsEvent(offered)
  BY RecordKinds DEF FinishInput, Journaled, Awaiting, Carried, JournalInv, Held
<1>2. Extends /\ answered' = answered
  BY JournaledFacts DEF FinishInput
<1>3. /\ pending \in Seq(Event) /\ inFlight \in Event \cup {None} /\ PollsTyped
      /\ UNCHANGED spent /\ spent["polls"] \in Nat
  BY DEF QueueInv, QueueTyped, FinishInput, SpentTyped, Spendings
<1>4. pending' = IF offered.type \in Actionable THEN Append(pending, offered) ELSE pending
  BY DEF FinishInput
<1>5. CASE offered.type \in {"filter.query", "layout.save"}
  <2>1. UNCHANGED <<pending, inFlight, acknowledged>>
    BY <1>4, <1>5 DEF FinishInput, Actionable
  <2> QED
    BY <1>2, <2>1, UntouchedTurns
<1>6. CASE offered.type \notin {"filter.query", "layout.save"}
  <2>1. acknowledged' = acknowledged \cup {offered.id} /\ Wake(pending', inFlight)
    BY <1>6 DEF FinishInput
  <2>2. /\ pending' \in Seq(Event)
        /\ \A i \in DOMAIN pending : i \in DOMAIN pending' /\ pending'[i] = pending[i]
        /\ offered.type \in Actionable => \E i \in DOMAIN pending' : pending'[i] = offered
    <3>1. CASE offered.type \in Actionable
      <4>1. /\ Append(pending, offered) \in Seq(Event)
            /\ DOMAIN Append(pending, offered) = DOMAIN pending \cup {Len(pending) + 1}
            /\ \A i \in DOMAIN pending : Append(pending, offered)[i] = pending[i]
            /\ Append(pending, offered)[Len(pending) + 1] = offered
        BY <1>1, <1>3, AppendElements
      <4> QED
        BY <1>4, <3>1, <4>1
    <3>2. CASE offered.type \notin Actionable
      BY <1>3, <1>4, <3>2
    <3> QED
      BY <3>1, <3>2
  <2>3. Queued(pending', inFlight') = Queued(pending', inFlight)
    BY <1>3, <2>1, <2>2, WakeWakes
  <2>4. Queued(pending, inFlight) \subseteq Queued(pending', inFlight')
    BY <2>2, <2>3 DEF Queued
  <2>5. offered.type \in Actionable => offered.id \in Queued(pending', inFlight')
    BY <2>2, <2>3 DEF Queued
  <2>6. /\ EventsIn(log') = EventsIn(log) \cup {offered}
        /\ offered.id \notin EventIdsIn(log) /\ offered.id \in EventIdsIn(log')
    <3>1. log \in Seq(Record) /\ log' = Append(log, offered) /\ Legal(log, offered)
      BY DEF JournalInv, JournalTypeOK, FinishInput, Journaled, Confirmable
    <3>2. EventsIn(log') = EventsIn(log) \cup {offered}
      BY <1>1, <3>1, AppendReadings
    <3> QED
      BY <1>1, <3>1, <3>2 DEF Legal, LegalEvent, EventIdsIn
  <2>7. NoLostTurn'
    <3> SUFFICES ASSUME NEW e \in EventsIn(log'), e.type \in Actionable, e.id \in acknowledged'
                 PROVE  e.id \in Queued(pending', inFlight') \/ AnsweredInLog(e.id)'
      BY DEF NoLostTurn
    <3>1. CASE e = offered
      BY <2>5, <3>1
    <3>2. CASE e # offered
      <4>1. e \in EventsIn(log) /\ e.id \in EventIdsIn(log)
        BY <2>6, <3>2 DEF EventIdsIn
      <4>2. e.id \in acknowledged
        BY <2>1, <2>6, <4>1
      <4>3. e.id \in Queued(pending, inFlight) \/ AnsweredInLog(e.id)
        BY <4>1, <4>2 DEF TurnsTold, NoLostTurn
      <4> QED
        BY <1>2, <2>4, <4>3, GrownReadings
    <3> QED
      BY <3>1, <3>2
  <2>8. acknowledged' \subseteq EventIdsIn(log') \ {ClosingId}
    BY <1>1, <1>2, <2>1, <2>6, GrownReadings DEF TurnsTold
  <2>9. \A id \in answered' : AnsweredInLog(id)'
    BY <1>2, GrownReadings DEF TurnsTold
  <2> QED
    BY <2>7, <2>8, <2>9 DEF TurnsTold
<1> QED
  BY <1>5, <1>6

LEMMA FinishResponseKeepsTurns ==
    ASSUME JournalInv, Carried, SpentTyped, QueueInv, TurnsTold, FinishResponse
    PROVE  TurnsTold'
<1>1. offered \in Response /\ offered \in Record /\ IsResponse(offered)
  BY RecordKinds DEF FinishResponse, Journaled, Awaiting, Carried, Response, IsResponse
<1>2. Extends /\ acknowledged' = acknowledged
  BY JournaledFacts DEF FinishResponse
<1>3. /\ pending \in Seq(Event) /\ inFlight \in Event \cup {None} /\ PollsTyped
      /\ UNCHANGED spent /\ spent["polls"] \in Nat
  BY DEF QueueInv, QueueTyped, FinishResponse, SpentTyped, Spendings
<1>4. offered.type \in TurnCompleting =>
          \A id : id = offered.answers => AnsweredInLog(id)'
  <2>1. log \in Seq(Record) /\ log' = Append(log, offered)
    BY DEF JournalInv, JournalTypeOK, FinishResponse, Journaled
  <2>2. offered \in ResponsesIn(log')
    BY <1>1, <2>1, AppendReadings
  <2> QED
    BY <2>2 DEF AnsweredInLog
<1>5. \A id \in answered' : id \in answered \/ AnsweredInLog(id)'
  BY <1>4 DEF FinishResponse, MarkAnswered
<1>6. \A id \in Queued(pending, inFlight) :
          id \in Queued(pending', inFlight') \/ AnsweredInLog(id)'
  <2>1. CASE UNCHANGED <<pending, inFlight, polls>>
    BY <2>1
  <2>2. CASE /\ offered.type \in TurnCompleting /\ inFlight.id = offered.answers
             /\ pending' = Without(pending, offered.answers) /\ Wake(pending', None)
    <3>1. /\ pending' \in Seq(Event)
          /\ \A j \in DOMAIN pending :
                 \/ pending[j].id = offered.answers
                 \/ \E i \in DOMAIN pending' : pending'[i] = pending[j]
      BY <1>3, <2>2, WithoutKeepsTheRest
    <3>2. Queued(pending', inFlight') = Queued(pending', None)
      BY <1>3, <2>2, <3>1, WakeWakes
    <3>3. Queued(pending, inFlight) \subseteq Queued(pending', inFlight') \cup {offered.answers}
      BY <2>2, <3>1, <3>2 DEF Queued
    <3> QED
      BY <1>4, <2>2, <3>3
  <2> QED
    BY <2>1, <2>2 DEF FinishResponse, CompleteTurn
<1> QED
  BY <1>2, <1>5, <1>6, TurnsKept

LEMMA PollKeepsTurns ==
    ASSUME JournalInv, QueueInv, TurnsTold, NEW after \in Afters, Poll(after)
    PROVE  TurnsTold'
<1>1. UNCHANGED <<log, pending, answered, acknowledged>>
  BY DEF Poll, journalVars, toldVars
<1>2. Queued(pending, inFlight') = Queued(pending, inFlight)
  BY DeliverableIsQueued DEF Poll, QueueInv, QueueTyped
<1> QED
  BY <1>1, <1>2, TurnsKept DEF Extends

LEMMA ServeExtends ==
    ASSUME JournalInv, Serve
    PROVE  Extends
<1>1. CASE \/ BeginInput \/ BeginConnection \/ BeginResponse \/ AppendRefused
           \/ FinishDuplicate
  BY <1>1 DEF BeginInput, BeginConnection, BeginResponse, AppendRefused,
     FinishDuplicate, Extends
<1>2. CASE AppendThrows
  <2>1. CASE log' = log
    BY <2>1 DEF Extends
  <2>2. CASE log' # log
    BY <1>2, <2>2, OfferedExtends DEF AppendThrows
  <2> QED
    BY <2>1, <2>2
<1>3. CASE \E op : Journaled(op)
  BY <1>3, JournaledFacts
<1> QED
  BY <1>1, <1>2, <1>3 DEF Serve, FinishInput, FinishCommit, FinishReport,
     FinishConnected, FinishDisconnected, FinishResponse

LEMMA NextExtends ==
    ASSUME JournalInv, [Next]_vars
    PROVE  Extends
<1>1. CASE Browser \/ Agent \/ EditWorkspace
  BY <1>1 DEF Browser, Upgrade, OversizedFrame, Close, Frame, Agent, Poll, PollEnds,
     Respond, Stop, BeginStop, EditWorkspace, journalVars, Extends
<1>2. CASE Transition
  BY <1>2, RecordEndExtends DEF Transition, Quiesced, Recover, RecoverThrows,
     journalVars, Extends
<1>3. CASE GraceExpires \/ BeginLimitFailure \/ Removal \/ UNCHANGED vars
  BY <1>3 DEF GraceExpires, BeginStop, BeginLimitFailure, Removal, Remove,
     RemoveThrows, vars, journalVars, Extends
<1> QED
  BY <1>1, <1>2, <1>3, ServeExtends DEF Next

LEMMA TurnsInductive ==
    JournalInv /\ Carried /\ SpentTyped /\ QueueInv /\ TurnsTold /\ [Next]_vars
        => TurnsTold'
<1> SUFFICES ASSUME JournalInv, Carried, SpentTyped, QueueInv, TurnsTold, [Next]_vars
             PROVE  TurnsTold'
  OBVIOUS
<1>1. CASE UNCHANGED <<pending, inFlight, answered, acknowledged>>
  BY <1>1, NextExtends, UntouchedTurns
<1>2. CASE Serve
  <2>1. CASE ~FinishInput /\ ~FinishResponse
    BY <1>1, <1>2, <2>1 DEF Serve, BeginInput, BeginConnection, BeginResponse,
       AppendRefused, AppendThrows, FinishCommit, FinishReport, FinishConnected,
       FinishDisconnected, FinishDuplicate, turnVars, toldVars
  <2> QED
    BY <2>1, FinishInputKeepsTurns, FinishResponseKeepsTurns
<1>3. CASE \E after \in Afters : Poll(after)
  BY <1>3, PollKeepsTurns
<1>4. CASE \/ Browser \/ EditWorkspace
           \/ Agent /\ ~\E after \in Afters : Poll(after)
  BY <1>1, <1>4 DEF Browser, Upgrade, OversizedFrame, Close, Frame, EditWorkspace,
     Agent, PollEnds, Respond, Stop, BeginStop, turnVars, toldVars
<1>5. CASE GraceExpires \/ BeginLimitFailure \/ Transition \/ Removal \/ UNCHANGED vars
  BY <1>1, <1>5 DEF GraceExpires, BeginStop, BeginLimitFailure, Transition, Quiesced,
     RecordEnd, Recover, RecoverThrows, Removal, Remove, RemoveThrows, vars,
     turnVars, toldVars
<1> QED
  BY <1>2, <1>3, <1>4, <1>5 DEF Next

\* A response that has just been journaled was not in the journal before.
LEMMA ShowingKeepsAnswers ==
    ASSUME JournalInv, Carried, AnswersShown, FinishReport \/ FinishResponse
    PROVE  AnswersShown'
<1>1. offered \in Response /\ offered \in Record /\ ~IsEvent(offered) /\ Extends
  BY RecordKinds, JournaledFacts
     DEF FinishReport, FinishResponse, Journaled, Awaiting, Carried
<1>2. /\ log \in Seq(Record) /\ log' = Append(log, offered)
      /\ offered.id \notin ResponseIdsIn(log)
  BY <1>1 DEF JournalInv, JournalTypeOK, FinishReport, FinishResponse, Journaled,
     Confirmable, Legal, LegalResponse
<1>3. ResponseIdsIn(log') = ResponseIdsIn(log) \cup {offered.id}
  BY <1>1, <1>2, AppendSets
<1>4. shown' = [shown EXCEPT ![offered.id] = @ + 1]
  BY DEF FinishReport, FinishResponse
<1>5. offered.id \in ResponseIds
  BY <1>1 DEF Response
<1>6. shown[offered.id] = 0
  BY <1>2, <1>5 DEF AnswersShown
<1> QED
  BY <1>3, <1>4, <1>5, <1>6 DEF AnswersShown

LEMMA AnswersInductive ==
    JournalInv /\ Carried /\ AnswersShown /\ [Next]_vars => AnswersShown'
<1> SUFFICES ASSUME JournalInv, Carried, AnswersShown, [Next]_vars
             PROVE  AnswersShown'
  OBVIOUS
<1>1. CASE UNCHANGED shown
  BY <1>1, NextExtends, GrownReadings DEF AnswersShown
<1>2. CASE ~FinishReport /\ ~FinishResponse
  <2>1. CASE Serve
    BY <1>1, <1>2, <2>1 DEF Serve, BeginInput, BeginConnection, BeginResponse,
       AppendRefused, AppendThrows, FinishInput, FinishCommit, FinishConnected,
       FinishDisconnected, FinishDuplicate, toldVars
  <2>2. CASE Browser \/ Agent \/ EditWorkspace
    BY <1>1, <2>2 DEF Browser, Upgrade, OversizedFrame, Close, Frame, EditWorkspace,
       Agent, Poll, PollEnds, Respond, Stop, BeginStop, toldVars
  <2>3. CASE GraceExpires \/ BeginLimitFailure \/ Transition \/ Removal \/ UNCHANGED vars
    BY <1>1, <2>3 DEF GraceExpires, BeginStop, BeginLimitFailure, Transition, Quiesced,
       RecordEnd, Recover, RecoverThrows, Removal, Remove, RemoveThrows, vars, toldVars
  <2> QED
    BY <2>1, <2>2, <2>3 DEF Next
<1> QED
  BY <1>2, ShowingKeepsAnswers

-----------------------------------------------------------------------------
(* The open question.                                                      *)

Untroubled == lifecycle = "running" /\ spent["faults"] = 0

PassedBy(i) ==
    \E j \in DOMAIN log : j > i /\ IsResponse(log[j]) /\ log[j].type = "choice.present"

QuestionInv ==
    Untroubled =>
        /\ EndsIn(log) # {} => choicesClosed /\ pendingChoice = NoChoice
        /\ pendingChoice # NoChoice =>
               \A i \in DOMAIN log : AsksPast(log[i]) => PassedBy(i)

LEMMA StaysUntroubled ==
    ASSUME SpentTyped, EndInv, [Next]_vars, Untroubled'
    PROVE  Untroubled
<1>1. spent["faults"] \in Nat /\ spent'["faults"] >= spent["faults"] /\ spent'["faults"] = 0
  BY SpentGrows DEF SpentTyped, Spendings, Untroubled
<1>2. lifecycle = "running"
  <2>1. lifecycle' = "running"
    BY DEF Untroubled
  <2>2. CASE Serve \/ Browser \/ EditWorkspace
    BY <2>1, <2>2 DEF Serve, BeginInput, BeginConnection, BeginResponse, AppendRefused,
       AppendThrows, FinishInput, FinishCommit, FinishReport, FinishConnected,
       FinishDisconnected, FinishResponse, FinishDuplicate, Browser, Upgrade,
       OversizedFrame, Close, Frame, EditWorkspace
  <2>3. CASE Agent \/ GraceExpires \/ UNCHANGED vars
    BY <2>1, <2>3 DEF Agent, Poll, PollEnds, Respond, Stop, BeginStop, GraceExpires, vars
  <2>4. CASE BeginLimitFailure \/ Transition \/ Removal
    BY <2>1, <2>4 DEF BeginLimitFailure, Transition, Quiesced, RecordEnd, Recover,
       RecoverThrows, Removal, Remove, RemoveThrows
  <2> QED
    BY <2>2, <2>3, <2>4 DEF Next
<1> QED
  BY <1>1, <1>2 DEF Untroubled

\* Steps that journal nothing the reviewer could pass the question by with.
LEMMA QuestionPassedOver ==
    ASSUME JournalInv, QuestionInv, Untroubled' => Untroubled,
           NEW r \in Record, ~AsksPast(r), log' \in {log, Append(log, r)},
           choicesClosed => choicesClosed', pendingChoice' \in {pendingChoice, NoChoice}
    PROVE  QuestionInv'
<1> SUFFICES ASSUME Untroubled', Untroubled PROVE QuestionInv'
  BY DEF QuestionInv
<1>1. log \in Seq(Record)
  BY DEF JournalInv, JournalTypeOK
<1>2. CASE log' = log
  BY <1>2 DEF QuestionInv, PassedBy
<1>3. CASE log' = Append(log, r)
  <2>1. /\ DOMAIN log' = DOMAIN log \cup {Len(log) + 1}
        /\ \A i \in DOMAIN log : log'[i] = log[i]
        /\ log'[Len(log) + 1] = r
    BY <1>1, <1>3, AppendElements
  <2>2. EndsIn(log') = EndsIn(log)
    BY <1>1, <1>3, AppendSets DEF AsksPast, IsEnd
  <2>3. \A i \in DOMAIN log' : AsksPast(log'[i]) => i \in DOMAIN log /\ AsksPast(log[i])
    BY <2>1
  <2>4. \A i \in DOMAIN log : PassedBy(i) => PassedBy(i)'
    BY <2>1 DEF PassedBy
  <2> QED
    BY <2>2, <2>3, <2>4 DEF QuestionInv
<1> QED
  BY <1>2, <1>3

LEMMA FinishInputKeepsQuestion ==
    ASSUME JournalInv, Carried, QuestionInv, Untroubled' => Untroubled, FinishInput
    PROVE  QuestionInv'
<1>1. offered \in Event /\ IsEvent(offered) /\ offered \in Record
  BY RecordKinds DEF FinishInput, Journaled, Awaiting, Carried
<1>2. log \in Seq(Record) /\ log' = Append(log, offered) /\ EndsIn(log) = {}
  BY <1>1 DEF JournalInv, JournalTypeOK, FinishInput, Journaled, Confirmable, Legal,
     LegalEvent
<1>3. RecordEvent(offered, Head(chain).choice)
  BY DEF FinishInput
<1>4. CASE AsksPast(offered)
  <2>1. pendingChoice' = NoChoice
    BY <1>3, <1>4 DEF RecordEvent, AsksPast
  <2>2. EndsIn(log') # {} => choicesClosed'
    <3>1. EndsIn(log') = IF IsEnd(offered) THEN {offered} ELSE {}
      BY <1>1, <1>2, AppendSets
    <3> QED
      BY <1>3, <3>1 DEF RecordEvent
  <2> QED
    BY <2>1, <2>2 DEF QuestionInv
<1>5. CASE ~AsksPast(offered)
  <2>1. choicesClosed => choicesClosed'
    BY <1>3 DEF RecordEvent
  <2>2. pendingChoice' \in {pendingChoice, NoChoice}
    BY <1>3 DEF RecordEvent
  <2> QED
    BY <1>1, <1>2, <1>5, <2>1, <2>2, QuestionPassedOver
<1> QED
  BY <1>4, <1>5

LEMMA FinishResponseKeepsQuestion ==
    ASSUME JournalInv, Carried, QuestionInv, Untroubled' => Untroubled, FinishResponse
    PROVE  QuestionInv'
<1>1. offered \in Response /\ ~IsEvent(offered) /\ offered \in Record
      /\ IsResponse(offered) /\ ~AsksPast(offered)
  BY RecordKinds DEF FinishResponse, Journaled, Awaiting, Carried, AsksPast, Response,
     IsResponse
<1>2. log \in Seq(Record) /\ log' = Append(log, offered)
  BY DEF JournalInv, JournalTypeOK, FinishResponse, Journaled
<1>3. RecordResponse(offered, Head(chain).choice)
  BY DEF FinishResponse
<1>4. CASE offered.type = "choice.present" /\ ~choicesClosed
  <2> SUFFICES ASSUME Untroubled' PROVE QuestionInv'
    BY DEF QuestionInv
  <2>1. EndsIn(log') = {}
    BY <1>1, <1>2, <1>4, AppendSets DEF QuestionInv
  <2>2. /\ DOMAIN log' = DOMAIN log \cup {Len(log) + 1}
        /\ \A i \in DOMAIN log : log'[i] = log[i] /\ i < Len(log) + 1
        /\ log'[Len(log) + 1] = offered
    BY <1>2, AppendElements, <1>1
  <2>3. \A i \in DOMAIN log' : AsksPast(log'[i]) => i < Len(log) + 1
    BY <1>1, <2>2
  <2>4. \A i \in DOMAIN log' : AsksPast(log'[i]) => PassedBy(i)'
    BY <1>1, <1>4, <2>2, <2>3 DEF PassedBy
  <2> QED
    BY <2>1, <2>4 DEF QuestionInv
<1>5. CASE ~(offered.type = "choice.present" /\ ~choicesClosed)
  BY <1>1, <1>2, <1>3, <1>5, QuestionPassedOver DEF RecordResponse
<1> QED
  BY <1>4, <1>5

LEMMA QuestionInductive ==
    JournalInv /\ EndInv /\ Carried /\ SpentTyped /\ QuestionInv /\ [Next]_vars
        => QuestionInv'
<1> SUFFICES ASSUME JournalInv, EndInv, Carried, SpentTyped, QuestionInv, [Next]_vars
             PROVE  QuestionInv'
  OBVIOUS
<1>1. Untroubled' => Untroubled
  BY StaysUntroubled
<1>2. CASE UNCHANGED <<log, pendingChoice, choicesClosed>>
  BY <1>1, <1>2 DEF QuestionInv, PassedBy
<1>3. CASE Serve
  <2>1. CASE BeginInput \/ BeginConnection \/ BeginResponse \/ AppendRefused \/ FinishDuplicate
    BY <1>2, <2>1 DEF BeginInput, BeginConnection, BeginResponse, AppendRefused,
       FinishDuplicate, choiceVars
  <2>2. CASE AppendThrows
    <3>1. spent["faults"] \in Nat /\ spent'["faults"] = spent["faults"] + 1
      BY <2>2 DEF AppendThrows, Spend, SpentTyped, Spendings
    <3>2. ~Untroubled'
      BY <3>1 DEF Untroubled
    <3> QED
      BY <3>2 DEF QuestionInv
  <2>3. CASE FinishCommit \/ FinishReport \/ FinishConnected \/ FinishDisconnected
    <3>1. UNCHANGED <<choicesClosed, pendingChoice>>
      BY <2>3 DEF FinishCommit, FinishReport, FinishConnected, FinishDisconnected, choiceVars
    <3>2. offered \in Record /\ log' = Append(log, offered)
      BY <2>3, JournaledFacts DEF FinishCommit, FinishReport, FinishConnected,
         FinishDisconnected, Journaled
    <3>3. ~AsksPast(offered)
      BY <2>3, RecordKinds DEF FinishCommit, FinishReport, FinishConnected,
         FinishDisconnected, Journaled, Awaiting, Carried, AsksPast
    <3> QED
      BY <1>1, <3>1, <3>2, <3>3, QuestionPassedOver
  <2> QED
    BY <1>1, <1>3, <2>1, <2>2, <2>3, FinishInputKeepsQuestion,
       FinishResponseKeepsQuestion DEF Serve
<1>4. CASE Transition
  <2>1. lifecycle' # "running"
    BY <1>4 DEF Transition, Quiesced, RecordEnd, Recover, RecoverThrows, EndInv
  <2> QED
    BY <2>1 DEF QuestionInv, Untroubled
<1>5. CASE Browser \/ Agent \/ EditWorkspace
  BY <1>2, <1>5 DEF Browser, Upgrade, OversizedFrame, Close, Frame, EditWorkspace,
     Agent, Poll, PollEnds, Respond, Stop, BeginStop, journalVars, choiceVars
<1>6. CASE GraceExpires \/ BeginLimitFailure \/ Removal \/ UNCHANGED vars
  BY <1>2, <1>6 DEF GraceExpires, BeginStop, BeginLimitFailure, Removal, Remove,
     RemoveThrows, vars, journalVars, choiceVars
<1> QED
  BY <1>3, <1>4, <1>5, <1>6 DEF Next

-----------------------------------------------------------------------------
(* Types of what the invariants above do not mention.                      *)

ChoiceTyped == pendingChoice \in Choices \cup {NoChoice} /\ choicesClosed \in BOOLEAN

BrowsersTyped ==
    /\ reserved \subseteq Sockets /\ registered \subseteq Sockets
    /\ connections \subseteq Sockets /\ informed \subseteq Sockets
    /\ grace \in BOOLEAN

StagesTyped ==
    /\ lifecycle \in {"running", "draining", "stopped"}
    /\ frozen \in LimitFreeze \cup {"none", "terminal-event"}
    /\ limit \in {"none", "draining", "terminating", "done"}
    /\ terminating \in {"none", "quiescing", "recording", "recovering", "done"}
    /\ stopping \in {"none", "terminating", "removing", "done"}
    /\ directory \in {"whole", "no journal", "unmarked", "gone"}

ToldTyped ==
    compiles \in BOOLEAN /\ standing \in BOOLEAN /\ accepted \subseteq ResponseIds

LEMMA EntryChoice ==
    ASSUME JournalInv, chain # <<>>
    PROVE  /\ Head(chain).op \in {"input", "response"} =>
                  Head(chain).choice \in Choices \cup {NoChoice}
           /\ Head(chain).op \in {"connected", "disconnected"} =>
                  Head(chain).socket \in Sockets
BY LeaveChain DEF JournalInv, JournalTypeOK, Entry

LEMMA ChoiceInductive == JournalInv /\ ChoiceTyped /\ [Next]_vars => ChoiceTyped'
<1> SUFFICES ASSUME JournalInv, ChoiceTyped, [Next]_vars PROVE ChoiceTyped'
  OBVIOUS
<1>1. CASE UNCHANGED choiceVars
  BY <1>1 DEF choiceVars, ChoiceTyped
<1>2. CASE FinishInput
  <2>1. pendingChoice' \in {pendingChoice, NoChoice}
    BY <1>2 DEF FinishInput, RecordEvent
  <2>2. choicesClosed' \in BOOLEAN
    BY <1>2 DEF FinishInput, RecordEvent
  <2> QED
    BY <2>1, <2>2 DEF ChoiceTyped
<1>3. CASE FinishResponse
  <2>1. chain # <<>> /\ Head(chain).op = "response"
    BY <1>3 DEF FinishResponse, Journaled, Awaiting
  <2>2. /\ pendingChoice' \in {pendingChoice, Head(chain).choice}
        /\ choicesClosed' = choicesClosed
    BY <1>3 DEF FinishResponse, RecordResponse
  <2> QED
    BY <2>1, <2>2, EntryChoice DEF ChoiceTyped
<1>4. CASE Serve
  BY <1>1, <1>2, <1>3, <1>4 DEF Serve, BeginInput, BeginConnection, BeginResponse,
     AppendRefused, AppendThrows, FinishCommit, FinishReport, FinishConnected,
     FinishDisconnected, FinishDuplicate
<1>5. CASE Browser \/ Agent \/ EditWorkspace
  BY <1>1, <1>5 DEF Browser, Upgrade, OversizedFrame, Close, Frame, EditWorkspace,
     Agent, Poll, PollEnds, Respond, Stop, BeginStop
<1>6. CASE GraceExpires \/ BeginLimitFailure \/ Transition \/ Removal \/ UNCHANGED vars
  BY <1>1, <1>6 DEF GraceExpires, BeginStop, BeginLimitFailure, Transition, Quiesced,
     RecordEnd, Recover, RecoverThrows, Removal, Remove, RemoveThrows, vars
<1> QED
  BY <1>4, <1>5, <1>6 DEF Next

LEMMA BrowsersInductive == JournalInv /\ BrowsersTyped /\ [Next]_vars => BrowsersTyped'
<1> SUFFICES ASSUME JournalInv, BrowsersTyped, [Next]_vars PROVE BrowsersTyped'
  OBVIOUS
<1>1. CASE UNCHANGED <<reserved, registered, connections, grace, informed>>
  BY <1>1 DEF BrowsersTyped
<1>2. CASE FinishConnected
  <2>1. PICK s \in Sockets :
            /\ registered' = registered \cup {s} /\ connections' = connections \cup {s}
            /\ reserved' = reserved \ {s} /\ grace' = FALSE
            /\ informed' \in {informed, informed \cup {s}}
    <3>1. chain # <<>> /\ Head(chain).op = "connected"
      BY <1>2 DEF FinishConnected, Journaled, Awaiting
    <3>2. Head(chain).socket \in Sockets
      BY <3>1, EntryChoice
    <3> QED
      BY <1>2, <3>2 DEF FinishConnected
  <2> QED
    BY <2>1 DEF BrowsersTyped
<1>3. CASE FinishReport
  BY <1>3 DEF FinishReport, OpenSockets, BrowsersTyped, socketVars
<1>4. CASE FinishCommit
  <2>1. UNCHANGED <<reserved, registered, connections, grace>>
    BY <1>4 DEF FinishCommit, socketVars
  <2>2. informed' \in {informed, {}}
    BY <1>4 DEF FinishCommit, Recompiled, modelVars
  <2> QED
    BY <2>1, <2>2 DEF BrowsersTyped
<1>5. CASE BeginConnection \/ AppendRefused \/ AppendThrows
  <2>1. reserved' \subseteq reserved /\ UNCHANGED <<registered, connections, grace, informed>>
    BY <1>5 DEF BeginConnection, AppendRefused, AppendThrows, Abandon,
       ReleaseUnadmitted, modelVars
  <2> QED
    BY <2>1 DEF BrowsersTyped
<1>6. CASE Serve
  BY <1>1, <1>2, <1>3, <1>4, <1>5, <1>6 DEF Serve, BeginInput, BeginResponse,
     FinishInput, FinishDisconnected, FinishResponse, FinishDuplicate, socketVars, modelVars
<1>7. CASE Browser
  <2>1. ASSUME NEW s \in Sockets, Upgrade(s) PROVE BrowsersTyped'
    BY <2>1 DEF Upgrade, BrowsersTyped, modelVars
  <2>2. ASSUME NEW s \in Sockets, OversizedFrame(s) PROVE BrowsersTyped'
    BY <1>1, <2>2 DEF OversizedFrame, modelVars
  <2>3. ASSUME NEW s \in Sockets, Close(s) PROVE BrowsersTyped'
    <3>1. UNCHANGED <<reserved, registered, informed>> /\ connections' \subseteq connections
      BY <2>3 DEF Close, modelVars
    <3>2. grace' \in BOOLEAN
      <4>1. CASE s \in registered
        BY <2>3, <4>1, Zenon DEF Close
      <4>2. CASE s \notin registered
        BY <2>3, <4>2 DEF Close, BrowsersTyped
      <4> QED
        BY <4>1, <4>2
    <3> QED
      BY <3>1, <3>2 DEF BrowsersTyped
  <2>4. ASSUME NEW s \in Sockets, NEW t \in InputTypes,
               NEW c \in Choices \cup {NoChoice}, NEW n \in Claims, Frame(s, t, c, n)
        PROVE  BrowsersTyped'
    BY <1>1, <2>4 DEF Frame, socketVars, modelVars
  <2> QED
    BY <1>7, <2>1, <2>2, <2>3, <2>4 DEF Browser
<1>8. ASSUME NEW reason, BeginStop(reason) PROVE BrowsersTyped'
  BY <1>8 DEF BeginStop, BrowsersTyped, modelVars
<1>9. CASE GraceExpires
  <2>1. CASE grace' = FALSE /\ UNCHANGED <<reserved, registered, connections, modelVars>>
    BY <2>1 DEF BrowsersTyped, modelVars
  <2> QED
    BY <1>8, <1>9, <2>1 DEF GraceExpires
<1>10. CASE Agent \/ EditWorkspace
  BY <1>1, <1>8, <1>10 DEF Agent, Poll, PollEnds, Respond, Stop, EditWorkspace,
     socketVars, modelVars
<1>11. CASE BeginLimitFailure \/ Transition \/ Removal \/ UNCHANGED vars
  BY <1>1, <1>11 DEF BeginLimitFailure, Transition, Quiesced, RecordEnd, Recover,
     RecoverThrows, Removal, Remove, RemoveThrows, vars, socketVars, modelVars
<1> QED
  BY <1>6, <1>7, <1>9, <1>10, <1>11 DEF Next

LEMMA FreezeIsTyped ==
    ASSUME StagesTyped, NEW reason \in LimitFreeze \cup {"terminal-event"}, Freeze(reason)
    PROVE  /\ frozen' \in LimitFreeze \cup {"none", "terminal-event"}
           /\ limit' \in {"none", "draining", "terminating", "done"}
BY DEF StagesTyped, Freeze, freezeVars

LEMMA StagesInductive == StagesTyped /\ [Next]_vars => StagesTyped'
<1> SUFFICES ASSUME StagesTyped, [Next]_vars PROVE StagesTyped'
  OBVIOUS
<1>1. ASSUME UNCHANGED <<lifecycle, terminating, stopping, directory>>,
             UNCHANGED freezeVars
                 \/ \E reason \in LimitFreeze \cup {"terminal-event"} : Freeze(reason)
      PROVE  StagesTyped'
  BY <1>1, FreezeIsTyped DEF StagesTyped, freezeVars
<1>2. CASE Serve
  <2>1. UNCHANGED <<lifecycle, terminating, stopping, directory>>
    BY <1>2 DEF Serve, BeginInput, BeginConnection, BeginResponse, AppendRefused,
       AppendThrows, FinishInput, FinishCommit, FinishReport, FinishConnected,
       FinishDisconnected, FinishResponse, FinishDuplicate, endVars
  <2>2. UNCHANGED freezeVars
            \/ \E reason \in LimitFreeze \cup {"terminal-event"} : Freeze(reason)
    BY <1>2 DEF Serve, BeginInput, BeginConnection, BeginResponse, AppendRefused,
       AppendThrows, FinishInput, FinishCommit, FinishReport, FinishConnected,
       FinishDisconnected, FinishResponse, FinishDuplicate, FreezeOf, LimitFreeze
  <2> QED
    BY <1>1, <2>1, <2>2
<1>3. CASE Browser
  <2>1. UNCHANGED <<lifecycle, terminating, stopping, directory>>
    BY <1>3 DEF Browser, Upgrade, OversizedFrame, Close, Frame, endVars
  <2>2. UNCHANGED freezeVars
            \/ \E reason \in LimitFreeze \cup {"terminal-event"} : Freeze(reason)
    BY <1>3 DEF Browser, Upgrade, OversizedFrame, Close, Frame, LimitFreeze
  <2> QED
    BY <1>1, <2>1, <2>2
<1>4. ASSUME NEW reason, BeginStop(reason) PROVE StagesTyped'
  <2>1. /\ frozen' \in LimitFreeze \cup {"none", "terminal-event"}
        /\ limit' \in {"none", "draining", "terminating", "done"}
    BY <1>4, FreezeIsTyped DEF BeginStop
  <2>2. terminating' \in {"none", "quiescing", "recording", "recovering", "done"}
    BY <1>4 DEF BeginStop, Terminate, StagesTyped
  <2> QED
    BY <1>4, <2>1, <2>2 DEF BeginStop, StagesTyped
<1>5. CASE GraceExpires
  <2>1. CASE UNCHANGED <<lifecycle, freezeVars, endVars>>
    BY <1>1, <2>1 DEF endVars
  <2> QED
    BY <1>4, <1>5, <2>1 DEF GraceExpires
<1>6. CASE Agent \/ EditWorkspace
  <2>1. CASE UNCHANGED <<lifecycle, freezeVars, endVars>>
    BY <1>1, <2>1 DEF endVars
  <2> QED
    BY <1>4, <1>6, <2>1 DEF Agent, Poll, PollEnds, Respond, Stop, EditWorkspace
<1>7. CASE BeginLimitFailure
  BY <1>7 DEF BeginLimitFailure, Terminate, StagesTyped
<1>8. CASE Transition
  BY <1>8 DEF Transition, Quiesced, RecordEnd, Recover, RecoverThrows, Continue,
     StagesTyped, freezeVars
<1>9. CASE Removal
  BY <1>9 DEF Removal, Remove, RemoveThrows, StagesTyped, freezeVars
<1>10. CASE UNCHANGED vars
  BY <1>1, <1>10 DEF vars, freezeVars, endVars
<1> QED
  BY <1>2, <1>3, <1>5, <1>6, <1>7, <1>8, <1>9, <1>10 DEF Next

LEMMA ToldInductive == JournalInv /\ Carried /\ ToldTyped /\ [Next]_vars => ToldTyped'
<1> SUFFICES ASSUME JournalInv, Carried, ToldTyped, [Next]_vars PROVE ToldTyped'
  OBVIOUS
<1>1. CASE UNCHANGED <<compiles, standing, accepted>>
  BY <1>1 DEF ToldTyped
<1>2. CASE FinishCommit
  BY <1>2 DEF FinishCommit, Recompiled, ToldTyped, modelVars, toldVars
<1>3. CASE FinishResponse \/ FinishDuplicate
  <2>1. offered \in Record /\ accepted' = accepted \cup {offered.id}
    BY <1>3 DEF FinishResponse, FinishDuplicate, JournalInv, JournalTypeOK, Journaled,
       Awaiting
  <2>2. UNCHANGED <<compiles, standing>>
    BY <1>3 DEF FinishResponse, FinishDuplicate, modelVars
  <2>3. offered.id \in ResponseIds
    <3>1. offered \in Response
      BY <1>3, <2>1 DEF FinishResponse, FinishDuplicate, Duplicate, Journaled, Awaiting,
         Carried, Record, Event, IsResponse
    <3> QED
      BY <3>1 DEF Response
  <2> QED
    BY <2>1, <2>2, <2>3 DEF ToldTyped
<1>4. CASE Serve
  BY <1>1, <1>2, <1>3, <1>4 DEF Serve, BeginInput, BeginConnection, BeginResponse,
     AppendRefused, AppendThrows, FinishInput, FinishReport, FinishConnected,
     FinishDisconnected, modelVars, toldVars
<1>5. CASE EditWorkspace
  BY <1>5 DEF EditWorkspace, ToldTyped, toldVars
<1>6. CASE Browser \/ Agent
  BY <1>1, <1>6 DEF Browser, Upgrade, OversizedFrame, Close, Frame, Agent, Poll,
     PollEnds, Respond, Stop, BeginStop, modelVars, toldVars
<1>7. CASE GraceExpires \/ BeginLimitFailure \/ Transition \/ Removal \/ UNCHANGED vars
  BY <1>1, <1>7 DEF GraceExpires, BeginStop, BeginLimitFailure, Transition, Quiesced,
     RecordEnd, Recover, RecoverThrows, Removal, Remove, RemoveThrows, vars,
     modelVars, toldVars
<1> QED
  BY <1>4, <1>5, <1>6, <1>7 DEF Next

-----------------------------------------------------------------------------
(* The invariant, and what follows from it.                                *)

ServerInv ==
    /\ JournalInv /\ EndInv /\ SlotInv
    /\ SpentTyped /\ Carried
    /\ QueueInv /\ TurnsTold /\ AnswersShown /\ QuestionInv
    /\ ChoiceTyped /\ BrowsersTyped /\ StagesTyped /\ ToldTyped

LEMMA ServerInitially == Init => ServerInv
<1> SUFFICES ASSUME Init PROVE ServerInv
  OBVIOUS
<1>1. SpentTyped /\ Carried
  BY DEF Init, SpentTyped, Carried
<1>2. QueueInv
  <2>1. pending = <<>> /\ inFlight = None /\ polls = <<>>
    BY DEF Init
  <2>2. <<>> \in Seq(Event) /\ DOMAIN <<>> = {} /\ <<>> \in [DOMAIN <<>> -> Nat]
    OBVIOUS
  <2>3. PollsTyped
    BY <2>1, <2>2 DEF PollsTyped
  <2>4. NoMissedWakeup
    BY <2>1, <2>2 DEF NoMissedWakeup
  <2> QED
    BY <2>1, <2>2, <2>3, <2>4 DEF QueueInv, QueueTyped
<1>3. log = <<>> /\ EventsIn(log) = {} /\ EndsIn(log) = {}
  BY DEF Init, EventsIn, EndsIn
<1>4. TurnsTold
  BY <1>3 DEF Init, TurnsTold, NoLostTurn
<1>5. AnswersShown
  BY DEF Init, AnswersShown
<1>6. QuestionInv
  BY <1>3 DEF Init, QuestionInv
<1>7. ChoiceTyped /\ BrowsersTyped /\ StagesTyped /\ ToldTyped
  BY DEF Init, ChoiceTyped, BrowsersTyped, StagesTyped, ToldTyped
<1> QED
  BY <1>1, <1>2, <1>4, <1>5, <1>6, <1>7, JournalInitially, EndInitially,
     SlotInitially DEF ServerInv

LEMMA ServerInductive == ServerInv /\ [Next]_vars => ServerInv'
<1> SUFFICES ASSUME ServerInv, [Next]_vars PROVE ServerInv'
  OBVIOUS
<1>1. JournalInv' /\ EndInv' /\ SlotInv'
  BY JournalInductive, EndInductive, SlotInductive DEF ServerInv
<1>2. SpentTyped' /\ Carried'
  BY SpentGrows, CarriedInductive DEF ServerInv
<1>3. QueueInv' /\ TurnsTold' /\ AnswersShown' /\ QuestionInv'
  BY QueueInductive, TurnsInductive, AnswersInductive, QuestionInductive DEF ServerInv
<1>4. ChoiceTyped' /\ BrowsersTyped' /\ StagesTyped' /\ ToldTyped'
  BY ChoiceInductive, BrowsersInductive, StagesInductive, ToldInductive DEF ServerInv
<1> QED
  BY <1>1, <1>2, <1>3, <1>4 DEF ServerInv

LEMMA ServerCorrect == Spec => []ServerInv
BY ServerInitially, ServerInductive, PTL DEF Spec

\* A poll is held only while the queue has nothing past it: wakePolls runs after
\* every change that could give it something.
THEOREM PollsAreWoken == Spec => []NoMissedWakeup
<1>1. ServerInv => NoMissedWakeup
  BY DEF ServerInv, QueueInv
<1> QED
  BY <1>1, ServerCorrect, PTL

\* An event the agent has to act on, once its browser was told that it is
\* accepted, leaves the queue only for a journaled answer (completeTurn).
THEOREM TurnsAreKept == Spec => []NoLostTurn
<1>1. ServerInv => NoLostTurn
  BY DEF ServerInv, TurnsTold
<1> QED
  BY <1>1, ServerCorrect, PTL

\* What markAnswered remembers is in the journal, and a response is broadcast
\* only by the call that journaled it, however often it is sent.
THEOREM BrowsersSeeTheConversation == Spec => []BrowserIsToldTheTruth
<1>1. ServerInv => BrowserIsToldTheTruth
  <2> SUFFICES ASSUME ServerInv PROVE BrowserIsToldTheTruth
    OBVIOUS
  <2>1. ClosedTurnIsAnswered
    BY DEF ServerInv, TurnsTold, ClosedTurnIsAnswered, OpenTurn
  <2>2. ShownOnce
    BY DEF ServerInv, AnswersShown, ShownOnce
  <2> QED
    BY <2>1, <2>2 DEF BrowserIsToldTheTruth
<1> QED
  BY <1>1, ServerCorrect, PTL

\* recordEvent and recordResponse keep the open question in step with the
\* journal, as long as no append throws.
THEOREM OpenQuestionsStand == Spec => []QuestionIsStillOpen
<1>1. ServerInv => QuestionIsStillOpen
  BY DEF ServerInv, QuestionInv, Untroubled, PassedBy, QuestionIsStillOpen
<1> QED
  BY <1>1, ServerCorrect, PTL

LEMMA HandoffIsTyped ==
    ASSUME JournalInv
    PROVE  Handoff \in Handoffs
<1>1. log \in Seq(Record) /\ InOrder(log)
  BY DEF JournalInv, JournalTypeOK, WellFormed
<1>2. EndsIn(log) # {} => LastEnd(log) \in Event
  BY <1>1, OneEnd, ReadingTypes
<1>3. TerminationReason(log) \in Reasons
  BY <1>2, ServerAssumption DEF TerminationReason, Event
<1>4. Decision(log) \in {"failed", "completed", "cancelled"}
  BY DEF Decision
<1> QED
  BY <1>3, <1>4 DEF Handoff, Handoffs

\* Every variable of the server keeps its type, and the turn queue holds only
\* what the agent has to act on.
THEOREM ServerTypeCorrect == Spec => []TypeOK
<1>1. ServerInv => TypeOK
  <2> SUFFICES ASSUME ServerInv PROVE TypeOK
    OBVIOUS
  <2>1. JournalTypeOK
    BY DEF ServerInv, JournalInv
  <2>2. log \in Seq(Record)
    BY <2>1 DEF JournalTypeOK
  <2>3. TurnTypeOK
    <3>1. \A i \in DOMAIN pending :
              pending[i].type \notin {"filter.query", "layout.save",
                                      "changeset.commit", "view.navigate"}
      BY DEF ServerInv, QueueInv, QueueTyped, Actionable
    <3>2. answered \subseteq EventIds \cup {ClosingId}
      <4>1. \A id \in answered : \E r \in ResponsesIn(log) : r.answers = id
        BY DEF ServerInv, TurnsTold, AnsweredInLog
      <4> QED
        BY <2>2, <4>1, ReadingTypes DEF Response
    <3> QED
      BY <3>1, <3>2
         DEF ServerInv, QueueInv, QueueTyped, PollsTyped, ChoiceTyped, TurnTypeOK
  <2>4. SocketTypeOK
    BY DEF ServerInv, SlotInv, BrowsersTyped, SocketTypeOK
  <2>5. EndTypeOK
    <3>1. {handoff, outcome} \subseteq {Handoff, None}
      BY DEF ServerInv, EndInv
    <3> QED
      BY <3>1, HandoffIsTyped DEF ServerInv, StagesTyped, JournalInv, EndTypeOK
  <2>6. ToldTypeOK
    <3>1. acknowledged \subseteq EventIds
      BY <2>2, ReadingTypes DEF ServerInv, TurnsTold
    <3>2. shown \in [ResponseIds -> Nat]
      BY DEF ServerInv, AnswersShown
    <3> QED
      BY <3>1, <3>2 DEF ServerInv, SpentTyped, BrowsersTyped, ToldTyped, ToldTypeOK
  <2> QED
    BY <2>1, <2>3, <2>4, <2>5, <2>6 DEF TypeOK
<1> QED
  BY <1>1, ServerCorrect, PTL
=============================================================================
