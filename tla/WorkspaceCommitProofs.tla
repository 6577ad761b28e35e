------------------------ MODULE WorkspaceCommitProofs ------------------------
(***************************************************************************)
(* What a batch can and cannot overwrite, and what it leaves on the disk,  *)
(* for any number of writers, any workspace and any batches.  The two      *)
(* results on overwriting are about the revisions only: they hold          *)
(* whatever applyOperations makes of the sources.  The two on landing      *)
(* unfold the staging: an operation at a time, no further than the entries *)
(* of the file it writes.                                                  *)
(***************************************************************************)
EXTENDS WorkspaceCommit, FiniteSetTheorems, SequenceTheorems,
        WellFoundedInduction, TLAPS

\* The revision that goes with a path in what somebody read, or was shown.
Known(held, p) == IF p \in DOMAIN held THEN held[p] ELSE NoFile

Stages == {"idle", "pins", "reading", "planned", "writing", "landed",
           "refused", "threw"}

\* How far a writer can be, and what it carries there.
RunShape(w, r) ==
    /\ r.at \in Stages
    /\ r.at = "pins" => r.batch \in Batches[w]
    /\ r.at = "reading" =>
            /\ DOMAIN r = {"at", "batch", "pins", "held", "listed", "todo"}
            /\ r.batch \in Batches[w]
            /\ r.todo \in Seq(Paths)
    /\ r.at \in {"planned", "writing"} =>
            /\ DOMAIN r = {"at", "batch", "pins", "held", "listed", "writes",
                           "written"}
            /\ r.batch \in Batches[w]
            /\ r.written \in Nat
            /\ Len(r.writes) \in Nat
            /\ DOMAIN r.writes = 1 .. Len(r.writes)

\* OnlyTheWindowLosesAnUpdate, of one writer.
Window(w) ==
    run[w].at = "writing" =>
        \A i \in DOMAIN run[w].writes : i > run[w].written =>
            LET write == run[w].writes[i]
            IN  \/ files[write.path] = write.expected
                \/ write.path \in others[w].checked
                \/ \E j \in 1 .. run[w].written :
                        run[w].writes[j].path = write.path

\* What the session's reader knows of the paths its batch vouches for, until
\* somebody else changes them: the disk holds what was pinned, so does what
\* was read, and what is pinned is either read already or still to be read.
ReaderKnows(r) ==
    \A p \in Vouched(r.batch) \ others[Session].begun :
        /\ files[p] = Known(r.pins, p)
        /\ p \in DOMAIN r.held => r.held[p] = Known(r.pins, p)
        /\ \/ r.batch.operations = <<>>
           \/ p \in DOMAIN r.held
           \/ \E i \in 1 .. Len(r.todo) : r.todo[i] = p
           \/ Known(r.pins, p) = NoFile

\* LandsOnWhatWasShown, of the writes the session has planned.
WritesOnPins(r) ==
    \A i \in 1 .. Len(r.writes) :
        r.writes[i].path \in Vouched(r.batch) \ others[Session].begun =>
            r.writes[i].expected = Known(r.pins, r.writes[i].path)

Reviewed ==
    /\ run[Session].at = "reading" => ReaderKnows(run[Session])
    /\ run[Session].at \in {"planned", "writing"} => WritesOnPins(run[Session])

Good(w) ==
    /\ RunShape(w, run[w])
    /\ DOMAIN others[w] = DOMAIN Nobody
    /\ Window(w)
    /\ w = Session => Reviewed

\* The inductive invariant.
CommitInvariant ==
    /\ run = [w \in Writers |-> run[w]]
    /\ others = [w \in Writers |-> others[w]]
    /\ \A w \in Writers : Good(w)

-----------------------------------------------------------------------------
\* A finite set laid out as a sequence: nothing is added and nothing is lost.
LEMMA SetToSeqFacts ==
  ASSUME NEW S, IsFiniteSet(S)
  PROVE  /\ SetToSeq(S) \in Seq(S)
         /\ \A x \in S : \E i \in 1 .. Len(SetToSeq(S)) : SetToSeq(S)[i] = x
  <1>. DEFINE n == Cardinality(S)
              f == SetToSeq(S)
  <1>1. n \in Nat /\ ExistsBijection(1 .. n, S)
    BY FS_CardinalityType
  <1>2. PICK g : g \in Bijection(1 .. n, S)
    BY <1>1 DEF ExistsBijection
  <1>3. g \in [1 .. n -> S] /\ IsInjective(g)
    BY <1>2 DEF Bijection, Injection, IsInjective
  <1>4. f \in [1 .. n -> S] /\ IsInjective(f)
    BY <1>3 DEF SetToSeq
  <1>5. f \in Injection(1 .. n, S)
    BY <1>4 DEF Injection, IsInjective
  <1>6. IsFiniteSet(1 .. n) /\ Cardinality(1 .. n) = n
    BY <1>1, FS_Interval
  <1>7. f \in Surjection(1 .. n, S)
    BY <1>5, <1>6, FS_Injection
  <1>8. f \in Seq(S) /\ Len(f) = n
    BY <1>1, <1>4
  <1>9. \A x \in S : \E i \in 1 .. n : f[i] = x
    BY <1>7 DEF Surjection
  <1>. QED
    BY <1>8, <1>9

\* c is a sequence over S, and each of its elements is one of a's or of b's.
MadeOf(S, c, a, b) ==
    /\ c \in Seq(S)
    /\ \A i \in 1 .. Len(c) :
            \/ \E j \in 1 .. Len(a) : c[i] = a[j]
            \/ \E j \in 1 .. Len(b) : c[i] = b[j]

\* An element of a concatenation comes from one of its halves ...
LEMMA JoinIsMadeOf ==
  ASSUME NEW S, NEW a \in Seq(S), NEW b \in Seq(S)
  PROVE  MadeOf(S, a \o b, a, b)
  <1>. DEFINE c == a \o b
  <1>1. Len(a) \in Nat /\ Len(b) \in Nat
    BY LenProperties
  <1>2. /\ c \in Seq(S)
        /\ Len(c) = Len(a) + Len(b)
        /\ \A i \in 1 .. Len(a) + Len(b) :
                c[i] = IF i <= Len(a) THEN a[i] ELSE b[i - Len(a)]
    BY ConcatProperties
  <1>. HIDE DEF c
  <1>3. ASSUME NEW i \in 1 .. Len(c)
        PROVE  \/ \E j \in 1 .. Len(a) : c[i] = a[j]
               \/ \E j \in 1 .. Len(b) : c[i] = b[j]
    <2>1. CASE i <= Len(a)
      BY <1>1, <1>2, <2>1
    <2>2. CASE ~(i <= Len(a))
      <3>1. i - Len(a) \in 1 .. Len(b) /\ c[i] = b[i - Len(a)]
        BY <1>1, <1>2, <2>2
      <3>. QED
        BY <3>1
    <2>. QED
      BY <2>1, <2>2
  <1>4. MadeOf(S, c, a, b)
    BY <1>2, <1>3 DEF MadeOf
  <1>. QED
    BY <1>4 DEF c

\* ... and every element of a half is in it.
LEMMA Joined ==
  ASSUME NEW S, NEW a \in Seq(S), NEW b \in Seq(S)
  PROVE  /\ a \o b \in Seq(S)
         /\ \A j \in 1 .. Len(a) : \E i \in 1 .. Len(a \o b) : (a \o b)[i] = a[j]
         /\ \A j \in 1 .. Len(b) : \E i \in 1 .. Len(a \o b) : (a \o b)[i] = b[j]
  <1>. DEFINE c == a \o b
  <1>1. Len(a) \in Nat /\ Len(b) \in Nat
    BY LenProperties
  <1>2. /\ c \in Seq(S)
        /\ Len(c) = Len(a) + Len(b)
        /\ \A i \in 1 .. Len(a) + Len(b) :
                c[i] = IF i <= Len(a) THEN a[i] ELSE b[i - Len(a)]
    BY ConcatProperties
  <1>. HIDE DEF c
  <1>3. ASSUME NEW j \in 1 .. Len(a)
        PROVE  \E i \in 1 .. Len(c) : c[i] = a[j]
    <2>1. j \in 1 .. Len(c) /\ c[j] = a[j]
      BY <1>1, <1>2
    <2>. QED
      BY <2>1
  <1>4. ASSUME NEW j \in 1 .. Len(b)
        PROVE  \E i \in 1 .. Len(c) : c[i] = b[j]
    <2>1. /\ Len(a) + j \in 1 .. Len(c)
          /\ c[Len(a) + j] = b[(Len(a) + j) - Len(a)]
          /\ (Len(a) + j) - Len(a) = j
      BY <1>1, <1>2
    <2>. QED
      BY <2>1
  <1>. QED
    BY <1>2, <1>3, <1>4 DEF c

\* Every file a manifest lists is read.
LEMMA EverythingListedIsRead ==
  ASSUME NEW f
  PROVE  /\ ReadOrder(Listed(f)) \in Seq(Paths)
         /\ \A p \in Present(f) : \E i \in 1 .. Len(ReadOrder(Listed(f))) :
                ReadOrder(Listed(f))[i] = p
  <1>. DEFINE Of(kind) == PathsOf(Listed(f), kind)
              Line(kind) == SetToSeq(Of(kind))
              Covers(seq, S) == \A p \in S : \E i \in 1 .. Len(seq) : seq[i] = p
  <1>1. \A kind : Of(kind) = {p \in Present(f) : Kinds[p] = kind}
    BY DEF PathsOf, Listed
  <1>2. Present(f) \subseteq Paths /\ IsFiniteSet(Paths)
    BY WorkspaceAssumption DEF Present, WorkspaceAssumption
  <1>3. ASSUME NEW kind
        PROVE  Line(kind) \in Seq(Paths) /\ Covers(Line(kind), Of(kind))
    <2>1. Of(kind) \in SUBSET Paths
      BY <1>1, <1>2
    <2>2. IsFiniteSet(Of(kind))
      BY <1>2, <2>1, FS_Subset
    <2>3. Line(kind) \in Seq(Of(kind)) /\ Covers(Line(kind), Of(kind))
      BY <2>2, SetToSeqFacts
    <2>4. Line(kind) \in Seq(Paths)
      BY <2>1, <2>3, SeqMonotonic
    <2>. QED
      BY <2>3, <2>4
  <1>4. ASSUME NEW a \in Seq(Paths), NEW b \in Seq(Paths), NEW S, NEW T,
               Covers(a, S), Covers(b, T)
        PROVE  a \o b \in Seq(Paths) /\ Covers(a \o b, S \cup T)
    <2>. DEFINE c == a \o b
    <2>1. /\ c \in Seq(Paths)
          /\ \A j \in 1 .. Len(a) : \E i \in 1 .. Len(c) : c[i] = a[j]
          /\ \A j \in 1 .. Len(b) : \E i \in 1 .. Len(c) : c[i] = b[j]
      BY Joined
    <2>. HIDE DEF c
    <2>2. ASSUME NEW p \in S \cup T
          PROVE  \E i \in 1 .. Len(c) : c[i] = p
      <3>1. CASE p \in S
        <4>1. PICK j \in 1 .. Len(a) : a[j] = p
          BY <1>4, <3>1
        <4>. QED
          BY <2>1, <4>1
      <3>2. CASE p \in T
        <4>1. PICK j \in 1 .. Len(b) : b[j] = p
          BY <1>4, <3>2
        <4>. QED
          BY <2>1, <4>1
      <3>. QED
        BY <3>1, <3>2
    <2>. QED
      BY <2>1, <2>2 DEF c
  <1>. HIDE DEF Of, Line, Covers
  <1>. DEFINE s2 == Line("profile") \o Line("pattern")
              s3 == s2 \o Line("document")
              s4 == s3 \o Line("projection")
              s5 == s4 \o Line("evidence")
              s6 == s5 \o Line("mapping")
              u2 == Of("profile") \cup Of("pattern")
              u3 == u2 \cup Of("document")
              u4 == u3 \cup Of("projection")
              u5 == u4 \cup Of("evidence")
              u6 == u5 \cup Of("mapping")
  <1>5. s2 \in Seq(Paths) /\ Covers(s2, u2)
    BY <1>3, <1>4
  <1>6. s3 \in Seq(Paths) /\ Covers(s3, u3)
    <2>. HIDE DEF s2, u2
    <2>. QED BY <1>3, <1>4, <1>5
  <1>7. s4 \in Seq(Paths) /\ Covers(s4, u4)
    <2>. HIDE DEF s3, u3
    <2>. QED BY <1>3, <1>4, <1>6
  <1>8. s5 \in Seq(Paths) /\ Covers(s5, u5)
    <2>. HIDE DEF s4, u4
    <2>. QED BY <1>3, <1>4, <1>7
  <1>9. s6 \in Seq(Paths) /\ Covers(s6, u6)
    <2>. HIDE DEF s5, u5
    <2>. QED BY <1>3, <1>4, <1>8
  <1>10. Present(f) \subseteq u6
    BY <1>1, <1>2, WorkspaceAssumption DEF WorkspaceAssumption
  <1>11. ReadOrder(Listed(f)) = s6
    BY DEF ReadOrder, Line, Of
  <1>12. Covers(s6, Present(f))
    <2>. HIDE DEF s6, u6
    <2>. QED BY <1>9, <1>10 DEF Covers
  <1>. QED
    BY <1>9, <1>11, <1>12 DEF Covers
-----------------------------------------------------------------------------
\* What a writer knows survives whatever another one does.
LEMMA Elsewhere ==
  ASSUME NEW w \in Writers, Good(w), run'[w] = run[w],
         \/ files' = files /\ others'[w] = others[w]
         \/ \E x, p, content : x # w /\ Put(x, p, content)
  PROVE  Good(w)'
  <1>1. CASE files' = files /\ others'[w] = others[w]
    BY <1>1 DEF Good, Window, Reviewed, ReaderKnows, WritesOnPins
  <1>2. ASSUME NEW x, NEW p, NEW content, x # w, Put(x, p, content)
        PROVE  Good(w)'
    <2>1. others'[w] = [n \in DOMAIN Nobody |-> others[w][n] \cup {p}]
      BY <1>2 DEF Put
    <2>2. DOMAIN Nobody = {"begun", "checked"}
      BY DEF Nobody
    <2>3. /\ DOMAIN others'[w] = DOMAIN Nobody
          /\ others'[w].begun = others[w].begun \cup {p}
          /\ others'[w].checked = others[w].checked \cup {p}
      BY <2>1, <2>2
    <2>4. \A q : q # p => files'[q] = files[q]
      BY <1>2 DEF Put
    <2>5. RunShape(w, run[w])'
      BY DEF Good
    <2>6. Window(w)'
      <3>1. SUFFICES ASSUME run[w].at = "writing",
                            NEW i \in DOMAIN run[w].writes, i > run[w].written,
                            files'[run[w].writes[i].path] # run[w].writes[i].expected,
                            run[w].writes[i].path \notin others'[w].checked
                     PROVE  \E j \in 1 .. run[w].written :
                                run[w].writes[j].path = run[w].writes[i].path
        BY DEF Window
      <3>2. run[w].writes[i].path # p
        BY <2>3, <3>1
      <3>3. files[run[w].writes[i].path] # run[w].writes[i].expected
        BY <2>4, <3>1, <3>2
      <3>. QED
        BY <2>3, <3>1, <3>3 DEF Good, Window
    <2>7. ASSUME w = Session PROVE Reviewed'
      <3>1. ASSUME run[Session].at = "reading"
            PROVE  ReaderKnows(run[Session])'
        <4>1. ReaderKnows(run[Session])
          BY <2>7, <3>1 DEF Good, Reviewed
        <4>2. ASSUME NEW q \in Vouched(run[Session].batch) \ others'[Session].begun
              PROVE  /\ q \in Vouched(run[Session].batch) \ others[Session].begun
                     /\ files'[q] = files[q]
          BY <2>3, <2>4, <2>7
        <4>. QED
          BY <2>7, <4>1, <4>2 DEF ReaderKnows
      <3>2. ASSUME run[Session].at \in {"planned", "writing"}
            PROVE  WritesOnPins(run[Session])'
        <4>1. WritesOnPins(run[Session])
          BY <2>7, <3>2 DEF Good, Reviewed
        <4>2. others[Session].begun \subseteq others'[Session].begun
          BY <2>3, <2>7
        <4>. QED
          BY <2>7, <4>1, <4>2 DEF WritesOnPins
      <3>. QED
        BY <2>7, <3>1, <3>2 DEF Reviewed
    <2>. QED
      BY <2>3, <2>5, <2>6, <2>7 DEF Good
  <1>. QED
    BY <1>1, <1>2

\* A step of one writer needs to be looked at for that writer only.
LEMMA OneMoves ==
  ASSUME CommitInvariant, NEW w \in Writers,
         run' = [v \in Writers |-> run'[v]],
         others' = [v \in Writers |-> others'[v]],
         \A v \in Writers \ {w} : run'[v] = run[v],
         \/ /\ files' = files
            /\ \A v \in Writers \ {w} : others'[v] = others[v]
         \/ \E p, content : Put(w, p, content),
         Good(w)'
  PROVE  CommitInvariant'
  <1>1. ASSUME NEW v \in Writers \ {w} PROVE Good(v)'
    <2>1. Good(v)
      BY DEF CommitInvariant
    <2>2. \/ files' = files /\ others'[v] = others[v]
          \/ \E x, p, content : x # v /\ Put(x, p, content)
      OBVIOUS
    <2>. QED
      BY <2>1, <2>2, Elsewhere
  <1>. QED
    BY <1>1 DEF CommitInvariant

\* Nothing is promised of a writer that is not at work.
LEMMA AtRest ==
  ASSUME NEW w \in Writers, others'[w] = others[w], Good(w),
         run'[w].at \in {"idle", "landed", "refused", "threw"}
  PROVE  Good(w)'
  BY DEF Good, RunShape, Window, Reviewed, Stages

LEMMA EndedIsAtRest ==
  ASSUME CommitInvariant, NEW w \in Writers,
         NEW how \in {"refused", "threw"}, run' = Ended(w, how),
         UNCHANGED <<files, others>>
  PROVE  CommitInvariant'
  <1>1. /\ run' = [v \in Writers |-> run'[v]]
        /\ \A v \in Writers \ {w} : run'[v] = run[v]
        /\ run'[w].at \in {"idle", "refused", "threw"}
    BY DEF CommitInvariant, Ended, Idle
  <1>2. Good(w)'
    BY <1>1, AtRest DEF CommitInvariant
  <1>. QED
    BY <1>1, <1>2, OneMoves DEF CommitInvariant

-----------------------------------------------------------------------------
LEMMA InitIsGood == Init => CommitInvariant
  BY DEF Init, CommitInvariant, Good, RunShape, Stages, Window, Reviewed, Idle,
         Nobody, Writers

LEMMA SaveKeeps ==
  ASSUME CommitInvariant, NEW p, NEW content, Save(p, content)
  PROVE  CommitInvariant'
  <1>1. run' = run /\ Put("editor", p, content)
    BY DEF Save
  <1>2. ASSUME NEW w \in Writers PROVE Good(w)'
    <2>1. "editor" # w
      BY WorkspaceAssumption DEF WorkspaceAssumption
    <2>2. Good(w)
      BY DEF CommitInvariant
    <2>. QED
      BY <1>1, <2>1, <2>2, Elsewhere
  <1>3. others' = [w \in Writers |-> others'[w]]
    BY <1>1 DEF Put
  <1>. QED
    BY <1>1, <1>2, <1>3 DEF CommitInvariant

LEMMA CommitKeeps ==
  ASSUME CommitInvariant, NEW batch \in Batches[Session], Commit(batch)
  PROVE  CommitInvariant'
  <1>1. Session \in Writers
    BY DEF Writers
  <1>2. /\ run' = [v \in Writers |-> run'[v]]
        /\ \A v \in Writers \ {Session} : run'[v] = run[v]
        /\ run'[Session].at = "pins" /\ run'[Session].batch = batch
        /\ files' = files /\ others' = others
    BY <1>1 DEF CommitInvariant, Commit
  <1>3. Good(Session)'
    BY <1>1, <1>2 DEF CommitInvariant, Good, RunShape, Stages, Window, Reviewed
  <1>. QED
    BY <1>1, <1>2, <1>3, OneMoves DEF CommitInvariant

LEMMA RefusePinsKeeps ==
  ASSUME CommitInvariant, RefusePins
  PROVE  CommitInvariant'
  <1>1. Session \in Writers
    BY DEF Writers
  <1>2. run' = Ended(Session, "refused") /\ UNCHANGED <<files, others>>
    BY DEF RefusePins, Ended
  <1>. QED
    BY <1>1, <1>2, EndedIsAtRest

\* A writer begins to read: nobody has disturbed it yet.  The pins that go
\* with it are what the disk holds.
LEMMA BeginKeeps ==
  ASSUME CommitInvariant, NEW w \in Writers, NEW batch \in Batches[w], NEW pins,
         Begin(w, batch, pins), files' = files,
         w = Session => \A p \in Vouched(batch) : files[p] = Known(pins, p)
  PROVE  CommitInvariant'
  <1>. DEFINE r == [at |-> "reading", batch |-> batch, pins |-> pins,
                    held |-> <<>>, listed |-> Listed(files),
                    todo |-> IF batch.operations = <<>> THEN <<>>
                             ELSE ReadOrder(Listed(files))]
  <1>1. run' = [run EXCEPT ![w] = r] /\ others' = [others EXCEPT ![w] = Nobody]
    BY DEF Begin
  <1>2. /\ run' = [v \in Writers |-> run'[v]]
        /\ others' = [v \in Writers |-> others'[v]]
        /\ \A v \in Writers \ {w} : run'[v] = run[v] /\ others'[v] = others[v]
        /\ run'[w] = r /\ others'[w] = Nobody
    BY <1>1 DEF CommitInvariant
  <1>3. RunShape(w, r)
    <2>1. r.todo \in Seq(Paths)
      BY EverythingListedIsRead
    <2>2. DOMAIN r = {"at", "batch", "pins", "held", "listed", "todo"}
      OBVIOUS
    <2>3. r.at = "reading" /\ r.batch = batch
      OBVIOUS
    <2>. HIDE DEF r
    <2>. QED
      BY <2>1, <2>2, <2>3 DEF RunShape, Stages
  <1>4. ASSUME w = Session PROVE ReaderKnows(run[Session])'
    <2>1. Vouched(batch) \subseteq Paths
      BY BatchAssumption DEF BatchAssumption
    <2>2. ASSUME NEW p \in Vouched(batch)
          PROVE  /\ files[p] = Known(pins, p)
                 /\ p \notin DOMAIN r.held
                 /\ \/ batch.operations = <<>>
                    \/ \E i \in 1 .. Len(r.todo) : r.todo[i] = p
                    \/ Known(pins, p) = NoFile
      <3>1. files[p] = Known(pins, p)
        BY <1>4
      <3>2. p \notin DOMAIN r.held
        OBVIOUS
      <3>3. CASE files[p] = NoFile
        BY <3>1, <3>2, <3>3
      <3>4. CASE files[p] # NoFile /\ batch.operations # <<>>
        <4>1. p \in Present(files)
          BY <2>1, <3>4 DEF Present
        <4>2. \E i \in 1 .. Len(ReadOrder(Listed(files))) :
                 ReadOrder(Listed(files))[i] = p
          BY <4>1, EverythingListedIsRead
        <4>3. r.todo = ReadOrder(Listed(files))
          BY <3>4
        <4>. QED
          BY <3>1, <3>2, <4>2, <4>3
      <3>. QED
        BY <3>1, <3>2, <3>3, <3>4
    <2>3. r.batch = batch /\ r.pins = pins
      OBVIOUS
    <2>. HIDE DEF r
    <2>. QED
      BY <1>2, <1>4, <2>2, <2>3 DEF ReaderKnows
  <1>5. Good(w)'
    <2>1. r.at = "reading"
      OBVIOUS
    <2>. HIDE DEF r
    <2>. QED
      BY <1>2, <1>3, <1>4, <2>1 DEF Good, Window, Reviewed, Nobody
  <1>. QED
    BY <1>2, <1>5, OneMoves

LEMMA PassPinsKeeps ==
  ASSUME CommitInvariant, PassPins
  PROVE  CommitInvariant'
  <1>. DEFINE batch == run[Session].batch
              pins == run[Session].pins
  <1>1. Session \in Writers
    BY DEF Writers
  <1>2. batch \in Batches[Session]
    BY <1>1 DEF CommitInvariant, Good, RunShape, PassPins
  <1>3. ASSUME NEW p \in Vouched(batch) PROVE files[p] = Known(pins, p)
    BY DEF PassPins, PinFaults, Known
  <1>4. Begin(Session, batch, pins) /\ files' = files
    BY DEF PassPins
  <1>. QED
    BY <1>1, <1>2, <1>3, <1>4, BeginKeeps

LEMMA ApplyKeeps ==
  ASSUME CommitInvariant, NEW w \in Appliers, NEW batch \in Batches[w],
         Apply(w, batch)
  PROVE  CommitInvariant'
  <1>1. w \in Writers /\ w # Session
    BY WorkspaceAssumption DEF WorkspaceAssumption, Writers
  <1>2. Begin(w, batch, <<>>) /\ files' = files
    BY DEF Apply
  <1>. QED
    BY <1>1, <1>2, BeginKeeps

LEMMA LandCommitKeeps ==
  ASSUME CommitInvariant, LandCommit
  PROVE  CommitInvariant'
  <1>1. Session \in Writers
    BY DEF Writers
  <1>2. /\ run' = [v \in Writers |-> run'[v]]
        /\ \A v \in Writers \ {Session} : run'[v] = run[v]
        /\ run'[Session].at = "landed"
        /\ files' = files /\ others' = others
    BY <1>1 DEF CommitInvariant, LandCommit
  <1>3. Good(Session)'
    BY <1>1, <1>2, AtRest DEF CommitInvariant
  <1>. QED
    BY <1>1, <1>2, <1>3, OneMoves DEF CommitInvariant

LEMMA SettleKeeps ==
  ASSUME CommitInvariant, Settle
  PROVE  CommitInvariant'
  <1>1. Session \in Writers
    BY DEF Writers
  <1>2. run' = Ended(Session, "refused") /\ UNCHANGED <<files, others>>
    BY DEF Settle, Ended
  <1>. QED
    BY <1>1, <1>2, EndedIsAtRest

LEMMA LandApplyKeeps ==
  ASSUME CommitInvariant, NEW w \in Writers, LandApply(w)
  PROVE  CommitInvariant'
  <1>1. run[w].at = "writing" /\ "at" \in DOMAIN run[w]
    BY DEF CommitInvariant, Good, RunShape, LandApply, AllWritten
  <1>2. /\ run' = [v \in Writers |-> run'[v]]
        /\ \A v \in Writers \ {w} : run'[v] = run[v]
        /\ run'[w].at = "landed"
        /\ files' = files /\ others' = others
    BY <1>1 DEF CommitInvariant, LandApply
  <1>3. Good(w)'
    BY <1>2, AtRest DEF CommitInvariant
  <1>. QED
    BY <1>2, <1>3, OneMoves DEF CommitInvariant

LEMMA WriteThrowsKeeps ==
  ASSUME CommitInvariant, NEW w \in Writers, WriteThrows(w)
  PROVE  CommitInvariant'
  BY EndedIsAtRest DEF WriteThrows

-----------------------------------------------------------------------------
\* One more file is read: it holds what was pinned, or somebody changed it.
LEMMA ReadKeeps ==
  ASSUME CommitInvariant, NEW w \in Writers, Read(w)
  PROVE  CommitInvariant'
  <1>. DEFINE r == run[w]
              p == Head(r.todo)
              now == IF files[p] = NoFile THEN r.held ELSE With(r.held, p, files[p])
              s == [r EXCEPT !.todo = Tail(@), !.held = now]
  <1>1. Good(w) /\ r.at = "reading" /\ r.todo # <<>>
    BY DEF CommitInvariant, Read
  <1>2. /\ DOMAIN r = {"at", "batch", "pins", "held", "listed", "todo"}
        /\ r.batch \in Batches[w] /\ r.todo \in Seq(Paths)
    BY <1>1 DEF Good, RunShape
  <1>3. /\ DOMAIN s = {"at", "batch", "pins", "held", "listed", "todo"}
        /\ s.at = "reading" /\ s.batch = r.batch /\ s.pins = r.pins
        /\ s.todo = Tail(r.todo) /\ s.held = now
    <2>. HIDE DEF now
    <2>. QED
      BY <1>1, <1>2
  <1>4. /\ s.todo \in Seq(Paths)
        /\ \A q : (\E i \in 1 .. Len(r.todo) : r.todo[i] = q) =>
                    q = p \/ \E i \in 1 .. Len(s.todo) : s.todo[i] = q
    <2>1. /\ Tail(r.todo) \in Seq(Paths)
          /\ Len(Tail(r.todo)) = Len(r.todo) - 1
          /\ \A i \in 1 .. Len(Tail(r.todo)) : Tail(r.todo)[i] = r.todo[i + 1]
      BY <1>1, <1>2, HeadTailProperties
    <2>2. Len(r.todo) \in Nat /\ p = r.todo[1]
      BY <1>1, <1>2
    <2>3. ASSUME NEW q, NEW i \in 1 .. Len(r.todo), r.todo[i] = q, q # p
          PROVE  \E j \in 1 .. Len(Tail(r.todo)) : Tail(r.todo)[j] = q
      <3>. HIDE DEF r, p
      <3>1. i # 1
        BY <2>2, <2>3
      <3>2. i - 1 \in 1 .. Len(Tail(r.todo)) /\ (i - 1) + 1 = i
        BY <2>1, <2>2, <3>1
      <3>3. Tail(r.todo)[i - 1] = r.todo[(i - 1) + 1]
        BY <2>1, <3>2
      <3>. QED
        BY <2>3, <3>2, <3>3
    <2>. HIDE DEF s
    <2>. QED
      BY <1>3, <2>1, <2>3
  <1>5. /\ run' = [v \in Writers |-> run'[v]]
        /\ \A v \in Writers \ {w} : run'[v] = run[v]
        /\ run'[w] = s
        /\ files' = files /\ others' = others
    BY DEF CommitInvariant, Read
  <1>6. RunShape(w, s)
    <2>. HIDE DEF s
    <2>. QED
      BY <1>2, <1>3, <1>4 DEF RunShape, Stages
  <1>7. ASSUME w = Session PROVE ReaderKnows(run[Session])'
    <2>1. ReaderKnows(r)
      BY <1>1, <1>7 DEF Good, Reviewed
    <2>2. \A q : q \in DOMAIN now =>
            \/ q \in DOMAIN r.held /\ now[q] = r.held[q]
            \/ q = p /\ now[q] = files[p]
      BY DEF With
    <2>3. /\ DOMAIN r.held \subseteq DOMAIN now
          /\ files[p] # NoFile => p \in DOMAIN now
      BY DEF With
    <2>. HIDE DEF now, s, r, p
    <2>4. ASSUME NEW q \in Vouched(s.batch) \ others[Session].begun
          PROVE  /\ files[q] = Known(s.pins, q)
                 /\ q \in DOMAIN s.held => s.held[q] = Known(s.pins, q)
                 /\ \/ s.batch.operations = <<>>
                    \/ q \in DOMAIN s.held
                    \/ \E i \in 1 .. Len(s.todo) : s.todo[i] = q
                    \/ Known(s.pins, q) = NoFile
      <3>1. /\ files[q] = Known(r.pins, q)
            /\ q \in DOMAIN r.held => r.held[q] = Known(r.pins, q)
            /\ \/ r.batch.operations = <<>>
               \/ q \in DOMAIN r.held
               \/ \E i \in 1 .. Len(r.todo) : r.todo[i] = q
               \/ Known(r.pins, q) = NoFile
        BY <1>3, <2>1, <2>4 DEF ReaderKnows
      <3>2. q \in DOMAIN s.held => s.held[q] = Known(s.pins, q)
        BY <1>3, <2>2, <3>1
      <3>3. \/ s.batch.operations = <<>>
            \/ q \in DOMAIN s.held
            \/ \E i \in 1 .. Len(s.todo) : s.todo[i] = q
            \/ Known(s.pins, q) = NoFile
        BY <1>3, <1>4, <2>3, <3>1
      <3>. QED
        BY <1>3, <3>1, <3>2, <3>3
    <2>. QED
      BY <1>5, <1>7, <2>4 DEF ReaderKnows
  <1>8. Good(w)'
    <2>. HIDE DEF s
    <2>. QED
      BY <1>1, <1>3, <1>5, <1>6, <1>7 DEF Good, Window, Reviewed
  <1>. QED
    BY <1>5, <1>8, OneMoves DEF CommitInvariant

\* Where the writes of a batch come from: the model's, each against what was
\* read, and the views', each against what the disk holds.
LEMMA WritesOfAPlan ==
  ASSUME NEW held, NEW writes, NEW batch,
         Len(batch.views) \in Nat, DOMAIN batch.views = 1 .. Len(batch.views)
  PROVE  LET all == ModelWrites(held, writes) \o ViewWrites(batch)
         IN  /\ Len(all) \in Nat
             /\ DOMAIN all = 1 .. Len(all)
             /\ \A i \in 1 .. Len(all) :
                    \/ all[i].expected = Known(held, all[i].path)
                       /\ DOMAIN writes # {}
                    \/ all[i].expected = files[all[i].path]
  <1>. DEFINE paths == SetToSeq(DOMAIN writes \cap Paths)
              m == ModelWrites(held, writes)
              n == ViewWrites(batch)
              all == m \o n
              S == {m[i] : i \in 1 .. Len(paths)} \cup {n[i] : i \in 1 .. Len(batch.views)}
  <1>1. paths \in Seq(DOMAIN writes \cap Paths)
    <2>1. IsFiniteSet(DOMAIN writes \cap Paths)
      BY FS_Intersection, WorkspaceAssumption DEF WorkspaceAssumption
    <2>. QED
      BY <2>1, SetToSeqFacts
  <1>2. /\ Len(paths) \in Nat /\ DOMAIN paths = 1 .. Len(paths)
        /\ \A i \in 1 .. Len(paths) : paths[i] \in DOMAIN writes
    <2>. HIDE DEF paths
    <2>1. /\ Len(paths) \in Nat /\ DOMAIN paths = 1 .. Len(paths)
          /\ \A i \in 1 .. Len(paths) : paths[i] \in DOMAIN writes \cap Paths
      BY <1>1
    <2>. QED
      BY <2>1
  <1>3. m = [i \in 1 .. Len(paths) |->
                Write(paths[i], writes[paths[i]],
                      IF paths[i] \in DOMAIN held THEN held[paths[i]] ELSE NoFile)]
    BY <1>2 DEF ModelWrites
  <1>4. ASSUME NEW i \in 1 .. Len(paths)
        PROVE  m[i].expected = Known(held, m[i].path) /\ DOMAIN writes # {}
    <2>1. m[i].expected = Known(held, m[i].path)
      BY <1>3 DEF Write, Known
    <2>2. paths[i] \in DOMAIN writes
      BY <1>2
    <2>. QED
      BY <2>1, <2>2
  <1>5. n = [i \in 1 .. Len(batch.views) |->
                Write(batch.views[i].path,
                      IF batch.views[i].op = "delete-view" THEN NoFile
                      ELSE batch.views[i].content,
                      files[batch.views[i].path])]
    BY DEF ViewWrites
  <1>6. ASSUME NEW i \in 1 .. Len(batch.views)
        PROVE  n[i].expected = files[n[i].path]
    BY <1>5 DEF Write
  <1>7. m \in Seq(S) /\ Len(m) = Len(paths)
    <2>. HIDE DEF paths
    <2>1. m \in [1 .. Len(paths) -> S]
      BY <1>3
    <2>. HIDE DEF m, S
    <2>. QED
      BY <1>2, <2>1
  <1>8. n \in Seq(S) /\ Len(n) = Len(batch.views)
    <2>1. n \in [1 .. Len(batch.views) -> S]
      BY <1>5
    <2>. HIDE DEF n, S
    <2>. QED
      BY <2>1
  <1>. HIDE DEF m, n, paths, S
  <1>9. /\ all \in Seq(S)
        /\ \A i \in 1 .. Len(all) :
                \/ \E j \in 1 .. Len(m) : all[i] = m[j]
                \/ \E j \in 1 .. Len(n) : all[i] = n[j]
    <2>1. m \in Seq(S) /\ n \in Seq(S)
      BY <1>7, <1>8
    <2>2. MadeOf(S, m \o n, m, n)
      BY <2>1, JoinIsMadeOf
    <2>3. MadeOf(S, all, m, n)
      BY <2>2
    <2>. HIDE DEF all
    <2>. QED
      BY <2>3 DEF MadeOf
  <1>10. Len(all) \in Nat /\ DOMAIN all = 1 .. Len(all)
    BY <1>9, LenProperties
  <1>11. ASSUME NEW i \in 1 .. Len(all)
         PROVE  \/ /\ all[i].expected = Known(held, all[i].path)
                   /\ DOMAIN writes # {}
                \/ all[i].expected = files[all[i].path]
    <2>. HIDE DEF all
    <2>. QED
      BY <1>4, <1>6, <1>7, <1>8, <1>9
  <1>. QED
    BY <1>10, <1>11 DEF m, n

LEMMA PlanKeeps ==
  ASSUME CommitInvariant, NEW w \in Writers, Plan(w)
  PROVE  CommitInvariant'
  <1>. DEFINE r == run[w]
              plan == Planned(r)
              all == ModelWrites(r.held, plan.writes) \o ViewWrites(r.batch)
              s == [at |-> "planned", batch |-> r.batch, pins |-> r.pins,
                    held |-> r.held, listed |-> r.listed,
                    writes |-> all, written |-> 0]
  <1>1. Good(w) /\ r.at = "reading" /\ r.todo = <<>> /\ UNCHANGED <<files, others>>
    BY DEF CommitInvariant, Plan
  <1>2. run' = Ended(w, "refused") \/ run' = [run EXCEPT ![w] = s]
    BY DEF Plan, PlannedAs
  <1>3. CASE run' = Ended(w, "refused")
    BY <1>1, <1>3, EndedIsAtRest
  <1>4. CASE run' = [run EXCEPT ![w] = s]
    <2>1. /\ r.batch \in Batches[w]
          /\ Len(r.batch.views) \in Nat
          /\ DOMAIN r.batch.views = 1 .. Len(r.batch.views)
      BY <1>1, BatchAssumption DEF Good, RunShape, BatchAssumption
    <2>2. /\ Len(all) \in Nat
          /\ DOMAIN all = 1 .. Len(all)
          /\ \A i \in 1 .. Len(all) :
                \/ /\ all[i].expected = Known(r.held, all[i].path)
                   /\ DOMAIN plan.writes # {}
                \/ all[i].expected = files[all[i].path]
      <3>. HIDE DEF plan
      <3>. QED
        BY <2>1, WritesOfAPlan
    <2>3. DOMAIN plan.writes # {} => r.batch.operations # <<>>
      BY DEF Planned
    <2>. HIDE DEF plan, all
    <2>4. /\ DOMAIN s = {"at", "batch", "pins", "held", "listed", "writes", "written"}
          /\ s.at = "planned" /\ s.batch = r.batch /\ s.pins = r.pins
          /\ s.writes = all /\ s.written = 0
      OBVIOUS
    <2>. HIDE DEF s
    <2>5. /\ run' = [v \in Writers |-> run'[v]]
          /\ \A v \in Writers \ {w} : run'[v] = run[v]
          /\ run'[w] = s
      BY <1>4 DEF CommitInvariant
    <2>6. RunShape(w, s)
      BY <2>1, <2>2, <2>4 DEF RunShape, Stages
    <2>7. ASSUME w = Session PROVE WritesOnPins(run[Session])'
      <3>1. ReaderKnows(r)
        BY <1>1, <2>7 DEF Good, Reviewed
      <3>2. ASSUME NEW i \in 1 .. Len(all),
                   all[i].path \in Vouched(r.batch) \ others[Session].begun
            PROVE  all[i].expected = Known(r.pins, all[i].path)
        <4>. DEFINE p == all[i].path
        <4>1. /\ files[p] = Known(r.pins, p)
              /\ p \in DOMAIN r.held => r.held[p] = Known(r.pins, p)
              /\ \/ r.batch.operations = <<>>
                 \/ p \in DOMAIN r.held
                 \/ \E j \in 1 .. Len(r.todo) : r.todo[j] = p
                 \/ Known(r.pins, p) = NoFile
          BY <3>1, <3>2 DEF ReaderKnows
        <4>2. ~ \E j \in 1 .. Len(r.todo) : r.todo[j] = p
          BY <1>1
        <4>3. CASE all[i].expected = files[p]
          BY <4>1, <4>3
        <4>4. CASE /\ all[i].expected = Known(r.held, p)
                   /\ DOMAIN plan.writes # {}
          BY <2>3, <4>1, <4>2, <4>4 DEF Known
        <4>. QED
          BY <2>2, <4>3, <4>4
      <3>. QED
        BY <1>1, <2>4, <2>5, <2>7, <3>2 DEF WritesOnPins
    <2>8. Good(w)'
      BY <1>1, <2>4, <2>5, <2>6, <2>7 DEF Good, Window, Reviewed
    <2>. QED
      BY <1>1, <2>5, <2>8, OneMoves DEF CommitInvariant
  <1>. QED
    BY <1>2, <1>3, <1>4

\* The comparison: every file holds what the batch expects, so nothing that
\* happened before it can be lost.
LEMMA CheckKeeps ==
  ASSUME CommitInvariant, NEW w \in Writers, Check(w)
  PROVE  CommitInvariant'
  <1>. DEFINE r == run[w]
              s == [r EXCEPT !.at = "writing"]
  <1>1. Good(w) /\ r.at = "planned" /\ files' = files
    BY DEF CommitInvariant, Check
  <1>2. CASE run' = Ended(w, "refused") /\ UNCHANGED others
    BY <1>1, <1>2, EndedIsAtRest
  <1>3. CASE /\ Conflicts(r.writes) = {}
             /\ run' = [run EXCEPT ![w].at = "writing"]
             /\ others' = [others EXCEPT ![w].checked = {}]
    <2>1. /\ DOMAIN r = {"at", "batch", "pins", "held", "listed", "writes",
                         "written"}
          /\ r.batch \in Batches[w]
          /\ r.written \in Nat
          /\ Len(r.writes) \in Nat
          /\ DOMAIN r.writes = 1 .. Len(r.writes)
      BY <1>1 DEF Good, RunShape
    <2>2. /\ DOMAIN s = DOMAIN r
          /\ s.at = "writing" /\ s.batch = r.batch /\ s.pins = r.pins
          /\ s.writes = r.writes /\ s.written = r.written
      BY <2>1
    <2>3. /\ run' = [v \in Writers |-> run'[v]]
          /\ \A v \in Writers \ {w} : run'[v] = run[v]
          /\ run'[w] = s
          /\ others' = [v \in Writers |-> others'[v]]
          /\ \A v \in Writers \ {w} : others'[v] = others[v]
          /\ others'[w] = [others[w] EXCEPT !.checked = {}]
      BY <1>3 DEF CommitInvariant
    <2>4. /\ DOMAIN others'[w] = DOMAIN Nobody
          /\ others'[w].begun = others[w].begun
      BY <1>1, <2>3 DEF Good, Nobody
    <2>. HIDE DEF s
    <2>5. RunShape(w, s)
      BY <2>1, <2>2 DEF RunShape, Stages
    <2>6. \A i \in DOMAIN s.writes : files[s.writes[i].path] = s.writes[i].expected
      BY <1>3, <2>2 DEF Conflicts
    <2>7. Window(w)'
      BY <1>1, <2>3, <2>6 DEF Window
    <2>8. ASSUME w = Session PROVE Reviewed'
      <3>1. WritesOnPins(r)
        BY <1>1, <2>8 DEF Good, Reviewed
      <3>2. WritesOnPins(run[Session])'
        BY <2>2, <2>3, <2>4, <2>8, <3>1 DEF WritesOnPins
      <3>. QED
        BY <2>2, <2>3, <2>8, <3>2 DEF Reviewed
    <2>9. Good(w)'
      BY <2>3, <2>4, <2>5, <2>7, <2>8 DEF Good
    <2>. QED
      BY <1>1, <2>3, <2>9, OneMoves
  <1>. QED
    BY <1>2, <1>3 DEF Check

\* A file lands: of the writes still to come, those to another file find what
\* they found before, and those to this one follow a write of their own batch.
LEMMA WriteOneKeeps ==
  ASSUME CommitInvariant, NEW w \in Writers, WriteOne(w)
  PROVE  CommitInvariant'
  <1>. DEFINE r == run[w]
              write == r.writes[r.written + 1]
              s == [r EXCEPT !.written = @ + 1]
  <1>1. /\ Good(w) /\ r.at = "writing" /\ r.written < Len(r.writes)
        /\ Put(w, write.path, write.content)
    BY DEF CommitInvariant, WriteOne, MoreToWrite
  <1>2. /\ DOMAIN r = {"at", "batch", "pins", "held", "listed", "writes",
                       "written"}
        /\ r.batch \in Batches[w]
        /\ r.written \in Nat
        /\ Len(r.writes) \in Nat
        /\ DOMAIN r.writes = 1 .. Len(r.writes)
    BY <1>1 DEF Good, RunShape
  <1>3. /\ DOMAIN s = DOMAIN r
        /\ s.at = "writing" /\ s.batch = r.batch /\ s.pins = r.pins
        /\ s.writes = r.writes /\ s.written = r.written + 1
    BY <1>1, <1>2
  <1>4. /\ run' = [v \in Writers |-> run'[v]]
        /\ \A v \in Writers \ {w} : run'[v] = run[v]
        /\ run'[w] = s
    BY DEF CommitInvariant, WriteOne
  <1>5. /\ others' = [v \in Writers |-> others'[v]]
        /\ others'[w] = others[w]
        /\ \A q : q # write.path => files'[q] = files[q]
    BY <1>1 DEF Put
  <1>. HIDE DEF s
  <1>6. RunShape(w, s)
    <2>1. s.written \in Nat
      BY <1>2, <1>3
    <2>. QED
      BY <1>2, <1>3, <2>1 DEF RunShape, Stages
  <1>7. Window(w)'
    <2>1. SUFFICES ASSUME NEW i \in DOMAIN r.writes, i > r.written + 1,
                          files'[r.writes[i].path] # r.writes[i].expected,
                          r.writes[i].path \notin others[w].checked
                   PROVE  \E j \in 1 .. r.written + 1 :
                              r.writes[j].path = r.writes[i].path
      BY <1>3, <1>4, <1>5 DEF Window
    <2>2. i > r.written
      BY <1>2, <2>1
    <2>3. CASE r.writes[i].path = write.path
      <3>1. r.written + 1 \in 1 .. r.written + 1
        BY <1>2
      <3>. QED
        BY <2>3, <3>1
    <2>4. CASE r.writes[i].path # write.path
      <3>1. files[r.writes[i].path] # r.writes[i].expected
        BY <1>5, <2>1, <2>4
      <3>2. PICK j \in 1 .. r.written : r.writes[j].path = r.writes[i].path
        BY <1>1, <2>1, <2>2, <3>1 DEF Good, Window
      <3>3. j \in 1 .. r.written + 1
        BY <1>2
      <3>. QED
        BY <3>2, <3>3
    <2>. QED
      BY <2>3, <2>4
  <1>8. ASSUME w = Session PROVE Reviewed'
    <2>1. WritesOnPins(r)
      BY <1>1, <1>8 DEF Good, Reviewed
    <2>2. WritesOnPins(run[Session])'
      BY <1>3, <1>4, <1>5, <1>8, <2>1 DEF WritesOnPins
    <2>. QED
      BY <1>3, <1>4, <1>8, <2>2 DEF Reviewed
  <1>9. Good(w)'
    BY <1>1, <1>4, <1>5, <1>6, <1>7, <1>8 DEF Good
  <1>. QED
    BY <1>1, <1>4, <1>5, <1>9, OneMoves

-----------------------------------------------------------------------------
LEMMA NextKeeps == CommitInvariant /\ [Next]_vars => CommitInvariant'
  <1>. SUFFICES ASSUME CommitInvariant, [Next]_vars PROVE CommitInvariant'
    OBVIOUS
  <1>1. CASE \E p \in DOMAIN Saves : \E content \in Saves[p] : Save(p, content)
    BY <1>1, SaveKeeps
  <1>2. CASE \E batch \in Batches[Session] : Commit(batch)
    BY <1>2, CommitKeeps
  <1>3. CASE RefusePins \/ PassPins \/ LandCommit \/ Settle
    BY <1>3, RefusePinsKeeps, PassPinsKeeps, LandCommitKeeps, SettleKeeps
  <1>4. CASE \E w \in Appliers : \E batch \in Batches[w] : Apply(w, batch)
    BY <1>4, ApplyKeeps
  <1>5. CASE \E w \in Writers : Read(w) \/ Plan(w) \/ Check(w)
    BY <1>5, ReadKeeps, PlanKeeps, CheckKeeps
  <1>6. CASE \E w \in Writers : WriteOne(w) \/ WriteThrows(w) \/ LandApply(w)
    BY <1>6, WriteOneKeeps, WriteThrowsKeeps, LandApplyKeeps
  <1>7. CASE UNCHANGED vars
    <2>1. UNCHANGED <<files, run, others>>
      BY <1>7 DEF vars
    <2>2. Reviewed => Reviewed'
      BY <2>1 DEF Reviewed, ReaderKnows, WritesOnPins
    <2>3. ASSUME NEW w \in Writers, Good(w) PROVE Good(w)'
      BY <2>1, <2>2, <2>3 DEF Good, Window
    <2>4. \A w \in Writers : Good(w)'
      BY <2>3 DEF CommitInvariant
    <2>. QED
      BY <2>1, <2>4 DEF CommitInvariant
  <1>. QED
    BY <1>1, <1>2, <1>3, <1>4, <1>5, <1>6, <1>7 DEF Next

LEMMA InvariantHolds == Spec => []CommitInvariant
  BY InitIsGood, NextKeeps, PTL DEF Spec

\* OnlyTheWindowLosesAnUpdate: whoever lands whatever batch, planOperations and
\* writeAll overwrite only what the batch read, except in the window between
\* the comparison and the write.
THEOREM UpdatesAreLostInTheWindowOnly == Spec => []OnlyTheWindowLosesAnUpdate
  <1>1. CommitInvariant => OnlyTheWindowLosesAnUpdate
    BY DEF CommitInvariant, Good, Window, OnlyTheWindowLosesAnUpdate
  <1>. QED
    BY <1>1, InvariantHolds, PTL

\* LandsOnWhatWasShown: the pins that the session compares before it reads are
\* the revisions it writes against, unless somebody else saved the file since.
THEOREM CommitsLandOnPins == Spec => []LandsOnWhatWasShown
  <1>1. ASSUME CommitInvariant PROVE LandsOnWhatWasShown
    <2>1. SUFFICES ASSUME run[Session].at \in {"planned", "writing"},
                          NEW i \in DOMAIN run[Session].writes,
                          run[Session].writes[i].path \in Vouched(run[Session].batch),
                          run[Session].writes[i].path \notin others[Session].begun
                   PROVE  run[Session].writes[i].expected =
                            Known(run[Session].pins, run[Session].writes[i].path)
      BY DEF LandsOnWhatWasShown, ToSet, Known
    <2>2. Good(Session)
      <3>1. Session \in Writers
        BY DEF Writers
      <3>. QED
        BY <1>1, <3>1 DEF CommitInvariant
    <2>3. i \in 1 .. Len(run[Session].writes)
      BY <2>1, <2>2 DEF Good, RunShape
    <2>4. WritesOnPins(run[Session])
      BY <2>1, <2>2 DEF Good, Reviewed
    <2>. QED
      BY <2>1, <2>3, <2>4 DEF WritesOnPins
  <1>. QED
    BY <1>1, InvariantHolds, PTL

-----------------------------------------------------------------------------
(***************************************************************************)
(* What an undisturbed batch leaves.  A batch is staged on what was read;  *)
(* while nobody else changes a file, what was read is the disk, and what   *)
(* lands is what was staged and passed the gates.                          *)
(***************************************************************************)

StagingFields == {"ok", "sources", "touched", "deleted", "moved"}

\* Staging has changed only the files it says it touched.
StagedOn(listed, held, a) ==
    /\ DOMAIN a = StagingFields
    /\ DOMAIN a.sources = DOMAIN listed
    /\ a.touched \subseteq DOMAIN listed
    /\ \A p \in DOMAIN listed \ a.touched :
            a.sources[p] = Staging(listed, held).sources[p]
    /\ \A p \in a.touched : a.sources[p] # NoFile

\* What is not there is no file: the file of a workspace is never the absent one.
NoFileIsNoFile == NoFile # [x \in DOMAIN NoFile |-> NoFile[x]]

\* What a writer holds of the files listed: each is there.
ListedAndHeld(listed, held) ==
    /\ DOMAIN listed = DOMAIN held
    /\ \A p \in DOMAIN held : held[p] # NoFile

LEMMA MovedIsAFile ==
  ASSUME NoFileIsNoFile, NEW file, file # NoFile, NEW from, NEW to,
         NEW moved, moved = Moved(file, from, to)
  PROVE  moved # NoFile
BY DEF Moved, NoFileIsNoFile

LEMMA OperateStages ==
  ASSUME NoFileIsNoFile, NEW listed, NEW held, ListedAndHeld(listed, held),
         NEW a, StagedOn(listed, held, a), NEW o,
         NEW b, b = Operate(listed, a, o)
  PROVE  StagedOn(listed, held, b)
<1>1. CASE ~a.ok
  BY <1>1 DEF Operate
<1>2. CASE a.ok /\ OperationFaults(listed, a, o) # {}
  BY <1>2 DEF Operate, Refuse, StagedOn, StagingFields
<1>3. CASE a.ok /\ OperationFaults(listed, a, o) = {}
  <2>1. o.path \in DOMAIN listed
    BY <1>3 DEF OperationFaults, Targets
  <2>2. CASE o.op = "rename"
    <3>. DEFINE moving == {p \in DOMAIN a.sources :
                    /\ a.sources[p].kind \in ReferenceKinds
                    /\ o.id \in Addresses(a.sources[p])}
    <3>1. b = [RenamedSources(a, o) EXCEPT !.touched = @ \cup {o.path}]
      BY <1>3, <2>2 DEF Operate
    <3>2. /\ DOMAIN b = StagingFields
          /\ b.sources = [p \in DOMAIN a.sources |->
                            IF p \in moving THEN Moved(a.sources[p], o.id, o.to)
                            ELSE a.sources[p]]
          /\ b.touched = a.touched \cup moving \cup {o.path}
      BY <3>1 DEF RenamedSources, StagedOn, StagingFields
    <3>3. moving \subseteq DOMAIN listed
      BY DEF StagedOn
    <3>. HIDE DEF moving
    <3>4. \A p \in DOMAIN listed : a.sources[p] # NoFile
      BY DEF StagedOn, Staging, ListedAndHeld
    <3>5. \A p \in DOMAIN listed : b.sources[p] # NoFile
      BY <3>2, <3>4, MovedIsAFile DEF StagedOn
    <3>. QED
      BY <2>1, <3>2, <3>3, <3>5 DEF StagedOn
  <2>3. CASE o.op # "rename"
    <3>. DEFINE file == [a.sources[o.path] EXCEPT !.value[o.in] = Edited(@, o)]
    <3>1. /\ DOMAIN b = StagingFields
          /\ b.sources = [a.sources EXCEPT ![o.path] = file]
          /\ b.touched = a.touched \cup {o.path}
      BY <1>3, <2>3 DEF Operate, StagedOn, StagingFields
    <3>2. file # NoFile
      BY DEF NoFileIsNoFile
    <3>. HIDE DEF file
    <3>. QED
      BY <2>1, <3>1, <3>2 DEF StagedOn
  <2>. QED
    BY <2>2, <2>3
<1>. QED
  BY <1>1, <1>2, <1>3

LEMMA FewestOf ==
  ASSUME NEW S \in SUBSET Nat, S # {}
  PROVE  \E n \in S : \A m \in S : n <= m
<1>1. \E n \in S : \A m \in S : ~(<<m, n>> \in OpToRel(<, Nat))
  BY NatLessThanWellFounded, WFMin
<1>2. PICK n \in S : \A m \in S : ~(<<m, n>> \in OpToRel(<, Nat))
  BY <1>1
<1>3. \A m \in S : m < n => <<m, n>> \in OpToRel(<, Nat)
  BY DEF OpToRel
<1>4. \A m \in S : ~(m < n)
  BY <1>2, <1>3
<1>5. \A m \in S : n <= m
  BY <1>4
<1> QED
  BY <1>5

\* One step of the staging that applyOperations goes through.
StageAfter(listed, held, operations, staged, n) ==
    IF n = 0 THEN Staging(listed, held)
    ELSE Operate(listed, staged[n - 1], operations[n])

\* The operations can be staged one after the other, however many there are.
LEMMA StagingExists ==
  ASSUME NEW listed, NEW held, NEW operations, NEW n \in Nat
  PROVE  \E staged : staged = [k \in 0 .. n |-> StageAfter(listed, held, operations, staged, k)]
<1>. DEFINE Unrolls(m, f) == f = [k \in 0 .. m |-> StageAfter(listed, held, operations, f, k)]
            Bad == {m \in Nat : ~ \E f : Unrolls(m, f)}
<1>1. SUFFICES ASSUME Bad # {} PROVE FALSE
  OBVIOUS
<1>2. PICK m \in Bad : \A k \in Bad : m <= k
  BY <1>1, FewestOf
<1>3. CASE m = 0
  <2>. DEFINE f == [k \in 0 .. 0 |-> Staging(listed, held)]
  <2>1. \A k \in 0 .. 0 : StageAfter(listed, held, operations, f, k) = Staging(listed, held)
    BY DEF StageAfter
  <2>2. Unrolls(0, f)
    BY <2>1
  <2>. QED
    BY <1>2, <1>3, <2>2
<1>4. CASE m # 0
  <2>1. m - 1 \in Nat /\ m - 1 \notin Bad
    BY <1>2, <1>4
  <2>2. PICK g : Unrolls(m - 1, g)
    BY <2>1
  <2>. DEFINE f == [k \in 0 .. m |-> IF k = m THEN Operate(listed, g[m - 1], operations[m]) ELSE g[k]]
  <2>3. ASSUME NEW k \in 0 .. m
        PROVE  f[k] = StageAfter(listed, held, operations, f, k)
    <3>1. CASE k = m
      <4>1. m - 1 \in 0 .. m /\ m - 1 # m
        BY <1>4
      <4>2. f[m - 1] = g[m - 1]
        BY <4>1
      <4>3. f[m] = Operate(listed, g[m - 1], operations[m])
        BY <1>2
      <4>. QED
        BY <1>4, <3>1, <4>2, <4>3 DEF StageAfter
    <3>2. CASE k # m /\ k = 0
      <4>1. f[k] = g[k] /\ k \in 0 .. m - 1
        BY <1>2, <1>4, <3>2
      <4>2. g[k] = StageAfter(listed, held, operations, g, k)
        BY <2>2, <4>1
      <4>. QED
        BY <3>2, <4>1, <4>2 DEF StageAfter
    <3>3. CASE k # m /\ k # 0
      <4>1. /\ f[k] = g[k] /\ k \in 0 .. m - 1
            /\ k - 1 \in 0 .. m /\ k - 1 # m
        BY <1>2, <1>4, <3>3
      <4>2. g[k] = StageAfter(listed, held, operations, g, k)
        BY <2>2, <4>1
      <4>3. f[k - 1] = g[k - 1]
        BY <4>1
      <4>. QED
        BY <3>3, <4>1, <4>2, <4>3 DEF StageAfter
    <3>. QED
      BY <3>1, <3>2, <3>3
  <2>4. f = [k \in 0 .. m |-> f[k]]
    OBVIOUS
  <2>. HIDE DEF f
  <2>5. Unrolls(m, f)
    BY <2>3, <2>4
  <2>. QED
    BY <1>2, <2>5
<1>. QED
  BY <1>3, <1>4

\* Whatever a batch lands was staged on what was read, and passed the gates.
LEMMA LandsWhatWasStaged ==
  ASSUME NoFileIsNoFile, NEW listed, NEW held, ListedAndHeld(listed, held),
         NEW operations, Len(operations) \in Nat,
         NEW plan, plan = applyOperations(listed, held, operations), plan.ok
  PROVE  \E a : /\ StagedOn(listed, held, a)
                /\ Admitted(listed, a, CompileOf(listed, a.sources))
                /\ plan.writes = [p \in a.touched |-> a.sources[p]]
<1>. DEFINE n == Len(operations)
            f == CHOOSE staged : staged = [k \in 0 .. n |-> StageAfter(listed, held, operations, staged, k)]
<1>1. f = [k \in 0 .. n |-> StageAfter(listed, held, operations, f, k)]
  BY StagingExists
<1>2. plan = Landing(listed, f[n])
  BY DEF applyOperations, StageAfter
<1>. HIDE DEF f
<1>3. StagedOn(listed, held, f[n])
  <2>. DEFINE Bad == {k \in 0 .. n : ~StagedOn(listed, held, f[k])}
  <2>1. SUFFICES ASSUME Bad # {} PROVE FALSE
    OBVIOUS
  <2>2. PICK m \in Bad : \A k \in Bad : m <= k
    <3>1. Bad \in SUBSET Nat
      OBVIOUS
    <3>. HIDE DEF Bad
    <3>. QED
      BY <2>1, <3>1, FewestOf
  <2>3. CASE m = 0
    <3>1. f[0] = Staging(listed, held)
      BY <1>1, <2>3 DEF StageAfter
    <3>2. StagedOn(listed, held, Staging(listed, held))
      BY DEF StagedOn, Staging, StagingFields
    <3>. QED
      BY <2>2, <2>3, <3>1, <3>2
  <2>4. CASE m # 0
    <3>1. m - 1 \in 0 .. n /\ m \in 0 .. n
      BY <2>2, <2>4
    <3>2. StagedOn(listed, held, f[m - 1])
      BY <2>2, <2>4, <3>1
    <3>3. f[m] = Operate(listed, f[m - 1], operations[m])
      BY <1>1, <2>4, <3>1 DEF StageAfter
    <3>4. StagedOn(listed, held, f[m])
      BY <3>2, <3>3, OperateStages
    <3>. QED
      BY <2>2, <3>4
  <2>. QED
    BY <2>3, <2>4
<1>4. /\ f[n].ok /\ Admitted(listed, f[n], CompileOf(listed, f[n].sources))
      /\ plan.writes = [p \in f[n].touched |-> f[n].sources[p]]
  BY <1>2 DEF Landing, NothingWritten
<1>. QED
  BY <1>3, <1>4

\* What a manifest lists of one kind.
LEMMA ListedOf == \A f, kind : PathsOf(Listed(f), kind) = {p \in Present(f) : Kinds[p] = kind}
BY DEF PathsOf, Listed

\* A compilation sees the profiles, the patterns and the documents, and their sources.
CompiledKinds == {"profile", "pattern", "document"}

LEMMA CompilePathsAreOfTheKinds ==
  ASSUME NEW listed, IsFiniteSet(DOMAIN listed)
  PROVE  /\ DOMAIN CompilePaths(listed) = 1 .. Len(CompilePaths(listed))
         /\ \A i \in DOMAIN CompilePaths(listed) :
                /\ CompilePaths(listed)[i] \in DOMAIN listed
                /\ listed[CompilePaths(listed)[i]] \in CompiledKinds
<1>. DEFINE S == {p \in DOMAIN listed : listed[p] \in CompiledKinds}
            Line(kind) == SetToSeq(PathsOf(listed, kind))
<1>1. ASSUME NEW kind \in CompiledKinds PROVE Line(kind) \in Seq(S)
  <2>1. PathsOf(listed, kind) \subseteq S
    BY DEF PathsOf, CompiledKinds
  <2>2. PathsOf(listed, kind) \subseteq DOMAIN listed
    BY DEF PathsOf
  <2>3. IsFiniteSet(PathsOf(listed, kind))
    BY <2>2, FS_Subset
  <2>4. Line(kind) \in Seq(PathsOf(listed, kind))
    BY <2>3, SetToSeqFacts
  <2>. HIDE DEF Line, S
  <2>. QED
    BY <2>1, <2>4, SeqMonotonic
<1>2. CompilePaths(listed) = Line("profile") \o Line("pattern") \o Line("document")
  BY DEF CompilePaths
<1>. HIDE DEF Line
<1>3. CompilePaths(listed) \in Seq(S)
  <2>1. Line("profile") \in Seq(S) /\ Line("pattern") \in Seq(S) /\ Line("document") \in Seq(S)
    BY <1>1 DEF CompiledKinds
  <2>. HIDE DEF S
  <2>. QED
    BY <1>2, <2>1, ConcatProperties
<1>4. \A i \in 1 .. Len(CompilePaths(listed)) : CompilePaths(listed)[i] \in S
  <2>. HIDE DEF S
  <2>. QED
    BY <1>3
<1>. QED
  BY <1>3, <1>4

LEMMA SameCompile ==
  ASSUME NEW l, NEW m, NEW s, NEW t, IsFiniteSet(DOMAIN l),
         \A kind \in CompiledKinds : PathsOf(l, kind) = PathsOf(m, kind),
         \A p \in DOMAIN l : l[p] \in CompiledKinds => s[p] = t[p]
  PROVE  CompileOf(l, s) = CompileOf(m, t)
<1>1. CompilePaths(l) = CompilePaths(m)
  BY DEF CompilePaths, CompiledKinds
<1>2. \A i \in DOMAIN CompilePaths(l) : s[CompilePaths(l)[i]] = t[CompilePaths(l)[i]]
  BY CompilePathsAreOfTheKinds
<1>3. SourcesAt(CompilePaths(l), s) = SourcesAt(CompilePaths(l), t)
  BY <1>2 DEF SourcesAt
<1>. QED
  BY <1>1, <1>3 DEF CompileOf

OfTheModel(p) == Kinds[p] # "projection"

\* The model's writes of a batch are those planned, each with its content; the
\* others are of views.
WritesPlanned(all, writes) ==
  /\ \A i \in 1 .. Len(all) :
        /\ all[i].path \in Paths
        /\ OfTheModel(all[i].path) =>
                /\ all[i].path \in DOMAIN writes
                /\ all[i].content = writes[all[i].path]
  /\ \A p \in DOMAIN writes \cap Paths : \E i \in 1 .. Len(all) : all[i].path = p

LEMMA PartsOfAPlan ==
  ASSUME NEW held, NEW writes, NEW w \in Writers, NEW batch \in Batches[w]
  PROVE  WritesPlanned(ModelWrites(held, writes) \o ViewWrites(batch), writes)
<1>. DEFINE all == ModelWrites(held, writes) \o ViewWrites(batch)
            paths == SetToSeq(DOMAIN writes \cap Paths)
            m == ModelWrites(held, writes)
            n == ViewWrites(batch)
            S == {m[i] : i \in 1 .. Len(paths)} \cup {n[i] : i \in 1 .. Len(batch.views)}
<1>0. /\ Len(batch.views) \in Nat /\ DOMAIN batch.views = 1 .. Len(batch.views)
      /\ \A i \in 1 .. Len(batch.views) :
            batch.views[i].path \in Paths /\ ~OfTheModel(batch.views[i].path)
  <2>1. /\ Vouched(batch) \subseteq Paths
        /\ Len(batch.views) \in Nat /\ DOMAIN batch.views = 1 .. Len(batch.views)
        /\ \A v \in ToSet(batch.views) : Kinds[v.path] = "projection"
    BY BatchAssumption DEF BatchAssumption
  <2>. QED
    BY <2>1 DEF Vouched, ToSet, OfTheModel
<1>1. IsFiniteSet(DOMAIN writes \cap Paths)
  BY FS_Intersection, WorkspaceAssumption DEF WorkspaceAssumption
<1>2. /\ paths \in Seq(DOMAIN writes \cap Paths)
      /\ \A p \in DOMAIN writes \cap Paths : \E i \in 1 .. Len(paths) : paths[i] = p
  BY <1>1, SetToSeqFacts
<1>3. /\ Len(paths) \in Nat /\ DOMAIN paths = 1 .. Len(paths)
      /\ \A i \in 1 .. Len(paths) : paths[i] \in DOMAIN writes \cap Paths
  <2>. HIDE DEF paths
  <2>. QED
    BY <1>2
<1>4. m = [i \in 1 .. Len(paths) |->
              Write(paths[i], writes[paths[i]],
                    IF paths[i] \in DOMAIN held THEN held[paths[i]] ELSE NoFile)]
  BY <1>3 DEF ModelWrites
<1>5. \A i \in 1 .. Len(paths) :
        m[i].path = paths[i] /\ m[i].content = writes[paths[i]]
  BY <1>4 DEF Write
<1>6. n = [i \in 1 .. Len(batch.views) |->
              Write(batch.views[i].path,
                    IF batch.views[i].op = "delete-view" THEN NoFile
                    ELSE batch.views[i].content,
                    files[batch.views[i].path])]
  BY <1>0 DEF ViewWrites
<1>7. \A i \in 1 .. Len(batch.views) : n[i].path = batch.views[i].path
  BY <1>6 DEF Write
<1>8. m \in Seq(S) /\ Len(m) = Len(paths)
  <2>. HIDE DEF paths
  <2>1. m \in [1 .. Len(paths) -> S]
    BY <1>4
  <2>. HIDE DEF m, S
  <2>. QED
    BY <1>3, <2>1
<1>9. n \in Seq(S) /\ Len(n) = Len(batch.views)
  <2>1. n \in [1 .. Len(batch.views) -> S]
    BY <1>6
  <2>2. Len(batch.views) \in Nat
    BY <1>0
  <2>. HIDE DEF n, S
  <2>. QED
    BY <2>1, <2>2
<1>. HIDE DEF m, n, paths, S, all
<1>10. MadeOf(S, m \o n, m, n) /\ all = m \o n
  BY <1>8, <1>9, JoinIsMadeOf DEF m, n, all
<1>11. \A j \in 1 .. Len(m) : \E i \in 1 .. Len(all) : all[i] = m[j]
  BY <1>8, <1>9, <1>10, Joined
<1>12. ASSUME NEW i \in 1 .. Len(all)
       PROVE  /\ all[i].path \in Paths
              /\ OfTheModel(all[i].path) =>
                    /\ all[i].path \in DOMAIN writes
                    /\ all[i].content = writes[all[i].path]
  <2>1. CASE \E j \in 1 .. Len(m) : all[i] = m[j]
    BY <1>3, <1>5, <1>8, <2>1
  <2>2. CASE \E j \in 1 .. Len(n) : all[i] = n[j]
    BY <1>0, <1>7, <1>9, <2>2
  <2>. QED
    BY <1>10, <2>1, <2>2 DEF MadeOf
<1>13. ASSUME NEW p \in DOMAIN writes \cap Paths
       PROVE  \E i \in 1 .. Len(all) : all[i].path = p
  <2>1. PICK j \in 1 .. Len(m) : m[j].path = p
    BY <1>2, <1>5, <1>8
  <2>2. PICK i \in 1 .. Len(all) : all[i] = m[j]
    BY <1>11
  <2>. QED
    BY <2>1, <2>2
<1>. QED
  BY <1>12, <1>13 DEF WritesPlanned, all

-----------------------------------------------------------------------------
\* What a writer reads, while nobody disturbs it, is the disk as it was listed.
ReadsTheDisk(r) ==
    /\ r.listed = Listed(files)
    /\ DOMAIN r.held \subseteq Present(files)
    /\ \A p \in DOMAIN r.held : r.held[p] = files[p]
    /\ r.batch.operations # <<>> =>
         \A p \in Present(files) :
            p \in DOMAIN r.held \/ \E i \in 1 .. Len(r.todo) : r.todo[i] = p

WrittenBy(r, p) == \E i \in 1 .. r.written : r.writes[i].path = p

\* The writes of the model are those of a staging that passed the gates, and the
\* disk is what was read with the first of them on it.
LandsTheStaging(r, a) ==
    /\ StagedOn(r.listed, r.held, a)
    /\ Admitted(r.listed, a, CompileOf(r.listed, a.sources))
    /\ \A i \in 1 .. Len(r.writes) :
            OfTheModel(r.writes[i].path) =>
                /\ r.writes[i].path \in a.touched
                /\ r.writes[i].content = a.sources[r.writes[i].path]
    /\ \A p \in a.touched : \E i \in 1 .. Len(r.writes) : r.writes[i].path = p
    /\ \A p \in Paths : OfTheModel(p) =>
            files[p] = IF WrittenBy(r, p) THEN a.sources[p] ELSE Known(r.held, p)

LandsAsStaged(r) ==
    /\ ListedAndHeld(r.listed, r.held)
    /\ DOMAIN r.held \subseteq Paths
    /\ \A p \in DOMAIN r.held : r.listed[p] = Kinds[p]
    /\ \A i \in 1 .. Len(r.writes) : r.writes[i].path \in Paths
    /\ \E a : LandsTheStaging(r, a)

\* AloneLandsWhole, of what one batch read and what the disk holds.
Whole(held) ==
    /\ DiskCompiles.ok
    /\ \A p \in PathsOf(Listed(files), "evidence") :
            files[p] # held[p] => EvidenceFaults(DiskCompiles.graph, files[p]) = {}

Undisturbed(w) ==
    Alone(w) =>
        /\ run[w].at = "reading" => ReadsTheDisk(run[w])
        /\ run[w].at \in {"planned", "writing"} /\ run[w].batch.operations # <<>> =>
                LandsAsStaged(run[w])
        /\ run[w].at = "landed" /\ run[w].batch.operations # <<>> => Whole(run[w].held)

LandingInvariant ==
    /\ CommitInvariant
    /\ DOMAIN files = Paths
    /\ \A w \in Writers : Undisturbed(w)

-----------------------------------------------------------------------------
\* A staging that has landed in full is what the gates let through.
LEMMA AllOfItLanded ==
  ASSUME NEW r, LandsAsStaged(r), Len(r.writes) \in Nat, r.written = Len(r.writes)
  PROVE  Whole(r.held)
<1>1. PICK a : LandsTheStaging(r, a)
  BY DEF LandsAsStaged
<1>2. /\ StagedOn(r.listed, r.held, a)
      /\ Admitted(r.listed, a, CompileOf(r.listed, a.sources))
      /\ ListedAndHeld(r.listed, r.held)
      /\ DOMAIN r.held \subseteq Paths /\ DOMAIN r.listed = DOMAIN r.held
      /\ \A p \in DOMAIN r.held : r.listed[p] = Kinds[p] /\ r.held[p] # NoFile
  BY <1>1 DEF LandsAsStaged, LandsTheStaging, ListedAndHeld
<1>3. ASSUME NEW p \in Paths, OfTheModel(p)
      PROVE  /\ p \in Present(files) <=> p \in DOMAIN r.held
             /\ p \in DOMAIN r.held => files[p] = a.sources[p]
             /\ p \in DOMAIN r.held /\ p \notin a.touched => files[p] = r.held[p]
  <2>1. WrittenBy(r, p) <=> p \in a.touched
    BY <1>1, <1>3 DEF LandsTheStaging, WrittenBy
  <2>2. files[p] = IF p \in a.touched THEN a.sources[p] ELSE Known(r.held, p)
    BY <1>1, <1>3, <2>1 DEF LandsTheStaging
  <2>3. CASE p \in a.touched
    BY <1>2, <2>2, <2>3 DEF StagedOn, Present
  <2>4. CASE p \notin a.touched /\ p \in DOMAIN r.held
    <3>1. a.sources[p] = r.held[p]
      BY <1>2, <2>4 DEF StagedOn, Staging
    <3>. QED
      BY <1>2, <2>2, <2>4, <3>1 DEF Known, Present
  <2>5. CASE p \notin a.touched /\ p \notin DOMAIN r.held
    BY <2>2, <2>5 DEF Known, Present
  <2>. QED
    BY <2>3, <2>4, <2>5
<1>4. ASSUME NEW kind, kind # "projection"
      PROVE  PathsOf(Listed(files), kind) = PathsOf(r.listed, kind)
  <2>1. PathsOf(r.listed, kind) = {p \in DOMAIN r.held : Kinds[p] = kind}
    BY <1>2 DEF PathsOf
  <2>2. Present(files) \subseteq Paths
    BY DEF Present
  <2>3. PathsOf(Listed(files), kind) = {p \in Present(files) : Kinds[p] = kind}
    BY ListedOf
  <2>. QED
    BY <1>2, <1>3, <1>4, <2>1, <2>2, <2>3 DEF OfTheModel
<1>5. CompileOf(Listed(files), files) = CompileOf(r.listed, a.sources)
  <2>1. IsFiniteSet(DOMAIN Listed(files))
    BY FS_Subset, WorkspaceAssumption DEF WorkspaceAssumption, Listed, Present
  <2>2. \A kind \in CompiledKinds : kind # "projection"
    BY DEF CompiledKinds
  <2>3. \A p \in DOMAIN Listed(files) :
            Listed(files)[p] \in CompiledKinds => files[p] = a.sources[p]
    BY <1>3, <2>2 DEF Listed, Present, OfTheModel
  <2>. QED
    BY <1>4, <2>1, <2>2, <2>3, SameCompile
<1>6. ASSUME NEW p \in PathsOf(Listed(files), "evidence"), files[p] # r.held[p]
      PROVE  EvidenceFaults(DiskCompiles.graph, files[p]) = {}
  <2>1. p \in PathsOf(r.listed, "evidence")
    BY <1>4
  <2>2. p \in DOMAIN r.held /\ p \in Paths /\ OfTheModel(p)
    BY <1>2, <2>1 DEF PathsOf, OfTheModel
  <2>3. p \in a.touched /\ files[p] = a.sources[p]
    BY <1>3, <1>6, <2>2
  <2>. QED
    BY <1>2, <1>5, <2>1, <2>3 DEF Admitted, DiskCompiles
<1>. QED
  BY <1>2, <1>5, <1>6 DEF Whole, Admitted, DiskCompiles

\* Nothing is lost of what is known of a writer that does not move: another
\* that changes a file disturbs it, and then nothing is said.
LEMMA LeftAlone ==
  ASSUME NEW w \in Writers, Undisturbed(w), run'[w] = run[w],
         \/ files' = files /\ others'[w] = others[w]
         \/ \E x, p, content : x # w /\ Put(x, p, content)
  PROVE  Undisturbed(w)'
<1>1. CASE files' = files /\ others'[w] = others[w]
  <2>1. Alone(w)' => Alone(w)
    BY <1>1 DEF Alone
  <2>2. ReadsTheDisk(run[w]) => ReadsTheDisk(run[w])'
    BY <1>1 DEF ReadsTheDisk, Listed, Present
  <2>3. \A a : LandsTheStaging(run[w], a) => LandsTheStaging(run[w], a)'
    BY <1>1 DEF LandsTheStaging, WrittenBy
  <2>4. LandsAsStaged(run[w]) => LandsAsStaged(run[w])'
    BY <2>3 DEF LandsAsStaged
  <2>5. Whole(run[w].held) => Whole(run[w].held)'
    BY <1>1 DEF Whole, DiskCompiles, Listed, Present
  <2>. QED
    BY <2>1, <2>2, <2>4, <2>5 DEF Undisturbed
<1>2. ASSUME NEW x, NEW p, NEW content, x # w, Put(x, p, content)
      PROVE  Undisturbed(w)'
  <2>1. others'[w] = [n \in DOMAIN Nobody |-> others[w][n] \cup {p}]
    BY <1>2 DEF Put
  <2>2. others'[w].begun = others[w].begun \cup {p}
    BY <2>1 DEF Nobody
  <2>. QED
    BY <2>2 DEF Undisturbed, Alone
<1>. QED
  BY <1>1, <1>2

LEMMA OneLands ==
  ASSUME LandingInvariant, CommitInvariant', NEW w \in Writers,
         \A v \in Writers \ {w} : run'[v] = run[v],
         \/ /\ files' = files
            /\ \A v \in Writers \ {w} : others'[v] = others[v]
         \/ \E p, content : Put(w, p, content),
         Undisturbed(w)'
  PROVE  LandingInvariant'
<1>1. ASSUME NEW v \in Writers \ {w} PROVE Undisturbed(v)'
  <2>1. Undisturbed(v)
    BY DEF LandingInvariant
  <2>2. \/ files' = files /\ others'[v] = others[v]
        \/ \E x, p, content : x # v /\ Put(x, p, content)
    OBVIOUS
  <2>. QED
    BY <2>1, <2>2, LeftAlone
<1>2. DOMAIN files' = Paths
  BY DEF LandingInvariant, Put
<1>. QED
  BY <1>1, <1>2 DEF LandingInvariant

\* Of a writer that is at none of these three stages nothing is said.
LEMMA AtRestLands ==
  ASSUME LandingInvariant, CommitInvariant', NEW w \in Writers,
         \A v \in Writers \ {w} : run'[v] = run[v] /\ others'[v] = others[v],
         files' = files, run'[w].at \in {"idle", "pins", "refused", "threw"}
  PROVE  LandingInvariant'
<1>1. Undisturbed(w)'
  BY DEF Undisturbed
<1>. QED
  BY <1>1, OneLands

LEMMA EndedLands ==
  ASSUME LandingInvariant, CommitInvariant', NEW w \in Writers,
         NEW how \in {"refused", "threw"}, run' = Ended(w, how),
         UNCHANGED <<files, others>>
  PROVE  LandingInvariant'
<1>1. /\ \A v \in Writers \ {w} : run'[v] = run[v]
      /\ run'[w].at \in {"idle", "refused", "threw"}
  BY DEF LandingInvariant, CommitInvariant, Ended, Idle
<1>. QED
  BY <1>1, AtRestLands

LEMMA BeginReads ==
  ASSUME LandingInvariant, CommitInvariant', NEW w \in Writers, NEW batch, NEW pins,
         Begin(w, batch, pins), files' = files
  PROVE  LandingInvariant'
<1>. DEFINE r == [at |-> "reading", batch |-> batch, pins |-> pins,
                  held |-> <<>>, listed |-> Listed(files),
                  todo |-> IF batch.operations = <<>> THEN <<>>
                           ELSE ReadOrder(Listed(files))]
<1>1. /\ \A v \in Writers \ {w} : run'[v] = run[v] /\ others'[v] = others[v]
      /\ run'[w] = r
  BY DEF LandingInvariant, CommitInvariant, Begin
<1>2. ReadsTheDisk(r)
  <2>1. r.listed = Listed(files) /\ DOMAIN r.held = {} /\ r.batch = batch
    OBVIOUS
  <2>2. r.batch.operations # <<>> => r.todo = ReadOrder(Listed(files))
    OBVIOUS
  <2>. HIDE DEF r
  <2>. QED
    BY <2>1, <2>2, EverythingListedIsRead DEF ReadsTheDisk
<1>3. r.at = "reading"
  OBVIOUS
<1>. HIDE DEF r
<1>4. ReadsTheDisk(run[w])'
  BY <1>1, <1>2 DEF ReadsTheDisk, Listed, Present
<1>5. Undisturbed(w)'
  BY <1>1, <1>3, <1>4 DEF Undisturbed
<1>. QED
  BY <1>1, <1>5, OneLands

LEMMA ReadReads ==
  ASSUME LandingInvariant, CommitInvariant', NEW w \in Writers, Read(w)
  PROVE  LandingInvariant'
<1>. DEFINE r == run[w]
            p == Head(r.todo)
            now == IF files[p] = NoFile THEN r.held ELSE With(r.held, p, files[p])
            s == [r EXCEPT !.todo = Tail(@), !.held = now]
<1>1. Good(w) /\ Undisturbed(w) /\ r.at = "reading" /\ r.todo # <<>>
  BY DEF LandingInvariant, CommitInvariant, Read
<1>2. /\ DOMAIN r = {"at", "batch", "pins", "held", "listed", "todo"}
      /\ r.todo \in Seq(Paths)
  BY <1>1 DEF Good, RunShape
<1>3. /\ s.at = "reading" /\ s.batch = r.batch /\ s.listed = r.listed
      /\ s.todo = Tail(r.todo) /\ s.held = now
  <2>. HIDE DEF now
  <2>. QED
    BY <1>1, <1>2
<1>4. /\ p \in Paths
      /\ \A q : (\E i \in 1 .. Len(r.todo) : r.todo[i] = q) =>
                    q = p \/ \E i \in 1 .. Len(Tail(r.todo)) : Tail(r.todo)[i] = q
  <2>1. /\ Tail(r.todo) \in Seq(Paths)
        /\ Len(Tail(r.todo)) = Len(r.todo) - 1
        /\ \A i \in 1 .. Len(Tail(r.todo)) : Tail(r.todo)[i] = r.todo[i + 1]
    BY <1>1, <1>2, HeadTailProperties
  <2>2. Len(r.todo) \in Nat /\ p = r.todo[1] /\ p \in Paths
    BY <1>1, <1>2
  <2>3. ASSUME NEW q, NEW i \in 1 .. Len(r.todo), r.todo[i] = q, q # p
        PROVE  \E j \in 1 .. Len(Tail(r.todo)) : Tail(r.todo)[j] = q
    <3>. HIDE DEF r, p
    <3>1. i # 1
      BY <2>2, <2>3
    <3>2. i - 1 \in 1 .. Len(Tail(r.todo)) /\ (i - 1) + 1 = i
      BY <2>1, <2>2, <3>1
    <3>3. Tail(r.todo)[i - 1] = r.todo[(i - 1) + 1]
      BY <2>1, <3>2
    <3>. QED
      BY <2>3, <3>2, <3>3
  <2>. HIDE DEF r, p
  <2>. QED
    BY <2>2, <2>3
<1>5. /\ \A v \in Writers \ {w} : run'[v] = run[v]
      /\ run'[w] = s /\ files' = files /\ others' = others
  BY DEF LandingInvariant, CommitInvariant, Read
<1>6. /\ DOMAIN r.held \subseteq DOMAIN now
      /\ files[p] # NoFile => p \in DOMAIN now
      /\ \A q \in DOMAIN now :
            \/ q = p /\ now[q] = files[q] /\ files[q] # NoFile
            \/ q \in DOMAIN r.held /\ now[q] = r.held[q]
  <2>. HIDE DEF p, r
  <2>1. CASE files[p] = NoFile
    BY <2>1
  <2>2. CASE files[p] # NoFile
    <3>1. now = With(r.held, p, files[p])
      BY <2>2
    <3>2. /\ DOMAIN now = DOMAIN r.held \cup {p}
          /\ \A q \in DOMAIN r.held \cup {p} : now[q] = IF q = p THEN files[p] ELSE r.held[q]
      BY <3>1 DEF With
    <3>. HIDE DEF now
    <3>. QED
      BY <2>2, <3>2
  <2>. QED
    BY <2>1, <2>2
<1>. HIDE DEF s, now, r, p
<1>7. ASSUME ReadsTheDisk(r) PROVE ReadsTheDisk(s)
  <2>1. /\ DOMAIN now \subseteq Present(files)
        /\ \A q \in DOMAIN now : now[q] = files[q]
    BY <1>4, <1>6, <1>7 DEF ReadsTheDisk, Present
  <2>2. ASSUME s.batch.operations # <<>>, NEW q \in Present(files)
        PROVE  q \in DOMAIN s.held \/ \E i \in 1 .. Len(s.todo) : s.todo[i] = q
    <3>1. q \in DOMAIN r.held \/ \E i \in 1 .. Len(r.todo) : r.todo[i] = q
      BY <1>3, <1>7, <2>2 DEF ReadsTheDisk
    <3>2. files[q] # NoFile
      BY DEF Present
    <3>. QED
      BY <1>3, <1>4, <1>6, <3>1, <3>2
  <2>. QED
    BY <1>3, <1>7, <2>1, <2>2 DEF ReadsTheDisk
<1>8. Alone(w)' => ReadsTheDisk(run[w])'
  <2>1. Alone(w)' => ReadsTheDisk(r)
    BY <1>1, <1>5 DEF Undisturbed, Alone, r
  <2>. QED
    BY <1>5, <1>7, <2>1 DEF ReadsTheDisk, Listed, Present
<1>9. Undisturbed(w)'
  BY <1>3, <1>5, <1>8 DEF Undisturbed
<1>. QED
  BY <1>5, <1>9, OneLands

PlannedRun(r, plan) ==
    [at |-> "planned", batch |-> r.batch, pins |-> r.pins, held |-> r.held, listed |-> r.listed,
     writes |-> ModelWrites(r.held, plan.writes) \o ViewWrites(r.batch), written |-> 0]

LEMMA PlannedOrRefused ==
  ASSUME NEW w, NEW plan, PlannedAs(w, plan)
  PROVE  \/ run' = Ended(w, "refused")
         \/ plan.ok /\ run' = [run EXCEPT ![w] = PlannedRun(run[w], plan)]
<1>. DEFINE r == run[w]
            s == PlannedRun(r, plan)
            refused == ~plan.ok \/ \E v \in ToSet(r.batch.views) : ViewFault(v, r.listed)
<1>1. run' = IF refused THEN Ended(w, "refused") ELSE [run EXCEPT ![w] = s]
  BY ZenonT(30) DEF PlannedAs, PlannedRun
<1>2. ~refused => plan.ok
  BY Zenon
<1>. HIDE DEF refused
<1>3. CASE refused
  BY <1>1, <1>3
<1>4. CASE ~refused
  BY <1>1, <1>2, <1>4
<1>. QED
  BY <1>3, <1>4

\* The batch is planned on what was read, which is the disk.
LEMMA PlanLands ==
  ASSUME NoFileIsNoFile, LandingInvariant, CommitInvariant', NEW w \in Writers, Plan(w)
  PROVE  LandingInvariant'
<1>. DEFINE r == run[w]
            plan == Planned(r)
            all == ModelWrites(r.held, plan.writes) \o ViewWrites(r.batch)
            s == PlannedRun(r, plan)
<1>1. /\ Good(w) /\ Undisturbed(w)
      /\ r.at = "reading" /\ r.todo = <<>> /\ UNCHANGED <<files, others>>
  BY DEF LandingInvariant, CommitInvariant, Plan
<1>2. run' = Ended(w, "refused") \/ (plan.ok /\ run' = [run EXCEPT ![w] = s])
  BY PlannedOrRefused DEF Plan
<1>3. CASE run' = Ended(w, "refused")
  BY <1>1, <1>3, EndedLands
<1>4. CASE plan.ok /\ run' = [run EXCEPT ![w] = s]
  <2>1. r.batch \in Batches[w] /\ Len(r.batch.operations) \in Nat
    BY <1>1, BatchAssumption DEF Good, RunShape, BatchAssumption
  <2>2. r.batch.operations # <<>> =>
            plan = applyOperations(r.listed, r.held, r.batch.operations)
    BY DEF Planned
  <2>3. WritesPlanned(all, plan.writes)
    <3>1. r.batch \in Batches[w]
      BY <2>1
    <3>. HIDE DEF plan, r
    <3>. QED
      BY <3>1, PartsOfAPlan
  <2>. HIDE DEF plan
  <2>4. /\ s.at = "planned" /\ s.batch = r.batch /\ s.held = r.held /\ s.listed = r.listed
        /\ s.writes = all /\ s.written = 0
    BY DEF PlannedRun
  <2>. HIDE DEF s, all
  <2>5. /\ \A v \in Writers \ {w} : run'[v] = run[v]
        /\ run'[w] = s
    BY <1>4 DEF LandingInvariant, CommitInvariant
  <2>6. ASSUME ReadsTheDisk(r), r.batch.operations # <<>>
        PROVE  LandsAsStaged(s)
    <3>1. /\ DOMAIN r.held = Present(files) /\ r.listed = Listed(files)
          /\ \A p \in DOMAIN r.held : r.held[p] = files[p]
      <4>1. r.todo = <<>> /\ Len(r.todo) = 0
        BY <1>1
      <4>2. ReadsTheDisk(r) /\ r.batch.operations # <<>>
        BY <2>6
      <4>. HIDE DEF r
      <4>3. \A p \in Present(files) : p \in DOMAIN r.held
        BY <4>1, <4>2 DEF ReadsTheDisk
      <4>. QED
        BY <4>2, <4>3 DEF ReadsTheDisk
    <3>2. /\ Present(files) \subseteq Paths
          /\ \A p \in Present(files) : files[p] # NoFile
          /\ \A p \in Paths : p \notin Present(files) => files[p] = NoFile
          /\ DOMAIN Listed(files) = Present(files)
          /\ \A p \in Present(files) : Listed(files)[p] = Kinds[p]
      BY DEF Present, Listed
    <3>3. ListedAndHeld(r.listed, r.held)
      BY <3>1, <3>2 DEF ListedAndHeld
    <3>4. PICK a : /\ StagedOn(r.listed, r.held, a)
                   /\ Admitted(r.listed, a, CompileOf(r.listed, a.sources))
                   /\ plan.writes = [p \in a.touched |-> a.sources[p]]
      <4>. DEFINE listed == r.listed
                  h == r.held
                  operations == r.batch.operations
      <4>1. /\ ListedAndHeld(listed, h) /\ Len(operations) \in Nat
            /\ plan = applyOperations(listed, h, operations) /\ plan.ok
        BY <1>4, <2>1, <2>2, <2>6, <3>3
      <4>. HIDE DEF listed, h, operations
      <4>2. \E a : /\ StagedOn(listed, h, a)
                   /\ Admitted(listed, a, CompileOf(listed, a.sources))
                   /\ plan.writes = [p \in a.touched |-> a.sources[p]]
        BY <4>1, LandsWhatWasStaged
      <4>. QED
        BY <4>2 DEF listed, h
    <3>5. a.touched \subseteq Paths
      BY <3>1, <3>2, <3>4 DEF StagedOn
    <3>6. \A p \in Paths : files[p] = IF WrittenBy(s, p) THEN a.sources[p] ELSE Known(s.held, p)
      BY <2>4, <3>1, <3>2 DEF WrittenBy, Known
    <3>7. LandsTheStaging(s, a)
      BY <2>3, <2>4, <3>4, <3>5, <3>6 DEF LandsTheStaging, WritesPlanned
    <3>. QED
      BY <2>3, <2>4, <3>1, <3>2, <3>3, <3>7 DEF LandsAsStaged, WritesPlanned
  <2>7. Alone(w)' /\ s.batch.operations # <<>> => LandsAsStaged(s)
    BY <1>1, <2>4, <2>6 DEF Undisturbed, Alone
  <2>8. Alone(w)' /\ run'[w].batch.operations # <<>> => LandsAsStaged(run[w])'
    BY <1>1, <2>5, <2>7 DEF LandsAsStaged, LandsTheStaging
  <2>9. Undisturbed(w)'
    BY <2>4, <2>5, <2>8 DEF Undisturbed
  <2>. QED
    BY <1>1, <2>5, <2>9, OneLands
<1>. QED
  BY <1>2, <1>3, <1>4

LEMMA CheckLands ==
  ASSUME LandingInvariant, CommitInvariant', NEW w \in Writers, Check(w)
  PROVE  LandingInvariant'
<1>. DEFINE r == run[w]
            s == [r EXCEPT !.at = "writing"]
<1>1. Good(w) /\ Undisturbed(w) /\ r.at = "planned" /\ files' = files
  BY DEF LandingInvariant, CommitInvariant, Check
<1>2. CASE run' = Ended(w, "refused") /\ UNCHANGED others
  BY <1>1, <1>2, EndedLands
<1>3. CASE /\ run' = [run EXCEPT ![w].at = "writing"]
           /\ others' = [others EXCEPT ![w].checked = {}]
  <2>1. DOMAIN r = {"at", "batch", "pins", "held", "listed", "writes", "written"}
    BY <1>1 DEF Good, RunShape
  <2>2. /\ s.at = "writing" /\ s.batch = r.batch /\ s.held = r.held /\ s.listed = r.listed
        /\ s.writes = r.writes /\ s.written = r.written
    BY <2>1
  <2>3. /\ \A v \in Writers \ {w} : run'[v] = run[v]
        /\ run'[w] = s
        /\ \A v \in Writers \ {w} : others'[v] = others[v]
        /\ others'[w] = [others[w] EXCEPT !.checked = {}]
    BY <1>3 DEF LandingInvariant, CommitInvariant
  <2>4. others'[w].begun = others[w].begun
    BY <1>1, <2>3 DEF Good, Nobody
  <2>. HIDE DEF s
  <2>5. LandsAsStaged(r) => LandsAsStaged(s)
    BY <2>2 DEF LandsAsStaged, LandsTheStaging, WrittenBy
  <2>6. Alone(w)' /\ s.batch.operations # <<>> => LandsAsStaged(s)
    BY <1>1, <2>2, <2>4, <2>5 DEF Undisturbed, Alone
  <2>7. Alone(w)' /\ run'[w].batch.operations # <<>> => LandsAsStaged(run[w])'
    BY <1>1, <2>3, <2>6 DEF LandsAsStaged, LandsTheStaging
  <2>8. Undisturbed(w)'
    BY <2>2, <2>3, <2>7 DEF Undisturbed
  <2>. QED
    BY <1>1, <2>3, <2>8, OneLands
<1>. QED
  BY <1>2, <1>3 DEF Check

LEMMA WriteOneLands ==
  ASSUME LandingInvariant, CommitInvariant', NEW w \in Writers, WriteOne(w)
  PROVE  LandingInvariant'
<1>. DEFINE r == run[w]
            write == r.writes[r.written + 1]
            s == [r EXCEPT !.written = @ + 1]
<1>1. /\ Good(w) /\ Undisturbed(w) /\ r.at = "writing" /\ r.written < Len(r.writes)
      /\ Put(w, write.path, write.content) /\ DOMAIN files = Paths
  BY DEF LandingInvariant, CommitInvariant, WriteOne, MoreToWrite
<1>2. /\ DOMAIN r = {"at", "batch", "pins", "held", "listed", "writes", "written"}
      /\ r.written \in Nat /\ Len(r.writes) \in Nat
  BY <1>1 DEF Good, RunShape
<1>3. /\ s.at = "writing" /\ s.batch = r.batch /\ s.held = r.held /\ s.listed = r.listed
      /\ s.writes = r.writes /\ s.written = r.written + 1
  BY <1>1, <1>2
<1>4. /\ \A v \in Writers \ {w} : run'[v] = run[v]
      /\ run'[w] = s
  BY DEF LandingInvariant, CommitInvariant, WriteOne
<1>5. /\ others'[w] = others[w]
      /\ \A q \in Paths : files'[q] = IF q = write.path THEN write.content ELSE files[q]
  BY <1>1 DEF Put
<1>6. r.written + 1 \in 1 .. Len(r.writes)
  BY <1>1, <1>2
<1>7. \A p : WrittenBy(s, p) <=> WrittenBy(r, p) \/ p = write.path
  <2>1. \A i : i \in 1 .. r.written + 1 <=> i \in 1 .. r.written \/ i = r.written + 1
    BY <1>2
  <2>. HIDE DEF s, r
  <2>. QED
    BY <1>3, <2>1 DEF WrittenBy
<1>. HIDE DEF s
<1>8. ASSUME LandsAsStaged(r) PROVE LandsAsStaged(run[w])'
  <2>1. PICK a : LandsTheStaging(r, a)
    BY <1>8 DEF LandsAsStaged
  <2>2. ASSUME NEW p \in Paths, OfTheModel(p)
        PROVE  files'[p] = IF WrittenBy(s, p) THEN a.sources[p] ELSE Known(s.held, p)
    <3>1. files[p] = IF WrittenBy(r, p) THEN a.sources[p] ELSE Known(r.held, p)
      BY <2>1, <2>2 DEF LandsTheStaging
    <3>2. CASE p = write.path
      <4>1. write.content = a.sources[p]
        BY <1>6, <2>1, <2>2, <3>2 DEF LandsTheStaging
      <4>. QED
        BY <1>5, <1>7, <3>2, <4>1
    <3>3. CASE p # write.path
      BY <1>3, <1>5, <1>7, <3>1, <3>3
    <3>. QED
      BY <3>2, <3>3
  <2>3. LandsTheStaging(run[w], a)'
    BY <1>3, <1>4, <2>1, <2>2 DEF LandsTheStaging, WrittenBy
  <2>. QED
    BY <1>3, <1>4, <1>8, <2>3 DEF LandsAsStaged
<1>9. Alone(w)' /\ run'[w].batch.operations # <<>> => LandsAsStaged(run[w])'
  BY <1>1, <1>3, <1>4, <1>5, <1>8 DEF Undisturbed, Alone
<1>10. Undisturbed(w)'
  BY <1>3, <1>4, <1>9 DEF Undisturbed
<1>. QED
  BY <1>1, <1>4, <1>10, OneLands

\* A batch that has written all of it leaves what was staged.
LEMMA WrittenIsWhole ==
  ASSUME LandingInvariant, NEW w \in Writers, AllWritten(run[w]), Alone(w),
         run[w].batch.operations # <<>>
  PROVE  Whole(run[w].held)
<1>1. Good(w) /\ Undisturbed(w) /\ run[w].at = "writing" /\ run[w].written = Len(run[w].writes)
  BY DEF LandingInvariant, CommitInvariant, AllWritten
<1>2. Len(run[w].writes) \in Nat /\ LandsAsStaged(run[w])
  BY <1>1 DEF Undisturbed, Good, RunShape
<1>. QED
  BY <1>1, <1>2, AllOfItLanded

LEMMA LandingLands ==
  ASSUME LandingInvariant, CommitInvariant', NEW w \in Writers,
         \/ LandApply(w)
         \/ w = Session /\ LandCommit
  PROVE  LandingInvariant'
<1>1. AllWritten(run[w]) /\ files' = files /\ others' = others
  BY DEF LandApply, LandCommit
<1>2. DOMAIN run[w] = {"at", "batch", "pins", "held", "listed", "writes", "written"}
  BY <1>1 DEF LandingInvariant, CommitInvariant, Good, RunShape, AllWritten
<1>3. /\ \A v \in Writers \ {w} : run'[v] = run[v]
      /\ run'[w].at = "landed" /\ run'[w].batch = run[w].batch /\ run'[w].held = run[w].held
  BY <1>2 DEF LandingInvariant, CommitInvariant, LandApply, LandCommit
<1>4. Alone(w)' /\ run'[w].batch.operations # <<>> => Whole(run[w].held)'
  BY <1>1, <1>3, WrittenIsWhole DEF Alone, Whole, DiskCompiles, Listed, Present
<1>5. Undisturbed(w)'
  BY <1>3, <1>4 DEF Undisturbed
<1>. QED
  BY <1>1, <1>3, <1>5, OneLands

LEMMA InitLands == Init => LandingInvariant
<1>1. ASSUME Init PROVE DOMAIN files = Paths /\ \A w \in Writers : Undisturbed(w)
  <2>1. \A w \in Writers : run[w].at = "idle"
    BY <1>1 DEF Init, Idle
  <2>. QED
    BY <1>1, <2>1, WorkspaceAssumption DEF Init, Undisturbed, WorkspaceAssumption
<1>. QED
  BY <1>1, InitIsGood DEF LandingInvariant

LEMMA NextLands ==
  ASSUME NoFileIsNoFile, LandingInvariant, [Next]_vars
  PROVE  LandingInvariant'
<1>1. CommitInvariant'
  BY NextKeeps DEF LandingInvariant
<1>2. Session \in Writers /\ Appliers \subseteq Writers /\ "editor" \notin Writers
  BY WorkspaceAssumption DEF WorkspaceAssumption, Writers
<1>3. ASSUME NEW p, NEW content, Save(p, content) PROVE LandingInvariant'
  <2>1. run' = run /\ Put("editor", p, content)
    BY <1>3 DEF Save
  <2>2. ASSUME NEW w \in Writers PROVE Undisturbed(w)'
    <3>1. "editor" # w /\ Undisturbed(w) /\ run'[w] = run[w]
      BY <1>2, <2>1 DEF LandingInvariant
    <3>. QED
      BY <2>1, <3>1, LeftAlone
  <2>3. DOMAIN files' = Paths
    BY <2>1 DEF Put, LandingInvariant
  <2>. QED
    BY <1>1, <2>2, <2>3 DEF LandingInvariant
<1>4. ASSUME NEW batch, Commit(batch) PROVE LandingInvariant'
  <2>1. /\ \A v \in Writers \ {Session} : run'[v] = run[v] /\ others'[v] = others[v]
        /\ files' = files /\ run'[Session].at = "pins"
    BY <1>2, <1>4 DEF Commit, LandingInvariant, CommitInvariant
  <2>. QED
    BY <1>1, <1>2, <2>1, AtRestLands
<1>5. CASE RefusePins
  <2>1. run' = Ended(Session, "refused") /\ UNCHANGED <<files, others>>
    BY <1>5 DEF RefusePins, Ended
  <2>. QED
    BY <1>1, <1>2, <2>1, EndedLands
<1>6. CASE PassPins
  BY <1>1, <1>2, <1>6, BeginReads DEF PassPins
<1>7. CASE LandCommit
  BY <1>1, <1>2, <1>7, LandingLands
<1>8. CASE Settle
  <2>1. /\ \A v \in Writers \ {Session} : run'[v] = run[v] /\ others'[v] = others[v]
        /\ files' = files /\ run'[Session].at = "idle"
    BY <1>2, <1>8 DEF Settle, LandingInvariant, CommitInvariant, Idle
  <2>. QED
    BY <1>1, <1>2, <2>1, AtRestLands
<1>9. ASSUME NEW w \in Appliers, NEW batch, Apply(w, batch) PROVE LandingInvariant'
  BY <1>1, <1>2, <1>9, BeginReads DEF Apply
<1>10. ASSUME NEW w \in Writers, Read(w) \/ Plan(w) \/ Check(w) PROVE LandingInvariant'
  BY <1>1, <1>10, ReadReads, PlanLands, CheckLands
<1>11. ASSUME NEW w \in Writers, WriteOne(w) PROVE LandingInvariant'
  BY <1>1, <1>11, WriteOneLands
<1>12. ASSUME NEW w \in Writers, WriteThrows(w) PROVE LandingInvariant'
  BY <1>1, <1>12, EndedLands DEF WriteThrows
<1>13. ASSUME NEW w \in Writers, LandApply(w) PROVE LandingInvariant'
  BY <1>1, <1>13, LandingLands
<1>14. CASE UNCHANGED vars
  <2>1. run' = run /\ files' = files /\ others' = others
    BY <1>14 DEF vars
  <2>. QED
    BY <1>1, <2>1, LeftAlone DEF LandingInvariant
<1>. QED
  BY <1>3, <1>4, <1>5, <1>6, <1>7, <1>8, <1>9, <1>10, <1>11, <1>12, <1>13, <1>14 DEF Next

LEMMA StagingsLand ==
  ASSUME NoFileIsNoFile
  PROVE  Spec => []LandingInvariant
<1>1. LandingInvariant /\ [Next]_vars => LandingInvariant'
  BY NextLands
<1>. QED
  BY <1>1, InitLands, PTL DEF Spec

\* AloneLandsWhole: what planOperations gates is what writeAll leaves.  A batch that
\* nobody disturbs, of any operations, leaves a workspace that compiles, and every
\* overlay it wrote is about what is there.
THEOREM LandsWhatPassed ==
  ASSUME NoFileIsNoFile
  PROVE  Spec => []AloneLandsWhole
<1>1. ASSUME LandingInvariant, NEW w \in Writers, Landed(w), Alone(w),
             run[w].batch.operations # <<>>
      PROVE  Whole(run[w].held)
  BY <1>1 DEF LandingInvariant, Undisturbed, Landed
<1>2. LandingInvariant => AloneLandsWhole
  BY <1>1 DEF AloneLandsWhole, Whole
<1>. QED
  BY <1>2, StagingsLand, PTL

\* FreezeIsSomebodyElses: recompileWorkspace fails after a commit of the session's
\* only on what somebody else did to the files, while it ran or since the start.
THEOREM FreezesAreSomebodyElses ==
  ASSUME NoFileIsNoFile
  PROVE  Spec => FreezeIsSomebodyElses
<1>1. ASSUME LandingInvariant, [Next]_vars, Freezes, Alone(Session),
             run[Session].batch.operations # <<>>, ResolvedStill
      PROVE  FALSE
  <2>1. CASE LandCommit
    <3>. DEFINE l == [p \in resolved |-> Kinds[p]]
    <3>1. AllWritten(run[Session]) /\ frozen' = ~Recompiled(files)
      BY <2>1 DEF LandCommit
    <3>2. CompileOf(Listed(files), files).ok
      BY <1>1, <3>1, WrittenIsWhole DEF Whole, DiskCompiles, Writers
    <3>3. CompilerInputs(resolved) \subseteq Present(files)
      BY <1>1 DEF ResolvedStill, CompilerInputs
    <3>4. \A kind \in CompiledKinds : PathsOf(l, kind) = PathsOf(Listed(files), kind)
      <4>1. \A kind : PathsOf(l, kind) = {p \in resolved : Kinds[p] = kind}
        BY DEF PathsOf
      <4>2. \A p : Kinds[p] \in CompiledKinds => (p \in resolved <=> p \in Present(files))
        BY <1>1 DEF ResolvedStill, CompilerInputs, CompiledKinds
      <4>. QED
        BY <4>1, <4>2, ListedOf
    <3>5. IsFiniteSet(DOMAIN Listed(files))
      BY FS_Subset, WorkspaceAssumption DEF WorkspaceAssumption, Listed, Present
    <3>6. \A p \in DOMAIN Listed(files) :
            Listed(files)[p] \in CompiledKinds => files[p] = files[p]
      OBVIOUS
    <3>. HIDE DEF l
    <3>7. CompileOf(Listed(files), files) = CompileOf(l, files)
      BY <3>4, <3>5, <3>6, SameCompile
    <3>8. Recompiled(files)
      BY <3>2, <3>3, <3>7 DEF Recompiled, l
    <3>. QED
      BY <1>1, <3>1, <3>8 DEF Freezes
  <2>2. CASE ~LandCommit
    <3>1. frozen' = frozen
      BY <1>1, <2>2 DEF Next, vars, session, Save, Commit, RefusePins, PassPins, Settle, Apply,
         Read, Plan, Check, WriteOne, WriteThrows, LandApply
    <3>. QED
      BY <1>1, <3>1 DEF Freezes
  <2>. QED
    BY <2>1, <2>2
<1>2. LandingInvariant /\ [Next]_vars =>
        [Freezes => \/ ~Alone(Session)
                    \/ run[Session].batch.operations = <<>>
                    \/ ~ResolvedStill]_vars
  BY <1>1
<1>. QED
  BY <1>2, StagingsLand, PTL DEF Spec, FreezeIsSomebodyElses
=============================================================================
