------------------------- MODULE EditorSessionProofs -------------------------
(***************************************************************************)
(* What a batch the reviewer commits can replace, what a dead control of   *)
(* the browser waits for, what takes a row out of its tray, and what the   *)
(* canvas shows once nothing is on its way: for any documents and views,   *)
(* any number of gestures, and any number of other writers and lost        *)
(* connections.                                                            *)
(*                                                                         *)
(* The first argument is about revisions and the order they are learnt in. *)
(* A reading says of each path which revision of it somebody knows, if     *)
(* any: a published model, the pins of a changeset, what a row was written *)
(* from, the disk itself.  Revisions only grow, and what is further along  *)
(* the way from the disk to the screen is older, so a pin is at most what  *)
(* was on screen when the row was written, and that is at most what the    *)
(* disk holds.  When the pin equals what the disk holds, so does the       *)
(* middle one.  The second keeps accounts of what is waited for, the third *)
(* follows the documents and the queries the frames on their way lead to;  *)
(* each is set out where its part begins.                                  *)
(***************************************************************************)
EXTENDS EditorSession, SequenceTheorems, TLAPS

Precedes(earlier, later) ==
  \A p \in Paths : earlier[p] # None /\ later[p] # None => earlier[p] <= later[p]

\* The readings.
Digests(m) == [p \in Paths |-> DigestIn(m, p)]
Pinned(c)  == [p \in Paths |-> PinnedPath(c.pins, p)]
Standing(files) == [p \in Paths |-> Revision(files, p)]

Telling(row) == row.seen.shown # None /\ row.seen.published = row.seen.shown
Shown(row) ==
  [p \in Paths |-> IF p = row.path /\ Telling(row) THEN row.seen.shown ELSE None]

\* A reading taken while the disk went from empty to `files`, in t writes.
Past(reading, files, t) ==
  /\ reading \in [Paths -> (0..t) \cup {None}]
  /\ Precedes(reading, Standing(files))

\* A row for a view says at least which, and what it was written from.
ViewRow(row) == row.path \in ViewPaths /\ {"path", "seen"} \subseteq DOMAIN row

\* A changeset by itself: its pins vouch for its rows and for nothing else,
\* and no pin is later than what a row of its path was written from.
Sound(c) ==
  LET targeted == {row.path : row \in Rows(c)}
  IN  /\ \A row \in c.operations : row.path \in Documents
      /\ \A row \in c.viewOperations : ViewRow(row)
      /\ DOMAIN c.pins \subseteq targeted
      /\ targeted \cap Documents \subseteq DOMAIN c.pins
      /\ \A p \in DOMAIN c.pins : c.pins[p] # None
      /\ \A row \in Rows(c) :
           Telling(row) => /\ row.path \in DOMAIN c.pins
                           /\ c.pins[row.path] <= row.seen.shown

\* Everything a changeset knows is past.
Learnt(c, files, t) ==
  /\ Past(Pinned(c), files, t)
  /\ \A row \in Rows(c) : Past(Shown(row), files, t)

Carries(frame) == frame.kind \in {"ready", "model"}
Carried(frame) == IF frame.kind = "ready" THEN frame.snapshot.model ELSE frame.model

Modelled(m, files, t) ==
  /\ m \in Models
  /\ \A d \in Documents : m.digests[d] # None
  /\ Past(Digests(m), files, t)

\* Frames on their way bring models in the order they were compiled in, none
\* later than the last one, all of them later than `reading`.
InOrder(frames, m, files, t) ==
  \A i \in DOMAIN frames : Carries(frames[i]) =>
    /\ Modelled(Carried(frames[i]), files, t)
    /\ Precedes(Digests(Carried(frames[i])), Digests(m))
    /\ \A j \in DOMAIN frames : i < j /\ Carries(frames[j]) =>
         Precedes(Digests(Carried(frames[i])), Digests(Carried(frames[j])))

Before(reading, frames, m) ==
  /\ Precedes(reading, Digests(m))
  /\ \A i \in DOMAIN frames : Carries(frames[i]) =>
       Precedes(reading, Digests(Carried(frames[i])))

\* A changeset in the tray: its pins are also past what is on screen, and
\* what is still to come there.
Held(c, screen, frames, m, files, t) ==
  /\ Sound(c)
  /\ Learnt(c, files, t)
  /\ Precedes(Pinned(c), Digests(screen))
  /\ Before(Pinned(c), frames, m)

Sequence(s) == s \in Seq(ToSet(s))

FrameTyped(frame) ==
  /\ frame.kind \in {"ready", "model", "rejected", "closing", "filter-result",
                     "apply-result", "response"}
  /\ frame.kind = "response" =>
       /\ frame.type \in {"chat.response", "choice.present", "diagnostic", "operations.propose"}
       /\ frame.type = "operations.propose" => frame.path \in Documents

Shapes ==
  /\ DOMAIN app = DOMAIN initialVisualAppState
  /\ Sequence(up) /\ Sequence(down) /\ Sequence(app.undo) /\ Sequence(app.redo)
  /\ \A i \in DOMAIN down : FrameTyped(down[i])

Opens ==
  /\ link = "loading" => down = <<>> /\ app.model = None
  /\ link = "open" /\ app.model = None => down # <<>> /\ down[1].kind = "ready"
  /\ app.lifecycle = "closed" => link = "over"

Clocked(files, t) ==
  /\ t \in Nat
  /\ DOMAIN files = Paths
  /\ Past(Standing(files), files, t)
  /\ \A d \in Documents : files[d] \in Nat

ModelsHold ==
  /\ Modelled(model, disk, clock)
  /\ app.model # None => Modelled(app.model, disk, clock)
  /\ InOrder(down, model, disk, clock)
  /\ Before(Digests(app.model), down, model)

TrayHolds == \A c \in Changesets : Held(c, app.model, down, model, disk, clock)

CommitsHold ==
  \A i \in DOMAIN up : up[i].type = "changeset.commit" =>
    Sound(up[i].changeset) /\ Learnt(up[i].changeset, disk, clock)

EditorInv ==
  /\ Shapes /\ Opens /\ Clocked(disk, clock)
  /\ ModelsHold /\ TrayHolds /\ CommitsHold
  /\ RowsLandOnWhatWasShown

-----------------------------------------------------------------------------
(***************************************************************************)
(* Sequences of anything.                                                  *)
(***************************************************************************)
LEMMA SequenceShape ==
  ASSUME NEW s, Sequence(s)
  PROVE  Len(s) \in Nat /\ DOMAIN s = 1..Len(s)
BY DEF Sequence

LEMMA SequenceOf ==
  \A S : \A s \in Seq(S) : Sequence(s)
<1> SUFFICES ASSUME NEW S, NEW s \in Seq(S) PROVE Sequence(s)
  OBVIOUS
<1>1. Len(s) \in Nat /\ DOMAIN s = 1..Len(s) /\ s \in [1..Len(s) -> S]
  OBVIOUS
<1>2. s \in [1..Len(s) -> ToSet(s)]
  BY <1>1 DEF ToSet
<1> QED
  BY <1>1, <1>2 DEF Sequence

LEMMA Appended ==
  ASSUME NEW s, Sequence(s), NEW e
  PROVE  /\ Sequence(Append(s, e))
         /\ Len(Append(s, e)) = Len(s) + 1
         /\ DOMAIN Append(s, e) = 1..(Len(s) + 1)
         /\ \A i \in 1..Len(s) : Append(s, e)[i] = s[i]
         /\ Append(s, e)[Len(s) + 1] = e
         /\ ToSet(Append(s, e)) = ToSet(s) \cup {e}
<1> DEFINE S == ToSet(s) \cup {e}
<1>1. s \in Seq(S) /\ e \in S
  BY DEF Sequence
<1>2. Append(s, e) \in Seq(S)
  BY <1>1
<1>3. Sequence(Append(s, e))
  BY <1>2, SequenceOf
<1>4. /\ Len(Append(s, e)) = Len(s) + 1
      /\ DOMAIN Append(s, e) = 1..(Len(s) + 1)
      /\ \A i \in 1..Len(s) : Append(s, e)[i] = s[i]
      /\ Append(s, e)[Len(s) + 1] = e
      /\ Len(s) \in Nat /\ DOMAIN s = 1..Len(s)
  <2> HIDE DEF S
  <2> QED BY <1>1
<1>5. ToSet(Append(s, e)) = ToSet(s) \cup {e}
  BY <1>4 DEF ToSet
<1> QED
  BY <1>3, <1>4, <1>5

LEMMA Joined ==
  ASSUME NEW s, Sequence(s), NEW r, Sequence(r)
  PROVE  /\ Sequence(s \o r)
         /\ DOMAIN (s \o r) = 1..(Len(s) + Len(r))
         /\ \A i \in 1..Len(s) : (s \o r)[i] = s[i]
         /\ \A i \in 1..(Len(s) + Len(r)) : i > Len(s) =>
              /\ i - Len(s) \in DOMAIN r
              /\ (s \o r)[i] = r[i - Len(s)]
<1> DEFINE S == ToSet(s) \cup ToSet(r)
<1>1. s \in Seq(S) /\ r \in Seq(S)
  BY DEF Sequence
<1> HIDE DEF S
<1>2. Sequence(s \o r)
  <2>1. s \o r \in Seq(S)
    BY <1>1
  <2> QED BY <2>1, SequenceOf, Zenon
<1>3. Len(s) \in Nat /\ Len(r) \in Nat /\ DOMAIN r = 1..Len(r)
  BY <1>1
<1>4. /\ DOMAIN (s \o r) = 1..(Len(s) + Len(r))
      /\ \A i \in 1..(Len(s) + Len(r)) : (s \o r)[i] = IF i <= Len(s) THEN s[i] ELSE r[i - Len(s)]
  BY <1>1
<1> QED
  BY <1>2, <1>3, <1>4

LEMMA Tailed ==
  ASSUME NEW s, Sequence(s), s # <<>>
  PROVE  /\ 1 \in DOMAIN s
         /\ Sequence(Tail(s))
         /\ Len(Tail(s)) = Len(s) - 1
         /\ \A i \in DOMAIN Tail(s) : i + 1 \in DOMAIN s /\ Tail(s)[i] = s[i + 1]
<1>1. s \in Seq(ToSet(s))
  BY DEF Sequence
<1>2. Len(s) \in Nat \ {0} /\ DOMAIN s = 1..Len(s)
  BY <1>1
<1>3. Tail(s) \in Seq(ToSet(s)) /\ Len(Tail(s)) = Len(s) - 1
      /\ \A i \in 1..(Len(s) - 1) : Tail(s)[i] = s[i + 1]
  BY <1>1, <1>2
<1>4. Sequence(Tail(s)) /\ DOMAIN Tail(s) = 1..(Len(s) - 1)
  <2>1. Sequence(Tail(s))
    BY <1>3, SequenceOf, Zenon
  <2> QED BY <2>1, <1>3
<1> QED
  BY <1>2, <1>3, <1>4

LEMMA Cut ==
  ASSUME NEW s, Sequence(s), NEW n \in 0..Len(s)
  PROVE  /\ Sequence(SubSeq(s, 1, n))
         /\ \A i \in DOMAIN SubSeq(s, 1, n) : i \in DOMAIN s /\ SubSeq(s, 1, n)[i] = s[i]
<1>1. s \in Seq(ToSet(s))
  BY DEF Sequence
<1>2. Len(s) \in Nat /\ DOMAIN s = 1..Len(s)
  BY <1>1
<1>3. SubSeq(s, 1, n) \in Seq(ToSet(s)) /\ Len(SubSeq(s, 1, n)) = n
      /\ \A i \in 1..n : SubSeq(s, 1, n)[i] = s[i]
  BY <1>1, <1>2, SubSeqProperties
<1>4. Sequence(SubSeq(s, 1, n)) /\ DOMAIN SubSeq(s, 1, n) = 1..n
  <2>1. Sequence(SubSeq(s, 1, n))
    BY <1>3, SequenceOf, Zenon
  <2> QED BY <2>1, <1>3
<1> QED
  BY <1>2, <1>3, <1>4

\* Undoing and redoing move a changeset from the end of one pile to the tray.
LEMMA Popped ==
  ASSUME NEW s, Sequence(s), s # <<>>
  PROVE  /\ Sequence(Front(s))
         /\ ToSet(Front(s)) \subseteq ToSet(s)
         /\ Last(s) \in ToSet(s)
<1>1. Len(s) \in Nat \ {0} /\ DOMAIN s = 1..Len(s)
  BY DEF Sequence
<1>2. Front(s) = SubSeq(s, 1, Len(s) - 1) /\ Last(s) = s[Len(s)]
  BY DEF Front, Last
<1>3. Len(s) - 1 \in 0..Len(s)
  BY <1>1
<1>4. Sequence(Front(s)) /\ \A i \in DOMAIN Front(s) : i \in DOMAIN s /\ Front(s)[i] = s[i]
  BY <1>2, <1>3, Cut
<1> QED
  BY <1>1, <1>2, <1>4 DEF ToSet

-----------------------------------------------------------------------------
(***************************************************************************)
(* Readings.                                                               *)
(***************************************************************************)
LEMMA PastNumbers ==
  ASSUME NEW reading, NEW files, NEW t \in Nat, Past(reading, files, t), NEW p \in Paths,
         reading[p] # None
  PROVE  reading[p] \in Nat /\ reading[p] <= t
BY DEF Past

\* A write gives the files it changes the next revision, or removes them:
\* what was known before still is of the past.
LEMMA StillPast ==
  ASSUME NEW t \in Nat, NEW files, NEW files2,
         \A p \in Paths : Revision(files2, p) \in {Revision(files, p), None, t + 1},
         NEW reading, Past(reading, files, t)
  PROVE  Past(reading, files2, t + 1)
<1>1. reading \in [Paths -> (0..(t + 1)) \cup {None}]
  BY DEF Past
<1>2. ASSUME NEW p \in Paths, reading[p] # None, Standing(files2)[p] # None
      PROVE  reading[p] <= Standing(files2)[p]
  <2>1. reading[p] \in Nat /\ reading[p] <= t
    BY <1>2, PastNumbers
  <2>2. CASE Revision(files2, p) = Revision(files, p)
    BY <1>2, <2>2 DEF Past, Precedes, Standing
  <2>3. CASE Revision(files2, p) = t + 1
    BY <2>1, <2>3 DEF Standing
  <2>4. Revision(files2, p) # None
    BY <1>2 DEF Standing
  <2> QED BY <2>2, <2>3, <2>4
<1> QED
  BY <1>1, <1>2 DEF Past, Precedes

LEMMA StillClocked ==
  ASSUME NEW t \in Nat, NEW files, Clocked(files, t), NEW files2, DOMAIN files2 = Paths,
         \A p \in Paths : Revision(files2, p) \in {Revision(files, p), None, t + 1},
         \A d \in Documents : files2[d] \in {files[d], t + 1}
  PROVE  Clocked(files2, t + 1)
<1>1. \A d \in Documents : files2[d] \in Nat
  BY DEF Clocked
<1>2. ASSUME NEW p \in Paths
      PROVE  Revision(files2, p) \in (0..(t + 1)) \cup {None}
  <2>1. Revision(files, p) \in (0..t) \cup {None}
    BY DEF Clocked, Past, Standing
  <2>2. CASE Revision(files2, p) = Revision(files, p)
    BY <2>1, <2>2
  <2>3. CASE Revision(files2, p) = t + 1
    BY <2>3
  <2> QED BY <2>2, <2>3
<1>3. Standing(files2) \in [Paths -> (0..(t + 1)) \cup {None}]
  BY <1>2 DEF Standing
<1>4. Precedes(Standing(files2), Standing(files2))
  BY <1>3 DEF Precedes
<1> QED
  BY <1>1, <1>3, <1>4 DEF Clocked, Past

LEMMA ModelDigests ==
  ASSUME NEW m \in Models
  PROVE  /\ m # None
         /\ \A p \in Paths : DigestIn(m, p) = m.digests[p]
         /\ \A p \in Paths : Digests(m)[p] = m.digests[p]
         /\ \A p \in Paths : m.digests[p] \in Nat \cup {None}
BY NoneAssumption DEF Models, DigestIn, Digests

LEMMA SameReading ==
  ASSUME NEW m, NEW files, NEW t \in Nat, Modelled(m, files, t)
  PROVE  Precedes(Digests(m), Digests(m))
BY ModelDigests DEF Modelled, Precedes

\* What a compilation publishes is later than everything known before it.
LEMMA Latest ==
  ASSUME NEW files, NEW t, Clocked(files, t), NEW listed
  PROVE  /\ Modelled(Compiled(files, listed), files, t)
         /\ \A reading : Past(reading, files, t) =>
              Precedes(reading, Digests(Compiled(files, listed)))
<1> DEFINE m == Compiled(files, listed)
<1>1. \A p \in Paths : Revision(files, p) \in (0..t) \cup {None}
  BY DEF Clocked, Past, Standing
<1>2. m \in Models
  BY <1>1 DEF Compiled, Models, Clocked
<1>3. \A p \in Paths : m.digests[p] \in {Revision(files, p), None}
  BY DEF Compiled
<1>4. \A d \in Documents : m.digests[d] # None
  BY NoneAssumption DEF Compiled, Revision, Clocked, Paths
<1> HIDE DEF m
<1>5. \A p \in Paths : Digests(m)[p] \in {Revision(files, p), None}
  BY <1>2, <1>3, ModelDigests
<1>6. Digests(m) \in [Paths -> (0..t) \cup {None}]
  BY <1>1, <1>5 DEF Digests
<1>7. Precedes(Digests(m), Standing(files))
  BY <1>1, <1>5 DEF Precedes, Standing, Clocked
<1>8. ASSUME NEW reading, Past(reading, files, t)
      PROVE  Precedes(reading, Digests(m))
  BY <1>5, <1>8 DEF Past, Precedes, Standing
<1>9. Modelled(m, files, t)
  BY <1>2, <1>4, <1>6, <1>7 DEF Modelled, Past
<1> QED
  BY <1>8, <1>9 DEF m

\* A reading pieced together from two others comes before what both do.
LEMMA Pieced ==
  ASSUME NEW one, NEW other, NEW reading, NEW later,
         \A p \in Paths : reading[p] \in {None, one[p], other[p]},
         Precedes(one, later), Precedes(other, later)
  PROVE  Precedes(reading, later)
BY DEF Precedes

-----------------------------------------------------------------------------
(***************************************************************************)
(* Changesets.                                                             *)
(***************************************************************************)
LEMMA PinnedReading ==
  ASSUME NEW c, NEW p \in Paths
  PROVE  Pinned(c)[p] = IF p \in DOMAIN c.pins THEN c.pins[p] ELSE None
BY DEF Pinned, PinnedPath

LEMMA EmptyHolds ==
  ASSUME NEW screen, NEW frames, NEW m, NEW files, NEW t \in Nat
  PROVE  Held(EmptyChangeset, screen, frames, m, files, t)
<1>1. Rows(EmptyChangeset) = {} /\ DOMAIN EmptyChangeset.pins = {}
  BY DEF Rows, EmptyChangeset, NoPins
<1>2. \A p \in Paths : Pinned(EmptyChangeset)[p] = None
  BY <1>1, PinnedReading
<1>3. Pinned(EmptyChangeset) \in [Paths -> (0..t) \cup {None}]
  BY <1>2 DEF Pinned
<1>4. \A later : Precedes(Pinned(EmptyChangeset), later)
  BY <1>2 DEF Precedes
<1>5. Sound(EmptyChangeset)
  BY <1>1 DEF Sound, Rows
<1> QED
  BY <1>1, <1>3, <1>4, <1>5 DEF Held, Learnt, Past, Before

LEMMA Repinned ==
  ASSUME NEW c, NEW m, NEW operations, NEW viewOperations
  PROVE  LET n == Restage(c, m, operations, viewOperations)
             held(p) == IF p \in DOMAIN c.pins THEN c.pins[p] ELSE DigestIn(m, p)
         IN  /\ Rows(n) = operations \cup viewOperations
             /\ \A p : p \in DOMAIN n.pins <=>
                  (\E row \in Rows(n) : row.path = p) /\ held(p) # None
             /\ \A p \in DOMAIN n.pins : n.pins[p] = held(p)
BY DEF Restage, PinnedDigests, Rows, RowPaths

LEMMA RestageHolds ==
  ASSUME NEW c, NEW m, NEW frames, NEW last, NEW files, NEW t \in Nat,
         Modelled(m, files, t), Before(Digests(m), frames, last),
         Held(c, m, frames, last, files, t),
         NEW operations, NEW viewOperations,
         \A row \in operations : row.path \in Documents,
         \A row \in viewOperations : ViewRow(row),
         \A row \in operations \cup viewOperations :
           \/ \E base \in Rows(c) : row.path = base.path /\ row.seen = base.seen
           \/ Telling(row) => row.seen.shown = DigestIn(m, row.path)
  PROVE  Held(Restage(c, m, operations, viewOperations), m, frames, last, files, t)
<1> DEFINE n == Restage(c, m, operations, viewOperations)
           held(p) == IF p \in DOMAIN c.pins THEN c.pins[p] ELSE DigestIn(m, p)
<1>1. /\ Rows(n) = operations \cup viewOperations
      /\ \A p : p \in DOMAIN n.pins <=> (\E row \in Rows(n) : row.path = p) /\ held(p) # None
      /\ \A p \in DOMAIN n.pins : n.pins[p] = held(p)
  BY Repinned
<1> HIDE DEF n
<1>2. /\ m \in Models
      /\ \A p \in Paths : DigestIn(m, p) \in (0..t) \cup {None}
      /\ \A p \in Paths : Digests(m)[p] = DigestIn(m, p)
      /\ \A d \in Documents : DigestIn(m, d) # None
  BY ModelDigests DEF Modelled, Past, Paths
<1>3. \A p \in Paths : Pinned(n)[p] \in {None, Pinned(c)[p], Digests(m)[p]}
  BY <1>1, <1>2, PinnedReading
<1>4. /\ Sound(c)
      /\ Past(Pinned(c), files, t) /\ \A row \in Rows(c) : Past(Shown(row), files, t)
      /\ Precedes(Pinned(c), Digests(m))
      /\ Before(Pinned(c), frames, last)
  BY DEF Held, Learnt
<1>5. Past(Digests(m), files, t)
  BY DEF Modelled
<1>6. Past(Pinned(n), files, t)
  <2>1. Pinned(n) \in [Paths -> (0..t) \cup {None}]
    <3>1. \A p \in Paths : Pinned(n)[p] \in (0..t) \cup {None}
      BY <1>3, <1>4, <1>5 DEF Past
    <3> QED BY <3>1 DEF Pinned
  <2> QED BY <2>1, <1>3, <1>4, <1>5, Pieced DEF Past
<1>7. Precedes(Pinned(n), Digests(m))
  BY <1>3, <1>4, SameReading, Pieced
<1>8. Before(Pinned(n), frames, last)
  <2>1. \A later : Precedes(Pinned(c), later) /\ Precedes(Digests(m), later)
                   => Precedes(Pinned(n), later)
    BY <1>3, Pieced
  <2> QED BY <2>1, <1>4 DEF Before
<1>9. ASSUME NEW row \in Rows(n)
      PROVE  /\ Past(Shown(row), files, t)
             /\ Telling(row) => /\ row.path \in DOMAIN n.pins
                                /\ n.pins[row.path] <= row.seen.shown
  <2>1. CASE \E base \in Rows(c) : row.path = base.path /\ row.seen = base.seen
    <3>1. PICK base \in Rows(c) : row.path = base.path /\ row.seen = base.seen
      BY <2>1
    <3>2. (Telling(row) <=> Telling(base)) /\ Shown(row) = Shown(base)
      BY <3>1 DEF Telling, Shown
    <3>4. ASSUME Telling(row)
          PROVE  row.path \in DOMAIN n.pins /\ n.pins[row.path] <= row.seen.shown
      <4>1. /\ row.path \in DOMAIN c.pins /\ c.pins[row.path] # None
            /\ c.pins[row.path] <= row.seen.shown
        BY <3>1, <3>2, <3>4, <1>4 DEF Sound
      <4> QED BY <4>1, <1>1
    <3> QED BY <3>1, <3>2, <3>4, <1>4
  <2>2. CASE Telling(row) => row.seen.shown = DigestIn(m, row.path)
    <3> row.path \in Paths
      BY <1>1 DEF Paths, ViewRow
    <3>1. \A p \in Paths : Shown(row)[p] \in {None, Digests(m)[p]}
      BY <2>2, <1>2 DEF Shown
    <3>2. Past(Shown(row), files, t)
      <4>1. Shown(row) \in [Paths -> (0..t) \cup {None}]
        <5>1. \A p \in Paths : Shown(row)[p] \in (0..t) \cup {None}
          BY <3>1, <1>2
        <5> QED BY <5>1 DEF Shown
      <4>2. Precedes(Shown(row), Standing(files))
        BY <3>1, <1>5, Pieced DEF Past
      <4> QED BY <4>1, <4>2 DEF Past
    <3>3. ASSUME Telling(row)
          PROVE  row.path \in DOMAIN n.pins /\ n.pins[row.path] <= row.seen.shown
      <4>1. row.seen.shown # None /\ row.seen.shown = Digests(m)[row.path]
        BY <2>2, <3>3, <1>2 DEF Telling
      <4>2. held(row.path) # None
        BY <4>1, <2>2, <1>2, <1>4 DEF Sound
      <4>3. row.path \in DOMAIN n.pins /\ n.pins[row.path] = held(row.path)
        BY <4>2, <1>1
      <4>4. Pinned(n)[row.path] = held(row.path)
        BY <4>3, <2>2, PinnedReading
      <4>5. held(row.path) <= row.seen.shown
        BY <4>1, <4>2, <4>4, <2>2, <1>7 DEF Precedes
      <4> QED BY <4>3, <4>5
    <3> QED BY <2>2, <3>2, <3>3
  <2> QED BY <1>1, <2>1, <2>2
<1>10. Sound(n)
  <2> DEFINE targeted == {row.path : row \in Rows(n)}
  <2>1. DOMAIN n.pins \subseteq targeted
    BY <1>1
  <2>2. targeted \cap Documents \subseteq DOMAIN n.pins
    BY <1>1, <1>2, <1>4 DEF Sound
  <2>3. \A p \in DOMAIN n.pins : n.pins[p] # None
    BY <1>1
  <2>4. n.operations = operations /\ n.viewOperations = viewOperations
    BY DEF n, Restage
  <2> QED BY <1>9, <2>1, <2>2, <2>3, <2>4 DEF Sound
<1>11. Learnt(n, files, t)
  BY <1>6, <1>9 DEF Learnt
<1> QED
  BY <1>7, <1>8, <1>10, <1>11 DEF Held, n

-----------------------------------------------------------------------------
(***************************************************************************)
(* The host's side: the files and the compiled model move on, and frames   *)
(* are put behind those already on their way.                              *)
(***************************************************************************)
Onward(files, t, files2, t2) ==
  /\ Clocked(files2, t2)
  /\ \A reading : Past(reading, files, t) => Past(reading, files2, t2)

LEMMA StillLearnt ==
  ASSUME NEW files, NEW t, NEW files2, NEW t2, Onward(files, t, files2, t2)
  PROVE  /\ \A c : Learnt(c, files, t) => Learnt(c, files2, t2)
         /\ \A m : Modelled(m, files, t) => Modelled(m, files2, t2)
BY DEF Onward, Learnt, Modelled

LEMMA Standstill ==
  ASSUME NEW files, NEW t, Clocked(files, t)
  PROVE  Onward(files, t, files, t)
BY DEF Onward

\* Everything in the state moves on with the host.
LEMMA HostMoves ==
  ASSUME EditorInv, NEW more,
         UNCHANGED <<app, link, host>>,
         Onward(disk, clock, disk', clock'),
         \/ model' = model /\ \A i \in DOMAIN more : ~Carries(more[i])
         \/ /\ model' = Compiled(disk', views')
            /\ \A i \in DOMAIN more : Carries(more[i]) => Carried(more[i]) = model',
         Sequence(more), \A i \in DOMAIN more : FrameTyped(more[i]),
         link = "loading" => more = <<>>,
         down' = down \o more,
         up' = up \/ (up # <<>> /\ up' = Tail(up)),
         host = "socket" =>
           \A l \in landed' : Telling(l.row) => l.over = l.row.seen.shown
  PROVE  EditorInv'
<1>1. /\ Sequence(up) /\ Sequence(down) /\ Sequence(app.undo) /\ Sequence(app.redo)
      /\ \A i \in DOMAIN down : FrameTyped(down[i])
  BY DEF EditorInv, Shapes
<1>2. /\ Sequence(down') /\ Len(down) \in Nat /\ DOMAIN down = 1..Len(down)
      /\ Len(more) \in Nat /\ DOMAIN more = 1..Len(more)
      /\ DOMAIN down' = 1..(Len(down) + Len(more))
      /\ \A i \in 1..Len(down) : down'[i] = down[i]
      /\ \A i \in DOMAIN down' : i > Len(down) =>
           /\ i - Len(down) \in DOMAIN more
           /\ down'[i] = more[i - Len(down)]
  <2>1. /\ Len(down) \in Nat /\ DOMAIN down = 1..Len(down)
        /\ Len(more) \in Nat /\ DOMAIN more = 1..Len(more)
    BY <1>1, SequenceShape
  <2>2. /\ Sequence(down \o more)
        /\ DOMAIN (down \o more) = 1..(Len(down) + Len(more))
        /\ \A i \in 1..Len(down) : (down \o more)[i] = down[i]
        /\ \A i \in 1..(Len(down) + Len(more)) : i > Len(down) =>
              /\ i - Len(down) \in DOMAIN more
              /\ (down \o more)[i] = more[i - Len(down)]
    BY <1>1, Joined
  <2> QED BY <2>1, <2>2
<1>3. /\ Sequence(up')
      /\ \A i \in DOMAIN up' : \E j \in DOMAIN up : up'[i] = up[j]
  <2>1. CASE up' = up
    BY <2>1, <1>1
  <2>2. CASE up # <<>> /\ up' = Tail(up)
    BY <2>2, <1>1, Tailed
  <2> QED BY <2>1, <2>2
<1>4. Shapes'
  <2>1. \A i \in DOMAIN down' : FrameTyped(down'[i])
    BY <1>1, <1>2
  <2>2. DOMAIN app' = DOMAIN initialVisualAppState
    BY DEF EditorInv, Shapes
  <2> QED BY <1>1, <1>2, <1>3, <2>1, <2>2 DEF Shapes
<1>5. Opens'
  <2>1. CASE link = "open" /\ app.model = None
    <3>1. 1 \in DOMAIN down /\ down[1].kind = "ready" /\ down # <<>>
      <4>1. down # <<>> /\ down[1].kind = "ready"
        BY <2>1 DEF EditorInv, Opens
      <4> QED BY <4>1, <1>1, Tailed
    <3>2. 1 \in DOMAIN down' /\ down'[1] = down[1]
      BY <3>1, <1>2
    <3>3. down' # <<>>
      BY <3>2
    <3>4. down'[1].kind = "ready"
      BY <3>1, <3>2
    <3>5. link' = "open" /\ link # "loading" /\ app'.lifecycle = app.lifecycle
      BY <2>1
    <3>6. app.lifecycle = "closed" => link = "over"
      BY DEF EditorInv, Opens
    <3> QED BY <3>3, <3>4, <3>5, <3>6 DEF Opens
  <2>2. CASE link = "loading"
    <3>1. down = <<>> /\ app.model = None /\ app.lifecycle # "closed"
      BY <2>2 DEF EditorInv, Opens
    <3>2. down' = <<>>
      BY <2>2, <3>1
    <3> QED BY <2>2, <3>1, <3>2 DEF Opens
  <2>3. CASE link # "loading" /\ ~(link = "open" /\ app.model = None)
    BY <2>3 DEF EditorInv, Opens
  <2> QED BY <2>1, <2>2, <2>3
<1>6. /\ \A c : Learnt(c, disk, clock) => Learnt(c, disk', clock')
      /\ \A m : Modelled(m, disk, clock) => Modelled(m, disk', clock')
  BY StillLearnt
<1>7. Modelled(model', disk', clock')
  <2>1. Modelled(model, disk, clock)
    BY DEF EditorInv, ModelsHold
  <2>2. Clocked(disk', clock')
    BY DEF Onward
  <2> QED BY <1>6, <2>1, <2>2, Latest
\* Whatever came before the last model comes before the new one.
<1>8. ASSUME NEW reading, Past(reading, disk, clock), Precedes(reading, Digests(model))
      PROVE  Precedes(reading, Digests(model'))
  <2>1. Clocked(disk', clock') /\ Past(reading, disk', clock')
    BY <1>8 DEF Onward
  <2> QED BY <1>8, <2>1, Latest
<1>9. Precedes(Digests(model'), Digests(model'))
  BY <1>7, SameReading DEF Onward, Clocked
<1>10. ASSUME NEW i \in DOMAIN down', Carries(down'[i])
       PROVE  \/ i \in DOMAIN down /\ down'[i] = down[i]
              \/ i > Len(down) /\ Carried(down'[i]) = model' /\ model' = Compiled(disk', views')
  BY <1>2, <1>10
<1>11. InOrder(down', model', disk', clock')
  <2>1. ASSUME NEW i \in DOMAIN down', Carries(down'[i])
        PROVE  /\ Modelled(Carried(down'[i]), disk', clock')
               /\ Precedes(Digests(Carried(down'[i])), Digests(model'))
               /\ \A j \in DOMAIN down' : i < j /\ Carries(down'[j]) =>
                    Precedes(Digests(Carried(down'[i])), Digests(Carried(down'[j])))
    <3>1. CASE i \in DOMAIN down /\ down'[i] = down[i]
      <4>1. /\ Modelled(Carried(down[i]), disk, clock)
            /\ Precedes(Digests(Carried(down[i])), Digests(model))
            /\ \A j \in DOMAIN down : i < j /\ Carries(down[j]) =>
                 Precedes(Digests(Carried(down[i])), Digests(Carried(down[j])))
        BY <2>1, <3>1 DEF EditorInv, ModelsHold, InOrder
      <4>2. Past(Digests(Carried(down[i])), disk, clock)
        BY <4>1 DEF Modelled
      <4>3. Precedes(Digests(Carried(down[i])), Digests(model'))
        BY <4>1, <4>2, <1>8
      <4>4. ASSUME NEW j \in DOMAIN down', i < j, Carries(down'[j])
            PROVE  Precedes(Digests(Carried(down[i])), Digests(Carried(down'[j])))
        BY <4>1, <4>3, <4>4, <1>10
      <4> QED BY <3>1, <4>1, <4>3, <4>4, <1>6
    <3>2. CASE i > Len(down) /\ Carried(down'[i]) = model'
      <4>1. ASSUME NEW j \in DOMAIN down', i < j, Carries(down'[j])
            PROVE  Carried(down'[j]) = model'
        BY <3>2, <4>1, <1>2, <1>10
      <4> QED BY <3>2, <4>1, <1>7, <1>9
    <3> QED BY <2>1, <3>1, <3>2, <1>10
  <2> QED BY <2>1 DEF InOrder
<1>12. ASSUME NEW reading, Past(reading, disk, clock), Before(reading, down, model)
       PROVE  Before(reading, down', model')
  <2>1. Precedes(reading, Digests(model'))
    BY <1>8, <1>12 DEF Before
  <2> QED BY <2>1, <1>10, <1>12 DEF Before
<1>13. ModelsHold'
  <2>1. app'.model = app.model
    OBVIOUS
  <2>2. app.model # None => Modelled(app.model, disk, clock)
    BY DEF EditorInv, ModelsHold
  <2>3. Before(Digests(app.model), down', model')
    <3>1. CASE app.model # None
      <4>1. Past(Digests(app.model), disk, clock)
        BY <2>2, <3>1 DEF Modelled
      <4> QED BY <4>1, <1>12 DEF EditorInv, ModelsHold
    <3>2. CASE app.model = None
      <4>1. \A p \in Paths : Digests(app.model)[p] = None
        BY <3>2 DEF Digests, DigestIn
      <4> QED BY <4>1 DEF Before, Precedes
    <3> QED BY <3>1, <3>2
  <2> QED BY <1>6, <1>7, <1>11, <2>1, <2>2, <2>3 DEF ModelsHold
<1>14. TrayHolds'
  <2>1. Changesets' = Changesets
    BY DEF Changesets
  <2>2. ASSUME NEW c \in Changesets
        PROVE  Held(c, app.model, down', model', disk', clock')
    <3>1. /\ Sound(c) /\ Learnt(c, disk, clock)
          /\ Precedes(Pinned(c), Digests(app.model))
          /\ Before(Pinned(c), down, model)
      BY DEF EditorInv, TrayHolds, Held
    <3>2. Past(Pinned(c), disk, clock)
      BY <3>1 DEF Learnt
    <3> QED BY <3>1, <3>2, <1>6, <1>12 DEF Held
  <2> QED BY <2>1, <2>2 DEF TrayHolds
<1>15. CommitsHold'
  BY <1>3, <1>6 DEF EditorInv, CommitsHold
<1>16. RowsLandOnWhatWasShown'
  <2>1. PinsVouchForTheirRows'
    BY <1>14 DEF TrayHolds, Held, Sound, PinsVouchForTheirRows
  <2> QED BY <2>1 DEF RowsLandOnWhatWasShown, Telling
<1> QED
  BY <1>4, <1>5, <1>11, <1>13, <1>14, <1>15, <1>16 DEF EditorInv, Onward

-----------------------------------------------------------------------------
(***************************************************************************)
(* The answers, and everybody else.                                        *)
(***************************************************************************)
LEMMA FewFrames ==
  /\ Sequence(<<>>) /\ DOMAIN <<>> = {}
  /\ \A e : Sequence(<<e>>) /\ DOMAIN <<e>> = {1} /\ <<e>>[1] = e
<1>1. <<>> \in Seq({})
  OBVIOUS
<1>2. Sequence(<<>>) /\ DOMAIN <<>> = {}
  <2>1. Sequence(<<>>)
    BY <1>1, SequenceOf, Zenon
  <2> QED BY <2>1
<1>3. ASSUME NEW e PROVE Sequence(<<e>>) /\ DOMAIN <<e>> = {1} /\ <<e>>[1] = e
  <2>1. <<e>> \in Seq({e})
    OBVIOUS
  <2>2. Sequence(<<e>>)
    BY <2>1, SequenceOf, Zenon
  <2> QED BY <2>2
<1> QED
  BY <1>2, <1>3

LEMMA OneAnswer ==
  ASSUME NEW input, NEW frame
  PROVE  LET more == Replied(input, <<frame>>)
         IN  /\ Sequence(more) /\ \A i \in DOMAIN more : more[i] = frame
             /\ link = "loading" => more = <<>>
BY FewFrames DEF Replied, Open

LEMMA OneBroadcast ==
  ASSUME NEW frame
  PROVE  LET more == Broadcast(<<frame>>)
         IN  /\ Sequence(more) /\ \A i \in DOMAIN more : more[i] = frame
             /\ link = "loading" => more = <<>>
BY FewFrames DEF Broadcast, Open

\* A reply to one browser and the news to all of them.
LEMMA Associated ==
  ASSUME NEW r, Sequence(r), NEW s, Sequence(s), NEW t, Sequence(t)
  PROVE  (r \o s) \o t = r \o (s \o t)
<1> DEFINE S == ToSet(r) \cup ToSet(s) \cup ToSet(t)
<1>1. r \in Seq(S) /\ s \in Seq(S) /\ t \in Seq(S)
  BY DEF Sequence
<1> HIDE DEF S
<1> QED
  BY <1>1, ConcatAssociative

LEMMA Both ==
  ASSUME NEW s, Sequence(s), NEW r, Sequence(r)
  PROVE  /\ Sequence(s \o r)
         /\ \A i \in DOMAIN (s \o r) : \/ \E j \in DOMAIN s : (s \o r)[i] = s[j]
                                       \/ \E j \in DOMAIN r : (s \o r)[i] = r[j]
<1>1. /\ Sequence(s \o r) /\ DOMAIN (s \o r) = 1..(Len(s) + Len(r))
      /\ \A i \in 1..Len(s) : (s \o r)[i] = s[i]
      /\ \A i \in 1..(Len(s) + Len(r)) : i > Len(s) =>
           i - Len(s) \in DOMAIN r /\ (s \o r)[i] = r[i - Len(s)]
  BY Joined
<1>2. Len(s) \in Nat /\ DOMAIN s = 1..Len(s) /\ Len(r) \in Nat
  BY SequenceShape
<1> QED
  BY <1>1, <1>2

LEMMA Quietly ==
  ASSUME EditorInv, NEW more,
         UNCHANGED <<app, host, link, disk, clock, model, landed>>,
         Sequence(more),
         \A i \in DOMAIN more : FrameTyped(more[i]) /\ ~Carries(more[i]),
         link = "loading" => more = <<>>,
         down' = down \o more,
         up' = up \/ (up # <<>> /\ up' = Tail(up))
  PROVE  EditorInv'
<1>1. Onward(disk, clock, disk', clock')
  BY Standstill DEF EditorInv
<1>2. host = "socket" => \A l \in landed' : Telling(l.row) => l.over = l.row.seen.shown
  BY DEF EditorInv, RowsLandOnWhatWasShown, Telling
<1> QED
  BY <1>1, <1>2, HostMoves

LEMMA NothingMore ==
  ASSUME EditorInv
  PROVE  down = down \o <<>>
<1>1. down \in Seq(ToSet(down))
  BY DEF EditorInv, Shapes, Sequence
<1> QED
  BY <1>1

\* A refusal is of the first input, freezes or does not, and does nothing else.
LEMMA Refusing ==
  ASSUME Refuse
  PROVE  /\ up # <<>> /\ up' = Tail(up)
         /\ UNCHANGED <<browserVars, link, epoch, serverVars, landed>> /\ Remains
         /\ \E freezing : down' = down \o Replied(up[1], <<Rejected(up[1].type, freezing)>>)
<1> USE DEF Refuse, Refused, Next1
<1>1. up # <<>> /\ up' = Tail(up)
  OBVIOUS
<1>2. UNCHANGED <<link, epoch, serverVars, landed>> /\ Remains
  OBVIOUS
<1>3. \E freezing : down' = down \o Replied(up[1], <<Rejected(up[1].type, freezing)>>)
  OBVIOUS
<1> QED
  BY <1>1, <1>2, <1>3 DEF Remains

LEMMA QuietAnswers ==
  ASSUME EditorInv, Refuse \/ AnswerFilter \/ TakeTurn \/ TakeEnd \/ RefusePlan \/ SessionEnds
  PROVE  EditorInv'
<1> USE DEF Next1, serverVars, workVars, Stays, Remains, browserVars
<1>1. CASE Refuse
  <2>1. PICK freezing : down' = down \o Replied(up[1], <<Rejected(up[1].type, freezing)>>)
    BY <1>1, Refusing
  <2> DEFINE frame == Rejected(up[1].type, freezing)
             more == Replied(up[1], <<frame>>)
  <2>2. /\ down' = down \o more
        /\ UNCHANGED <<app, host, link, disk, clock, model, landed>>
        /\ up # <<>> /\ up' = Tail(up)
    BY <1>1, <2>1, Refusing
  <2>3. FrameTyped(frame) /\ ~Carries(frame)
    BY DEF Rejected, FrameTyped, Carries
  <2>4. /\ Sequence(more) /\ \A i \in DOMAIN more : more[i] = frame
        /\ link = "loading" => more = <<>>
    BY OneAnswer
  <2> HIDE DEF more, frame
  <2> QED BY <2>2, <2>3, <2>4, Quietly
<1>2. CASE AnswerFilter
  <2> DEFINE frame == [kind |-> "filter-result", query |-> up[1].query,
                       matched |-> <<up[1].query, model.docs>>]
             more == Replied(up[1], <<frame>>)
  <2>2. /\ down' = down \o more
        /\ UNCHANGED <<app, host, link, disk, clock, model, landed>>
        /\ up # <<>> /\ up' = Tail(up)
    BY <1>2 DEF AnswerFilter
  <2>3. FrameTyped(frame) /\ ~Carries(frame)
    BY DEF FrameTyped, Carries
  <2>4. /\ Sequence(more) /\ \A i \in DOMAIN more : more[i] = frame
        /\ link = "loading" => more = <<>>
    BY OneAnswer
  <2> HIDE DEF more, frame
  <2> QED BY <2>2, <2>3, <2>4, Quietly
<1>3. CASE TakeTurn
  <2>1. /\ UNCHANGED <<app, host, link, down, disk, clock, model, landed>>
        /\ up # <<>> /\ up' = Tail(up)
    BY <1>3 DEF TakeTurn
  <2> QED BY <2>1, NothingMore, FewFrames, Quietly
<1>4. CASE TakeEnd
  <2>1. /\ UNCHANGED <<app, host, link, down, disk, clock, model, landed>>
        /\ up # <<>> /\ up' = Tail(up)
    BY <1>4 DEF TakeEnd
  <2> QED BY <2>1, NothingMore, FewFrames, Quietly
<1>5. CASE RefusePlan
  <2> DEFINE frame == [kind |-> "apply-result", ok |-> FALSE]
             more == Replied(up[1], <<frame>>)
  <2>2. /\ down' = down \o more
        /\ UNCHANGED <<app, host, link, disk, clock, model, landed>>
        /\ up # <<>> /\ up' = Tail(up)
    BY <1>5 DEF RefusePlan, CommitNow
  <2>3. FrameTyped(frame) /\ ~Carries(frame)
    BY DEF FrameTyped, Carries
  <2>4. /\ Sequence(more) /\ \A i \in DOMAIN more : more[i] = frame
        /\ link = "loading" => more = <<>>
    BY OneAnswer
  <2> HIDE DEF more, frame
  <2> QED BY <2>2, <2>3, <2>4, Quietly
<1>6. CASE SessionEnds
  <2> DEFINE frame == [kind |-> "closing"]
  <2>1. /\ down' = down \o <<frame>> /\ link = "open"
        /\ UNCHANGED <<app, host, link, up, disk, clock, model, landed>>
    BY <1>6 DEF SessionEnds
  <2>2. FrameTyped(frame) /\ ~Carries(frame)
    BY DEF FrameTyped, Carries
  <2> HIDE DEF frame
  <2>3. Sequence(<<frame>>) /\ \A i \in DOMAIN <<frame>> : <<frame>>[i] = frame
    BY FewFrames
  <2> QED BY <2>1, <2>2, <2>3, Quietly
<1> QED
  BY <1>1, <1>2, <1>3, <1>4, <1>5, <1>6

\* What the agent says, and what it prepares to say.
LEMMA Voiced ==
  ASSUME EditorInv, NEW frame, AgentSays(frame), FrameTyped(frame), ~Carries(frame)
  PROVE  EditorInv'
<1> DEFINE more == Broadcast(<<frame>>)
<1>1. /\ down' = down \o more
      /\ UNCHANGED <<app, host, link, up, disk, clock, model, landed>>
  BY DEF AgentSays, workVars, browserVars, historyVars
<1>2. /\ Sequence(more) /\ \A i \in DOMAIN more : more[i] = frame
      /\ link = "loading" => more = <<>>
  BY OneBroadcast
<1> HIDE DEF more
<1> QED
  BY <1>1, <1>2, Quietly

LEMMA AgentHolds ==
  ASSUME EditorInv, AgentAnswers \/ AgentAsks \/ MatchChatFilter \/ AgentFilters
  PROVE  EditorInv'
<1> USE DEF FrameTyped, Carries
<1>1. CASE AgentAnswers
  <2>1. PICK frame \in AgentFrames : AgentSays(frame)
    BY <1>1 DEF AgentAnswers
  <2>2. FrameTyped(frame) /\ ~Carries(frame)
    BY DEF AgentFrames, ChatResponse
  <2> QED BY <2>1, <2>2, Voiced
<1>2. CASE AgentAsks
  <2>1. PICK choice \in Questions :
          AgentSays([kind |-> "response", type |-> "choice.present", choice |-> choice])
    BY <1>2 DEF AgentAsks
  <2> QED BY <2>1, Voiced
<1>3. CASE MatchChatFilter
  <2>1. UNCHANGED <<app, host, link, up, down, disk, clock, model, landed>>
    BY <1>3 DEF MatchChatFilter, browserVars, wireVars, workVars, boundVars, historyVars
  <2> QED BY <2>1, NothingMore, FewFrames, Quietly
<1>4. CASE AgentFilters
  <2>1. PICK query, matched, late : AgentSays(ChatResponse(query, matched, late))
    BY <1>4 DEF AgentFilters
  <2>2. FrameTyped(ChatResponse(query, matched, late)) /\ ~Carries(ChatResponse(query, matched, late))
    BY DEF ChatResponse
  <2> QED BY <2>1, <2>2, Voiced
<1> QED
  BY <1>1, <1>2, <1>3, <1>4

\* What a write does to the files, whoever makes it.
LEMMA Overwritten ==
  ASSUME Clocked(disk, clock),
         clock' = Fresh, DOMAIN disk' = Paths,
         \A d \in Documents : disk'[d] \in {disk[d], Fresh},
         \A p \in ViewPaths : \/ disk'[p] \in {disk[p], None}
                              \/ disk'[p].revision = Fresh
  PROVE  Onward(disk, clock, disk', clock')
<1>1. clock \in Nat
  BY DEF Clocked
<1>2. ASSUME NEW p \in Paths
      PROVE  Revision(disk', p) \in {Revision(disk, p), None, clock + 1}
  BY PathsAssumption DEF Revision, Paths, Fresh
<1>3. Clocked(disk', clock')
  BY <1>1, <1>2, StillClocked DEF Fresh
<1>4. \A reading : Past(reading, disk, clock) => Past(reading, disk', clock')
  BY <1>1, <1>2, StillPast DEF Fresh
<1> QED
  BY <1>3, <1>4 DEF Onward

LEMMA WrittenOver ==
  ASSUME Clocked(disk, clock), clock' = Fresh, NEW p \in Paths, NEW content \in Written(p),
         disk' = [disk EXCEPT ![p] = content]
  PROVE  Onward(disk, clock, disk', clock')
<1>1. DOMAIN disk = Paths
  BY DEF Clocked
<1>2. \A q \in Paths : disk'[q] = IF q = p THEN content ELSE disk[q]
  BY <1>1
<1>3. \A d \in Documents : disk'[d] \in {disk[d], Fresh}
  BY <1>2 DEF Written, Paths
<1>4. \A q \in ViewPaths : disk'[q] \in {disk[q], None} \/ disk'[q].revision = Fresh
  BY <1>2, PathsAssumption DEF Written, Stored, Paths
<1> QED
  BY <1>1, <1>3, <1>4, Overwritten

\* A compile that fails brings no model, and leaves the one there was.
LEMMA NewsOfTheModel ==
  ASSUME Recompiles
  PROVE  /\ FrameTyped(News)
         /\ \/ model' = model /\ ~Carries(News)
            \/ /\ model' = Compiled(disk', views')
               /\ Carries(News) /\ Carried(News) = model'
BY DEF Recompiles, News, FrameTyped, Carries, Carried, ModelFrame, DiagnosticFrame

\* The verdict on a batch.
LEMMA Verdict ==
  ASSUME NEW ok
  PROVE  LET frame == [kind |-> "apply-result", ok |-> ok]
         IN  FrameTyped(frame) /\ ~Carries(frame)
BY DEF FrameTyped, Carries

LEMMA SavesHold ==
  ASSUME EditorInv, Save
  PROVE  EditorInv'
<1>1. PICK p \in Paths : \E content \in Written(p) :
        /\ Writing /\ disk' = [disk EXCEPT ![p] = content]
        /\ UNCHANGED <<down, model, views>>
  BY DEF Save
<1>2. PICK content \in Written(p) :
        /\ Writing /\ disk' = [disk EXCEPT ![p] = content]
        /\ UNCHANGED <<down, model, views>>
  BY <1>1
<1>3. /\ UNCHANGED <<app, link, host, up>> /\ clock' = Fresh /\ landed' = {}
  BY <1>2 DEF Writing, browserVars
<1>4. Onward(disk, clock, disk', clock')
  BY <1>2, <1>3, WrittenOver DEF EditorInv
<1> QED
  BY <1>2, <1>3, <1>4, NothingMore, FewFrames, HostMoves

LEMMA OtherTabsHold ==
  ASSUME EditorInv, OtherTab
  PROVE  EditorInv'
<1>0. PICK p \in Paths : \E content \in Written(p) :
        /\ Writing /\ disk' = [disk EXCEPT ![p] = content]
        /\ Recompiles
        /\ down' = down \o Broadcast(<<News>>)
  BY DEF OtherTab
<1>1. PICK content \in Written(p) :
        /\ Writing /\ disk' = [disk EXCEPT ![p] = content]
        /\ Recompiles
        /\ down' = down \o Broadcast(<<News>>)
  BY <1>0
<1>2. /\ UNCHANGED <<app, link, host, up>> /\ clock' = Fresh /\ landed' = {}
  BY <1>1 DEF Writing, browserVars
<1>3. Onward(disk, clock, disk', clock')
  BY <1>1, <1>2, WrittenOver DEF EditorInv
\* (a rigid name for what is sent)
<1>4. PICK news : news = News
  OBVIOUS
<1>5. /\ FrameTyped(news)
      /\ \/ model' = model /\ ~Carries(news)
         \/ model' = Compiled(disk', views') /\ Carries(news) /\ Carried(news) = model'
  BY <1>1, <1>4, NewsOfTheModel
<1> DEFINE more == Broadcast(<<news>>)
<1>6. /\ Sequence(more) /\ \A i \in DOMAIN more : more[i] = news
      /\ link = "loading" => more = <<>>
  BY OneBroadcast
<1>7. down' = down \o more
  BY <1>1, <1>4
<1> HIDE DEF more
<1> QED
  BY <1>1, <1>2, <1>3, <1>5, <1>6, <1>7, HostMoves

LEMMA CompilesHold ==
  ASSUME EditorInv, RefusePins \/ RefreshHost
  PROVE  EditorInv'
<1>1. Sequence(down)
  BY DEF EditorInv, Shapes
<1>2. host = "socket" => \A l \in landed : Telling(l.row) => l.over = l.row.seen.shown
  BY DEF EditorInv, RowsLandOnWhatWasShown, Telling
<1>3. Onward(disk, clock, disk, clock)
  BY Standstill DEF EditorInv
<1>4. CASE RefusePins
  <2> DEFINE frame == [kind |-> "apply-result", ok |-> FALSE]
  \* (rigid names for what is sent)
  <2>0. PICK input, news : input = up[1] /\ news = News
    OBVIOUS
  <2>1. /\ down' = down \o Replied(input, <<frame>>) \o Broadcast(<<news>>)
        /\ Recompiles
        /\ UNCHANGED <<disk, views, clock, landed, link, app, host>>
        /\ up # <<>> /\ up' = Tail(up)
    BY <1>4, <2>0 DEF RefusePins, CommitNow, Next1, Stays, Remains, browserVars
  <2>2. FrameTyped(frame) /\ ~Carries(frame)
    BY Verdict
  <2>3. /\ FrameTyped(news)
        /\ \/ model' = model /\ ~Carries(news)
           \/ model' = Compiled(disk', views') /\ Carries(news) /\ Carried(news) = model'
    BY <2>0, <2>1, NewsOfTheModel
  <2> HIDE DEF frame
  <2>4. PICK more :
          /\ Sequence(more) /\ \A i \in DOMAIN more : more[i] \in {frame, news}
          /\ link = "loading" => more = <<>>
          /\ down' = down \o more
    <3>1. PICK one, all, before : /\ one = Replied(input, <<frame>>)
                                  /\ all = Broadcast(<<news>>)
                                  /\ before = down
      OBVIOUS
    <3>2. /\ Sequence(one) /\ \A i \in DOMAIN one : one[i] = frame
          /\ link = "loading" => one = <<>>
      BY <3>1, OneAnswer
    <3>3. /\ Sequence(all) /\ \A i \in DOMAIN all : all[i] = news
          /\ link = "loading" => all = <<>>
      BY <3>1, OneBroadcast
    <3>4. down' = (before \o one) \o all
      BY <2>1, <3>1
    <3>5. Sequence(before)
      BY <1>1, <3>1
    <3>6. (before \o one) \o all = before \o (one \o all)
      BY <3>2, <3>3, <3>5, Associated
    <3>7. Sequence(one \o all) /\ \A i \in DOMAIN (one \o all) : (one \o all)[i] \in {frame, news}
      BY <3>2, <3>3, Both
    <3>8. link = "loading" => one \o all = <<>>
      BY <3>2, <3>3
    <3> DEFINE more == one \o all
    <3>9. /\ Sequence(more) /\ \A i \in DOMAIN more : more[i] \in {frame, news}
          /\ link = "loading" => more = <<>>
          /\ down' = down \o more
      BY <3>1, <3>4, <3>6, <3>7, <3>8
    <3> HIDE DEF more
    <3> QED BY <3>9
  <2>5. /\ \A i \in DOMAIN more : FrameTyped(more[i])
        /\ \/ model' = model /\ \A i \in DOMAIN more : ~Carries(more[i])
           \/ /\ model' = Compiled(disk', views')
              /\ \A i \in DOMAIN more : Carries(more[i]) => Carried(more[i]) = model'
    BY <2>2, <2>3, <2>4
  <2>6. /\ Onward(disk, clock, disk', clock')
        /\ host = "socket" => \A l \in landed' : Telling(l.row) => l.over = l.row.seen.shown
    BY <1>2, <1>3, <2>1
  <2> QED BY <2>1, <2>4, <2>5, <2>6, HostMoves
<1>5. CASE RefreshHost
  <2>1. /\ down' = IF compiles' THEN down \o <<News>> ELSE down
        /\ compiles' \in BOOLEAN
        /\ Recompiles
        /\ UNCHANGED <<disk, views, clock, landed, link, app, host, up>>
        /\ link = "open"
    BY <1>5 DEF RefreshHost, Recompiles, News, Stays, Remains, browserVars
  <2>2. /\ Onward(disk, clock, disk', clock')
        /\ host = "socket" => \A l \in landed' : Telling(l.row) => l.over = l.row.seen.shown
    BY <1>2, <1>3, <2>1
  <2>3. CASE ~compiles'
    <3>1. model' = model /\ down' = down
      BY <2>1, <2>3 DEF Recompiles
    <3> QED BY <2>1, <2>2, <3>1, NothingMore, FewFrames, HostMoves
  <2>4. CASE compiles'
    <3>1. PICK news : news = News
      OBVIOUS
    <3>2. /\ FrameTyped(news)
          /\ \/ model' = model /\ ~Carries(news)
             \/ model' = Compiled(disk', views') /\ Carries(news) /\ Carried(news) = model'
      BY <2>1, <3>1, NewsOfTheModel
    <3>3. Sequence(<<news>>) /\ \A i \in DOMAIN <<news>> : <<news>>[i] = news
      BY FewFrames
    <3>4. down' = down \o <<news>>
      BY <2>1, <2>4, <3>1
    <3> QED BY <2>1, <2>2, <3>2, <3>3, <3>4, HostMoves
  <2> QED BY <2>1, <2>3, <2>4
<1> QED
  BY <1>4, <1>5

\* A batch lands: where a row can be told, the pin is what the file holds,
\* and what was on screen when the row was written is between the two.
LEMMA LandingHolds ==
  ASSUME EditorInv, Land
  PROVE  EditorInv'
<1> DEFINE c == up[1].changeset
           frame == [kind |-> "apply-result", ok |-> TRUE]
\* (rigid names for what is sent)
<1>0. PICK input, news : input = up[1] /\ news = News
  OBVIOUS
<1>1. /\ up # <<>> /\ up[1].type = "changeset.commit" /\ up' = Tail(up)
      /\ UNCHANGED <<link, app, host>>
      /\ PassedPins(c)
      /\ disk' = LandedFiles(c)
      /\ Recompiles
      /\ clock' = Fresh
      /\ landed' = {[row |-> row, over |-> Revision(disk, row.path)] : row \in Rows(c)}
      /\ down' = down \o Replied(input, <<frame>>) \o Broadcast(<<news>>)
  BY <1>0 DEF Land, CommitNow, Next1, Stays, Remains, browserVars
<1>2. Sequence(down) /\ Sequence(up)
  BY DEF EditorInv, Shapes
<1>3. Sound(c) /\ Learnt(c, disk, clock)
  BY <1>1, <1>2, Tailed DEF EditorInv, CommitsHold
<1>4. Clocked(disk, clock) /\ clock \in Nat
  BY DEF EditorInv, Clocked
<1> HIDE DEF c
<1>5. Onward(disk, clock, disk', clock')
  <2>1. DOMAIN disk' = Paths
    BY <1>1 DEF LandedFiles
  <2>2. \A d \in Documents : disk'[d] \in {disk[d], Fresh}
    BY <1>1, <1>3, PathsAssumption DEF LandedFiles, Sound, ViewRow, Paths
  <2>3. ASSUME NEW p \in ViewPaths
        PROVE  disk'[p] \in {disk[p], None} \/ disk'[p].revision = Fresh
    <3>1. ~\E row \in c.operations : row.path = p
      BY <1>3, PathsAssumption DEF Sound
    <3>2. CASE \E row \in c.viewOperations : row.path = p
      <4> DEFINE row == CHOOSE r \in c.viewOperations : r.path = p
      <4>1. disk'[p] = Landing(row)
        BY <1>1, <3>1, <3>2 DEF LandedFiles, Paths
      <4> HIDE DEF row
      <4> QED BY <4>1 DEF Landing, Stored
    <3>3. CASE ~\E row \in c.viewOperations : row.path = p
      BY <1>1, <3>1, <3>3 DEF LandedFiles, Paths
    <3> QED BY <3>2, <3>3
  <2> QED BY <1>1, <1>4, <2>1, <2>2, <2>3, Overwritten
<1>6. ASSUME host = "socket", NEW row \in Rows(c), Telling(row)
      PROVE  Revision(disk, row.path) = row.seen.shown
  <2>1. /\ row.path \in Paths /\ row.path \in DOMAIN c.pins
        /\ c.pins[row.path] <= row.seen.shown /\ c.pins[row.path] # None
        /\ row.seen.shown # None
    BY <1>3, <1>6 DEF Sound, ViewRow, Telling, Rows, Paths
  <2>2. c.pins[row.path] = Revision(disk, row.path)
    <3>1. host # "local" => StalePins(c) = {}
      BY <1>1 DEF PassedPins
    <3>2. row.path \in RowPaths(c.operations, c.viewOperations)
      BY DEF RowPaths, Rows
    <3> QED BY <1>6, <2>1, <3>1, <3>2 DEF StalePins, PinnedPath
  <2>3. Shown(row)[row.path] = row.seen.shown
    BY <2>1, <1>6 DEF Shown
  <2>4. Past(Shown(row), disk, clock)
    BY <1>3 DEF Learnt
  <2>5. row.seen.shown \in Nat
    BY <1>4, <2>1, <2>3, <2>4, PastNumbers
  <2>6. row.seen.shown <= Revision(disk, row.path)
    BY <2>1, <2>2, <2>3, <2>4 DEF Past, Precedes, Standing
  <2>7. Revision(disk, row.path) \in Nat
    BY <1>4, <2>1, <2>2 DEF Clocked, Past, Standing
  <2> QED BY <2>1, <2>2, <2>5, <2>6, <2>7
<1>7. host = "socket" => \A l \in landed' : Telling(l.row) => l.over = l.row.seen.shown
  BY <1>1, <1>6
<1>8. FrameTyped(frame) /\ ~Carries(frame)
  BY Verdict
<1>9. /\ FrameTyped(news)
      /\ \/ model' = model /\ ~Carries(news)
         \/ model' = Compiled(disk', views') /\ Carries(news) /\ Carried(news) = model'
  BY <1>0, <1>1, NewsOfTheModel
<1> HIDE DEF frame
<1>10. PICK more :
         /\ Sequence(more) /\ \A i \in DOMAIN more : more[i] \in {frame, news}
         /\ link = "loading" => more = <<>>
         /\ down' = down \o more
  <2>1. PICK one, all, before : /\ one = Replied(input, <<frame>>)
                                /\ all = Broadcast(<<news>>)
                                /\ before = down
    OBVIOUS
  <2>2. /\ Sequence(one) /\ \A i \in DOMAIN one : one[i] = frame
        /\ link = "loading" => one = <<>>
    BY <2>1, OneAnswer
  <2>3. /\ Sequence(all) /\ \A i \in DOMAIN all : all[i] = news
        /\ link = "loading" => all = <<>>
    BY <2>1, OneBroadcast
  <2>4. down' = (before \o one) \o all
    BY <1>1, <2>1
  <2>5. Sequence(before)
    BY <1>2, <2>1
  <2>6. (before \o one) \o all = before \o (one \o all)
    BY <2>2, <2>3, <2>5, Associated
  <2>7. Sequence(one \o all) /\ \A i \in DOMAIN (one \o all) : (one \o all)[i] \in {frame, news}
    <3>1. /\ Sequence(one \o all)
          /\ \A i \in DOMAIN (one \o all) : \/ \E j \in DOMAIN one : (one \o all)[i] = one[j]
                                           \/ \E j \in DOMAIN all : (one \o all)[i] = all[j]
      BY <2>2, <2>3, Both
    <3> QED BY <3>1, <2>2, <2>3
  <2>8. link = "loading" => one \o all = <<>>
    BY <2>2, <2>3
  <2> DEFINE more == one \o all
  <2>9. /\ Sequence(more) /\ \A i \in DOMAIN more : more[i] \in {frame, news}
        /\ link = "loading" => more = <<>>
        /\ down' = down \o more
    BY <2>1, <2>4, <2>6, <2>7, <2>8
  <2> HIDE DEF more
  <2> QED BY <2>9
<1>11. /\ \A i \in DOMAIN more : FrameTyped(more[i])
       /\ \/ model' = model /\ \A i \in DOMAIN more : ~Carries(more[i])
          \/ /\ model' = Compiled(disk', views')
             /\ \A i \in DOMAIN more : Carries(more[i]) => Carried(more[i]) = model'
  BY <1>8, <1>9, <1>10
<1> QED
  BY <1>1, <1>5, <1>7, <1>10, <1>11, HostMoves

LEMMA FreezesHold ==
  ASSUME EditorInv, Freeze
  PROVE  EditorInv'
<1>1. /\ UNCHANGED <<app, origin, applied, link, epoch, up, down, disk, clock, model, landed, host>>
  BY DEF Freeze, browserVars, wireVars, workVars, historyVars
<1>2. Onward(disk, clock, disk', clock')
  BY <1>1, Standstill DEF EditorInv
<1>3. host = "socket" => \A l \in landed' : Telling(l.row) => l.over = l.row.seen.shown
  BY <1>1 DEF EditorInv, RowsLandOnWhatWasShown, Telling
<1> QED
  BY <1>1, <1>2, <1>3, NothingMore, FewFrames, HostMoves

-----------------------------------------------------------------------------
(***************************************************************************)
(* The browser's side: what a step of the reducer makes of the tray.       *)
(***************************************************************************)
TrayOf(s) == {s.pending} \cup ToSet(s.undo) \cup ToSet(s.redo)

\* A state the reducer may go to while the same model stays on screen.
Succeeds(next) ==
  /\ DOMAIN next = DOMAIN initialVisualAppState
  /\ next.model = app.model
  /\ Sequence(next.undo) /\ Sequence(next.redo)
  /\ \A c \in TrayOf(next) : Held(c, app.model, down, model, disk, clock)

\* The tray is not touched.
Alike(next) ==
  /\ DOMAIN next = DOMAIN initialVisualAppState
  /\ next.model = app.model /\ next.pending = app.pending
  /\ next.undo = app.undo /\ next.redo = app.redo

LEMMA AppFields ==
  DOMAIN initialVisualAppState =
    {"lifecycle", "model", "views", "activeView", "activeFilter", "focusReturn", "choices",
     "awaitingAgent", "frozen", "pending", "undo", "redo", "committing"}
BY DEF initialVisualAppState

LEMMA AlikeSucceeds ==
  ASSUME EditorInv, NEW next, Alike(next)
  PROVE  Succeeds(next)
BY DEF EditorInv, Shapes, TrayHolds, Changesets, Alike, Succeeds, TrayOf

LEMMA StaysAlike ==
  ASSUME EditorInv
  PROVE  /\ Alike(app)
         /\ Alike(TurnAnswered(app)) /\ Alike(ChatSent(app))
         /\ \A choice : Alike(ChoicePresented(app, choice))
         /\ \A view : Alike(ViewNavigated(app, view))
         /\ \A refused, frozen1 : Alike(InputRefused(app, refused, frozen1))
         /\ Alike(EndRequested(app)) /\ Alike(ConnectionLost(app)) /\ Alike(SessionClosed(app))
         /\ \A query, matched, source :
              /\ Alike(FilterApplied(app, query, matched, source))
              /\ Alike(FilterApplied(TurnAnswered(app), query, matched, source))
         /\ Alike(FilterCleared(app)) /\ Alike(ChangesetCommitSent(app)) /\ Alike(ApplyFailed(app))
<1>1. DOMAIN app = DOMAIN initialVisualAppState
  BY DEF EditorInv, Shapes
<1> USE <1>1, AppFields DEF Alike
<1>2. /\ Alike(app) /\ Alike(TurnAnswered(app)) /\ Alike(ChatSent(app))
      /\ \A choice : Alike(ChoicePresented(app, choice))
  BY DEF TurnAnswered, ChatSent, ChoicePresented
<1>3. \A view : Alike(ViewNavigated(app, view))
  BY DEF ViewNavigated
<1>4. \A refused, frozen1 : Alike(InputRefused(app, refused, frozen1))
  BY DEF InputRefused
<1>5. Alike(EndRequested(app)) /\ Alike(ConnectionLost(app)) /\ Alike(SessionClosed(app))
  BY DEF EndRequested, ConnectionLost, SessionClosed
<1>6. ASSUME NEW s, Alike(s), NEW query, NEW matched, NEW source
      PROVE  Alike(FilterApplied(s, query, matched, source))
  BY <1>6 DEF FilterApplied
<1>7. Alike(FilterCleared(app)) /\ Alike(ChangesetCommitSent(app)) /\ Alike(ApplyFailed(app))
  BY DEF FilterCleared, ChangesetCommitSent, ApplyFailed
<1> QED
  BY <1>2, <1>3, <1>4, <1>5, <1>6, <1>7

\* The reducer pays no heed to what happens after the session is closed.
LEMMA Reduced ==
  ASSUME EditorInv, NEW next, Succeeds(next)
  PROVE  Succeeds(visualAppReducer(app, next))
BY AlikeSucceeds, StaysAlike DEF visualAppReducer

LEMMA TrayClock ==
  ASSUME EditorInv
  PROVE  clock \in Nat /\ Sequence(app.undo) /\ Sequence(app.redo)
         /\ DOMAIN app = DOMAIN initialVisualAppState
         /\ \A c \in TrayOf(app) : Held(c, app.model, down, model, disk, clock)
BY DEF EditorInv, Clocked, Shapes, TrayHolds, Changesets, TrayOf

\* Rows staged, or taken away: each keeps what it was written from, or is
\* written from what is on screen.
LEMMA StagedSucceeds ==
  ASSUME EditorInv, app.model # None, NEW s, Alike(s),
         NEW operations, NEW viewOperations,
         \A row \in operations : row.path \in Documents,
         \A row \in viewOperations : ViewRow(row),
         \A row \in operations \cup viewOperations :
           \/ \E base \in Rows(app.pending) : row.path = base.path /\ row.seen = base.seen
           \/ Telling(row) => row.seen.shown = DigestIn(app.model, row.path)
  PROVE  Succeeds(Staged(s, operations, viewOperations))
<1> DEFINE n == Restage(app.pending, app.model, operations, viewOperations)
           next == Staged(s, operations, viewOperations)
<1>1. clock \in Nat /\ Sequence(app.undo)
      /\ \A c \in TrayOf(app) : Held(c, app.model, down, model, disk, clock)
  BY TrayClock
<1>2. Held(app.pending, app.model, down, model, disk, clock)
  BY <1>1 DEF TrayOf
<1>3. Modelled(app.model, disk, clock) /\ Before(Digests(app.model), down, model)
  BY DEF EditorInv, ModelsHold
<1>4. Held(n, app.model, down, model, disk, clock)
  BY <1>1, <1>2, <1>3, RestageHolds
<1>5. /\ DOMAIN next = DOMAIN initialVisualAppState
      /\ next.model = app.model /\ next.pending = n
      /\ next.undo = Append(app.undo, app.pending) /\ next.redo = <<>>
  BY AppFields DEF Alike, Staged
<1> HIDE DEF n, next
<1>6. Sequence(next.undo) /\ ToSet(next.undo) = ToSet(app.undo) \cup {app.pending}
  BY <1>1, <1>5, Appended
<1>7. Sequence(next.redo) /\ ToSet(next.redo) = {}
  BY <1>5, FewFrames DEF ToSet
<1> QED
  BY <1>1, <1>2, <1>4, <1>5, <1>6, <1>7 DEF Succeeds, TrayOf, next

LEMMA TraySteps ==
  ASSUME EditorInv
  PROVE  /\ Succeeds(ChangesetCleared(app)) /\ Succeeds(ChangesetUndone(app))
         /\ Succeeds(ChangesetRedone(app)) /\ Succeeds(ChangesetCommitted(app))
<1>1. /\ clock \in Nat /\ Sequence(app.undo) /\ Sequence(app.redo)
      /\ DOMAIN app = DOMAIN initialVisualAppState
      /\ \A c \in TrayOf(app) : Held(c, app.model, down, model, disk, clock)
  BY TrayClock
<1>2. Held(EmptyChangeset, app.model, down, model, disk, clock)
  BY <1>1, EmptyHolds
<1>3. Succeeds(app)
  BY StaysAlike, AlikeSucceeds
<1>4. Sequence(<<>>) /\ ToSet(<<>>) = {}
  BY FewFrames DEF ToSet
<1>5. Sequence(Append(app.undo, app.pending))
      /\ ToSet(Append(app.undo, app.pending)) = ToSet(app.undo) \cup {app.pending}
  BY <1>1, Appended
<1>6. Sequence(Append(app.redo, app.pending))
      /\ ToSet(Append(app.redo, app.pending)) = ToSet(app.redo) \cup {app.pending}
  BY <1>1, Appended
<1>7. Succeeds(ChangesetCleared(app))
  <2> DEFINE next == [app EXCEPT !.pending = EmptyChangeset,
                                 !.undo = Append(@, app.pending), !.redo = <<>>]
  <2>1. /\ DOMAIN next = DOMAIN initialVisualAppState /\ next.model = app.model
        /\ next.pending = EmptyChangeset /\ next.redo = <<>>
        /\ next.undo = Append(app.undo, app.pending)
    BY <1>1, AppFields
  <2>2. ChangesetCleared(app) \in {app, next}
    BY DEF ChangesetCleared
  <2> HIDE DEF next
  <2>3. Succeeds(next)
    BY <1>1, <1>2, <1>4, <1>5, <2>1 DEF Succeeds, TrayOf
  <2> QED BY <1>3, <2>2, <2>3
<1>8. Succeeds(ChangesetUndone(app))
  <2>1. CASE app.undo = <<>>
    BY <1>3, <2>1 DEF ChangesetUndone
  <2>2. CASE app.undo # <<>>
    <3> DEFINE next == ChangesetUndone(app)
    <3>1. /\ DOMAIN next = DOMAIN initialVisualAppState /\ next.model = app.model
          /\ next.pending = Last(app.undo) /\ next.undo = Front(app.undo)
          /\ next.redo = Append(app.redo, app.pending)
      BY <1>1, <2>2, AppFields DEF ChangesetUndone
    <3>2. /\ Sequence(Front(app.undo)) /\ ToSet(Front(app.undo)) \subseteq ToSet(app.undo)
          /\ Last(app.undo) \in ToSet(app.undo)
      BY <1>1, <2>2, Popped
    <3> HIDE DEF next
    <3>3. Succeeds(next)
      BY <1>1, <1>6, <3>1, <3>2 DEF Succeeds, TrayOf
    <3> QED BY <3>3 DEF next
  <2> QED BY <2>1, <2>2
<1>9. Succeeds(ChangesetRedone(app))
  <2>1. CASE app.redo = <<>>
    BY <1>3, <2>1 DEF ChangesetRedone
  <2>2. CASE app.redo # <<>>
    <3> DEFINE next == ChangesetRedone(app)
    <3>1. /\ DOMAIN next = DOMAIN initialVisualAppState /\ next.model = app.model
          /\ next.pending = Last(app.redo) /\ next.redo = Front(app.redo)
          /\ next.undo = Append(app.undo, app.pending)
      BY <1>1, <2>2, AppFields DEF ChangesetRedone
    <3>2. /\ Sequence(Front(app.redo)) /\ ToSet(Front(app.redo)) \subseteq ToSet(app.redo)
          /\ Last(app.redo) \in ToSet(app.redo)
      BY <1>1, <2>2, Popped
    <3> HIDE DEF next
    <3>3. Succeeds(next)
      BY <1>1, <1>5, <3>1, <3>2 DEF Succeeds, TrayOf
    <3> QED BY <3>3 DEF next
  <2> QED BY <2>1, <2>2
<1>10. Succeeds(ChangesetCommitted(app))
  <2> DEFINE next == ChangesetCommitted(app)
  <2>1. /\ DOMAIN next = DOMAIN initialVisualAppState /\ next.model = app.model
        /\ next.pending = EmptyChangeset /\ next.redo = <<>> /\ next.undo = <<>>
    BY <1>1, AppFields DEF ChangesetCommitted
  <2> HIDE DEF next
  <2>2. Succeeds(next)
    BY <1>2, <1>4, <2>1 DEF Succeeds, TrayOf
  <2> QED BY <2>2 DEF next
<1> QED
  BY <1>7, <1>8, <1>9, <1>10

LEMMA StagingRows ==
  ASSUME EditorInv, app.model # None, NEW s, Alike(s), s.views = app.views
  PROVE  /\ \A d \in Documents : \A f : Succeeds(ChangesetStaged(s, d, f))
         /\ \A row : /\ ViewRow(row)
                     /\ row.seen = SeenView(app, row.path)
                     => Succeeds(ChangesetViewStaged(s, row))
         /\ \A row : Succeeds(ChangesetDiscarded(s, row))
<1> DEFINE c == app.pending
<1>1. s.model = app.model /\ s.pending = c
  BY DEF Alike
<1>2. Sound(c)
  BY TrayClock DEF TrayOf, Held
<1>3. /\ \A row \in c.operations : row.path \in Documents
      /\ \A row \in c.viewOperations : ViewRow(row)
  BY <1>2 DEF Sound
<1>4. \A row \in c.operations \cup c.viewOperations :
        \E base \in Rows(c) : row.path = base.path /\ row.seen = base.seen
  BY DEF Rows
<1> HIDE DEF c
<1>5. ASSUME NEW d \in Documents, NEW f
      PROVE  Succeeds(ChangesetStaged(s, d, f))
  <2> DEFINE new == Operation(d, f, SeenDocument(s, d))
             ops == {row \in c.operations : ~(row.path = d /\ row.field = f)} \cup {new}
  <2>1. new.path = d /\ (Telling(new) => new.seen.shown = DigestIn(app.model, d))
    BY <1>1 DEF Operation, SeenDocument
  <2>2. ChangesetStaged(s, d, f) = Staged(s, ops, c.viewOperations)
    BY <1>1 DEF ChangesetStaged
  <2> HIDE DEF new
  <2>3. \A row \in ops : row.path \in Documents
    BY <1>3, <2>1
  <2>4. \A row \in ops \cup c.viewOperations :
           \/ \E base \in Rows(app.pending) : row.path = base.path /\ row.seen = base.seen
           \/ Telling(row) => row.seen.shown = DigestIn(app.model, row.path)
    BY <1>4, <2>1 DEF c
  <2> HIDE DEF ops
  <2> QED BY <1>3, <2>2, <2>3, <2>4, StagedSucceeds
<1>6. ASSUME NEW row, ViewRow(row), row.seen = SeenView(app, row.path)
      PROVE  Succeeds(ChangesetViewStaged(s, row))
  <2> DEFINE vops == OtherViews(s, row.path) \cup {row}
  <2>1. Telling(row) => row.seen.shown = DigestIn(app.model, row.path)
    BY <1>6 DEF SeenView, Telling
  <2>2. OtherViews(s, row.path) \subseteq c.viewOperations
    BY <1>1 DEF OtherViews
  <2>3. ChangesetViewStaged(s, row) = Staged(s, c.operations, vops)
    BY <1>1 DEF ChangesetViewStaged
  <2>4. \A r \in vops : ViewRow(r)
    BY <1>3, <1>6, <2>2
  <2>5. \A r \in c.operations \cup vops :
           \/ \E base \in Rows(app.pending) : r.path = base.path /\ r.seen = base.seen
           \/ Telling(r) => r.seen.shown = DigestIn(app.model, r.path)
    BY <1>4, <2>1, <2>2 DEF c
  <2> HIDE DEF vops
  <2> QED BY <1>3, <2>3, <2>4, <2>5, StagedSucceeds
<1>7. ASSUME NEW row
      PROVE  Succeeds(ChangesetDiscarded(s, row))
  <2> DEFINE ops == c.operations \ {row}
             vops == c.viewOperations \ {row}
  <2>1. ChangesetDiscarded(s, row) = Staged(s, ops, vops)
    BY <1>1 DEF ChangesetDiscarded
  <2>2. /\ \A r \in ops : r.path \in Documents
        /\ \A r \in vops : ViewRow(r)
    BY <1>3
  <2>3. \A r \in ops \cup vops :
           \/ \E base \in Rows(app.pending) : r.path = base.path /\ r.seen = base.seen
           \/ Telling(r) => r.seen.shown = DigestIn(app.model, r.path)
    BY <1>4 DEF c
  <2> HIDE DEF ops, vops
  <2> QED BY <2>1, <2>2, <2>3, StagedSucceeds
<1> QED
  BY <1>5, <1>6, <1>7

\* A membership edit is composed on the row already staged, and keeps what
\* that one was written from; otherwise on what is on screen.
LEMMA MembershipSucceeds ==
  ASSUME EditorInv, app.model # None, NEW p \in ViewPaths, NEW subject, NEW membership
  PROVE  Succeeds(ChangesetViewMembership(app, p, subject, membership))
<1> DEFINE c == app.pending
           base == ComposedOn(app, p)
           amended == withMembership(base.projection, subject, membership)
           changed == [base EXCEPT !.projection = amended]
           vops == IF amended = Projected(app.views[p]) THEN OtherViews(app, p)
                   ELSE OtherViews(app, p) \cup {changed}
           next == ChangesetViewMembership(app, p, subject, membership)
<1>1. next \in {app, Staged(app, c.operations, vops)}
  BY DEF ChangesetViewMembership, Amended
<1>2. Sound(c)
  BY TrayClock DEF TrayOf, Held
<1>3. /\ \A row \in c.operations : row.path \in Documents
      /\ \A row \in c.viewOperations : ViewRow(row)
  BY <1>2 DEF Sound
<1>4. \A row \in c.operations \cup c.viewOperations :
        \E b \in Rows(c) : row.path = b.path /\ row.seen = b.seen
  BY DEF Rows
<1> HIDE DEF amended, next
<1>5. /\ ViewRow(base)
      /\ \/ \E b \in Rows(c) : base.path = b.path /\ base.seen = b.seen
         \/ Telling(base) => base.seen.shown = DigestIn(app.model, base.path)
  <2>1. CASE PendingWrites(app, p) = {}
    <3>1. base = WriteView(p, Projected(app.views[p]), SeenView(app, p))
      BY <2>1 DEF ComposedOn
    <3> QED BY <3>1 DEF WriteView, SeenView, Telling, ViewRow
  <2>2. CASE PendingWrites(app, p) # {}
    <3>1. base \in PendingWrites(app, p)
      BY <2>2 DEF ComposedOn
    <3>2. base \in c.viewOperations
      BY <3>1 DEF PendingWrites
    <3> QED BY <1>3, <1>4, <3>2
  <2> QED BY <2>1, <2>2
<1> HIDE DEF base
<1>6. changed.path = base.path /\ changed.seen = base.seen /\ ViewRow(changed)
  BY <1>5 DEF ViewRow
<1>7. Telling(changed) <=> Telling(base)
  BY <1>6 DEF Telling
<1> HIDE DEF changed
<1>8. OtherViews(app, p) \subseteq c.viewOperations
  BY DEF OtherViews
<1>9. \A r \in vops : ViewRow(r)
  BY <1>3, <1>6, <1>8
<1>10. \A r \in c.operations \cup vops :
           \/ \E b \in Rows(c) : r.path = b.path /\ r.seen = b.seen
           \/ Telling(r) => r.seen.shown = DigestIn(app.model, r.path)
  BY <1>4, <1>5, <1>6, <1>7, <1>8
<1>11. Alike(app)
  BY StaysAlike
<1> HIDE DEF vops
<1>12. Succeeds(Staged(app, c.operations, vops))
  BY <1>3, <1>9, <1>10, <1>11, StagedSucceeds
<1>13. Succeeds(app)
  BY <1>11, AlikeSucceeds
<1> QED
  BY <1>1, <1>12, <1>13 DEF next

-----------------------------------------------------------------------------
(***************************************************************************)
(* A step of the browser: what was in the tray is still behind what is on  *)
(* screen and what is on its way there.                                    *)
(***************************************************************************)
Carried2(i) == up'[i].type = "changeset.commit" =>
  (\E j \in DOMAIN up : up'[i] = up[j]) \/ up'[i].changeset = app.pending

LEMMA BrowserMoves ==
  ASSUME EditorInv, UNCHANGED <<disk, clock, model, host, landed>>,
         NEW next, Succeeds(next),
         DOMAIN app' = DOMAIN initialVisualAppState,
         app'.pending = next.pending, app'.undo = next.undo, app'.redo = next.redo,
         app'.model # None => Modelled(app'.model, disk, clock),
         Before(Digests(app'.model), down', model),
         \A reading : Precedes(reading, Digests(app.model)) /\ Before(reading, down, model) =>
           Precedes(reading, Digests(app'.model)) /\ Before(reading, down', model),
         Sequence(down'), \A i \in DOMAIN down' : FrameTyped(down'[i]),
         InOrder(down', model, disk, clock),
         Sequence(up'), \A i \in DOMAIN up' : Carried2(i),
         Opens'
  PROVE  EditorInv'
<1>1. Shapes'
  BY DEF Shapes, Succeeds
<1>2. Clocked(disk', clock')
  BY DEF EditorInv
<1>3. ModelsHold'
  BY DEF ModelsHold, EditorInv
<1>4. TrayHolds'
  <2>1. Changesets' = TrayOf(next)
    BY DEF Changesets, TrayOf
  <2>2. ASSUME NEW c \in TrayOf(next)
        PROVE  Held(c, app'.model, down', model, disk, clock)
    <3>1. Held(c, app.model, down, model, disk, clock)
      BY DEF Succeeds
    <3> QED BY <3>1 DEF Held
  <2> QED BY <2>1, <2>2 DEF TrayHolds
<1>5. CommitsHold'
  <2>1. Sound(app.pending) /\ Learnt(app.pending, disk, clock)
    BY TrayClock DEF TrayOf, Held
  <2> QED BY <2>1 DEF EditorInv, CommitsHold, Carried2
<1>6. RowsLandOnWhatWasShown'
  <2>1. PinsVouchForTheirRows'
    BY <1>4 DEF TrayHolds, Held, Sound, PinsVouchForTheirRows
  <2>2. host = "socket" => \A l \in landed : Telling(l.row) => l.over = l.row.seen.shown
    BY DEF EditorInv, RowsLandOnWhatWasShown, Telling
  <2> QED BY <2>1, <2>2 DEF RowsLandOnWhatWasShown, Telling
<1> QED
  BY <1>1, <1>2, <1>3, <1>4, <1>5, <1>6 DEF EditorInv

\* What a render sends is what it is given to send, and a query perhaps.
LEMMA Rendered ==
  ASSUME EditorInv, NEW next, NEW inputs, NEW asker, Render(next, inputs, asker),
         Sequence(inputs),
         \A i \in DOMAIN inputs :
           inputs[i].type = "changeset.commit" => inputs[i].changeset = app.pending
  PROVE  app' = next /\ Sequence(up') /\ \A i \in DOMAIN up' : Carried2(i)
<1>1. app' = next
  BY DEF Render
<1>2. Sequence(up)
  BY DEF EditorInv, Shapes
<1>3. \E query : Sent(inputs, link' = "open") \/ Sent(Append(inputs, Asked(query)), link' = "open")
  <2> DEFINE view == ViewNeedingApplication(next, applied, link' = "open")
  <2>1. \/ Sent(inputs, link' = "open")
        \/ Sent(Append(inputs, Asked(next.views[view].query)), link' = "open")
    BY DEF Render
  <2> HIDE DEF view
  <2> QED BY <2>1
<1>4. PICK query, more : /\ more = inputs \/ more = Append(inputs, Asked(query))
                         /\ up' = up \/ up' = up \o more
  BY <1>3 DEF Sent
<1>5. Asked(query).type # "changeset.commit"
  BY DEF Asked
<1>6. /\ Sequence(more)
      /\ \A i \in DOMAIN more :
           more[i].type = "changeset.commit" => more[i].changeset = app.pending
  <2>1. CASE more = inputs
    BY <2>1
  <2>2. CASE more = Append(inputs, Asked(query))
    <3>1. PICK asked : asked = Asked(query)
      OBVIOUS
    <3>2. /\ Sequence(Append(inputs, asked))
          /\ DOMAIN Append(inputs, asked) = 1..(Len(inputs) + 1)
          /\ \A i \in 1..Len(inputs) : Append(inputs, asked)[i] = inputs[i]
          /\ Append(inputs, asked)[Len(inputs) + 1] = asked
          /\ Len(inputs) \in Nat /\ DOMAIN inputs = 1..Len(inputs)
      BY Appended, SequenceShape
    <3>3. asked.type # "changeset.commit" /\ more = Append(inputs, asked)
      BY <2>2, <3>1, <1>5
    <3> QED BY <3>2, <3>3
  <2> QED BY <1>4, <2>1, <2>2
<1>7. CASE up' = up
  BY <1>1, <1>2, <1>7 DEF Carried2
<1>8. CASE up' = up \o more
  <2>1. PICK old : old = up
    OBVIOUS
  <2>2. Sequence(old) /\ Sequence(more)
    BY <1>2, <1>6, <2>1
  <2>3. /\ Sequence(old \o more)
        /\ \A i \in DOMAIN (old \o more) :
             \/ \E j \in DOMAIN old : (old \o more)[i] = old[j]
             \/ \E j \in DOMAIN more : (old \o more)[i] = more[j]
    <3>1. Sequence(old \o more)
      BY <2>2, Both
    <3>2. \A i \in DOMAIN (old \o more) :
            \/ \E j \in DOMAIN old : (old \o more)[i] = old[j]
            \/ \E j \in DOMAIN more : (old \o more)[i] = more[j]
      <4>1. /\ Len(old) \in Nat /\ DOMAIN old = 1..Len(old)
            /\ Len(more) \in Nat /\ DOMAIN more = 1..Len(more)
        BY <2>2, SequenceShape
      <4> QED BY <4>1
    <3> QED BY <3>1, <3>2
  <2> QED BY <1>1, <1>6, <1>8, <2>1, <2>3 DEF Carried2
<1> QED
  BY <1>4, <1>7, <1>8

\* A session that is open stays open under every gesture.
LEMMA StaysOpen ==
  ASSUME EditorInv, app.lifecycle # "closed"
  PROVE  /\ TurnAnswered(app).lifecycle # "closed" /\ ChatSent(app).lifecycle # "closed"
         /\ \A view : ViewNavigated(app, view).lifecycle # "closed"
         /\ EndRequested(app).lifecycle # "closed"
         /\ FilterCleared(app).lifecycle # "closed"
         /\ ChangesetCommitSent(app).lifecycle # "closed"
         /\ ChangesetCleared(app).lifecycle # "closed"
         /\ ChangesetUndone(app).lifecycle # "closed"
         /\ ChangesetRedone(app).lifecycle # "closed"
         /\ \A d, f : ChangesetStaged(app, d, f).lifecycle # "closed"
         /\ \A row : ChangesetViewStaged(app, row).lifecycle # "closed"
         /\ \A row : ChangesetDiscarded(app, row).lifecycle # "closed"
         /\ \A view, subject, membership :
              ChangesetViewMembership(app, view, subject, membership).lifecycle # "closed"
<1>1. DOMAIN app = DOMAIN initialVisualAppState
  BY DEF EditorInv, Shapes
<1> USE <1>1, AppFields
<1>2. \A operations, viewOperations : Staged(app, operations, viewOperations).lifecycle # "closed"
  BY DEF Staged
<1>3. /\ TurnAnswered(app).lifecycle # "closed" /\ ChatSent(app).lifecycle # "closed"
      /\ EndRequested(app).lifecycle # "closed"
      /\ ChangesetCommitSent(app).lifecycle # "closed"
  BY DEF TurnAnswered, ChatSent, EndRequested, ChangesetCommitSent
<1>4. /\ \A view : ViewNavigated(app, view).lifecycle # "closed"
      /\ FilterCleared(app).lifecycle # "closed"
  BY DEF ViewNavigated, FilterCleared
<1>5. ChangesetCleared(app).lifecycle # "closed"
  BY DEF ChangesetCleared
<1>6. ChangesetUndone(app).lifecycle # "closed"
  BY DEF ChangesetUndone
<1>7. ChangesetRedone(app).lifecycle # "closed"
  BY DEF ChangesetRedone
<1>8. \A d, f : ChangesetStaged(app, d, f).lifecycle # "closed"
  BY <1>2 DEF ChangesetStaged
<1>9. /\ \A row : ChangesetViewStaged(app, row).lifecycle # "closed"
      /\ \A row : ChangesetDiscarded(app, row).lifecycle # "closed"
  BY <1>2 DEF ChangesetViewStaged, ChangesetDiscarded
<1>10. \A view, subject, membership :
         ChangesetViewMembership(app, view, subject, membership).lifecycle # "closed"
  <2>1. \A view, base, projection : Amended(app, view, base, projection).lifecycle # "closed"
    BY <1>2 DEF Amended
  <2> QED BY <2>1 DEF ChangesetViewMembership
<1> QED
  BY <1>3, <1>4, <1>5, <1>6, <1>7, <1>8, <1>9, <1>10

\* A gesture, whatever it makes of the tray.
LEMMA Gestured ==
  ASSUME EditorInv, NEW kinds, Gesture(kinds),
         NEW next, Succeeds(next), next.lifecycle # "closed",
         NEW inputs, Sequence(inputs),
         \A i \in DOMAIN inputs :
           inputs[i].type = "changeset.commit" => inputs[i].changeset = app.pending,
         NEW asker, Render(visualAppReducer(app, next), inputs, asker)
  PROVE  EditorInv'
<1>1. /\ app.model # None /\ app.lifecycle # "closed"
      /\ UNCHANGED <<disk, clock, model, host, landed, link, down>>
  BY DEF Gesture, serverVars, workVars
<1>2. visualAppReducer(app, next) = next
  BY <1>1 DEF visualAppReducer
<1>3. app' = next /\ Sequence(up') /\ \A i \in DOMAIN up' : Carried2(i)
  <2>1. Render(next, inputs, asker)
    BY <1>2
  <2> QED BY <2>1, Rendered
<1>4. Sequence(down) /\ \A i \in DOMAIN down : FrameTyped(down[i])
  BY DEF EditorInv, Shapes
<1>5. /\ app.model # None => Modelled(app.model, disk, clock)
      /\ InOrder(down, model, disk, clock)
      /\ Before(Digests(app.model), down, model)
  BY DEF EditorInv, ModelsHold
<1>6. DOMAIN next = DOMAIN initialVisualAppState /\ next.model = app.model
  BY DEF Succeeds
<1>7. Opens'
  BY <1>1, <1>3, <1>6 DEF EditorInv, Opens
<1> QED
  BY <1>1, <1>3, <1>4, <1>5, <1>6, <1>7, BrowserMoves

LEMMA TrayGestured ==
  ASSUME EditorInv, NEW kinds, NEW next, Tray(kinds, next),
         app.model # None /\ app.lifecycle # "closed" =>
           Succeeds(next) /\ next.lifecycle # "closed"
  PROVE  EditorInv'
<1>1. Gesture(kinds) /\ Render(visualAppReducer(app, next), <<>>, origin)
  BY DEF Tray
<1>2. Succeeds(next) /\ next.lifecycle # "closed"
  BY <1>1 DEF Gesture
<1>3. Sequence(<<>>) /\ \A i \in DOMAIN <<>> :
        <<>>[i].type = "changeset.commit" => <<>>[i].changeset = app.pending
  BY FewFrames
<1> QED
  BY <1>1, <1>2, <1>3, Gestured

LEMMA TrayHeld ==
  ASSUME EditorInv, \/ StageOperation \/ StageView \/ DeleteListedView \/ EditMembership
                    \/ Discard \/ Clear \/ Undo \/ Redo
  PROVE  EditorInv'
<1> DEFINE Lively == app.model # None /\ app.lifecycle # "closed"
<1>1. ASSUME Lively
      PROVE  /\ \A d \in Documents : \A f : Succeeds(ChangesetStaged(app, d, f))
             /\ \A row : ViewRow(row) /\ row.seen = SeenView(app, row.path)
                           => Succeeds(ChangesetViewStaged(app, row))
             /\ \A row : Succeeds(ChangesetDiscarded(app, row))
  BY <1>1, StaysAlike, StagingRows
<1>2. CASE StageOperation
  <2>1. PICK d \in Documents, f \in Fields : Tray({"rows"}, ChangesetStaged(app, d, f))
    BY <1>2 DEF StageOperation
  <2> QED BY <2>1, <1>1, StaysOpen, TrayGestured
<1>3. CASE StageView
  <2>1. PICK p \in ViewPaths, title \in Titles :
          LET shown == app.views[p]
              names == IF shown = None THEN <<>> ELSE shown.query.names
              row == WriteView(p, Content(title, names), SeenView(app, p))
          IN  Tray({"views"}, ChangesetViewStaged(app, row))
    BY <1>3 DEF StageView
  <2>2. PICK row : /\ row.path = p /\ row.seen = SeenView(app, p) /\ ViewRow(row)
                   /\ Tray({"views"}, ChangesetViewStaged(app, row))
    BY <2>1 DEF WriteView, ViewRow
  <2> QED BY <2>2, <1>1, StaysOpen, TrayGestured
<1>4. CASE DeleteListedView
  <2>1. PICK p \in ViewPaths :
          Tray({"views"}, ChangesetViewStaged(app, DeleteView(p, SeenView(app, p))))
    BY <1>4 DEF DeleteListedView
  <2>2. PICK row : /\ row.path = p /\ row.seen = SeenView(app, p) /\ ViewRow(row)
                   /\ Tray({"views"}, ChangesetViewStaged(app, row))
    BY <2>1 DEF DeleteView, ViewRow
  <2> QED BY <2>2, <1>1, StaysOpen, TrayGestured
<1>5. CASE EditMembership
  <2>1. PICK p \in ViewPaths, s \in Subjects, membership \in {"add", "remove"} :
          Tray({"views"}, ChangesetViewMembership(app, p, s, membership))
    BY <1>5 DEF EditMembership
  <2> QED BY <2>1, MembershipSucceeds, StaysOpen, TrayGestured
<1>6. CASE Discard
  <2>1. PICK row \in Rows(app.pending) :
          Tray({"rows", "views"}, ChangesetDiscarded(app, row))
    BY <1>6 DEF Discard
  <2> QED BY <2>1, <1>1, StaysOpen, TrayGestured
<1>7. CASE Clear
  BY <1>7, TraySteps, StaysOpen, TrayGestured DEF Clear
<1>8. CASE Undo
  BY <1>8, TraySteps, StaysOpen, TrayGestured DEF Undo
<1>9. CASE Redo
  BY <1>9, TraySteps, StaysOpen, TrayGestured DEF Redo
<1> QED
  BY <1>2, <1>3, <1>4, <1>5, <1>6, <1>7, <1>8, <1>9

LEMMA OtherGesturesHold ==
  ASSUME EditorInv, Commit \/ Navigate \/ Filter \/ ClearFilter \/ Chat \/ Delegate \/ Choose \/ End
  PROVE  EditorInv'
<1>1. \A next : Alike(next) => Succeeds(next)
  BY AlikeSucceeds
<1>2. CASE Commit
  <2> DEFINE input == [type |-> "changeset.commit", epoch |-> epoch, changeset |-> app.pending]
  <2>1. /\ Gesture({"rows", "views"}) /\ app.lifecycle # "closed"
        /\ Render(visualAppReducer(app, ChangesetCommitSent(app)), <<input>>, origin)
    BY <1>2 DEF Commit, Gesture
  <2>2. input.changeset = app.pending
    OBVIOUS
  <2> HIDE DEF input
  <2>3. Sequence(<<input>>) /\ \A i \in DOMAIN <<input>> : <<input>>[i] = input
    BY FewFrames
  <2>4. Succeeds(ChangesetCommitSent(app)) /\ ChangesetCommitSent(app).lifecycle # "closed"
    BY <1>1, <2>1, StaysAlike, StaysOpen
  <2>5. \A i \in DOMAIN <<input>> :
          <<input>>[i].type = "changeset.commit" => <<input>>[i].changeset = app.pending
    BY <2>2, <2>3
  <2> QED BY <2>1, <2>3, <2>4, <2>5, Gestured
<1>3. CASE Navigate
  <2>1. PICK p \in ViewPaths : Tray({"screen"}, ViewNavigated(app, p))
    BY <1>3 DEF Navigate, Tray
  <2> QED BY <2>1, <1>1, StaysAlike, StaysOpen, TrayGestured
<1>4. CASE Filter
  <2>1. PICK q \in Queries, source \in {"panel", "focus", "editor"} :
          Gesture({"screen"}) /\ Render(app, <<Asked(q)>>, source)
    BY <1>4 DEF Filter
  <2>2. app.lifecycle # "closed" /\ visualAppReducer(app, app) = app /\ Succeeds(app)
    BY <1>1, <2>1, StaysAlike DEF Gesture, visualAppReducer
  <2>3. PICK asked : asked = Asked(q)
    OBVIOUS
  <2>4. Sequence(<<asked>>) /\ \A i \in DOMAIN <<asked>> : <<asked>>[i] = asked
    BY FewFrames
  <2>5. Render(visualAppReducer(app, app), <<asked>>, source)
    BY <2>1, <2>2, <2>3
  <2>6. asked.type = "filter.query"
    BY <2>3 DEF Asked
  <2> QED BY <2>1, <2>2, <2>4, <2>5, <2>6, Gestured
<1>5. CASE ClearFilter
  <2>1. /\ Gesture({"screen"}) /\ app.lifecycle # "closed"
        /\ Render(visualAppReducer(app, FilterCleared(app)), <<>>, origin)
    BY <1>5 DEF ClearFilter, Gesture
  <2> QED BY <2>1, <1>1, StaysAlike, StaysOpen, FewFrames, Gestured
<1>6. ASSUME NEW next, Alike(next), app.lifecycle # "closed" => next.lifecycle # "closed",
             NEW input, input.type # "changeset.commit", Says(next, input)
      PROVE  EditorInv'
  <2>1. /\ Gesture({"talk"}) /\ app.lifecycle # "closed"
        /\ Render(visualAppReducer(app, next), <<input>>, origin)
    BY <1>6 DEF Says, Gesture
  <2>2. Sequence(<<input>>) /\ \A i \in DOMAIN <<input>> : <<input>>[i] = input
    BY FewFrames
  <2> QED BY <1>1, <1>6, <2>1, <2>2, Gestured
<1>7. CASE Chat
  BY <1>6, <1>7, StaysAlike, StaysOpen DEF Chat, Spoken
<1>8. CASE Delegate
  BY <1>6, <1>8, StaysAlike, StaysOpen DEF Delegate, Spoken
<1>9. CASE Choose
  <2>1. PICK input : /\ input.type # "changeset.commit"
                     /\ Says(ChatSent(app), input)
    BY <1>9 DEF Choose
  <2> QED BY <1>6, <2>1, StaysAlike, StaysOpen
<1>10. CASE End
  BY <1>6, <1>10, StaysAlike, StaysOpen DEF End, Spoken
<1> QED
  BY <1>2, <1>3, <1>4, <1>5, <1>7, <1>8, <1>9, <1>10

-----------------------------------------------------------------------------
(***************************************************************************)
(* The wire: what arrives, and a connection opened, lost and given up.     *)
(***************************************************************************)

\* What a frame does: to the tray what a step of the reducer may do, to the
\* screen what it carries.
Arrives(frame, next) ==
  /\ DOMAIN next = DOMAIN initialVisualAppState
  /\ \E s : /\ Succeeds(s)
            /\ next.pending = s.pending /\ next.undo = s.undo /\ next.redo = s.redo
  /\ next.model = IF Carries(frame) THEN Carried(frame) ELSE app.model
  /\ next.lifecycle = "closed" => frame.kind = "closing"

LEMMA Unchanging ==
  ASSUME EditorInv, NEW frame, ~Carries(frame), NEW next, Succeeds(next),
         next.lifecycle = "closed" => frame.kind = "closing"
  PROVE  Arrives(frame, next)
BY DEF Arrives, Succeeds

LEMMA Transited ==
  ASSUME EditorInv, app.lifecycle # "closed", NEW frame, FrameTyped(frame),
         app.model = None => frame.kind = "ready", NEW asker
  PROVE  Arrives(frame, Transition(app, frame, asker))
<1>1. DOMAIN app = DOMAIN initialVisualAppState
  BY DEF EditorInv, Shapes
<1>2. \A s : Alike(s) => Succeeds(s)
  BY AlikeSucceeds
<1>3. Succeeds(app)
  BY <1>2, StaysAlike
<1>4. CASE frame.kind = "ready"
  <2>1. Transition(app, frame, asker) = SessionLoaded(app, frame.snapshot)
    BY <1>4 DEF Transition
  <2> DEFINE next == SessionLoaded(app, frame.snapshot)
  <2>2. /\ DOMAIN next = DOMAIN initialVisualAppState /\ next.model = frame.snapshot.model
        /\ next.pending = app.pending /\ next.undo = app.undo /\ next.redo = app.redo
        /\ next.lifecycle # "closed"
    BY <1>1, AppFields DEF SessionLoaded
  <2> HIDE DEF next
  <2>3. Carries(frame) /\ Carried(frame) = frame.snapshot.model
    BY <1>4 DEF Carries, Carried
  <2>4. Arrives(frame, next)
    BY <1>3, <2>2, <2>3 DEF Arrives
  <2> QED BY <2>1, <2>4 DEF next
<1>5. CASE frame.kind = "model"
  <2>1. Transition(app, frame, asker) = ModelReceived(app, frame.model, frame.views)
    BY <1>5 DEF Transition
  <2> DEFINE next == ModelReceived(app, frame.model, frame.views)
  <2>2. /\ DOMAIN next = DOMAIN initialVisualAppState /\ next.model = frame.model
        /\ next.pending = app.pending /\ next.undo = app.undo /\ next.redo = app.redo
        /\ next.lifecycle # "closed"
    BY <1>1, AppFields DEF ModelReceived
  <2> HIDE DEF next
  <2>3. Carries(frame) /\ Carried(frame) = frame.model
    BY <1>5 DEF Carries, Carried
  <2>4. Arrives(frame, next)
    BY <1>3, <2>2, <2>3 DEF Arrives
  <2> QED BY <2>1, <2>4 DEF next
<1>6. ASSUME ~Carries(frame)
      PROVE  Arrives(frame, Transition(app, frame, asker))
  <2>1. frame.kind \in {"rejected", "closing", "filter-result", "apply-result", "response"}
        /\ app.model # None
    BY <1>6 DEF Carries, FrameTyped
  <2>2. CASE frame.kind = "rejected"
    <3>1. Transition(app, frame, asker) = InputRefused(app, frame.refused, frame.frozen)
      BY <2>2 DEF Transition
    <3>2. Succeeds(InputRefused(app, frame.refused, frame.frozen))
      BY <1>2, StaysAlike
    <3>3. InputRefused(app, frame.refused, frame.frozen).lifecycle # "closed"
      BY <1>1, AppFields DEF InputRefused
    <3> QED BY <1>6, <3>1, <3>2, <3>3, Unchanging
  <2>3. CASE frame.kind = "closing"
    <3>1. Transition(app, frame, asker) = SessionClosed(app)
      BY <2>3 DEF Transition
    <3> QED BY <1>2, <1>6, <2>3, <3>1, StaysAlike, Unchanging
  <2>4. ASSUME NEW s, Alike(s), s.lifecycle # "closed", NEW query, NEW matched, NEW source
        PROVE  FilterApplied(s, query, matched, source).lifecycle # "closed"
    BY <2>4, AppFields DEF Alike, FilterApplied
  <2>5. Alike(app) /\ Alike(TurnAnswered(app)) /\ TurnAnswered(app).lifecycle # "closed"
    BY StaysAlike, StaysOpen
  <2>6. CASE frame.kind = "filter-result"
    <3>1. Transition(app, frame, asker) = FilterApplied(app, frame.query, frame.matched, asker)
      BY <2>6 DEF Transition
    <3>2. Succeeds(FilterApplied(app, frame.query, frame.matched, asker))
      BY <1>2, StaysAlike
    <3> QED BY <1>6, <2>4, <2>5, <3>1, <3>2, Unchanging
  <2>7. CASE frame.kind = "apply-result"
    <3>1. \/ Transition(app, frame, asker) = ChangesetCommitted(app)
          \/ Transition(app, frame, asker) = ApplyFailed(app)
      BY <2>7 DEF Transition
    <3>2. /\ ChangesetCommitted(app).lifecycle # "closed"
          /\ ApplyFailed(app).lifecycle # "closed"
      BY <1>1, AppFields DEF ChangesetCommitted, ApplyFailed
    <3>3. Succeeds(ChangesetCommitted(app)) /\ Succeeds(ApplyFailed(app))
      BY <1>2, StaysAlike, TraySteps
    <3> QED BY <1>6, <3>1, <3>2, <3>3, Unchanging
  <2>8. CASE frame.kind = "response"
    <3>1. Transition(app, frame, asker) = Responded(app, frame)
      BY <2>8 DEF Transition
    <3>2. CASE frame.type = "chat.response"
      <4>1. \/ Responded(app, frame) = TurnAnswered(app)
            \/ Responded(app, frame) =
                 FilterApplied(TurnAnswered(app), frame.query, frame.matched, "chat")
        BY <3>2 DEF Responded
      <4>2. /\ Succeeds(TurnAnswered(app))
            /\ Succeeds(FilterApplied(TurnAnswered(app), frame.query, frame.matched, "chat"))
        BY <1>2, StaysAlike
      <4> QED BY <1>6, <2>4, <2>5, <3>1, <4>1, <4>2, Unchanging
    <3>3. CASE frame.type = "choice.present"
      <4>1. Responded(app, frame) = ChoicePresented(app, frame.choice)
        BY <3>3 DEF Responded
      <4>2. ChoicePresented(app, frame.choice).lifecycle # "closed"
        BY <1>1, AppFields DEF ChoicePresented, TurnAnswered
      <4> QED BY <1>2, <1>6, <3>1, <4>1, <4>2, StaysAlike, Unchanging
    <3>4. CASE frame.type = "operations.propose"
      <4> DEFINE s == TurnAnswered(app)
      <4>1. Responded(app, frame) = ChangesetStaged(s, frame.path, frame.field)
        BY <3>4 DEF Responded
      <4>2. s.views = app.views
        BY <1>1, AppFields DEF TurnAnswered
      <4>3. frame.path \in Documents
        BY <2>8, <3>4 DEF FrameTyped
      <4>4. ChangesetStaged(s, frame.path, frame.field).lifecycle # "closed"
        <5>1. DOMAIN s = DOMAIN initialVisualAppState /\ s.lifecycle # "closed"
          BY <2>5 DEF Alike
        <5> HIDE DEF s
        <5> QED BY <5>1, AppFields DEF ChangesetStaged, Staged
      <4> HIDE DEF s
      <4>5. Succeeds(ChangesetStaged(s, frame.path, frame.field))
        BY <2>1, <2>5, <4>2, <4>3, StagingRows DEF s
      <4> QED BY <1>6, <3>1, <4>1, <4>4, <4>5, Unchanging
    <3>5. CASE frame.type = "diagnostic"
      <4>1. Responded(app, frame) = TurnAnswered(app)
        BY <3>5 DEF Responded
      <4> QED BY <1>2, <1>6, <2>5, <3>1, <4>1, Unchanging
    <3> QED BY <2>8, <3>2, <3>3, <3>4, <3>5 DEF FrameTyped
  <2> QED BY <2>1, <2>2, <2>3, <2>6, <2>7, <2>8
<1> QED
  BY <1>4, <1>5, <1>6 DEF Carries

LEMMA Received ==
  ASSUME EditorInv, NEW frame, Receive(frame)
  PROVE  /\ app' = visualAppReducer(app, Transition(app, frame, origin))
         /\ Sequence(up') /\ \A i \in DOMAIN up' : Carried2(i)
<1> DEFINE next == visualAppReducer(app, Transition(app, frame, origin))
<1>1. \E query, asker : Render(next, <<>>, asker) \/ Render(next, <<Asked(query)>>, asker)
  BY Zenon DEF Receive
<1>2. PICK query, asker : Render(next, <<>>, asker) \/ Render(next, <<Asked(query)>>, asker)
  BY <1>1
<1> HIDE DEF next
<1>3. CASE Render(next, <<>>, asker)
  BY <1>3, FewFrames, Rendered DEF next
<1>4. CASE Render(next, <<Asked(query)>>, asker)
  <2>1. PICK asked : asked = Asked(query)
    OBVIOUS
  <2>2. asked.type = "filter.query"
    BY <2>1 DEF Asked
  <2>3. Sequence(<<asked>>) /\ \A i \in DOMAIN <<asked>> : <<asked>>[i] = asked
    BY FewFrames
  <2> QED BY <1>4, <2>1, <2>2, <2>3, Rendered DEF next
<1> QED
  BY <1>2, <1>3, <1>4

LEMMA DeliverHolds ==
  ASSUME EditorInv, Deliver
  PROVE  EditorInv'
<1>1. PICK frame : frame = down[1]
  OBVIOUS
<1>2. /\ link = "open" /\ down # <<>> /\ down' = Tail(down)
      /\ link' = IF frame.kind = "closing" THEN "over" ELSE "open"
      /\ Receive(frame)
      /\ UNCHANGED <<disk, clock, model, host, landed>>
  BY <1>1 DEF Deliver, serverVars, workVars, boundVars
<1>3. app.lifecycle # "closed" /\ (app.model = None => frame.kind = "ready")
  BY <1>1, <1>2 DEF EditorInv, Opens
<1>4. Sequence(down) /\ \A i \in DOMAIN down : FrameTyped(down[i])
  BY DEF EditorInv, Shapes
<1>5. /\ 1 \in DOMAIN down /\ Sequence(down') /\ DOMAIN down \subseteq Int
      /\ \A i \in DOMAIN down' : i \in Nat /\ i >= 1 /\ i + 1 \in DOMAIN down /\ down'[i] = down[i + 1]
  <2>1. /\ 1 \in DOMAIN down /\ Sequence(down')
        /\ \A i \in DOMAIN down' : i + 1 \in DOMAIN down /\ down'[i] = down[i + 1]
    BY <1>2, <1>4, Tailed
  <2>2. DOMAIN down = 1..Len(down)
    BY <1>4, SequenceShape
  <2>3. DOMAIN down' = 1..Len(down') /\ Len(down') \in Nat
    BY <2>1, SequenceShape
  <2> QED BY <2>1, <2>2, <2>3
<1>6. FrameTyped(frame)
  BY <1>1, <1>4, <1>5
<1>7. /\ app' = Transition(app, frame, origin)
      /\ Sequence(up') /\ \A i \in DOMAIN up' : Carried2(i)
  BY <1>2, <1>3, Received DEF visualAppReducer
<1>8. Arrives(frame, app')
  BY <1>3, <1>6, <1>7, Transited
<1>9. PICK s : /\ Succeeds(s)
               /\ app'.pending = s.pending /\ app'.undo = s.undo /\ app'.redo = s.redo
  BY <1>8 DEF Arrives
<1>10. /\ DOMAIN app' = DOMAIN initialVisualAppState
       /\ app'.model = IF Carries(frame) THEN Carried(frame) ELSE app.model
       /\ app'.lifecycle = "closed" => frame.kind = "closing"
  BY <1>8 DEF Arrives
<1>11. /\ InOrder(down, model, disk, clock)
       /\ app.model # None => Modelled(app.model, disk, clock)
       /\ Before(Digests(app.model), down, model)
  BY DEF EditorInv, ModelsHold
<1>12. Carries(frame) =>
         /\ Modelled(Carried(frame), disk, clock)
         /\ Precedes(Digests(Carried(frame)), Digests(model))
         /\ \A i \in DOMAIN down' : Carries(down'[i]) =>
              Precedes(Digests(Carried(frame)), Digests(Carried(down'[i])))
  <2>1. Carries(frame) =>
          /\ Modelled(Carried(frame), disk, clock)
          /\ Precedes(Digests(Carried(frame)), Digests(model))
          /\ \A j \in DOMAIN down : 1 < j /\ Carries(down[j]) =>
               Precedes(Digests(Carried(frame)), Digests(Carried(down[j])))
    BY <1>1, <1>5, <1>11 DEF InOrder
  <2> QED BY <2>1, <1>5
<1>13. app'.model # None => Modelled(app'.model, disk, clock)
  BY <1>10, <1>11, <1>12
<1>14. \A reading : Before(reading, down, model) => Before(reading, down', model)
  BY <1>5 DEF Before
<1>15. Before(Digests(app'.model), down', model)
  BY <1>10, <1>11, <1>12, <1>14 DEF Before
<1>16. \A reading : Precedes(reading, Digests(app.model)) /\ Before(reading, down, model) =>
         Precedes(reading, Digests(app'.model)) /\ Before(reading, down', model)
  <2>1. \A reading : Carries(frame) /\ Before(reading, down, model) =>
          Precedes(reading, Digests(Carried(frame)))
    BY <1>1, <1>5 DEF Before
  <2> QED BY <2>1, <1>10, <1>14
<1>17. InOrder(down', model, disk, clock)
  <2>1. ASSUME NEW i \in DOMAIN down', Carries(down'[i])
        PROVE  /\ Modelled(Carried(down'[i]), disk, clock)
               /\ Precedes(Digests(Carried(down'[i])), Digests(model))
               /\ \A j \in DOMAIN down' : i < j /\ Carries(down'[j]) =>
                    Precedes(Digests(Carried(down'[i])), Digests(Carried(down'[j])))
    <3>1. /\ Modelled(Carried(down[i + 1]), disk, clock)
          /\ Precedes(Digests(Carried(down[i + 1])), Digests(model))
          /\ \A j \in DOMAIN down : i + 1 < j /\ Carries(down[j]) =>
               Precedes(Digests(Carried(down[i + 1])), Digests(Carried(down[j])))
      BY <1>5, <1>11, <2>1 DEF InOrder
    <3>2. ASSUME NEW j \in DOMAIN down', i < j, Carries(down'[j])
          PROVE  Precedes(Digests(Carried(down[i + 1])), Digests(Carried(down[j + 1])))
      <4>1. j + 1 \in DOMAIN down /\ i + 1 < j + 1 /\ Carries(down[j + 1])
        BY <1>5, <3>2
      <4> QED BY <3>1, <4>1
    <3> QED BY <3>1, <3>2, <1>5
  <2> QED BY <2>1 DEF InOrder
<1>18. \A i \in DOMAIN down' : FrameTyped(down'[i])
  BY <1>4, <1>5
<1>19. Opens'
  <2>1. link' = "open" => frame.kind # "closing"
    BY <1>2
  <2>2. app'.model # None
    <3>1. CASE Carries(frame)
      BY <3>1, <1>10, <1>12, ModelDigests DEF Modelled
    <3>2. CASE ~Carries(frame)
      BY <3>2, <1>3, <1>10 DEF Carries
    <3> QED BY <3>1, <3>2
  <2> QED BY <1>2, <1>10, <2>1, <2>2 DEF Opens
<1> QED
  BY <1>2, <1>5, <1>7, <1>9, <1>10, <1>13, <1>15, <1>16, <1>17, <1>18, <1>19, BrowserMoves

\* A browser with nothing on its way, or the last model first and no other.
LEMMA Rewired ==
  ASSUME EditorInv, Sequence(down'),
         \A i \in DOMAIN down' : \/ i = 1 /\ down'[i] = ReadyFrame
                                 \/ i = 2 /\ down'[i] = DiagnosticFrame
  PROVE  /\ \A i \in DOMAIN down' : FrameTyped(down'[i])
         /\ InOrder(down', model, disk, clock)
         /\ \A reading : Before(reading, down, model) => Before(reading, down', model)
<1>1. /\ FrameTyped(ReadyFrame) /\ Carries(ReadyFrame) /\ Carried(ReadyFrame) = model
      /\ FrameTyped(DiagnosticFrame) /\ ~Carries(DiagnosticFrame)
  BY DEF FrameTyped, Carries, Carried, ReadyFrame, DiagnosticFrame, Snapshot
<1>2. PICK ready, told : ready = ReadyFrame /\ told = DiagnosticFrame
  OBVIOUS
<1>3. \A i \in DOMAIN down' : \/ i = 1 /\ down'[i] = ready
                              \/ i = 2 /\ down'[i] = told
  BY <1>2
<1>4. /\ FrameTyped(ready) /\ Carries(ready) /\ Carried(ready) = model
      /\ FrameTyped(told) /\ ~Carries(told)
  BY <1>1, <1>2
<1>5. Modelled(model, disk, clock) /\ clock \in Nat
  BY DEF EditorInv, ModelsHold, Clocked
<1>6. Precedes(Digests(model), Digests(model))
  BY <1>5, SameReading
<1>7. InOrder(down', model, disk, clock)
  BY <1>3, <1>4, <1>5, <1>6 DEF InOrder
<1>8. \A reading : Before(reading, down, model) => Before(reading, down', model)
  BY <1>3, <1>4 DEF Before
<1> QED
  BY <1>3, <1>4, <1>7, <1>8

\* What a browser that connects is sent.
Greeting == <<ReadyFrame>> \o IF compiles THEN <<>> ELSE <<DiagnosticFrame>>

LEMMA Greeted ==
  /\ Sequence(Greeting) /\ Greeting # <<>> /\ Greeting[1] = ReadyFrame
  /\ \A i \in DOMAIN Greeting : \/ i = 1 /\ Greeting[i] = ReadyFrame
                                \/ i = 2 /\ Greeting[i] = DiagnosticFrame
<1>1. PICK ready, told, more :
        /\ ready = ReadyFrame /\ told = DiagnosticFrame
        /\ more = IF compiles THEN <<>> ELSE <<told>>
  OBVIOUS
<1>2. /\ Sequence(<<ready>>) /\ <<ready>>[1] = ready /\ Len(<<ready>>) = 1
      /\ Sequence(more) /\ Len(more) \in {0, 1}
      /\ \A i \in DOMAIN more : i = 1 /\ more[i] = told
  BY <1>1, FewFrames
<1>3. /\ Sequence(<<ready>> \o more)
      /\ DOMAIN (<<ready>> \o more) = 1..(1 + Len(more))
      /\ \A i \in 1..1 : (<<ready>> \o more)[i] = <<ready>>[i]
      /\ \A i \in 1..(1 + Len(more)) : i > 1 =>
           i - 1 \in DOMAIN more /\ (<<ready>> \o more)[i] = more[i - 1]
  BY <1>2, Joined
<1>4. Greeting = <<ready>> \o more
  BY <1>1 DEF Greeting
<1>5. PICK greeting : greeting = <<ready>> \o more
  OBVIOUS
<1>6. /\ DOMAIN greeting = 1..(1 + Len(more)) /\ greeting[1] = ready
      /\ \A i \in DOMAIN greeting : \/ i = 1 /\ greeting[i] = ready
                                    \/ i = 2 /\ greeting[i] = told
  BY <1>2, <1>3, <1>5
<1>7. greeting # <<>>
  <2>1. 1 \in DOMAIN greeting
    BY <1>2, <1>6
  <2> QED BY <2>1, FewFrames
<1> QED
  BY <1>1, <1>3, <1>4, <1>5, <1>6, <1>7

LEMMA LoadHolds ==
  ASSUME EditorInv, Load
  PROVE  EditorInv'
<1>1. /\ link = "loading" /\ link' \in {"open", "connecting"}
      /\ Receive(ReadyFrame)
      /\ UNCHANGED <<disk, clock, model, host, landed, down>>
  BY DEF Load, serverVars, workVars, boundVars
<1>2. app.lifecycle # "closed" /\ app.model = None /\ down = <<>>
  BY <1>1 DEF EditorInv, Opens
<1>3. /\ FrameTyped(ReadyFrame) /\ ReadyFrame.kind = "ready"
      /\ Carries(ReadyFrame) /\ Carried(ReadyFrame) = model
  BY DEF FrameTyped, Carries, Carried, ReadyFrame, Snapshot
<1>4. PICK frame : frame = ReadyFrame
  OBVIOUS
<1>5. /\ app' = Transition(app, frame, origin)
      /\ Sequence(up') /\ \A i \in DOMAIN up' : Carried2(i)
  BY <1>1, <1>2, <1>4, Received DEF visualAppReducer
<1>6. Arrives(frame, app')
  BY <1>2, <1>3, <1>4, <1>5, Transited
<1>7. PICK s : /\ Succeeds(s)
               /\ app'.pending = s.pending /\ app'.undo = s.undo /\ app'.redo = s.redo
  BY <1>6 DEF Arrives
<1>8. /\ DOMAIN app' = DOMAIN initialVisualAppState /\ app'.model = model
      /\ app'.lifecycle # "closed"
  BY <1>3, <1>4, <1>6 DEF Arrives
<1>9. /\ Modelled(model, disk, clock) /\ clock \in Nat
      /\ InOrder(down, model, disk, clock)
      /\ Sequence(down) /\ \A i \in DOMAIN down : FrameTyped(down[i])
  BY DEF EditorInv, ModelsHold, Shapes, Clocked
<1>10. Precedes(Digests(model), Digests(model)) /\ model # None
  BY <1>9, SameReading, ModelDigests DEF Modelled
<1>11. Before(Digests(app'.model), down', model)
  BY <1>1, <1>2, <1>8, <1>10, FewFrames DEF Before
<1>12. \A reading : Before(reading, down, model) => Precedes(reading, Digests(app'.model))
  BY <1>8 DEF Before
<1>13. Opens'
  BY <1>1, <1>8, <1>10 DEF Opens
<1> QED
  BY <1>1, <1>5, <1>7, <1>8, <1>9, <1>11, <1>12, <1>13, BrowserMoves

LEMMA WireHolds ==
  ASSUME EditorInv, LoadFails \/ Connect \/ Drop \/ Retry \/ GiveUp
  PROVE  EditorInv'
<1>1. /\ Sequence(up) /\ Sequence(down) /\ \A i \in DOMAIN down : FrameTyped(down[i])
      /\ DOMAIN app = DOMAIN initialVisualAppState
      /\ app.model # None => Modelled(app.model, disk, clock)
      /\ InOrder(down, model, disk, clock)
      /\ Before(Digests(app.model), down, model)
  BY DEF EditorInv, Shapes, ModelsHold
<1>2. /\ Succeeds(app) /\ Succeeds(ConnectionLost(app)) /\ Succeeds(SessionClosed(app))
      /\ \A next : Succeeds(next) =>
           Succeeds(visualAppReducer(app, next)) /\ next.model = app.model
           /\ visualAppReducer(app, next).model = app.model
  <2>1. \A next : Succeeds(next) =>
           Succeeds(visualAppReducer(app, next)) /\ next.model = app.model
    BY Reduced DEF Succeeds
  <2> QED BY <2>1, StaysAlike, AlikeSucceeds DEF Succeeds
<1>3. Sequence(<<>>) /\ DOMAIN <<>> = {}
  BY FewFrames
<1>4. CASE LoadFails
  <2>1. /\ link = "loading" /\ link' = "waiting"
        /\ Render(visualAppReducer(app, ConnectionLost(app)), <<>>, origin)
        /\ UNCHANGED <<disk, clock, model, host, landed, down>>
    BY <1>4 DEF LoadFails, serverVars, workVars, boundVars, historyVars
  <2>2. app.lifecycle # "closed"
    BY <2>1 DEF EditorInv, Opens
  <2>3. Render(ConnectionLost(app), <<>>, origin)
    BY <2>1, <2>2 DEF visualAppReducer
  <2>4. /\ app' = ConnectionLost(app)
        /\ Sequence(up') /\ \A i \in DOMAIN up' : Carried2(i)
    BY <1>3, <2>3, Rendered
  <2>5. app'.lifecycle # "closed" /\ app'.model = app.model
        /\ DOMAIN app' = DOMAIN initialVisualAppState
    BY <1>1, <2>4, AppFields DEF ConnectionLost
  <2>6. Opens'
    BY <2>1, <2>5 DEF Opens
  <2> QED BY <1>1, <1>2, <2>1, <2>4, <2>5, <2>6, BrowserMoves
<1>5. CASE Connect
  <2>1. /\ link = "connecting" /\ link' = "open" /\ down' = Greeting
        /\ Render(app, <<>>, origin)
        /\ UNCHANGED <<disk, clock, model, host, landed>>
    BY <1>5 DEF Connect, Greeting, serverVars, workVars, boundVars, historyVars
  <2>2. /\ app' = app /\ Sequence(up') /\ \A i \in DOMAIN up' : Carried2(i)
    BY <1>3, <2>1, Rendered
  <2>3. /\ Sequence(down') /\ \A i \in DOMAIN down' : FrameTyped(down'[i])
        /\ InOrder(down', model, disk, clock)
        /\ \A reading : Before(reading, down, model) => Before(reading, down', model)
    BY <2>1, Greeted, Rewired
  <2>4. app.lifecycle # "closed"
    BY <2>1 DEF EditorInv, Opens
  <2>5. down' # <<>> /\ down'[1].kind = "ready"
    BY <2>1, Greeted DEF ReadyFrame
  <2>6. Opens'
    BY <2>1, <2>2, <2>4, <2>5 DEF Opens
  <2> QED BY <1>1, <1>2, <2>1, <2>2, <2>3, <2>6, BrowserMoves
<1>6. CASE Drop
  <2>1. /\ link \in {"connecting", "open"} /\ link' = "waiting" /\ down' = <<>>
        /\ \E reached \in 0..Len(up) : up' = SubSeq(up, 1, reached)
        /\ app' = visualAppReducer(app, ConnectionLost(app))
        /\ UNCHANGED <<disk, clock, model, host, landed>>
    BY <1>6 DEF Drop, serverVars, workVars, boundVars, historyVars
  <2>2. /\ Sequence(down') /\ \A i \in DOMAIN down' : FrameTyped(down'[i])
        /\ InOrder(down', model, disk, clock)
        /\ \A reading : Before(reading, down, model) => Before(reading, down', model)
    BY <1>3, <2>1, Rewired
  <2>3. Sequence(up') /\ \A i \in DOMAIN up' : Carried2(i)
    <3>1. PICK old, reached : /\ old = up /\ reached \in 0..Len(up)
                              /\ up' = SubSeq(up, 1, reached)
      BY <2>1
    <3>2. /\ Sequence(SubSeq(old, 1, reached))
          /\ \A i \in DOMAIN SubSeq(old, 1, reached) :
               i \in DOMAIN old /\ SubSeq(old, 1, reached)[i] = old[i]
      BY <1>1, <3>1, Cut
    <3> QED BY <3>1, <3>2 DEF Carried2
  <2>4. app.lifecycle # "closed"
    BY <2>1 DEF EditorInv, Opens
  <2>5. app' = ConnectionLost(app)
    BY <2>1, <2>4 DEF visualAppReducer
  <2>6. app'.lifecycle # "closed" /\ app'.model = app.model
        /\ DOMAIN app' = DOMAIN initialVisualAppState
    BY <1>1, <2>5, AppFields DEF ConnectionLost
  <2>7. Opens'
    BY <2>1, <2>6 DEF Opens
  <2> QED BY <1>1, <1>2, <2>1, <2>2, <2>3, <2>5, <2>6, <2>7, BrowserMoves
<1>7. CASE Retry
  <2>1. /\ link = "waiting" /\ link' = "connecting"
        /\ UNCHANGED <<app, up, down, disk, clock, model, host, landed>>
    BY <1>7 DEF Retry, browserVars, serverVars, workVars, boundVars, historyVars
  <2>2. Opens'
    BY <2>1 DEF EditorInv, Opens
  <2>3. \A i \in DOMAIN up' : Carried2(i)
    BY <2>1 DEF Carried2
  <2> QED BY <1>1, <1>2, <2>1, <2>2, <2>3, BrowserMoves
<1>8. CASE GiveUp
  <2>1. /\ link' = "over" /\ app' = visualAppReducer(app, SessionClosed(app))
        /\ UNCHANGED <<up, down, disk, clock, model, host, landed>>
    BY <1>8 DEF GiveUp, serverVars, workVars, boundVars, historyVars
  <2>2. Opens'
    BY <2>1 DEF Opens
  <2>3. \A i \in DOMAIN up' : Carried2(i)
    BY <2>1 DEF Carried2
  <2>4. /\ DOMAIN app' = DOMAIN initialVisualAppState /\ app'.model = app.model
        /\ Succeeds(visualAppReducer(app, SessionClosed(app)))
    BY <1>2, <2>1 DEF Succeeds
  <2> QED BY <1>1, <1>2, <2>1, <2>2, <2>3, <2>4, BrowserMoves
<1> QED
  BY <1>4, <1>5, <1>6, <1>7, <1>8

-----------------------------------------------------------------------------
(***************************************************************************)
(* The specification.                                                      *)
(***************************************************************************)
LEMMA EditorStarts ==
  ASSUME Init
  PROVE  EditorInv
<1>1. /\ app = initialVisualAppState /\ up = <<>> /\ down = <<>> /\ link = "loading"
      /\ clock = 0 /\ landed = {}
      /\ disk = [p \in Paths |-> IF p \in Documents THEN 0
                                 ELSE IF p = Initial THEN Stored(Content(FirstTitle, <<>>), 0)
                                 ELSE None]
      /\ model = Compiled(disk, views)
  BY DEF Init
<1>2. /\ app.pending = EmptyChangeset /\ app.undo = <<>> /\ app.redo = <<>>
      /\ app.model = None /\ app.lifecycle # "closed"
      /\ DOMAIN app = DOMAIN initialVisualAppState
  BY <1>1 DEF initialVisualAppState
<1>3. Sequence(<<>>) /\ DOMAIN <<>> = {} /\ ToSet(<<>>) = {}
  BY FewFrames DEF ToSet
<1>4. Shapes
  BY <1>1, <1>2, <1>3 DEF Shapes
<1>5. Opens
  BY <1>1, <1>2 DEF Opens
<1>6. Clocked(disk, clock)
  <2>1. \A p \in Paths : Revision(disk, p) \in {0, None}
    BY <1>1 DEF Revision, Stored
  <2>2. Standing(disk) \in [Paths -> (0..0) \cup {None}]
    BY <2>1 DEF Standing
  <2>3. Precedes(Standing(disk), Standing(disk))
    BY <2>2 DEF Precedes
  <2>4. DOMAIN disk = Paths /\ \A d \in Documents : disk[d] \in Nat
    BY <1>1 DEF Paths
  <2> QED BY <1>1, <2>2, <2>3, <2>4 DEF Clocked, Past
<1>7. Modelled(model, disk, clock)
  BY <1>1, <1>6, Latest
<1>8. \A p \in Paths : Digests(app.model)[p] = None
  BY <1>2 DEF Digests, DigestIn
<1>9. ModelsHold
  BY <1>1, <1>2, <1>3, <1>7, <1>8 DEF ModelsHold, InOrder, Before, Precedes
<1>10. TrayHolds
  <2>1. Changesets = {EmptyChangeset}
    BY <1>2, <1>3 DEF Changesets
  <2>2. clock \in Nat
    BY <1>1
  <2> QED BY <2>1, <2>2, EmptyHolds DEF TrayHolds
<1>11. CommitsHold
  BY <1>1, <1>3 DEF CommitsHold
<1>12. RowsLandOnWhatWasShown
  <2>1. PinsVouchForTheirRows
    BY <1>10 DEF TrayHolds, Held, Sound, PinsVouchForTheirRows
  <2> QED BY <1>1, <2>1 DEF RowsLandOnWhatWasShown
<1> QED
  BY <1>4, <1>5, <1>6, <1>9, <1>10, <1>11, <1>12 DEF EditorInv

LEMMA EditorSteps ==
  ASSUME EditorInv, [Next]_vars
  PROVE  EditorInv'
<1>1. CASE Next
  BY <1>1, TrayHeld, OtherGesturesHold, LoadHolds, DeliverHolds, WireHolds, QuietAnswers,
     CompilesHold, LandingHolds, SavesHold, OtherTabsHold, FreezesHold, AgentHolds DEF Next
<1>2. CASE UNCHANGED vars
  <2>1. UNCHANGED <<app, link, host, up, down, disk, clock, model, landed>>
    BY <1>2 DEF vars, browserVars, wireVars, serverVars, workVars, boundVars, historyVars
  <2>2. Onward(disk, clock, disk', clock')
    BY <2>1, Standstill DEF EditorInv
  <2>3. host = "socket" => \A l \in landed' : Telling(l.row) => l.over = l.row.seen.shown
    BY <2>1 DEF EditorInv, RowsLandOnWhatWasShown, Telling
  <2> QED BY <2>1, <2>2, <2>3, NothingMore, FewFrames, HostMoves
<1> QED
  BY <1>1, <1>2

(***************************************************************************)
(* A batch that lands through the session server replaces, at every path   *)
(* it names, the content that was on the reviewer's screen when the row    *)
(* was written, unless the file was new then or was changed behind the     *)
(* server's back; and every changeset in the tray vouches for its rows:    *)
(* for any number of gestures, other writers and lost connections, and     *)
(* however often a row is undone, redone or carried over a reconnect       *)
(* (restage and the preconditions of session-server.ts).                   *)
(***************************************************************************)
THEOREM RowsLandAsShown == Spec => []RowsLandOnWhatWasShown
<1>1. Init => EditorInv
  BY EditorStarts
<1>2. EditorInv /\ [Next]_vars => EditorInv'
  BY EditorSteps
<1>3. EditorInv => RowsLandOnWhatWasShown
  BY DEF EditorInv
<1> QED
  BY <1>1, <1>2, <1>3, PTL DEF Spec

-----------------------------------------------------------------------------
(***************************************************************************)
(* What the controls wait for.  Three of them are dead while something is  *)
(* to come: the composer for the answer to a turn, the chooser for a       *)
(* question the host has put, the tray for the verdict on a commit.  Each  *)
(* matter is accounted for: what the browser waits for, or will when a     *)
(* snapshot on its way arrives, is still the host's to do, or an input of  *)
(* this connection's on its way will have the host do it, or a frame       *)
(* behind that snapshot settles it.  What a refusal took away unheard is   *)
(* not waited for.  Of commits and verdicts there is one on its way at     *)
(* most, so no verdict is taken for another's.                             *)
(***************************************************************************)
Uttered == {"chat.message", "choice.selected", "question.delegate"}

\* What a dead control may wait for: the answer to a turn, the question that
\* was put, the verdict on a commit.
Matters == {"turn", "question", "commit"}

\* An input of this connection's that will have the host settle the matter.
Presses(matter, input) ==
  /\ input.epoch = epoch
  /\ \/ matter = "turn" /\ input.type \in Uttered
     \/ /\ matter = "question"
        /\ \/ input.type \in {"chat.message", "question.delegate", "session.end"}
           \/ input.type = "choice.selected" /\ input.choice = question
     \/ matter = "commit" /\ input.type = "changeset.commit"

\* A frame that will have the browser settle it.
Settles(matter, frame) ==
  \/ /\ matter = "turn"
     /\ \/ frame.kind \in {"ready", "response"}
        \/ frame.kind = "rejected" /\ frame.refused \in Uttered
  \/ /\ matter = "question"
     /\ \/ frame.kind = "ready"
        \/ frame.kind = "response" /\ frame.type = "choice.present"
        \/ frame.kind = "rejected" /\ frame.refused \in Uttered \cup {"session.end"}
  \/ /\ matter = "commit"
     /\ \/ frame.kind = "apply-result"
        \/ frame.kind = "rejected" /\ frame.refused = "changeset.commit"

\* The browser waits, or will when a frame on its way has arrived.
Waits(matter) ==
  \/ matter = "turn" /\ app.awaitingAgent /\ matter \notin unheard
  \/ matter = "question" /\ app.choices # question /\ matter \notin unheard
  \/ matter = "commit" /\ app.committing /\ \A left \in sent : left.open /\ left.epoch = epoch

Asking(frame) == frame.kind = "response" /\ frame.type = "choice.present"

WillWait(matter, frame) ==
  \/ matter = "turn" /\ frame.kind = "ready" /\ frame.snapshot.agentTurnOpen
  \/ /\ matter = "question"
     /\ \/ frame.kind = "ready" /\ frame.snapshot.choices # question
        \/ Asking(frame) /\ frame.choice # question

\* The host has it still to do: nothing of its own accord will come.
Unmet(matter) ==
  \/ matter = "turn" /\ turn = 0
  \/ matter = "question" /\ question # None
  \/ matter = "commit"

Accounted(matter, i) ==
  \/ \E k \in DOMAIN up : Presses(matter, up[k])
  \/ \E j \in DOMAIN down : i < j /\ Settles(matter, down[j])

Account(matter) ==
  link = "open" /\ Unmet(matter) =>
    /\ Waits(matter) => Accounted(matter, 0)
    /\ \A i \in DOMAIN down : WillWait(matter, down[i]) => Accounted(matter, i)

\* At most one commit is on its way there or back, and the tray knows it.
Committed(input) == input.type = "changeset.commit"
Judges(frame) ==
  \/ frame.kind = "apply-result"
  \/ frame.kind = "rejected" /\ frame.refused = "changeset.commit"

OneCommit ==
  /\ app.committing => sent # {}
  /\ \A i, j \in DOMAIN up : Committed(up[i]) /\ Committed(up[j]) => i = j
  /\ \A i, j \in DOMAIN down : Judges(down[i]) /\ Judges(down[j]) => i = j
  /\ \A i \in DOMAIN up, j \in DOMAIN down : ~(Committed(up[i]) /\ Judges(down[j]))
  /\ \A i \in DOMAIN up : Committed(up[i]) => app.committing
  /\ \A j \in DOMAIN down : Judges(down[j]) => app.committing

SentThen ==
  /\ epoch \in Nat
  /\ \A left \in sent :
       /\ left.epoch \in 0..epoch
       /\ left.open /\ left.epoch = epoch => link \in {"open", "over"}

\* Turns are counted, and the end of a session closes its questions.
TalkHolds == turn \in Nat /\ (choicesClosed => question = None)

AccountsInv ==
  OneCommit /\ SentThen /\ TalkHolds /\ \A matter \in Matters : Account(matter)

\* The inputs of a gesture join those on their way, and a query perhaps.
Grown(inputs) ==
  /\ Sequence(up')
  /\ \A i \in DOMAIN up : i \in DOMAIN up' /\ up'[i] = up[i]
  /\ \A i \in DOMAIN up' :
       \/ i \in DOMAIN up
       \/ up'[i].type = "filter.query"
       \/ i - Len(up) \in DOMAIN inputs /\ up'[i] = inputs[i - Len(up)]
  /\ link' = "open" => \A k \in DOMAIN inputs :
       Len(up) + k \in DOMAIN up' /\ up'[Len(up) + k] = inputs[k]

\* t is s and then r.
Extends(t, s, r) ==
  /\ Sequence(t) /\ Len(s) \in Nat /\ Len(r) \in Nat
  /\ DOMAIN s = 1..Len(s) /\ DOMAIN r = 1..Len(r) /\ DOMAIN t = 1..(Len(s) + Len(r))
  /\ \A i \in DOMAIN s : i \in DOMAIN t /\ t[i] = s[i]
  /\ \A i \in DOMAIN r : Len(s) + i \in DOMAIN t /\ t[Len(s) + i] = r[i]
  /\ \A i \in DOMAIN t : \/ i \in DOMAIN s
                         \/ i > Len(s) /\ i - Len(s) \in DOMAIN r /\ t[i] = r[i - Len(s)]

\* Two sequences, one after the other.
LEMMA Extended ==
  ASSUME NEW s, Sequence(s), NEW r, Sequence(r)
  PROVE  Extends(s \o r, s, r)
<1> DEFINE t == s \o r
<1>1. /\ Sequence(t) /\ DOMAIN t = 1..(Len(s) + Len(r))
      /\ \A i \in 1..Len(s) : t[i] = s[i]
      /\ \A i \in 1..(Len(s) + Len(r)) : i > Len(s) =>
           i - Len(s) \in DOMAIN r /\ t[i] = r[i - Len(s)]
  BY Joined
<1>2. Len(s) \in Nat /\ DOMAIN s = 1..Len(s) /\ Len(r) \in Nat /\ DOMAIN r = 1..Len(r)
  BY SequenceShape
<1> HIDE DEF t
<1>3. ASSUME NEW i \in DOMAIN r
      PROVE  Len(s) + i \in DOMAIN t /\ t[Len(s) + i] = r[i]
  <2>1. Len(s) + i \in 1..(Len(s) + Len(r)) /\ Len(s) + i > Len(s) /\ (Len(s) + i) - Len(s) = i
    BY <1>2
  <2> QED BY <2>1, <1>1
<1>4. Extends(t, s, r)
  BY <1>1, <1>2, <1>3 DEF Extends
<1> QED
  BY <1>4 DEF t

\* What a render sends: the inputs it was given, and the view's query perhaps.
LEMMA Posted ==
  ASSUME EditorInv, NEW next, NEW inputs, NEW asker, Render(next, inputs, asker),
         Sequence(inputs)
  PROVE  app' = next /\ Grown(inputs)
<1>1. app' = next
  BY DEF Render
<1>2. Sequence(up)
  BY DEF EditorInv, Shapes
<1>3. \E query : Sent(inputs, link' = "open") \/ Sent(Append(inputs, Asked(query)), link' = "open")
  <2> DEFINE view == ViewNeedingApplication(next, applied, link' = "open")
  <2>1. \/ Sent(inputs, link' = "open")
        \/ Sent(Append(inputs, Asked(next.views[view].query)), link' = "open")
    BY DEF Render
  <2> HIDE DEF view
  <2> QED BY <2>1
<1>4. PICK query : \/ Sent(inputs, link' = "open")
                   \/ Sent(Append(inputs, Asked(query)), link' = "open")
  BY <1>3
<1>5. PICK asked : asked = Asked(query)
  OBVIOUS
<1>6. asked.type = "filter.query"
  BY <1>5 DEF Asked
<1>7. PICK more : /\ more = inputs \/ more = Append(inputs, asked)
                  /\ up' = IF link' = "open" THEN up \o more ELSE up
  BY <1>4, <1>5 DEF Sent
<1>8. /\ Sequence(more)
      /\ \A k \in DOMAIN inputs : k \in DOMAIN more /\ more[k] = inputs[k]
      /\ \A k \in DOMAIN more : more[k].type = "filter.query" \/ k \in DOMAIN inputs
  <2>1. CASE more = inputs
    BY <2>1
  <2>2. CASE more = Append(inputs, asked)
    <3>1. /\ Sequence(Append(inputs, asked))
          /\ DOMAIN Append(inputs, asked) = 1..(Len(inputs) + 1)
          /\ \A i \in 1..Len(inputs) : Append(inputs, asked)[i] = inputs[i]
          /\ Append(inputs, asked)[Len(inputs) + 1] = asked
          /\ Len(inputs) \in Nat /\ DOMAIN inputs = 1..Len(inputs)
      BY Appended, SequenceShape
    <3>2. /\ Sequence(more)
          /\ DOMAIN more = 1..(Len(inputs) + 1)
          /\ \A i \in 1..Len(inputs) : more[i] = inputs[i]
          /\ more[Len(inputs) + 1] = asked
          /\ Len(inputs) \in Nat /\ DOMAIN inputs = 1..Len(inputs)
      BY <2>2, <3>1
    <3> QED BY <3>2, <1>6
  <2> QED BY <1>7, <2>1, <2>2
<1>9. CASE link' # "open"
  <2>1. up' = up
    BY <1>7, <1>9
  <2> QED BY <1>1, <1>2, <1>9, <2>1 DEF Grown
<1>10. CASE link' = "open"
  <2>1. PICK old, new : old = up /\ new = up' /\ new = old \o more
    BY <1>7, <1>10
  <2>2. /\ Sequence(new)
        /\ \A i \in DOMAIN old : i \in DOMAIN new /\ new[i] = old[i]
        /\ \A i \in DOMAIN more : Len(old) + i \in DOMAIN new /\ new[Len(old) + i] = more[i]
        /\ \A i \in DOMAIN new : \/ i \in DOMAIN old
                                 \/ i - Len(old) \in DOMAIN more /\ new[i] = more[i - Len(old)]
    <3>1. Sequence(old)
      BY <1>2, <2>1
    <3>2. Extends(new, old, more)
      BY <1>8, <2>1, <3>1, Extended
    <3> QED BY <3>2 DEF Extends
  <2> QED BY <1>1, <1>8, <2>1, <2>2 DEF Grown
<1> QED
  BY <1>9, <1>10

\* A gesture: the browser waits for nothing that it did not ask for.
LEMMA GestureAccounts ==
  ASSUME Sequence(up), NEW matter \in Matters, Account(matter), NEW inputs, Grown(inputs),
         UNCHANGED <<link, epoch, down, turn, question, unheard>>,
         Unmet(matter) /\ Waits(matter)' =>
           Waits(matter) \/ \E k \in DOMAIN inputs : Presses(matter, inputs[k])
  PROVE  Account(matter)'
<1> SUFFICES ASSUME link = "open", Unmet(matter)
             PROVE  /\ Waits(matter)' => Accounted(matter, 0)'
                    /\ \A i \in DOMAIN down : WillWait(matter, down[i]) => Accounted(matter, i)'
  BY DEF Account, Unmet, WillWait
<1>1. \A i : Accounted(matter, i) => Accounted(matter, i)'
  BY DEF Accounted, Presses, Settles, Grown
<1>2. \A k \in DOMAIN inputs : Presses(matter, inputs[k]) => \A i : Accounted(matter, i)'
  BY DEF Accounted, Presses, Grown
<1> QED
  BY <1>1, <1>2 DEF Account

\* The host: what it leaves undone it was not asked, what it does it tells.
LEMMA HostAccounts ==
  ASSUME Sequence(down), NEW matter \in Matters, Account(matter),
         UNCHANGED <<app, sent, link, epoch, unheard>>,
         NEW more, Sequence(more), down' = down \o more,
         \A i \in DOMAIN more : ~WillWait(matter, more[i])',
         \/ link # "open"
         \/ \E i \in DOMAIN more : Settles(matter, more[i])
         \/ ~Unmet(matter)'
         \/ /\ Unmet(matter) /\ (matter = "question" => question' = question)
            /\ \A k \in DOMAIN up : Presses(matter, up[k]) => \E n \in DOMAIN up' : up'[n] = up[k]
  PROVE  Account(matter)'
<1>1. PICK old, new : old = down /\ new = down' /\ new = old \o more
  OBVIOUS
<1>2. /\ Len(old) \in Nat /\ DOMAIN old = 1..Len(old)
      /\ DOMAIN more = 1..Len(more) /\ Len(more) \in Nat
      /\ \A i \in DOMAIN old : i \in DOMAIN new /\ new[i] = old[i]
      /\ \A i \in DOMAIN more : Len(old) + i \in DOMAIN new /\ new[Len(old) + i] = more[i]
      /\ \A i \in DOMAIN new : \/ i \in DOMAIN old
                               \/ i - Len(old) \in DOMAIN more /\ new[i] = more[i - Len(old)]
  <2>1. Sequence(old)
    BY <1>1
  <2>2. Extends(new, old, more)
    BY <1>1, <2>1, Extended
  <2> QED BY <2>2 DEF Extends
<1>3. \A i \in DOMAIN new : WillWait(matter, new[i])' => i \in DOMAIN old
  BY <1>2
<1>5. CASE link # "open" \/ ~Unmet(matter)'
  BY <1>5 DEF Account
<1>6. CASE \E i \in DOMAIN more : Settles(matter, more[i])
  <2>1. PICK n \in DOMAIN more : Settles(matter, more[n])
    BY <1>6
  <2>2. ASSUME NEW i \in {0} \cup DOMAIN old
        PROVE  Accounted(matter, i)'
    <3>1. /\ Len(old) + n \in DOMAIN down' /\ down'[Len(old) + n] = more[n]
          /\ i < Len(old) + n
      BY <1>1, <1>2
    <3>2. Settles(matter, down'[Len(old) + n])
      BY <2>1, <3>1
    <3> QED BY <3>1, <3>2 DEF Accounted
  <2> QED BY <1>1, <1>3, <2>2 DEF Account
<1>7. CASE /\ Unmet(matter) /\ (matter = "question" => question' = question)
           /\ \A k \in DOMAIN up : Presses(matter, up[k]) => \E n \in DOMAIN up' : up'[n] = up[k]
  <2>1. \A input : Presses(matter, input)' <=> Presses(matter, input)
    BY <1>7 DEF Presses
  <2>2. \A i : Accounted(matter, i) => Accounted(matter, i)'
    BY <1>1, <1>2, <1>7, <2>1 DEF Accounted
  <2>3. (Waits(matter)' <=> Waits(matter))
        /\ \A frame : WillWait(matter, frame)' <=> WillWait(matter, frame)
    BY <1>7 DEF Waits, WillWait
  <2>4. link' = "open" => /\ Waits(matter)' => Accounted(matter, 0)'
                          /\ \A i \in DOMAIN new :
                               WillWait(matter, new[i])' => Accounted(matter, i)'
    BY <1>1, <1>2, <1>3, <1>7, <2>2, <2>3 DEF Account
  <2> QED BY <1>1, <2>4 DEF Account
<1> QED
  BY <1>5, <1>6, <1>7

\* The controls as a frame leaves them.
Controlled(next, frame) ==
  /\ next.awaitingAgent =>
       IF frame.kind = "ready" THEN frame.snapshot.agentTurnOpen
       ELSE app.awaitingAgent /\ (Settles("turn", frame) => frame.kind = "rejected"
                                                            /\ frame.refused = "question.delegate")
  /\ next.choices = IF frame.kind = "ready" THEN frame.snapshot.choices
                    ELSE IF Asking(frame) THEN frame.choice ELSE app.choices
  /\ next.committing <=> app.committing /\ ~Settles("commit", frame)

\* A frame leaves the controls as Controlled says.
LEMMA Controls ==
  ASSUME EditorInv, NEW frame, FrameTyped(frame), NEW asker
  PROVE  Controlled(Transition(app, frame, asker), frame)
<1>1. DOMAIN app = DOMAIN initialVisualAppState
  BY DEF EditorInv, Shapes
<1> DEFINE next == Transition(app, frame, asker)
<1> SUFFICES Controlled(next, frame)
  OBVIOUS
<1> USE DEF Settles, Controlled, Asking
<1>2. CASE frame.kind = "ready"
  <2>1. next = SessionLoaded(app, frame.snapshot)
    BY <1>2 DEF Transition
  <2>2. /\ next.awaitingAgent = frame.snapshot.agentTurnOpen
        /\ next.choices = frame.snapshot.choices
        /\ next.committing = app.committing
    BY <1>1, <2>1, AppFields DEF SessionLoaded
  <2> HIDE DEF next
  <2> QED BY <1>2, <2>2
<1>3. CASE frame.kind = "rejected"
  <2>1. next = InputRefused(app, frame.refused, frame.frozen)
    BY <1>3 DEF Transition
  <2>2. /\ next.choices = app.choices
        /\ next.committing = (app.committing /\ frame.refused # "changeset.commit")
        /\ next.awaitingAgent =
             (app.awaitingAgent /\ frame.refused \notin {"chat.message", "choice.selected"})
    BY <1>1, <2>1, AppFields DEF InputRefused
  <2> HIDE DEF next
  <2> QED BY <1>3, <2>2 DEF Uttered
<1>4. CASE frame.kind = "apply-result"
  <2>1. next = ChangesetCommitted(app) \/ next = ApplyFailed(app)
    BY <1>4 DEF Transition
  <2>2. /\ next.choices = app.choices
        /\ next.awaitingAgent = app.awaitingAgent
        /\ next.committing = FALSE
    BY <1>1, <2>1, AppFields DEF ChangesetCommitted, ApplyFailed
  <2> HIDE DEF next
  <2> QED BY <1>4, <2>2
<1>5. CASE frame.kind \in {"model", "closing", "filter-result"}
  <2>1. \/ next = ModelReceived(app, frame.model, frame.views)
        \/ next = SessionClosed(app)
        \/ next = FilterApplied(app, frame.query, frame.matched, asker)
    BY <1>5 DEF Transition
  <2>2. /\ next.choices = app.choices
        /\ next.awaitingAgent = app.awaitingAgent
        /\ next.committing = app.committing
    BY <1>1, <2>1, AppFields DEF ModelReceived, SessionClosed, FilterApplied
  <2> HIDE DEF next
  <2> QED BY <1>5, <2>2
<1>6. CASE frame.kind = "response"
  <2> DEFINE s == TurnAnswered(app)
  <2>1. /\ DOMAIN s = DOMAIN initialVisualAppState
        /\ s.awaitingAgent = FALSE /\ s.choices = app.choices
        /\ s.committing = app.committing
    BY <1>1, AppFields DEF TurnAnswered
  <2>2. frame.type \in {"chat.response", "choice.present", "diagnostic", "operations.propose"}
    BY <1>6 DEF FrameTyped
  <2>3. next = Responded(app, frame)
    BY <1>6 DEF Transition
  <2> HIDE DEF s
  <2>4. CASE frame.type = "choice.present"
    <3>1. next = ChoicePresented(app, frame.choice)
      BY <2>3, <2>4 DEF Responded
    <3>2. /\ next.awaitingAgent = FALSE /\ next.choices = frame.choice
          /\ next.committing = app.committing
      BY <1>1, <3>1, AppFields DEF ChoicePresented, TurnAnswered
    <3> HIDE DEF next
    <3> QED BY <1>6, <2>4, <3>2
  <2>5. CASE frame.type # "choice.present"
    <3>1. \/ next = s
          \/ next = FilterApplied(s, frame.query, frame.matched, "chat")
          \/ next = ChangesetStaged(s, frame.path, frame.field)
      BY <2>2, <2>3, <2>5 DEF Responded, s
    <3>2. /\ next.awaitingAgent = FALSE /\ next.choices = app.choices
          /\ next.committing = app.committing
      BY <2>1, <3>1, AppFields DEF FilterApplied, ChangesetStaged, Staged
    <3> HIDE DEF next
    <3> QED BY <1>6, <2>5, <3>2
  <2> QED BY <2>4, <2>5
<1> QED
  BY <1>2, <1>3, <1>4, <1>5, <1>6 DEF FrameTyped

\* What a refusal takes away unheard, and what makes up for it.
LEMMA Heard ==
  ASSUME NEW frame, NEW next, Controlled(next, frame), FrameTyped(frame),
         unheard' = Forgone(frame) \ MadeUpFor(frame, next)
  PROVE  /\ next.awaitingAgent /\ "turn" \notin unheard' =>
              \/ WillWait("turn", frame)
              \/ Waits("turn") /\ ~Settles("turn", frame)
         /\ next.choices # question /\ "question" \notin unheard' =>
              \/ WillWait("question", frame)
              \/ Waits("question") /\ ~Settles("question", frame)
<1>1. /\ \A refused : refused = "question.delegate" => "turn" \in Lost(refused)
      /\ \A refused : refused \in Uttered \cup {"session.end"} => "question" \in Lost(refused)
  BY DEF Lost, Uttered
<1>2. ASSUME next.awaitingAgent, "turn" \notin unheard'
      PROVE  \/ WillWait("turn", frame)
             \/ Waits("turn") /\ ~Settles("turn", frame)
  <2>1. CASE frame.kind = "ready"
    BY <1>2, <2>1 DEF Controlled, WillWait
  <2>2. CASE frame.kind # "ready"
    <3>1. "turn" \notin Forgone(frame)
      BY <1>2 DEF MadeUpFor
    <3>2. /\ "turn" \notin unheard
          /\ frame.kind = "rejected" => frame.refused # "question.delegate"
      BY <1>1, <2>2, <3>1 DEF Forgone
    <3> QED BY <1>2, <2>2, <3>2 DEF Controlled, Waits
  <2> QED BY <2>1, <2>2
<1>3. ASSUME next.choices # question, "question" \notin unheard'
      PROVE  \/ WillWait("question", frame)
             \/ Waits("question") /\ ~Settles("question", frame)
  <2>1. CASE frame.kind = "ready" \/ Asking(frame)
    BY <1>3, <2>1 DEF Controlled, WillWait, Asking
  <2>2. CASE ~(frame.kind = "ready" \/ Asking(frame))
    <3>1. "question" \notin Forgone(frame)
      BY <1>3, <2>2 DEF MadeUpFor, Asking
    <3>2. /\ "question" \notin unheard
          /\ frame.kind = "rejected" => frame.refused \notin Uttered \cup {"session.end"}
      BY <1>1, <2>2, <3>1 DEF Forgone
    <3>3. next.choices = app.choices
      BY <2>2 DEF Controlled
    <3> QED BY <1>3, <2>2, <3>2, <3>3 DEF Waits, Settles, Asking
  <2> QED BY <2>1, <2>2
<1> QED
  BY <1>2, <1>3

\* A frame received: the reducer's transition, and a query or two asked.
LEMMA ReceivedAccounts ==
  ASSUME EditorInv, NEW frame, Receive(frame)
  PROVE  /\ app' = visualAppReducer(app, Transition(app, frame, origin))
         /\ unheard' = Forgone(frame) \ MadeUpFor(frame, app')
         /\ \E inputs : /\ Grown(inputs)
                        /\ \A k \in DOMAIN inputs : inputs[k].type = "filter.query"
<1> DEFINE next == visualAppReducer(app, Transition(app, frame, origin))
<1>0. unheard' = Forgone(frame) \ MadeUpFor(frame, next)
  BY Zenon DEF Receive
<1>1. \E query, asker : Render(next, <<>>, asker) \/ Render(next, <<Asked(query)>>, asker)
  BY Zenon DEF Receive
<1>2. PICK query, asker : Render(next, <<>>, asker) \/ Render(next, <<Asked(query)>>, asker)
  BY <1>1
<1> HIDE DEF next
<1>3. CASE Render(next, <<>>, asker)
  <2>1. app' = next /\ Grown(<<>>)
    BY <1>3, FewFrames, Posted
  <2> QED BY <1>0, <2>1, FewFrames DEF next
<1>4. CASE Render(next, <<Asked(query)>>, asker)
  <2>1. PICK asked : asked = Asked(query)
    OBVIOUS
  <2>2. asked.type = "filter.query"
    BY <2>1 DEF Asked
  <2>3. PICK inputs : inputs = <<asked>>
    OBVIOUS
  <2>4. Sequence(inputs) /\ \A i \in DOMAIN inputs : inputs[i] = asked
    BY <2>3, FewFrames
  <2>5. app' = next /\ Grown(inputs)
    BY <1>4, <2>1, <2>3, <2>4, Posted
  <2> QED BY <1>0, <2>2, <2>4, <2>5 DEF next
<1> QED
  BY <1>2, <1>3, <1>4

\* The first frame on its way arrives.
LEMMA DeliverAccounts ==
  ASSUME EditorInv, AccountsInv, Deliver
  PROVE  AccountsInv'
<1>1. PICK frame : frame = down[1]
  OBVIOUS
<1>2. /\ link = "open" /\ down # <<>> /\ down' = Tail(down)
      /\ link' \in {"over", "open"}
      /\ Receive(frame)
      /\ sent' = IF frame.kind = "apply-result" THEN {} ELSE sent
      /\ UNCHANGED <<epoch, turn, question, choicesClosed>>
  BY <1>1 DEF Deliver, serverVars, talkVars, boundVars
<1>3. app.lifecycle # "closed"
  BY <1>2 DEF EditorInv, Opens
<1>4. Sequence(down) /\ \A i \in DOMAIN down : FrameTyped(down[i])
  BY DEF EditorInv, Shapes
<1>5. /\ 1 \in DOMAIN down /\ DOMAIN down \subseteq Int
      /\ \A i \in DOMAIN down' :
           i \in Nat /\ i >= 1 /\ i + 1 \in DOMAIN down /\ down'[i] = down[i + 1]
      /\ \A i \in DOMAIN down : i # 1 => /\ i - 1 \in DOMAIN down'
                                         /\ down'[i - 1] = down[i]
  <2>1. /\ 1 \in DOMAIN down /\ Sequence(down') /\ Len(down') = Len(down) - 1
        /\ \A i \in DOMAIN down' : i + 1 \in DOMAIN down /\ down'[i] = down[i + 1]
    BY <1>2, <1>4, Tailed
  <2>2. DOMAIN down = 1..Len(down) /\ Len(down) \in Nat
    BY <1>4, SequenceShape
  <2>3. DOMAIN down' = 1..Len(down') /\ Len(down') \in Nat
    BY <2>1, SequenceShape
  <2>4. ASSUME NEW i \in DOMAIN down, i # 1
        PROVE  i - 1 \in DOMAIN down' /\ down'[i - 1] = down[i]
    <3>1. i - 1 \in 1..Len(down') /\ (i - 1) + 1 = i
      BY <2>1, <2>2, <2>4
    <3> QED BY <2>1, <2>3, <3>1
  <2> QED BY <2>1, <2>2, <2>3, <2>4
<1>6. FrameTyped(frame)
  BY <1>1, <1>4, <1>5
<1>7. /\ app' = Transition(app, frame, origin)
      /\ unheard' = Forgone(frame) \ MadeUpFor(frame, app')
      /\ \E inputs : /\ Grown(inputs)
                     /\ \A k \in DOMAIN inputs : inputs[k].type = "filter.query"
  BY <1>2, <1>3, ReceivedAccounts DEF visualAppReducer
<1>8. /\ Waits("turn")' => WillWait("turn", frame)
                           \/ (Waits("turn") /\ ~Settles("turn", frame))
      /\ Waits("question")' => WillWait("question", frame)
                               \/ (Waits("question") /\ ~Settles("question", frame))
      /\ app'.committing <=> app.committing /\ ~Settles("commit", frame)
  <2>1. Controlled(app', frame)
    BY <1>6, <1>7, Controls
  <2>2. PICK next : next = app'
    OBVIOUS
  <2>3. /\ app'.awaitingAgent /\ "turn" \notin unheard' =>
             \/ WillWait("turn", frame)
             \/ Waits("turn") /\ ~Settles("turn", frame)
        /\ app'.choices # question /\ "question" \notin unheard' =>
             \/ WillWait("question", frame)
             \/ Waits("question") /\ ~Settles("question", frame)
    BY <1>6, <1>7, <2>1, <2>2, Heard
  <2>4. Waits("turn")' => app'.awaitingAgent /\ "turn" \notin unheard'
    BY DEF Waits
  <2>5. Waits("question")' => app'.choices # question /\ "question" \notin unheard'
    BY <1>2 DEF Waits
  <2>6. app'.committing <=> app.committing /\ ~Settles("commit", frame)
    BY <2>1 DEF Controlled
  <2> QED BY <2>3, <2>4, <2>5, <2>6
<1>9. /\ \A i \in DOMAIN up : i \in DOMAIN up' /\ up'[i] = up[i]
      /\ \A i \in DOMAIN up' : i \in DOMAIN up \/ up'[i].type = "filter.query"
  BY <1>7 DEF Grown
<1>10. OneCommit'
  <2>1. OneCommit
    BY DEF AccountsInv
  <2>2. \A i \in DOMAIN up' : Committed(up'[i]) => i \in DOMAIN up /\ Committed(up[i])
    BY <1>9 DEF Committed
  <2>3. \A i \in DOMAIN down' : Judges(down'[i]) =>
          i + 1 \in DOMAIN down /\ Judges(down[i + 1]) /\ i + 1 # 1 /\ i \in Nat
    BY <1>5
  <2>4. Judges(frame) <=> Settles("commit", frame)
    BY DEF Judges, Settles
  <2>5. Judges(frame) => /\ \A i \in DOMAIN up : ~Committed(up[i])
                         /\ \A i \in DOMAIN down : Judges(down[i]) => i = 1
    BY <1>1, <1>5, <2>1 DEF OneCommit
  <2>6. app'.committing => sent' # {}
    <3>1. frame.kind = "apply-result" => Judges(frame)
      BY DEF Judges
    <3> QED BY <1>2, <1>8, <2>1, <2>4, <3>1 DEF OneCommit
  <2>7. \A i, j \in DOMAIN down' : Judges(down'[i]) /\ Judges(down'[j]) => i = j
    <3> SUFFICES ASSUME NEW i \in DOMAIN down', NEW j \in DOMAIN down',
                        Judges(down'[i]), Judges(down'[j])
                 PROVE  i = j
      OBVIOUS
    <3>1. i + 1 = j + 1
      BY <2>1, <2>3 DEF OneCommit
    <3> QED BY <2>3, <3>1
  <2>8. \A i \in DOMAIN up' : Committed(up'[i]) => app'.committing
    BY <1>8, <2>1, <2>2, <2>4, <2>5 DEF OneCommit
  <2>9. \A j \in DOMAIN down' : Judges(down'[j]) => app'.committing
    BY <1>8, <2>1, <2>3, <2>4, <2>5 DEF OneCommit
  <2>10. \A i, j \in DOMAIN up' : Committed(up'[i]) /\ Committed(up'[j]) => i = j
    BY <2>1, <2>2 DEF OneCommit
  <2>11. \A i \in DOMAIN up', j \in DOMAIN down' : ~(Committed(up'[i]) /\ Judges(down'[j]))
    BY <2>1, <2>2, <2>3 DEF OneCommit
  <2> QED BY <2>6, <2>7, <2>8, <2>9, <2>10, <2>11 DEF OneCommit, Committed, Judges
<1>11. SentThen' /\ TalkHolds'
  BY <1>2 DEF AccountsInv, SentThen, TalkHolds
<1>12. ASSUME NEW matter \in Matters PROVE Account(matter)'
  <2> SUFFICES ASSUME link' = "open", Unmet(matter)
               PROVE  /\ Waits(matter)' => Accounted(matter, 0)'
                      /\ \A i \in DOMAIN down' :
                           WillWait(matter, down'[i]) => Accounted(matter, i)'
    BY <1>2 DEF Account, Unmet, WillWait
  <2>1. Account(matter)
    BY DEF AccountsInv
  <2>2. \A i \in Nat : Accounted(matter, i + 1) => Accounted(matter, i)'
    <3> SUFFICES ASSUME NEW i \in Nat, Accounted(matter, i + 1)
                 PROVE  Accounted(matter, i)'
      OBVIOUS
    <3>1. CASE \E k \in DOMAIN up : Presses(matter, up[k])
      BY <1>2, <1>9, <3>1 DEF Accounted, Presses
    <3>2. CASE \E j \in DOMAIN down : i + 1 < j /\ Settles(matter, down[j])
      <4>1. PICK j \in DOMAIN down : i + 1 < j /\ Settles(matter, down[j])
        BY <3>2
      <4>2. j - 1 \in DOMAIN down' /\ down'[j - 1] = down[j] /\ i < j - 1
        BY <1>5, <4>1
      <4>3. Settles(matter, down'[j - 1])
        BY <4>1, <4>2
      <4> QED BY <4>2, <4>3 DEF Accounted
    <3> QED BY <3>1, <3>2 DEF Accounted
  <2>3. \A i \in DOMAIN down' : WillWait(matter, down'[i]) => Accounted(matter, i)'
    BY <1>2, <1>5, <2>1, <2>2 DEF Account
  <2>4. ASSUME Waits(matter)' PROVE Accounted(matter, 0)'
    <3>1. \/ WillWait(matter, frame)
          \/ Waits(matter) /\ ~Settles(matter, frame)
      <4>1. CASE matter = "turn"
        BY <1>8, <2>4, <4>1
      <4>2. CASE matter = "question"
        BY <1>8, <2>4, <4>2
      <4>3. CASE matter = "commit"
        <5>1. app'.committing
          BY <2>4, <4>3 DEF Waits
        <5>2. frame.kind # "apply-result"
          BY <1>8, <5>1 DEF Settles
        <5> QED BY <1>2, <1>8, <2>4, <4>3, <5>1, <5>2 DEF Waits
      <4> QED BY <4>1, <4>2, <4>3 DEF Matters
    <3>2. CASE WillWait(matter, frame)
      <4>1. Accounted(matter, 1)
        BY <1>1, <1>2, <1>5, <2>1, <3>2 DEF Account
      <4>2. Accounted(matter, 0 + 1)
        BY <4>1
      <4> QED BY <2>2, <4>2
    <3>3. CASE Waits(matter) /\ ~Settles(matter, frame)
      <4>1. Accounted(matter, 0)
        BY <1>2, <2>1, <3>3 DEF Account
      <4>2. Accounted(matter, 0 + 1)
        BY <1>1, <1>5, <3>3, <4>1 DEF Accounted
      <4> QED BY <2>2, <4>2
    <3> QED BY <3>1, <3>2, <3>3
  <2> QED BY <2>3, <2>4
<1> QED
  BY <1>10, <1>11, <1>12 DEF AccountsInv

-----------------------------------------------------------------------------
\* A gesture that leaves the commit alone, and makes the browser wait for
\* nothing that its inputs do not ask for.
Patient(next, inputs) ==
  /\ next.committing = app.committing
  /\ next.awaitingAgent =>
       app.awaitingAgent \/ \E k \in DOMAIN inputs : Presses("turn", inputs[k])
  /\ next.choices # question /\ question # None =>
       app.choices # question \/ \E k \in DOMAIN inputs : Presses("question", inputs[k])

\* A gesture of a patient browser's, with the inputs it sends.
LEMMA PatientGesture ==
  ASSUME EditorInv, AccountsInv, NEW kinds, Gesture(kinds), UNCHANGED sent,
         NEW inputs, Sequence(inputs),
         \A k \in DOMAIN inputs : inputs[k].type # "changeset.commit",
         NEW next, Patient(next, inputs),
         NEW asker, Render(visualAppReducer(app, next), inputs, asker)
  PROVE  AccountsInv'
<1>1. /\ app.lifecycle # "closed"
      /\ UNCHANGED <<link, epoch, down, turn, question, choicesClosed, unheard>>
  BY DEF Gesture, serverVars, talkVars
<1>2. visualAppReducer(app, next) = next
  BY <1>1 DEF visualAppReducer
<1>3. app' = next /\ Grown(inputs)
  <2>1. Render(next, inputs, asker)
    BY <1>2
  <2> QED BY <2>1, Posted
<1>4. Sequence(up)
  BY DEF EditorInv, Shapes
<1>5. OneCommit'
  <2>1. OneCommit
    BY DEF AccountsInv
  <2>2. \A i \in DOMAIN up' : Committed(up'[i]) => i \in DOMAIN up /\ Committed(up[i])
    BY <1>3 DEF Grown, Committed
  <2>3. app'.committing = app.committing
    BY <1>3 DEF Patient
  <2> QED BY <1>1, <2>1, <2>2, <2>3 DEF OneCommit, Committed, Judges
<1>6. SentThen' /\ TalkHolds'
  BY <1>1 DEF AccountsInv, SentThen, TalkHolds
<1>7. ASSUME NEW matter \in Matters PROVE Account(matter)'
  <2>1. Unmet(matter) /\ Waits(matter)' =>
           Waits(matter) \/ \E k \in DOMAIN inputs : Presses(matter, inputs[k])
    <3>1. CASE matter = "turn"
      BY <1>1, <1>3, <3>1 DEF Waits, Patient
    <3>2. CASE matter = "question"
      BY <1>1, <1>3, <3>2 DEF Waits, Patient, Unmet
    <3>3. CASE matter = "commit"
      BY <1>1, <1>3, <3>3 DEF Waits, Patient
    <3> QED BY <3>1, <3>2, <3>3 DEF Matters
  <2> QED BY <1>1, <1>3, <1>4, <2>1, GestureAccounts DEF AccountsInv
<1> QED
  BY <1>5, <1>6, <1>7 DEF AccountsInv

Calm(next) ==
  /\ next.committing = app.committing /\ next.awaitingAgent = app.awaitingAgent
  /\ next.choices = app.choices

\* A gesture that touches no control is patient.
LEMMA CalmIsPatient ==
  ASSUME NEW next, Calm(next), NEW inputs
  PROVE  Patient(next, inputs)
BY DEF Calm, Patient

\* The gestures that touch none.
LEMMA CalmSteps ==
  ASSUME EditorInv
  PROVE  /\ Calm(app) /\ Calm(FilterCleared(app))
         /\ \A view : Calm(ViewNavigated(app, view))
         /\ Calm(ChangesetCleared(app)) /\ Calm(ChangesetUndone(app))
         /\ Calm(ChangesetRedone(app))
         /\ \A d, f : Calm(ChangesetStaged(app, d, f))
         /\ \A row : Calm(ChangesetViewStaged(app, row)) /\ Calm(ChangesetDiscarded(app, row))
         /\ \A view, subject, membership :
              Calm(ChangesetViewMembership(app, view, subject, membership))
<1>1. DOMAIN app = DOMAIN initialVisualAppState
  BY DEF EditorInv, Shapes
<1> USE <1>1, AppFields DEF Calm
<1>2. \A operations, viewOperations : Calm(Staged(app, operations, viewOperations))
  BY DEF Staged
<1>3. Calm(app) /\ Calm(FilterCleared(app)) /\ \A view : Calm(ViewNavigated(app, view))
  BY DEF ViewNavigated, FilterCleared
<1>4. Calm(ChangesetCleared(app))
  BY DEF ChangesetCleared
<1>5. Calm(ChangesetUndone(app))
  BY DEF ChangesetUndone
<1>6. Calm(ChangesetRedone(app))
  BY DEF ChangesetRedone
<1> HIDE DEF Calm
<1>7. \A d, f : Calm(ChangesetStaged(app, d, f))
  BY <1>2 DEF ChangesetStaged
<1>8. \A row : Calm(ChangesetViewStaged(app, row)) /\ Calm(ChangesetDiscarded(app, row))
  BY <1>2 DEF ChangesetViewStaged, ChangesetDiscarded
<1>9. \A view, subject, membership :
        Calm(ChangesetViewMembership(app, view, subject, membership))
  <2>1. \A view, base, projection : Calm(Amended(app, view, base, projection))
    BY <1>2 DEF Amended
  <2> QED BY <1>3, <2>1 DEF ChangesetViewMembership
<1> QED
  BY <1>3, <1>4, <1>5, <1>6, <1>7, <1>8, <1>9

\* A gesture on the tray.
LEMMA CalmTray ==
  ASSUME EditorInv, AccountsInv, NEW kinds, NEW next, Calm(next), Tray(kinds, next)
  PROVE  AccountsInv'
<1>1. Gesture(kinds) /\ Render(visualAppReducer(app, next), <<>>, origin) /\ UNCHANGED sent
  BY DEF Tray
<1>2. Sequence(<<>>) /\ \A k \in DOMAIN <<>> : <<>>[k].type # "changeset.commit"
  BY FewFrames
<1> QED
  BY <1>1, <1>2, CalmIsPatient, PatientGesture

\* Every gesture but the commit.
LEMMA GesturesAccount ==
  ASSUME EditorInv, AccountsInv,
         \/ StageOperation \/ StageView \/ DeleteListedView \/ EditMembership
         \/ Discard \/ Clear \/ Undo \/ Redo \/ Navigate \/ Filter \/ ClearFilter
         \/ Chat \/ Delegate \/ Choose \/ End
  PROVE  AccountsInv'
<1>1. CASE StageOperation
  BY <1>1, CalmSteps, CalmTray DEF StageOperation
<1>2. CASE StageView
  <2>1. PICK row : Tray({"views"}, ChangesetViewStaged(app, row))
    BY <1>2 DEF StageView
  <2> QED BY <2>1, CalmSteps, CalmTray
<1>3. CASE DeleteListedView
  <2>1. PICK row : Tray({"views"}, ChangesetViewStaged(app, row))
    BY <1>3 DEF DeleteListedView
  <2> QED BY <2>1, CalmSteps, CalmTray
<1>4. CASE EditMembership
  <2>1. PICK p, s, membership :
          Tray({"views"}, ChangesetViewMembership(app, p, s, membership))
    BY <1>4 DEF EditMembership
  <2> QED BY <2>1, CalmSteps, CalmTray
<1>5. CASE Discard
  BY <1>5, CalmSteps, CalmTray DEF Discard
<1>6. CASE Clear \/ Undo \/ Redo
  BY <1>6, CalmSteps, CalmTray DEF Clear, Undo, Redo
<1>7. CASE Navigate
  <2>1. PICK p : Tray({"screen"}, ViewNavigated(app, p))
    BY <1>7 DEF Navigate, Tray
  <2> QED BY <2>1, CalmSteps, CalmTray
<1>8. CASE ClearFilter
  <2>1. /\ Gesture({"screen"}) /\ UNCHANGED sent
        /\ Render(visualAppReducer(app, FilterCleared(app)), <<>>, origin)
    BY <1>8 DEF ClearFilter
  <2>2. Sequence(<<>>) /\ \A k \in DOMAIN <<>> : <<>>[k].type # "changeset.commit"
    BY FewFrames
  <2> QED BY <2>1, <2>2, CalmSteps, CalmIsPatient, PatientGesture
<1>9. CASE Filter
  <2>1. PICK q, source : /\ Gesture({"screen"}) /\ UNCHANGED sent
                         /\ Render(app, <<Asked(q)>>, source)
    BY <1>9 DEF Filter
  <2>2. visualAppReducer(app, app) = app
    BY DEF visualAppReducer
  <2>3. PICK asked, inputs : asked = Asked(q) /\ inputs = <<asked>>
    OBVIOUS
  <2>4. Sequence(inputs) /\ \A k \in DOMAIN inputs : inputs[k] = asked
    BY <2>3, FewFrames
  <2>5. asked.type = "filter.query"
    BY <2>3 DEF Asked
  <2>6. Render(visualAppReducer(app, app), inputs, source)
    BY <2>1, <2>2, <2>3
  <2>7. Patient(app, inputs)
    BY CalmSteps, CalmIsPatient
  <2> QED BY <2>1, <2>4, <2>5, <2>6, <2>7, PatientGesture
<1>10. ASSUME NEW next, NEW input, Says(next, input),
              input.type \in Uttered \cup {"session.end"}, input.epoch = epoch,
              input.type = "choice.selected" => input.choice = app.choices,
              next.committing = app.committing,
              next.awaitingAgent = app.awaitingAgent \/ input.type \in Uttered
       PROVE  AccountsInv'
  <2>1. /\ Gesture({"talk"}) /\ UNCHANGED sent
        /\ Render(visualAppReducer(app, next), <<input>>, origin)
    BY <1>10 DEF Says
  <2>2. PICK inputs : inputs = <<input>>
    OBVIOUS
  <2>3. Sequence(inputs) /\ DOMAIN inputs = {1} /\ inputs[1] = input
    BY <2>2, FewFrames
  <2>4. Patient(next, inputs)
    BY <1>10, <2>3 DEF Patient, Presses, Uttered
  <2>5. Render(visualAppReducer(app, next), inputs, origin)
    BY <2>1, <2>2
  <2>6. \A k \in DOMAIN inputs : inputs[k].type # "changeset.commit"
    BY <1>10, <2>3 DEF Uttered
  <2> QED BY <2>1, <2>3, <2>4, <2>5, <2>6, PatientGesture
<1>11. /\ ChatSent(app).committing = app.committing
       /\ EndRequested(app).committing = app.committing
       /\ EndRequested(app).awaitingAgent = app.awaitingAgent
  <2>1. DOMAIN app = DOMAIN initialVisualAppState
    BY DEF EditorInv, Shapes
  <2> QED BY <2>1, AppFields DEF ChatSent, EndRequested
<1>12. \A type : Spoken(type).type = type /\ Spoken(type).epoch = epoch
  BY DEF Spoken
<1>13. CASE Chat
  <2>1. Says(ChatSent(app), Spoken("chat.message"))
    BY <1>13 DEF Chat
  <2> QED BY <1>10, <1>11, <1>12, <2>1 DEF Uttered
<1>14. CASE Delegate
  <2>1. Says(ChatSent(app), Spoken("question.delegate"))
    BY <1>14 DEF Delegate
  <2> QED BY <1>10, <1>11, <1>12, <2>1 DEF Uttered
<1>15. CASE Choose
  <2>1. PICK input : /\ input.type = "choice.selected" /\ input.epoch = epoch
                     /\ input.choice = app.choices
                     /\ Says(ChatSent(app), input)
    BY <1>15 DEF Choose
  <2> QED BY <1>10, <1>11, <2>1 DEF Uttered
<1>16. CASE End
  <2>1. Says(EndRequested(app), Spoken("session.end"))
    BY <1>16 DEF End
  <2> QED BY <1>10, <1>11, <1>12, <2>1
<1> QED
  BY <1>1, <1>2, <1>3, <1>4, <1>5, <1>6, <1>7, <1>8, <1>9, <1>13, <1>14, <1>15, <1>16

\* A commit sent: the tray was not waiting for one.
LEMMA CommitAccounts ==
  ASSUME EditorInv, AccountsInv, Commit
  PROVE  AccountsInv'
<1> DEFINE next == ChangesetCommitSent(app)
<1>1. PICK input, inputs :
        /\ input = [type |-> "changeset.commit", epoch |-> epoch, changeset |-> app.pending]
        /\ inputs = <<input>>
  OBVIOUS
<1>2. input.type = "changeset.commit" /\ input.epoch = epoch
  BY <1>1
<1>3. /\ ~app.committing /\ app.lifecycle # "closed"
      /\ UNCHANGED <<link, epoch, down, turn, question, choicesClosed, unheard>>
      /\ Render(visualAppReducer(app, next), inputs, origin)
      /\ sent' = {[epoch |-> epoch, open |-> link = "open"]}
  BY <1>1 DEF Commit, Gesture, serverVars, talkVars
<1>4. Sequence(inputs) /\ DOMAIN inputs = {1} /\ inputs[1] = input
  BY <1>1, FewFrames
<1>5. app' = next /\ Grown(inputs)
  <2>1. Render(next, inputs, origin)
    BY <1>3 DEF visualAppReducer
  <2> QED BY <1>4, <2>1, Posted
<1>6. /\ next.committing = TRUE /\ next.awaitingAgent = app.awaitingAgent
      /\ next.choices = app.choices
  <2>1. DOMAIN app = DOMAIN initialVisualAppState
    BY DEF EditorInv, Shapes
  <2> QED BY <2>1, AppFields DEF ChangesetCommitSent
<1> HIDE DEF next
<1>7. /\ sent' # {}
      /\ \A left \in sent' : left.epoch = epoch /\ (left.open <=> link = "open")
  <2>1. PICK left : left = [epoch |-> epoch, open |-> link = "open"]
    OBVIOUS
  <2>2. left.epoch = epoch /\ left.open = (link = "open")
    BY <2>1
  <2>3. sent' = {left}
    BY <1>3, <2>1
  <2> QED BY <2>2, <2>3
<1>8. OneCommit'
  <2>1. /\ \A i \in DOMAIN up : ~Committed(up[i])
        /\ \A i \in DOMAIN down : ~Judges(down[i])
    BY <1>3 DEF AccountsInv, OneCommit
  <2>2. \A i \in DOMAIN up' : Committed(up'[i]) => i - Len(up) = 1 /\ i \in Int
    <3>1. DOMAIN up' = 1..Len(up') /\ Len(up') \in Nat
      BY <1>5, SequenceShape DEF Grown
    <3> QED BY <1>4, <1>5, <2>1, <3>1 DEF Grown, Committed
  <2>3. Len(up) \in Nat
    BY SequenceShape DEF EditorInv, Shapes
  <2>4. \A i, j \in DOMAIN up' : Committed(up'[i]) /\ Committed(up'[j]) => i = j
    BY <2>2, <2>3
  <2> QED BY <1>3, <1>5, <1>6, <1>7, <2>1, <2>4 DEF OneCommit, Committed, Judges
<1>9. SentThen' /\ TalkHolds'
  BY <1>3, <1>7 DEF AccountsInv, SentThen, TalkHolds
<1>10. ASSUME NEW matter \in Matters PROVE Account(matter)'
  <2>1. Waits(matter)' => \/ Waits(matter)
                          \/ \E k \in DOMAIN inputs : Presses(matter, inputs[k])
    BY <1>2, <1>3, <1>4, <1>5, <1>6 DEF Waits, Presses, Matters
  <2>2. Sequence(up)
    BY DEF EditorInv, Shapes
  <2> QED BY <1>3, <1>5, <2>1, <2>2, GestureAccounts DEF AccountsInv
<1> QED
  BY <1>8, <1>9, <1>10 DEF AccountsInv

-----------------------------------------------------------------------------
\* Nothing of a commit is added.
LEMMA CommitKept ==
  ASSUME OneCommit, UNCHANGED sent, app'.committing <=> app.committing,
         \A i \in DOMAIN up' : Committed(up'[i]) => i \in DOMAIN up /\ Committed(up[i]),
         \A i \in DOMAIN down' : Judges(down'[i]) => i \in DOMAIN down /\ Judges(down[i])
  PROVE  OneCommit'
BY DEF OneCommit, Committed, Judges

\* The snapshot tells the controls what the host still has to do.
LEMMA ReadySays ==
  /\ ReadyFrame.kind = "ready" /\ FrameTyped(ReadyFrame)
  /\ (ReadyFrame.snapshot.agentTurnOpen => turn > 0)
  /\ ReadyFrame.snapshot.choices = question
BY DEF ReadyFrame, Snapshot, FrameTyped

\* A frame the browser will not wait after.
Restful(frame) == frame.kind # "ready" /\ ~Asking(frame)

\* No such frame makes it wait.
LEMMA RestfulFrames ==
  ASSUME NEW frame, Restful(frame), NEW matter
  PROVE  ~WillWait(matter, frame)'
BY DEF Restful, WillWait

\* The opening snapshot.
LEMMA LoadAccounts ==
  ASSUME EditorInv, AccountsInv, Load
  PROVE  AccountsInv'
<1>1. /\ link = "loading" /\ link' \in {"open", "connecting"}
      /\ Receive(ReadyFrame)
      /\ UNCHANGED <<epoch, down, turn, question, choicesClosed, sent>>
  BY DEF Load, serverVars, talkVars
<1>2. app.lifecycle # "closed" /\ down = <<>>
  BY <1>1 DEF EditorInv, Opens
<1>3. PICK frame : /\ frame = ReadyFrame
                   /\ frame.kind = "ready" /\ FrameTyped(frame)
                   /\ (frame.snapshot.agentTurnOpen => turn > 0)
                   /\ frame.snapshot.choices = question
  BY ReadySays
<1>4. /\ app' = Transition(app, frame, origin)
      /\ \E inputs : /\ Grown(inputs)
                     /\ \A k \in DOMAIN inputs : inputs[k].type = "filter.query"
  BY <1>1, <1>2, <1>3, ReceivedAccounts DEF visualAppReducer
<1>5. Controlled(app', frame)
  BY <1>3, <1>4, Controls
<1>6. /\ app'.awaitingAgent => turn > 0
      /\ app'.choices = question
      /\ app'.committing <=> app.committing
  BY <1>3, <1>5 DEF Controlled, Settles
<1>7. DOMAIN down' = {}
  BY <1>1, <1>2, FewFrames
<1>8. OneCommit'
  <2>1. \A i \in DOMAIN up' : Committed(up'[i]) => i \in DOMAIN up /\ Committed(up[i])
    BY <1>4 DEF Grown, Committed
  <2> QED BY <1>1, <1>6, <1>7, <2>1, CommitKept DEF AccountsInv
<1>9. SentThen' /\ TalkHolds'
  BY <1>1 DEF AccountsInv, SentThen, TalkHolds
<1>10. ~Waits("commit")'
  <2>1. \A left \in sent : ~(left.open /\ left.epoch = epoch)
    BY <1>1 DEF AccountsInv, SentThen
  <2>2. app'.committing => sent # {}
    BY <1>1, <1>8 DEF OneCommit
  <2> QED BY <1>1, <2>1, <2>2 DEF Waits
<1>11. ASSUME NEW matter \in Matters PROVE Account(matter)'
  <2>1. Unmet(matter)' => ~Waits(matter)'
    BY <1>1, <1>6, <1>10 DEF Unmet, Waits, Matters
  <2> QED BY <1>7, <2>1 DEF Account
<1> QED
  BY <1>8, <1>9, <1>11 DEF AccountsInv

\* A connection made, lost, tried again or given up.
LEMMA WireAccounts ==
  ASSUME EditorInv, AccountsInv, LoadFails \/ Connect \/ Drop \/ Retry \/ GiveUp
  PROVE  AccountsInv'
<1>1. OneCommit /\ SentThen /\ Sequence(up) /\ Sequence(down) /\ epoch \in Nat
  BY DEF AccountsInv, EditorInv, Shapes, SentThen
<1>0. TalkHolds'
  <2>1. UNCHANGED talkVars
    BY DEF LoadFails, Connect, Drop, Retry, GiveUp, serverVars
  <2> QED BY <2>1 DEF AccountsInv, TalkHolds, talkVars
<1>2. /\ ConnectionLost(app).committing = app.committing
      /\ SessionClosed(app).committing = app.committing
      /\ \A next : next.committing = app.committing =>
                     visualAppReducer(app, next).committing = app.committing
  <2>1. DOMAIN app = DOMAIN initialVisualAppState
    BY DEF EditorInv, Shapes
  <2> QED BY <2>1, AppFields DEF ConnectionLost, SessionClosed, visualAppReducer
<1>3. ASSUME link' # "open" PROVE \A matter \in Matters : Account(matter)'
  BY <1>3 DEF Account
<1>4. CASE LoadFails
  <2>1. /\ link' = "waiting" /\ epoch' = epoch + 1 /\ UNCHANGED <<down, sent>>
        /\ Render(visualAppReducer(app, ConnectionLost(app)), <<>>, origin)
    BY <1>4 DEF LoadFails, historyVars
  <2>2. app'.committing = app.committing /\ Grown(<<>>)
    BY <1>2, <2>1, FewFrames, Posted
  <2>3. \A i \in DOMAIN up' : Committed(up'[i]) => i \in DOMAIN up /\ Committed(up[i])
    BY <2>2, FewFrames DEF Grown, Committed
  <2>4. OneCommit'
    BY <1>1, <2>1, <2>2, <2>3, CommitKept
  <2>5. SentThen'
    BY <1>1, <2>1 DEF SentThen
  <2> QED BY <1>0, <1>3, <2>1, <2>4, <2>5 DEF AccountsInv
<1>5. CASE Connect
  <2>1. /\ link = "connecting" /\ link' = "open" /\ down' = Greeting
        /\ UNCHANGED <<epoch, turn, question, sent>>
        /\ Render(app, <<>>, origin)
    BY <1>5 DEF Connect, Greeting, serverVars, talkVars
  <2>2. app' = app /\ Grown(<<>>)
    BY <2>1, FewFrames, Posted
  <2>3. PICK frame : /\ frame = ReadyFrame /\ frame.kind = "ready"
                     /\ (frame.snapshot.agentTurnOpen => turn > 0)
                     /\ frame.snapshot.choices = question
    BY ReadySays
  <2>4. /\ 1 \in DOMAIN down' /\ down'[1] = frame
        /\ \A i \in DOMAIN down' : i # 1 => ~Judges(down'[i]) /\ Restful(down'[i])
    <3>1. PICK told : told = DiagnosticFrame
      OBVIOUS
    <3>2. told.kind = "response" /\ told.type = "diagnostic"
      BY <3>1 DEF DiagnosticFrame
    <3>3. ~Judges(told) /\ Restful(told)
      BY <3>2 DEF Judges, Restful, Asking
    <3>4. \A i \in DOMAIN down' : i # 1 => down'[i] = told
      BY <2>1, <3>1, Greeted
    <3>5. 1 \in DOMAIN down' /\ down'[1] = frame
      <4>1. PICK greeting : greeting = Greeting
        OBVIOUS
      <4>2. Sequence(greeting) /\ greeting # <<>> /\ greeting[1] = frame
        BY <2>3, <4>1, Greeted
      <4>3. 1 \in DOMAIN greeting
        BY <4>2, Tailed
      <4> QED BY <2>1, <4>1, <4>2, <4>3
    <3> QED BY <3>3, <3>4, <3>5
  <2>5. \A i \in DOMAIN up' : Committed(up'[i]) => i \in DOMAIN up /\ Committed(up[i])
    BY <2>2, FewFrames DEF Grown, Committed
  <2>6. OneCommit'
    BY <1>1, <2>1, <2>2, <2>3, <2>4, <2>5, CommitKept DEF Judges
  <2>7. SentThen'
    BY <1>1, <2>1 DEF SentThen
  <2>8. ASSUME NEW matter \in Matters PROVE Account(matter)'
    <3>1. Unmet(matter)' => ~WillWait(matter, frame)'
      <4>1. CASE matter = "turn"
        BY <2>1, <2>3, <4>1 DEF Unmet, WillWait
      <4>2. CASE matter = "question"
        BY <2>1, <2>3, <4>2 DEF Unmet, WillWait, Asking
      <4>3. CASE matter = "commit"
        BY <4>3 DEF WillWait
      <4> QED BY <4>1, <4>2, <4>3 DEF Matters
    <3>2. matter # "commit" => Accounted(matter, 0)'
      BY <2>3, <2>4 DEF Settles, Accounted, Matters
    <3>3. ~Waits("commit")'
      <4>1. \A left \in sent : ~(left.open /\ left.epoch = epoch)
        BY <1>1, <2>1 DEF SentThen
      <4>2. app'.committing => sent # {}
        BY <1>1, <2>2 DEF OneCommit
      <4> QED BY <2>1, <4>1, <4>2 DEF Waits
    <3>4. Waits(matter)' => Accounted(matter, 0)'
      BY <3>2, <3>3
    <3>5. ASSUME NEW i \in DOMAIN down', Unmet(matter)', WillWait(matter, down[i])'
          PROVE  FALSE
      <4>1. CASE i = 1
        BY <2>4, <3>1, <3>5, <4>1
      <4>2. CASE i # 1
        BY <2>4, <3>5, <4>2 DEF WillWait, Restful
      <4> QED BY <4>1, <4>2
    <3> QED BY <3>4, <3>5 DEF Account
  <2> QED BY <1>0, <2>6, <2>7, <2>8 DEF AccountsInv
<1>6. CASE Drop
  <2>1. /\ link' = "waiting" /\ epoch' = epoch + 1 /\ down' = <<>>
        /\ \E reached \in 0..Len(up) : up' = SubSeq(up, 1, reached)
        /\ app' = visualAppReducer(app, ConnectionLost(app))
        /\ UNCHANGED sent
    BY <1>6 DEF Drop
  <2>2. \A i \in DOMAIN up' : i \in DOMAIN up /\ up'[i] = up[i]
    <3>1. PICK old, reached : /\ old = up /\ reached \in 0..Len(up)
                              /\ up' = SubSeq(up, 1, reached)
      BY <2>1
    <3>2. \A i \in DOMAIN SubSeq(old, 1, reached) :
             i \in DOMAIN old /\ SubSeq(old, 1, reached)[i] = old[i]
      BY <1>1, <3>1, Cut
    <3> QED BY <3>1, <3>2
  <2>3. DOMAIN down' = {}
    BY <2>1, FewFrames
  <2>4. app'.committing = app.committing
    BY <1>2, <2>1
  <2>5. OneCommit'
    BY <1>1, <2>1, <2>2, <2>3, <2>4, CommitKept DEF Committed
  <2>6. SentThen'
    BY <1>1, <2>1 DEF SentThen
  <2> QED BY <1>0, <1>3, <2>1, <2>5, <2>6 DEF AccountsInv
<1>7. CASE Retry
  <2>1. link = "waiting" /\ link' = "connecting" /\ UNCHANGED <<app, epoch, up, down, sent>>
    BY <1>7 DEF Retry, browserVars, historyVars
  <2>2. OneCommit'
    BY <1>1, <2>1, CommitKept DEF Committed, Judges
  <2>3. SentThen'
    BY <1>1, <2>1 DEF SentThen
  <2> QED BY <1>0, <1>3, <2>1, <2>2, <2>3 DEF AccountsInv
<1>8. CASE GiveUp
  <2>1. /\ link' = "over" /\ UNCHANGED <<epoch, up, down, sent>>
        /\ app' = visualAppReducer(app, SessionClosed(app))
    BY <1>8 DEF GiveUp, historyVars
  <2>2. app'.committing = app.committing
    BY <1>2, <2>1
  <2>3. OneCommit'
    BY <1>1, <2>1, <2>2, CommitKept DEF Committed, Judges
  <2>4. SentThen'
    BY <1>1, <2>1 DEF SentThen
  <2> QED BY <1>0, <1>3, <2>1, <2>3, <2>4 DEF AccountsInv
<1> QED
  BY <1>4, <1>5, <1>6, <1>7, <1>8

-----------------------------------------------------------------------------
\* The host says something of its own accord.
LEMMA VolunteeredAccounts ==
  ASSUME EditorInv, AccountsInv, UNCHANGED <<app, sent, link, epoch, up, unheard>>, TalkHolds',
         NEW more, Sequence(more), down' = down \o more,
         \A i \in DOMAIN more : ~Judges(more[i]),
         \A matter \in Matters : Unmet(matter)' =>
           \A i \in DOMAIN more : ~WillWait(matter, more[i])',
         \A matter \in Matters : Unmet(matter)' =>
           \/ Unmet(matter) /\ (matter = "question" => question' = question)
           \/ link # "open"
           \/ \E i \in DOMAIN more : Settles(matter, more[i])
  PROVE  AccountsInv'
<1>1. Sequence(down)
  BY DEF EditorInv, Shapes
<1>2. ASSUME NEW matter \in Matters PROVE Account(matter)'
  <2>1. CASE ~Unmet(matter)'
    BY <2>1 DEF Account
  <2>2. CASE Unmet(matter)'
    <3>1. \A k \in DOMAIN up : Presses(matter, up[k]) => \E n \in DOMAIN up' : up'[n] = up[k]
      OBVIOUS
    <3>2. \A i \in DOMAIN more : ~WillWait(matter, more[i])'
      BY <2>2
    <3>3. \/ link # "open"
          \/ \E i \in DOMAIN more : Settles(matter, more[i])
          \/ ~Unmet(matter)'
          \/ Unmet(matter) /\ (matter = "question" => question' = question)
      BY <2>2
    <3>4. Account(matter)
      BY DEF AccountsInv
    <3> QED BY <1>1, <3>1, <3>2, <3>3, <3>4, HostAccounts
  <2> QED BY <2>1, <2>2
<1>3. PICK old, new : old = down /\ new = down' /\ new = old \o more
  OBVIOUS
<1>4. Extends(new, old, more)
  <2>1. Sequence(old)
    BY <1>1, <1>3
  <2> QED BY <1>3, <2>1, Extended
<1>5. \A i \in DOMAIN down' : Judges(down'[i]) => i \in DOMAIN down /\ Judges(down[i])
  BY <1>3, <1>4 DEF Extends
<1>6. OneCommit'
  BY <1>5, CommitKept DEF AccountsInv, Committed
<1>7. SentThen'
  BY DEF AccountsInv, SentThen
<1> QED
  BY <1>2, <1>6, <1>7 DEF AccountsInv

\* The host takes an input, and answers it or has more to do.
LEMMA AnsweredAccounts ==
  ASSUME EditorInv, AccountsInv, UNCHANGED <<app, sent, link, epoch, unheard>>, TalkHolds',
         up # <<>>, up' = Tail(up),
         NEW more, Sequence(more), down' = down \o more,
         \A i \in DOMAIN more : \A matter \in Matters : ~WillWait(matter, more[i])',
         \A i \in DOMAIN more : Judges(more[i]) => i = 1 /\ Committed(up[1]),
         \A matter \in Matters :
           Unmet(matter)' => Unmet(matter) /\ (matter = "question" => question' = question),
         \A matter \in Matters : Presses(matter, up[1]) =>
           \/ link # "open"
           \/ ~Unmet(matter)'
           \/ \E i \in DOMAIN more : Settles(matter, more[i])
  PROVE  AccountsInv'
<1>1. Sequence(down) /\ Sequence(up)
  BY DEF EditorInv, Shapes
<1>2. /\ 1 \in DOMAIN up /\ DOMAIN up \subseteq Int
      /\ \A i \in DOMAIN up' : i \in Nat /\ i >= 1 /\ i + 1 \in DOMAIN up /\ up'[i] = up[i + 1]
      /\ \A i \in DOMAIN up : i # 1 => i - 1 \in DOMAIN up' /\ up'[i - 1] = up[i]
  <2>1. /\ 1 \in DOMAIN up /\ Sequence(up') /\ Len(up') = Len(up) - 1
        /\ \A i \in DOMAIN up' : i + 1 \in DOMAIN up /\ up'[i] = up[i + 1]
    BY <1>1, Tailed
  <2>2. DOMAIN up = 1..Len(up) /\ Len(up) \in Nat
    BY <1>1, SequenceShape
  <2>3. DOMAIN up' = 1..Len(up') /\ Len(up') \in Nat
    BY <2>1, SequenceShape
  <2>4. ASSUME NEW i \in DOMAIN up, i # 1
        PROVE  i - 1 \in DOMAIN up' /\ up'[i - 1] = up[i]
    <3>1. i - 1 \in 1..Len(up') /\ (i - 1) + 1 = i
      BY <2>1, <2>2, <2>4
    <3> QED BY <2>1, <2>3, <3>1
  <2> QED BY <2>1, <2>2, <2>3, <2>4
<1>3. ASSUME NEW matter \in Matters PROVE Account(matter)'
  <2>0. Account(matter)
    BY DEF AccountsInv
  <2>1. \A i \in DOMAIN more : ~WillWait(matter, more[i])'
    OBVIOUS
  <2>2. CASE Presses(matter, up[1])
    BY <1>1, <2>0, <2>1, <2>2, HostAccounts
  <2>3. CASE ~Presses(matter, up[1])
    <3>1. \A k \in DOMAIN up : Presses(matter, up[k]) => \E n \in DOMAIN up' : up'[n] = up[k]
      BY <1>2, <2>3
    <3>2. \/ ~Unmet(matter)'
          \/ Unmet(matter) /\ (matter = "question" => question' = question)
      OBVIOUS
    <3> QED BY <1>1, <2>0, <2>1, <3>1, <3>2, HostAccounts
  <2> QED BY <2>2, <2>3
<1>4. PICK old, new : old = down /\ new = down' /\ new = old \o more
  OBVIOUS
<1>5. Extends(new, old, more)
  <2>1. Sequence(old)
    BY <1>1, <1>4
  <2> QED BY <1>4, <2>1, Extended
<1>6. \A i \in DOMAIN down' : Judges(down'[i]) =>
        \/ i \in DOMAIN down /\ Judges(down[i])
        \/ i = Len(old) + 1 /\ Committed(up[1])
  BY <1>4, <1>5 DEF Extends
<1>7. OneCommit'
  <2>1. OneCommit
    BY DEF AccountsInv
  <2>2. Committed(up[1]) => /\ app.committing
                            /\ \A i \in DOMAIN up' : ~Committed(up'[i])
                            /\ \A i \in DOMAIN down : ~Judges(down[i])
    <3>1. \A i \in DOMAIN up' : i + 1 # 1
      BY <1>2
    <3> QED BY <1>2, <2>1, <3>1 DEF OneCommit
  <2>3. \A i \in DOMAIN up' : Committed(up'[i]) => app.committing
    BY <1>2, <2>1 DEF OneCommit
  <2>4. \A i, j \in DOMAIN up' : Committed(up'[i]) /\ Committed(up'[j]) => i = j
    <3> SUFFICES ASSUME NEW i \in DOMAIN up', NEW j \in DOMAIN up',
                        Committed(up'[i]), Committed(up'[j])
                 PROVE  i = j
      OBVIOUS
    <3>1. i + 1 = j + 1
      BY <1>2, <2>1 DEF OneCommit
    <3> QED BY <1>2, <3>1
  <2>5. \A i, j \in DOMAIN down' : Judges(down'[i]) /\ Judges(down'[j]) => i = j
    BY <1>6, <2>1, <2>2 DEF OneCommit
  <2>6. \A i \in DOMAIN up', j \in DOMAIN down' : ~(Committed(up'[i]) /\ Judges(down'[j]))
    BY <1>2, <1>6, <2>1, <2>2 DEF OneCommit
  <2>7. \A j \in DOMAIN down' : Judges(down'[j]) => app.committing
    BY <1>6, <2>1, <2>2 DEF OneCommit
  <2> QED BY <2>1, <2>3, <2>4, <2>5, <2>6, <2>7 DEF OneCommit, Committed, Judges
<1>8. SentThen'
  BY DEF AccountsInv, SentThen
<1> QED
  BY <1>3, <1>7, <1>8 DEF AccountsInv

\* What one frame comes to: itself while the connection is there to carry it.
Handed(more, frame, input) ==
  /\ Sequence(more) /\ \A i \in DOMAIN more : i = 1 /\ more[i] = frame
  /\ link = "open" /\ input.epoch = epoch => 1 \in DOMAIN more /\ more[1] = frame

Aired(more, frame) ==
  /\ Sequence(more) /\ \A i \in DOMAIN more : more[i] = frame
  /\ link = "open" => 1 \in DOMAIN more /\ more[1] = frame

\* An answer to the connection that asked.
LEMMA Reply ==
  ASSUME NEW input, NEW frame
  PROVE  Handed(Replied(input, <<frame>>), frame, input)
<1>1. Replied(input, <<frame>>) \in {<<>>, <<frame>>}
      /\ (link = "open" /\ input.epoch = epoch => Replied(input, <<frame>>) = <<frame>>)
  BY DEF Replied, Open
<1> QED
  BY <1>1, FewFrames DEF Handed

\* A frame for everybody.
LEMMA Announced ==
  ASSUME NEW frame
  PROVE  Aired(Broadcast(<<frame>>), frame)
<1>1. Broadcast(<<frame>>) \in {<<>>, <<frame>>}
      /\ (link = "open" => Broadcast(<<frame>>) = <<frame>>)
  BY DEF Broadcast, Open
<1> QED
  BY <1>1, FewFrames DEF Aired

\* What the host does not touch stays unmet as it was.
LEMMA UnmetKept ==
  ASSUME UNCHANGED <<turn, question, choicesClosed>>, AccountsInv
  PROVE  /\ TalkHolds'
         /\ \A matter \in Matters :
              Unmet(matter)' => Unmet(matter) /\ (matter = "question" => question' = question)
BY DEF Unmet, AccountsInv, TalkHolds

\* Inputs refused, filters answered, turns and endings taken.
LEMMA RepliesAccount ==
  ASSUME EditorInv, AccountsInv, Refuse \/ AnswerFilter \/ TakeTurn \/ TakeEnd
  PROVE  AccountsInv'
<1>1. CASE Refuse
  <2>1. PICK freezing : down' = down \o Replied(up[1], <<Rejected(up[1].type, freezing)>>)
    BY <1>1, Refusing
  <2> DEFINE type == up[1].type
  <2>2. PICK frame : frame = Rejected(type, freezing)
    OBVIOUS
  <2>10. PICK more : more = Replied(up[1], <<frame>>)
    OBVIOUS
  <2>11. down' = down \o more
    BY <2>1, <2>2, <2>10
  <2>3. /\ UNCHANGED <<app, sent, link, epoch, turn, question, choicesClosed, unheard>>
        /\ up # <<>> /\ up' = Tail(up) /\ up[1].type = type
    BY <1>1, Refusing DEF serverVars, talkVars, Remains, browserVars
  <2>4. /\ Sequence(more) /\ \A i \in DOMAIN more : i = 1 /\ more[i] = frame
        /\ link = "open" /\ up[1].epoch = epoch => 1 \in DOMAIN more /\ more[1] = frame
    BY <2>10, Reply DEF Handed
  <2>5. frame.kind = "rejected" /\ frame.refused = type
    BY <2>2 DEF Rejected
  <2>6. Judges(frame) => Committed(up[1])
    BY <2>3, <2>5 DEF Judges, Committed
  <2>7. \A matter \in Matters : Presses(matter, up[1]) => Settles(matter, frame)
    BY <2>3, <2>5 DEF Presses, Settles, Matters, Uttered
  <2>9. \A matter \in Matters : Presses(matter, up[1]) /\ link = "open" =>
          \E i \in DOMAIN more : Settles(matter, more[i])
    BY <2>4, <2>7 DEF Presses
  <2>12. Restful(frame)
    BY <2>5 DEF Restful, Asking
  <2>13. \A i \in DOMAIN more : \A matter \in Matters : ~WillWait(matter, more[i])'
    BY <2>4, <2>12, RestfulFrames
  <2>14. /\ TalkHolds'
         /\ \A matter \in Matters :
              Unmet(matter)' => Unmet(matter) /\ (matter = "question" => question' = question)
    BY <2>3, UnmetKept
  <2>15. \A i \in DOMAIN more : Judges(more[i]) => i = 1 /\ Committed(up[1])
    BY <2>4, <2>6
  <2>16. \A matter \in Matters : Presses(matter, up[1]) =>
           \/ link # "open"
           \/ ~Unmet(matter)'
           \/ \E i \in DOMAIN more : Settles(matter, more[i])
    BY <2>9
  <2>17. Sequence(more) /\ UNCHANGED <<app, sent, link, epoch, unheard>>
    BY <2>3, <2>4
  <2> QED BY <2>3, <2>11, <2>13, <2>14, <2>15, <2>16, <2>17, AnsweredAccounts
<1>2. CASE AnswerFilter
  <2> DEFINE said == [kind |-> "filter-result", query |-> up[1].query,
                      matched |-> <<up[1].query, model.docs>>]
  <2>7. PICK frame : frame = said
    OBVIOUS
  <2>8. PICK more : more = Replied(up[1], <<frame>>)
    OBVIOUS
  <2>9. frame.kind = "filter-result"
    BY <2>7
  <2>1. down' = down \o more
    BY <1>2, <2>7, <2>8 DEF AnswerFilter
  <2> HIDE DEF said
  <2>2. /\ UNCHANGED <<app, sent, link, epoch, turn, question, choicesClosed, unheard>>
        /\ up # <<>> /\ up' = Tail(up) /\ up[1].type = "filter.query"
    BY <1>2 DEF AnswerFilter, Next1, serverVars, talkVars, Stays, Remains, browserVars
  <2>3. Sequence(more) /\ \A i \in DOMAIN more : i = 1 /\ more[i] = frame
    BY <2>8, Reply DEF Handed
  <2>4. ~Judges(frame) /\ Restful(frame)
    BY <2>9 DEF Judges, Restful, Asking
  <2>5. \A matter \in Matters : ~Presses(matter, up[1])
    BY <2>2 DEF Presses, Matters, Uttered
  <2>6. /\ TalkHolds'
        /\ \A matter \in Matters :
             Unmet(matter)' => Unmet(matter) /\ (matter = "question" => question' = question)
    BY <2>2, UnmetKept
  <2>10. \A i \in DOMAIN more : \A matter \in Matters : ~WillWait(matter, more[i])'
    BY <2>3, <2>4, RestfulFrames
  <2>11. \A i \in DOMAIN more : Judges(more[i]) => i = 1 /\ Committed(up[1])
    BY <2>3, <2>4
  <2> QED BY <2>1, <2>2, <2>3, <2>5, <2>6, <2>10, <2>11, AnsweredAccounts
<1>3. ASSUME UNCHANGED <<app, sent, link, epoch, unheard, down>>, TalkHolds',
             up # <<>>, up' = Tail(up),
             \A matter \in Matters :
               Unmet(matter)' => Unmet(matter) /\ (matter = "question" => question' = question),
             \A matter \in Matters : Presses(matter, up[1]) => ~Unmet(matter)'
      PROVE  AccountsInv'
  <2>1. PICK more : more = <<>> /\ down' = down \o more
    BY <1>3, NothingMore
  <2>2. Sequence(more) /\ DOMAIN more = {}
    BY <2>1, FewFrames
  <2>3. /\ \A i \in DOMAIN more : \A matter \in Matters : ~WillWait(matter, more[i])'
        /\ \A i \in DOMAIN more : Judges(more[i]) => i = 1 /\ Committed(up[1])
    BY <2>2
  <2> QED BY <1>3, <2>1, <2>2, <2>3, AnsweredAccounts
<1>4. TalkHolds
  BY DEF AccountsInv
<1>5. CASE TakeTurn
  <2>1. /\ UNCHANGED <<app, sent, link, epoch, down, choicesClosed, unheard>>
        /\ turn' = turn + 1
        /\ up # <<>> /\ up' = Tail(up)
        /\ \/ up[1].type \in {"chat.message", "question.delegate"} /\ question' = None
           \/ /\ up[1].type = "choice.selected"
              /\ question' = IF question = up[1].choice THEN None ELSE question
    BY <1>5 DEF TakeTurn, Next1, Stays, Remains, browserVars, talkVars
  <2>2. TalkHolds' /\ turn' # 0 /\ question' \in {None, question}
    BY <1>4, <2>1 DEF TalkHolds
  <2>3. \A matter \in Matters : Presses(matter, up[1]) => ~Unmet(matter)'
    BY <2>1, <2>2 DEF Presses, Matters, Uttered, Unmet
  <2>4. \A matter \in Matters :
          Unmet(matter)' => Unmet(matter) /\ (matter = "question" => question' = question)
    BY <2>1, <2>2 DEF Unmet, Matters
  <2>5. UNCHANGED <<app, sent, link, epoch, unheard, down>> /\ TalkHolds'
    BY <2>1, <2>2
  <2> QED BY <1>3, <2>1, <2>3, <2>4, <2>5
<1>6. CASE TakeEnd
  <2>1. /\ UNCHANGED <<app, sent, link, epoch, down, unheard>>
        /\ turn' = turn + 1 /\ question' = None
        /\ up # <<>> /\ up' = Tail(up) /\ up[1].type = "session.end"
    BY <1>6 DEF TakeEnd, Next1, Stays, Remains, browserVars
  <2>2. TalkHolds' /\ turn' # 0
    BY <1>4, <2>1 DEF TalkHolds
  <2>3. \A matter \in Matters : Presses(matter, up[1]) => ~Unmet(matter)'
    BY <2>1, <2>2 DEF Presses, Matters, Uttered, Unmet
  <2>4. \A matter \in Matters :
          Unmet(matter)' => Unmet(matter) /\ (matter = "question" => question' = question)
    BY <2>1, <2>2 DEF Unmet, Matters
  <2>5. UNCHANGED <<app, sent, link, epoch, unheard, down>> /\ TalkHolds'
    BY <2>1, <2>2
  <2> QED BY <1>3, <2>1, <2>3, <2>4, <2>5
<1> QED
  BY <1>1, <1>2, <1>5, <1>6

\* What is told of the model, or of the session's end.
Bulletin(frame) == Restful(frame) /\ ~Judges(frame)

\* The verdict on a commit, and the news of the model after it perhaps.
LEMMA VerdictAccounts ==
  ASSUME EditorInv, AccountsInv,
         UNCHANGED <<app, sent, link, epoch, turn, question, choicesClosed, unheard>>,
         up # <<>>, up' = Tail(up), up[1].type = "changeset.commit",
         NEW frame, frame.kind = "apply-result",
         NEW news, Sequence(news),
         \A i \in DOMAIN news : Bulletin(news[i]),
         down' = down \o (Replied(up[1], <<frame>>) \o news)
  PROVE  AccountsInv'
<1>1. PICK first, more : /\ first = Replied(up[1], <<frame>>)
                         /\ more = first \o news
                         /\ down' = down \o more
  OBVIOUS
<1>2. /\ Sequence(first) /\ \A i \in DOMAIN first : i = 1 /\ first[i] = frame
      /\ link = "open" /\ up[1].epoch = epoch => 1 \in DOMAIN first /\ first[1] = frame
  BY <1>1, Reply DEF Handed
<1>3. Extends(more, first, news)
  BY <1>1, <1>2, Extended
<1>4. /\ Sequence(more)
      /\ \A i \in DOMAIN more : (i = 1 /\ more[i] = frame) \/ Bulletin(more[i])
      /\ \A i \in DOMAIN first : i \in DOMAIN more /\ more[i] = first[i]
  BY <1>2, <1>3 DEF Extends
<1>5. \A i \in DOMAIN more : /\ Restful(more[i])
                             /\ Judges(more[i]) => i = 1 /\ Committed(up[1])
  <2>1. Restful(frame)
    BY DEF Restful, Asking
  <2> QED BY <1>4, <2>1 DEF Bulletin, Committed
<1>6. /\ TalkHolds'
      /\ \A matter \in Matters :
           Unmet(matter)' => Unmet(matter) /\ (matter = "question" => question' = question)
  BY UnmetKept
<1>7. \A matter \in Matters : Presses(matter, up[1]) /\ link = "open" =>
        \E i \in DOMAIN more : Settles(matter, more[i])
  BY <1>2, <1>4 DEF Presses, Settles, Uttered
<1>8. \A i \in DOMAIN more : \A matter \in Matters : ~WillWait(matter, more[i])'
  BY <1>5, RestfulFrames
<1>9. \A i \in DOMAIN more : Judges(more[i]) => i = 1 /\ Committed(up[1])
  BY <1>5
<1> QED
  BY <1>1, <1>4, <1>6, <1>7, <1>8, <1>9, AnsweredAccounts

\* A commit refused or landed.
LEMMA CommitsAccount ==
  ASSUME EditorInv, AccountsInv, RefusePins \/ RefusePlan \/ Land
  PROVE  AccountsInv'
<1>1. CommitNow
  BY DEF RefusePins, RefusePlan, Land
<1>2. /\ UNCHANGED <<app, sent, link, epoch, turn, question, choicesClosed, unheard>>
      /\ up # <<>> /\ up' = Tail(up) /\ up[1].type = "changeset.commit"
  BY <1>1 DEF CommitNow, Next1, Stays, Remains, browserVars, talkVars
<1>3. Sequence(down)
  BY DEF EditorInv, Shapes
<1>4. ASSUME NEW frame, frame.kind = "apply-result",
             down' = down \o Replied(up[1], <<frame>>)
      PROVE  AccountsInv'
  <2>1. PICK first : first = Replied(up[1], <<frame>>)
    OBVIOUS
  <2>2. Sequence(first)
    BY <2>1, Reply DEF Handed
  <2>3. first \o <<>> = first
    BY <2>2 DEF Sequence
  <2>4. down' = down \o (Replied(up[1], <<frame>>) \o <<>>)
    BY <1>4, <2>1, <2>3
  <2>5. Sequence(<<>>) /\ \A i \in DOMAIN <<>> : Bulletin(<<>>[i])
    BY FewFrames
  <2> QED BY <1>2, <1>4, <2>4, <2>5, VerdictAccounts
<1>5. ASSUME NEW frame, frame.kind = "apply-result", NEW told, Bulletin(told),
             down' = down \o Replied(up[1], <<frame>>) \o Broadcast(<<told>>)
      PROVE  AccountsInv'
  <2>1. PICK first, news : /\ first = Replied(up[1], <<frame>>)
                           /\ news = Broadcast(<<told>>)
    OBVIOUS
  <2>2. Sequence(first)
    BY <2>1, Reply DEF Handed
  <2>3. Sequence(news) /\ \A i \in DOMAIN news : news[i] = told
    BY <2>1, Announced DEF Aired
  <2>4. (down \o first) \o news = down \o (first \o news)
    BY <1>3, <2>2, <2>3, Associated
  <2>5. down' = down \o (Replied(up[1], <<frame>>) \o news)
    BY <1>5, <2>1, <2>4
  <2>6. \A i \in DOMAIN news : Bulletin(news[i])
    BY <1>5, <2>3
  <2> QED BY <1>2, <1>5, <2>3, <2>5, <2>6, VerdictAccounts
<1>6. ASSUME NEW ok PROVE [kind |-> "apply-result", ok |-> ok].kind = "apply-result"
  OBVIOUS
<1>10. PICK told : told = News
  OBVIOUS
<1>11. Bulletin(told)
  BY <1>10 DEF News, ModelFrame, DiagnosticFrame, Bulletin, Restful, Judges, Asking
<1>7. CASE RefusePins
  <2>1. down' = down \o Replied(up[1], <<[kind |-> "apply-result", ok |-> FALSE]>>)
                     \o Broadcast(<<told>>)
    BY <1>7, <1>10 DEF RefusePins
  <2> QED BY <1>5, <1>6, <1>11, <2>1
<1>8. CASE RefusePlan
  BY <1>4, <1>6, <1>8 DEF RefusePlan
<1>9. CASE Land
  <2>1. down' = down \o Replied(up[1], <<[kind |-> "apply-result", ok |-> TRUE]>>)
                     \o Broadcast(<<told>>)
    BY <1>9, <1>10 DEF Land
  <2> QED BY <1>5, <1>6, <1>11, <2>1
<1> QED
  BY <1>7, <1>8, <1>9

\* What the agent says settles a turn; what it asks is put on the screen.
LEMMA AgentAccounts ==
  ASSUME EditorInv, AccountsInv, NEW frame, AgentSays(frame), frame.kind = "response",
         \/ ~Asking(frame) /\ UNCHANGED question
         \/ /\ Asking(frame)
            /\ question' = IF choicesClosed THEN question ELSE frame.choice
  PROVE  AccountsInv'
<1>1. /\ turn \in Nat /\ (turn' = turn \/ (turn > 0 /\ turn' = turn - 1))
      /\ down' = down \o Broadcast(<<frame>>)
      /\ UNCHANGED <<app, sent, link, epoch, up, choicesClosed, unheard>>
  <2>1. turn \in Nat
    BY DEF AccountsInv, TalkHolds
  <2>2. /\ turn' = turn \/ (turn > 0 /\ turn' = turn - 1)
        /\ down' = down \o Broadcast(<<frame>>)
    BY DEF AgentSays
  <2>3. UNCHANGED <<app, sent, link, epoch, up, choicesClosed, unheard>>
    BY DEF AgentSays, browserVars, historyVars
  <2> QED BY <2>1, <2>2, <2>3
<1>2. PICK more : more = Broadcast(<<frame>>)
  OBVIOUS
<1>3. /\ Sequence(more) /\ \A i \in DOMAIN more : more[i] = frame
      /\ link = "open" => 1 \in DOMAIN more /\ more[1] = frame
  BY <1>2, Announced DEF Aired
<1>4. TalkHolds'
  BY <1>1 DEF AccountsInv, TalkHolds
<1>5. ~Judges(frame)
  BY DEF Judges
<1>6. ASSUME NEW matter \in Matters, Unmet(matter)'
      PROVE  \A i \in DOMAIN more : ~WillWait(matter, more[i])'
  <2>1. ~WillWait(matter, frame)'
    BY <1>1, <1>6 DEF WillWait, Unmet, Asking, AccountsInv, TalkHolds
  <2> QED BY <1>3, <2>1
<1>7. ASSUME NEW matter \in Matters, Unmet(matter)'
      PROVE  \/ Unmet(matter) /\ (matter = "question" => question' = question)
             \/ link # "open"
             \/ \E i \in DOMAIN more : Settles(matter, more[i])
  <2>1. CASE matter = "turn"
    <3>1. Settles("turn", frame)
      BY DEF Settles
    <3> QED BY <1>3, <2>1, <3>1
  <2>2. CASE matter = "question"
    <3>1. CASE question' = question
      BY <1>7, <2>2, <3>1 DEF Unmet
    <3>2. CASE question' # question
      <4>1. Settles("question", frame)
        BY <3>2 DEF Settles, Asking
      <4> QED BY <1>3, <2>2, <4>1
    <3> QED BY <3>1, <3>2
  <2>3. CASE matter = "commit"
    BY <2>3 DEF Unmet
  <2> QED BY <2>1, <2>2, <2>3 DEF Matters
<1>8. \A i \in DOMAIN more : ~Judges(more[i])
  BY <1>3, <1>5
<1>9. UNCHANGED <<app, sent, link, epoch, up, unheard>> /\ down' = down \o more
  BY <1>1, <1>2
<1> QED
  BY <1>3, <1>4, <1>6, <1>7, <1>8, <1>9, VolunteeredAccounts

\* Other writers, a freeze, a refresh, the agent and the end.
LEMMA OthersAccount ==
  ASSUME EditorInv, AccountsInv,
         \/ Save \/ OtherTab \/ Freeze \/ RefreshHost
         \/ AgentAnswers \/ AgentAsks \/ MatchChatFilter \/ AgentFilters \/ SessionEnds
  PROVE  AccountsInv'
<1>2. ASSUME UNCHANGED <<app, sent, link, epoch, up, turn, question, choicesClosed, unheard>>,
             NEW more, Sequence(more), \A i \in DOMAIN more : Bulletin(more[i]),
             down' = down \o more
      PROVE  AccountsInv'
  <2>1. /\ TalkHolds'
        /\ \A matter \in Matters :
             Unmet(matter)' => Unmet(matter) /\ (matter = "question" => question' = question)
    BY <1>2, UnmetKept
  <2>2. \A i \in DOMAIN more : \A matter \in Matters : ~WillWait(matter, more[i])'
    BY <1>2, RestfulFrames DEF Bulletin
  <2>3. \A i \in DOMAIN more : ~Judges(more[i])
    BY <1>2 DEF Bulletin
  <2> QED BY <1>2, <2>1, <2>2, <2>3, VolunteeredAccounts
<1>1. ASSUME UNCHANGED <<app, sent, link, epoch, up, down, turn, question, choicesClosed, unheard>>
      PROVE  AccountsInv'
  <2>1. PICK more : more = <<>> /\ down' = down \o more
    BY <1>1, NothingMore
  <2>2. Sequence(more) /\ DOMAIN more = {}
    BY <2>1, FewFrames
  <2> QED BY <1>1, <1>2, <2>1, <2>2
<1>3. CASE Save
  BY <1>1, <1>3 DEF Save, Writing, browserVars, talkVars
<1>4. CASE Freeze
  BY <1>1, <1>4 DEF Freeze, browserVars, wireVars, talkVars, historyVars
<1>5. CASE MatchChatFilter
  BY <1>1, <1>5 DEF MatchChatFilter, browserVars, wireVars, historyVars
<1>6. CASE OtherTab
  <2>1. /\ UNCHANGED <<app, sent, link, epoch, up, turn, question, choicesClosed, unheard>>
        /\ down' = down \o Broadcast(<<News>>)
    BY <1>6 DEF OtherTab, Writing, browserVars, talkVars
  <2>2. PICK frame : frame = News
    OBVIOUS
  <2>3. PICK more : more = Broadcast(<<frame>>)
    OBVIOUS
  <2>4. Sequence(more) /\ \A i \in DOMAIN more : more[i] = frame
    BY <2>3, Announced DEF Aired
  <2>5. Bulletin(frame)
    BY <2>2 DEF News, ModelFrame, DiagnosticFrame, Bulletin, Restful, Judges, Asking
  <2>6. down' = down \o more
    BY <2>1, <2>2, <2>3
  <2> QED BY <1>2, <2>1, <2>4, <2>5, <2>6
<1>7. CASE RefreshHost
  <2>1. /\ UNCHANGED <<app, sent, link, epoch, up, turn, question, choicesClosed, unheard>>
        /\ down' = down \/ down' = down \o <<ModelFrame(model', views')>>
    BY <1>7 DEF RefreshHost, Stays, Remains, browserVars, talkVars
  <2>2. PICK frame : frame = ModelFrame(model', views')
    OBVIOUS
  <2>3. PICK more : more = <<frame>>
    OBVIOUS
  <2>4. Sequence(more) /\ \A i \in DOMAIN more : more[i] = frame
    BY <2>3, FewFrames
  <2>5. Bulletin(frame)
    BY <2>2 DEF ModelFrame, Bulletin, Restful, Judges, Asking
  <2>6. down' = down \/ down' = down \o more
    BY <2>1, <2>2, <2>3
  <2> QED BY <1>1, <1>2, <2>1, <2>4, <2>5, <2>6
<1>8. CASE SessionEnds
  <2>1. PICK frame : frame = [kind |-> "closing"]
    OBVIOUS
  <2>2. PICK more : more = <<frame>>
    OBVIOUS
  <2>3. /\ UNCHANGED <<app, sent, link, epoch, up, turn, question, choicesClosed, unheard>>
        /\ down' = down \o more /\ frame.kind = "closing"
    BY <1>8, <2>1, <2>2 DEF SessionEnds, Remains, browserVars, serverVars, talkVars
  <2>4. Sequence(more) /\ \A i \in DOMAIN more : more[i] = frame
    BY <2>2, FewFrames
  <2>5. Bulletin(frame)
    BY <2>3 DEF Bulletin, Restful, Judges, Asking
  <2> QED BY <1>2, <2>3, <2>4, <2>5
<1>9. CASE AgentAnswers
  <2>1. PICK frame \in AgentFrames : AgentSays(frame) /\ UNCHANGED question
    BY <1>9 DEF AgentAnswers
  <2>2. frame.kind = "response" /\ ~Asking(frame)
    BY DEF AgentFrames, ChatResponse, Asking
  <2> QED BY <2>1, <2>2, AgentAccounts
<1>10. CASE AgentAsks
  <2>1. PICK choice :
          /\ AgentSays([kind |-> "response", type |-> "choice.present", choice |-> choice])
          /\ question' = IF choicesClosed THEN question ELSE choice
    BY <1>10 DEF AgentAsks
  <2>2. PICK frame : frame = [kind |-> "response", type |-> "choice.present", choice |-> choice]
    OBVIOUS
  <2>3. frame.kind = "response" /\ Asking(frame) /\ frame.choice = choice
    BY <2>2 DEF Asking
  <2> QED BY <2>1, <2>2, <2>3, AgentAccounts
<1>11. CASE AgentFilters
  <2>1. PICK query, matched, late :
          AgentSays(ChatResponse(query, matched, late)) /\ UNCHANGED question
    BY <1>11 DEF AgentFilters
  <2>2. PICK frame : frame = ChatResponse(query, matched, late)
    OBVIOUS
  <2>3. frame.kind = "response" /\ ~Asking(frame)
    BY <2>2 DEF ChatResponse, Asking
  <2> QED BY <2>1, <2>2, <2>3, AgentAccounts
<1> QED
  BY <1>3, <1>4, <1>5, <1>6, <1>7, <1>8, <1>9, <1>10, <1>11

\* Nothing is waited for when the page opens.
LEMMA AccountsStart ==
  ASSUME Init
  PROVE  AccountsInv
<1>1. /\ app.committing = FALSE /\ up = <<>> /\ down = <<>> /\ sent = {} /\ epoch = 0
      /\ link = "loading" /\ turn = 0 /\ question = None
  BY DEF Init, initialVisualAppState
<1>2. DOMAIN up = {} /\ DOMAIN down = {}
  BY <1>1, FewFrames
<1> QED
  BY <1>1, <1>2 DEF AccountsInv, OneCommit, SentThen, TalkHolds, Account

\* Every step keeps the accounts.
LEMMA AccountsStep ==
  ASSUME EditorInv, AccountsInv, [Next]_vars
  PROVE  AccountsInv'
<1>1. CASE Next
  BY <1>1, GesturesAccount, CommitAccounts, LoadAccounts, WireAccounts, DeliverAccounts,
     RepliesAccount, CommitsAccount, OthersAccount DEF Next
<1>2. CASE UNCHANGED vars
  <2>1. UNCHANGED <<app, sent, link, epoch, up, down, turn, question, choicesClosed, unheard>>
    BY <1>2 DEF vars, browserVars, wireVars, serverVars, talkVars, historyVars
  <2>2. PICK more : more = <<>> /\ down' = down \o more
    BY <2>1, NothingMore
  <2>3. Sequence(more) /\ DOMAIN more = {}
    BY <2>2, FewFrames
  <2>4. /\ TalkHolds'
        /\ \A matter \in Matters :
             Unmet(matter)' => Unmet(matter) /\ (matter = "question" => question' = question)
    BY <2>1, UnmetKept
  <2> QED BY <2>1, <2>2, <2>3, <2>4, VolunteeredAccounts
<1> QED
  BY <1>1, <1>2

(***************************************************************************)
(* When nothing is on its way between a browser at work and its host, the  *)
(* composer is dead only while a turn is open, a question still pending is *)
(* on screen, and the tray is dead only when the answer to its commit was  *)
(* lost with the connection the commit left on - but for the question and  *)
(* the hand-over whose input was refused since, which `unheard` names and  *)
(* the reducer does not give back: for any number of gestures, refusals    *)
(* with or without a freeze, other writers and lost connections            *)
(* (awaitingAgent, openChoices and committing of state.ts, settled by the  *)
(* frames of session-server.ts).                                           *)
(***************************************************************************)
THEOREM NothingWaitsInVain == Spec => []NothingWaitsForNothing
<1>1. AccountsInv => NothingWaitsForNothing
  <2> SUFFICES ASSUME AccountsInv, Quiet PROVE NothingWaitsForNothing
    BY DEF NothingWaitsForNothing
  <2>1. DOMAIN up = {} /\ DOMAIN down = {} /\ link = "open"
    BY FewFrames DEF Quiet
  <2>2. \A matter \in Matters : Waits(matter) => ~Unmet(matter)
    BY <2>1 DEF AccountsInv, Account, Accounted
  <2>3. app.awaitingAgent => turn > 0 \/ "turn" \in unheard
    BY <2>2 DEF Waits, Unmet, Matters, AccountsInv, TalkHolds
  <2>4. question # None => app.choices = question \/ "question" \in unheard
    BY <2>2 DEF Waits, Unmet, Matters
  <2>5. app.committing => \E commit \in sent : commit.epoch # epoch \/ ~commit.open
    BY <2>2 DEF Waits, Unmet, Matters
  <2> QED BY <2>3, <2>4, <2>5 DEF NothingWaitsForNothing
<1>2. Init => EditorInv /\ AccountsInv
  BY EditorStarts, AccountsStart
<1>3. EditorInv /\ AccountsInv /\ [Next]_vars => (EditorInv /\ AccountsInv)'
  BY EditorSteps, AccountsStep
<1> QED
  BY <1>1, <1>2, <1>3, PTL DEF Spec

-----------------------------------------------------------------------------
(***************************************************************************)
(* Whose rows leave the tray: by what a step makes of the pending ones.    *)
(***************************************************************************)
\* A gesture counts.
LEMMA GesturesCount ==
  ASSUME gestures \in Nat,
         \/ StageOperation \/ StageView \/ DeleteListedView \/ EditMembership
         \/ Discard \/ Clear \/ Undo \/ Redo \/ Commit
         \/ Navigate \/ Filter \/ ClearFilter \/ Chat \/ Delegate \/ Choose \/ End
  PROVE  gestures' = gestures + 1
<1>1. gestures' = gestures + 1
  BY DEF StageOperation, StageView, DeleteListedView, EditMembership, Discard, Clear,
         Undo, Redo, Commit, Navigate, Filter, ClearFilter, Chat, Delegate, Choose, End, Says,
         Tray, Gesture
<1> QED
  BY <1>1

\* Nothing else does.
LEMMA OthersCountNone ==
  ASSUME \/ Load \/ LoadFails \/ Connect \/ Drop \/ Retry \/ GiveUp \/ Deliver
         \/ Refuse \/ AnswerFilter \/ TakeTurn \/ TakeEnd
         \/ RefusePins \/ RefusePlan \/ Land
         \/ Save \/ OtherTab \/ Freeze \/ RefreshHost
         \/ AgentAnswers \/ AgentAsks \/ MatchChatFilter \/ AgentFilters \/ SessionEnds
  PROVE  gestures' = gestures
<1>1. CASE Load \/ LoadFails \/ Connect \/ Drop \/ Retry \/ GiveUp \/ Deliver
  BY <1>1 DEF Load, LoadFails, Connect, Drop, Retry, GiveUp, Deliver, boundVars
<1>2. CASE Refuse \/ AnswerFilter \/ TakeTurn \/ TakeEnd
  <2>1. CASE Refuse
    BY <2>1, Refusing DEF Remains, boundVars
  <2>2. CASE AnswerFilter \/ TakeTurn \/ TakeEnd
    BY <2>2 DEF AnswerFilter, TakeTurn, TakeEnd, Stays, Remains, boundVars
  <2> QED BY <1>2, <2>1, <2>2
<1>3. CASE RefusePins \/ RefusePlan \/ Land
  BY <1>3 DEF RefusePins, RefusePlan, Land, CommitNow, Stays, Remains, boundVars
<1>4. CASE Save \/ OtherTab \/ Freeze
  BY <1>4 DEF Save, OtherTab, Freeze, Writing
<1>5. CASE RefreshHost \/ SessionEnds
  BY <1>5 DEF RefreshHost, SessionEnds, Stays, Remains, boundVars
<1>6. CASE AgentAnswers \/ AgentAsks \/ MatchChatFilter \/ AgentFilters
  BY <1>6 DEF AgentAnswers, AgentAsks, MatchChatFilter, AgentFilters, AgentSays, boundVars
<1> QED
  BY <1>1, <1>2, <1>3, <1>4, <1>5, <1>6

\* A closed session keeps its rows too.
LEMMA SamePending ==
  ASSUME EditorInv, NEW next, next.pending = app.pending
  PROVE  visualAppReducer(app, next).pending = app.pending
BY DEF visualAppReducer

\* Snapshots and lost connections leave the rows alone.
LEMMA WireKeepsRows ==
  ASSUME EditorInv, Load \/ LoadFails \/ Connect \/ Drop \/ Retry \/ GiveUp
  PROVE  app'.pending = app.pending
<1>1. /\ ConnectionLost(app).pending = app.pending
      /\ SessionClosed(app).pending = app.pending
  BY StaysAlike DEF Alike
<1>2. CASE Load
  <2>1. Receive(ReadyFrame)
    BY <1>2 DEF Load
  <2>2. PICK frame : frame = ReadyFrame
    OBVIOUS
  <2>3. app' = visualAppReducer(app, Transition(app, frame, origin))
    BY <2>1, <2>2, ReceivedAccounts
  <2>4. frame.kind = "ready"
    BY <2>2 DEF ReadyFrame
  <2>5. Transition(app, frame, origin).pending = app.pending
    BY <2>4, AppFields DEF Transition, SessionLoaded, EditorInv, Shapes
  <2> QED BY <2>3, <2>5, SamePending
<1>3. CASE LoadFails
  BY <1>1, <1>3, SamePending DEF LoadFails, Render
<1>4. CASE Connect
  BY <1>4 DEF Connect, Render
<1>5. CASE Drop \/ GiveUp
  BY <1>1, <1>5, SamePending DEF Drop, GiveUp
<1>6. CASE Retry
  BY <1>6 DEF Retry, browserVars
<1> QED
  BY <1>2, <1>3, <1>4, <1>5, <1>6

\* What the host does touches no tray.
LEMMA HostKeepsRows ==
  ASSUME \/ Refuse \/ AnswerFilter \/ TakeTurn \/ TakeEnd
         \/ RefusePins \/ RefusePlan \/ Land
         \/ Save \/ OtherTab \/ Freeze \/ RefreshHost
         \/ AgentAnswers \/ AgentAsks \/ MatchChatFilter \/ AgentFilters \/ SessionEnds
  PROVE  app' = app
<1>1. CASE Refuse \/ AnswerFilter \/ TakeTurn \/ TakeEnd
  <2>1. CASE Refuse
    BY <2>1, Refusing DEF Remains, browserVars
  <2>2. CASE AnswerFilter \/ TakeTurn \/ TakeEnd
    BY <2>2 DEF AnswerFilter, TakeTurn, TakeEnd, Stays, Remains, browserVars
  <2> QED BY <1>1, <2>1, <2>2
<1>2. CASE RefusePins \/ RefusePlan \/ Land
  BY <1>2 DEF RefusePins, RefusePlan, Land, CommitNow, Stays, Remains, browserVars
<1>3. CASE Save \/ OtherTab \/ Freeze
  BY <1>3 DEF Save, OtherTab, Freeze, Writing, browserVars
<1>4. CASE RefreshHost \/ SessionEnds
  BY <1>4 DEF RefreshHost, SessionEnds, Stays, Remains, browserVars
<1>5. CASE AgentAnswers \/ AgentAsks \/ MatchChatFilter \/ AgentFilters
  BY <1>5 DEF AgentAnswers, AgentAsks, MatchChatFilter, AgentFilters, AgentSays, browserVars
<1> QED
  BY <1>1, <1>2, <1>3, <1>4, <1>5

\* A frame replaces a row by one for the same field, or empties the tray
\* after a commit that landed, or leaves the rows alone.
LEMMA FramesKeepRows ==
  ASSUME EditorInv, AccountsInv, Deliver
  PROVE  GoneByName
<1>1. PICK frame : frame = down[1]
  OBVIOUS
<1>2. /\ link = "open" /\ down # <<>>
      /\ Receive(frame)
      /\ sent' = IF frame.kind = "apply-result" THEN {} ELSE sent
  BY <1>1 DEF Deliver
<1>3. app.lifecycle # "closed"
  BY <1>2 DEF EditorInv, Opens
<1>4. FrameTyped(frame) /\ 1 \in DOMAIN down
  BY <1>1, <1>2, Tailed DEF EditorInv, Shapes
<1>5. app' = Transition(app, frame, origin)
  BY <1>2, <1>3, ReceivedAccounts DEF visualAppReducer
<1>6. ASSUME app'.pending = app.pending PROVE GoneByName
  BY <1>6 DEF GoneByName
<1>7. DOMAIN app = DOMAIN initialVisualAppState
  BY DEF EditorInv, Shapes
<1>8. CASE frame.kind \in {"ready", "model", "rejected", "closing", "filter-result"}
  <2>1. \/ app' = SessionLoaded(app, frame.snapshot)
        \/ app' = ModelReceived(app, frame.model, frame.views)
        \/ app' = InputRefused(app, frame.refused, frame.frozen)
        \/ app' = SessionClosed(app)
        \/ app' = FilterApplied(app, frame.query, frame.matched, origin)
    BY <1>5, <1>8 DEF Transition
  <2>2. app'.pending = app.pending
    BY <1>7, <2>1, AppFields
       DEF SessionLoaded, ModelReceived, InputRefused, SessionClosed, FilterApplied
  <2> QED BY <1>6, <2>2
<1>9. CASE frame.kind = "apply-result"
  <2>1. app' = ChangesetCommitted(app) \/ app' = ApplyFailed(app)
    BY <1>5, <1>9 DEF Transition
  <2>2. CASE app' = ApplyFailed(app)
    <3>1. app'.pending = app.pending
      BY <1>7, <2>2, AppFields DEF ApplyFailed
    <3> QED BY <1>6, <3>1
  <2>3. CASE app' = ChangesetCommitted(app)
    <3>1. app'.pending = EmptyChangeset
      BY <1>7, <2>3, AppFields DEF ChangesetCommitted
    <3>2. Rows(app'.pending) = {}
      BY <3>1 DEF EmptyChangeset, Rows
    <3>3. sent # {}
      BY <1>1, <1>4, <1>9 DEF AccountsInv, OneCommit, Judges
    <3> QED BY <1>2, <1>9, <3>2, <3>3 DEF GoneByName
  <2> QED BY <2>1, <2>2, <2>3
<1>10. CASE frame.kind = "response"
  <2> DEFINE s == TurnAnswered(app)
  <2>1. /\ DOMAIN s = DOMAIN initialVisualAppState
        /\ s.pending = app.pending
    BY <1>7, AppFields DEF TurnAnswered
  <2>2. app' = Responded(app, frame)
    BY <1>5, <1>10 DEF Transition
  <2>3. \/ app' = s
        \/ app' = FilterApplied(s, frame.query, frame.matched, "chat")
        \/ app' = ChoicePresented(app, frame.choice)
        \/ app' = ChangesetStaged(s, frame.path, frame.field)
    BY <1>4, <1>10, <2>2 DEF Responded, FrameTyped
  <2> HIDE DEF s
  <2>4. CASE app' = s \/ app' = FilterApplied(s, frame.query, frame.matched, "chat")
                      \/ app' = ChoicePresented(app, frame.choice)
    <3>1. app'.pending = app.pending
      BY <1>7, <2>1, <2>4, AppFields DEF FilterApplied, ChoicePresented, TurnAnswered
    <3> QED BY <1>6, <3>1
  <2>5. CASE app' = ChangesetStaged(s, frame.path, frame.field)
    <3>1. PICK proposed : proposed = Operation(frame.path, frame.field, SeenDocument(s, frame.path))
      OBVIOUS
    <3>2. proposed.path = frame.path /\ proposed.field = frame.field
      BY <3>1 DEF Operation
    <3>3. PICK others : others = {row \in app.pending.operations :
                                   ~(row.path = frame.path /\ row.field = frame.field)}
      OBVIOUS
    <3>4. app'.pending = Restage(app.pending, s.model, others \cup {proposed},
                                 app.pending.viewOperations)
      BY <2>1, <2>5, <3>1, <3>3, AppFields DEF ChangesetStaged, Staged
    <3>5. Rows(app'.pending) = others \cup {proposed} \cup app.pending.viewOperations
      BY <3>4 DEF Restage, Rows
    <3>6. \A row \in Rows(app.pending) \ Rows(app'.pending) :
            row.path = frame.path /\ row.field = frame.field
      BY <3>3, <3>5 DEF Rows
    <3> QED BY <3>2, <3>5, <3>6 DEF GoneByName, Replaces
  <2> QED BY <2>3, <2>4, <2>5
<1> QED
  BY <1>4, <1>8, <1>9, <1>10 DEF FrameTyped

(***************************************************************************)
(* A staged row leaves the tray by a gesture of the reviewer, by a row of  *)
(* the agent's for the same field, or with a commit of this browser's that *)
(* landed: no refusal, snapshot, lost connection or end of the session     *)
(* takes one away, for any number of gestures, other writers and lost      *)
(* connections (the reducer of state.ts).                                  *)
(***************************************************************************)
THEOREM RowsStayPut == Spec => RowsLeaveOnlyByName
<1>1. Init => gestures \in Nat
  BY DEF Init
<1>2. ASSUME gestures \in Nat, EditorInv, AccountsInv, [Next]_vars
      PROVE  gestures' \in Nat /\ [GoneByName]_vars
  <2>1. CASE \/ StageOperation \/ StageView \/ DeleteListedView \/ EditMembership
             \/ Discard \/ Clear \/ Undo \/ Redo \/ Commit
             \/ Navigate \/ Filter \/ ClearFilter \/ Chat \/ Delegate \/ Choose \/ End
    <3>1. gestures' = gestures + 1
      BY <1>2, <2>1, GesturesCount
    <3> QED BY <1>2, <3>1 DEF GoneByName
  <2>2. CASE Load \/ LoadFails \/ Connect \/ Drop \/ Retry \/ GiveUp
    <3>1. gestures' = gestures
      BY <2>2, OthersCountNone
    <3>2. app'.pending = app.pending
      BY <1>2, <2>2, WireKeepsRows
    <3> QED BY <1>2, <3>1, <3>2 DEF GoneByName
  <2>3. CASE Deliver
    <3>1. gestures' = gestures
      BY <2>3, OthersCountNone
    <3> QED BY <1>2, <2>3, <3>1, FramesKeepRows
  <2>4. CASE \/ Refuse \/ AnswerFilter \/ TakeTurn \/ TakeEnd
             \/ RefusePins \/ RefusePlan \/ Land
             \/ Save \/ OtherTab \/ Freeze \/ RefreshHost
             \/ AgentAnswers \/ AgentAsks \/ MatchChatFilter \/ AgentFilters \/ SessionEnds
    <3>1. gestures' = gestures
      BY <2>4, OthersCountNone
    <3>2. app' = app
      BY <2>4, HostKeepsRows
    <3> QED BY <1>2, <3>1, <3>2 DEF GoneByName
  <2>5. CASE UNCHANGED vars
    BY <1>2, <2>5 DEF vars, boundVars
  <2> QED BY <1>2, <2>1, <2>2, <2>3, <2>4, <2>5 DEF Next
<1>3. Init => EditorInv /\ AccountsInv
  BY EditorStarts, AccountsStart
<1>4. EditorInv /\ AccountsInv /\ [Next]_vars => (EditorInv /\ AccountsInv)'
  BY EditorSteps, AccountsStep
<1>5. gestures \in Nat /\ EditorInv /\ AccountsInv /\ [Next]_vars
        => (gestures \in Nat)' /\ [GoneByName]_vars
  BY <1>2
<1> QED
  BY <1>1, <1>3, <1>4, <1>5, PTL DEF Spec, RowsLeaveOnlyByName

-----------------------------------------------------------------------------
(***************************************************************************)
(* The third argument is about what the screen shows once nothing is on    *)
(* its way.  The documents on screen when a frame arrives are known before *)
(* it does: the frames carry them in order, so the answer to a query is    *)
(* computed from the documents that will be on screen then.  A filter      *)
(* shows the documents on screen, or a query is on its way that will; and  *)
(* the last query on its way, when the view asked, is the one the view is  *)
(* listed with.                                                            *)
(***************************************************************************)
\* Nothing is not a view, a filter or a question: none of them has a query.
NoneHasNoQuery == \A r : "query" \in DOMAIN r => r # None

Listing(frame) == IF frame.kind = "ready" THEN frame.snapshot.views ELSE frame.views
Listed(v) == {p \in ViewPaths : v[p] # None}

Answers(frame) == frame.kind = "filter-result"
Brings(frame) ==
  \/ Answers(frame)
  \/ frame.kind = "response" /\ frame.type = "chat.response" /\ frame.query # None

\* What the agent's filter was matched against may be gone.
Dated(frame) == Brings(frame) /\ (Answers(frame) \/ ~frame.late)

\* docs[i] is what is on screen when the frame i arrives, if m was at first;
\* m2 is at the end.  What a frame brings was matched against it, unless late.
Course(docs, frames, m, m2) ==
  /\ docs[1] = m.docs
  /\ docs[Len(frames) + 1] = m2.docs
  /\ \A i \in DOMAIN frames :
       /\ docs[i + 1] = IF Carries(frames[i]) THEN Carried(frames[i]).docs ELSE docs[i]
       /\ Dated(frames[i]) => frames[i].matched = <<frames[i].query, docs[i]>>

Leads(frames, m, m2) == \E docs : Course(docs, frames, m, m2)

Known == link = "open" => Leads(down, app.model, model)

ReadyFirst == \A i \in DOMAIN down : down[i].kind = "ready" => i = 1

Refuses(frame) == frame.kind = "rejected" /\ frame.refused = "filter.query"

\* A query was refused, and the browser has learnt it or is about to.
Off == "refusal" \in restored \/ \E i \in DOMAIN down : Refuses(down[i])

Unopened ==
  link = "loading" => /\ app = initialVisualAppState /\ origin = "panel" /\ applied = None
                      /\ up = <<>>

Unseen == link \in {"connecting", "waiting"} => "snapshot" \in restored

\* A query of this connection's, still to be answered.
Awaits(i) == up[i].type = "filter.query" /\ up[i].epoch = epoch

Undisturbed == link = "open" /\ ~Off

Matching ==
  Undisturbed /\ restored \cap {"focus", "snapshot", "late"} = {} /\ app.activeFilter # None =>
    \/ MatchesTheModel
    \/ \E i \in DOMAIN up : Awaits(i)
    \/ \E i \in DOMAIN down : Brings(down[i])

\* Who only looks around never loses a view: the lists of views grow.
Grows ==
  /\ DOMAIN views = ViewPaths
  /\ Initial \in Listed(views) /\ Listed(app.views) \subseteq Listed(views)
  /\ \A i \in DOMAIN down : Carries(down[i]) =>
       /\ Initial \in Listed(Listing(down[i]))
       /\ Listed(app.views) \subseteq Listed(Listing(down[i]))
       /\ Listed(Listing(down[i])) \subseteq Listed(views)
       /\ \A j \in DOMAIN down : i < j /\ Carries(down[j]) =>
            Listed(Listing(down[i])) \subseteq Listed(Listing(down[j]))

Looks ==
  /\ \A i \in DOMAIN up : up[i].type # "changeset.commit"
  /\ Grows
  /\ app.activeView \in Listed(app.views) \cup {None}
  /\ app.focusReturn # None => app.focusReturn.activeView \in Listed(app.views) \cup {None}
  /\ link = "open" => applied \in {None, app.activeView}

Places ==
  IF repertoire = "screen" THEN Looks
  ELSE app.activeView \in {None, Initial} /\ applied \in {None, app.activeView}

\* The last query on its way, or the last answer to one, is q's.
LastAsked(q) ==
  /\ \A i \in DOMAIN up :
       Awaits(i) /\ (\A j \in DOMAIN up : Awaits(j) => j <= i) => up[i].query = q
  /\ (\A i \in DOMAIN up : ~Awaits(i)) =>
       \A i \in DOMAIN down :
         Answers(down[i]) /\ (\A j \in DOMAIN down : Answers(down[j]) => j <= i) =>
           down[i].query = q

NothingAsked ==
  (\A i \in DOMAIN up : ~Awaits(i)) /\ (\A i \in DOMAIN down : ~Answers(down[i]))

Steady == Undisturbed /\ restored = {} /\ ListedView(app.views, app.activeView)

Showing ==
  Steady =>
    LET q == app.views[app.activeView].query
    IN  /\ origin = "view" => LastAsked(q)
        /\ NothingAsked /\ app.activeFilter # None /\ app.activeFilter.source = "view"
             => app.activeFilter.query = q

ScreenInv ==
  Known /\ ReadyFirst /\ Unopened /\ Unseen /\ Matching /\ Places /\ Showing

(***************************************************************************)
(* What the frames on their way lead to.                                   *)
(***************************************************************************)
LEMMA LeadsNowhere ==
  ASSUME NEW m, NEW m2, m2.docs = m.docs
  PROVE  Leads(<<>>, m, m2)
<1> DEFINE docs == [i \in {1} |-> m.docs]
<1>1. Len(<<>>) = 0 /\ DOMAIN <<>> = {}
  BY FewFrames
<1>2. docs[1] = m.docs /\ docs[Len(<<>>) + 1] = m.docs
  BY <1>1
<1>3. Course(docs, <<>>, m, m2)
  BY <1>1, <1>2 DEF Course
<1> QED
  BY <1>3 DEF Leads

LEMMA LeadsOnce ==
  ASSUME NEW frame, NEW m, NEW m2,
         m2.docs = IF Carries(frame) THEN Carried(frame).docs ELSE m.docs,
         Dated(frame) => frame.matched = <<frame.query, m.docs>>
  PROVE  Leads(<<frame>>, m, m2)
<1> DEFINE docs == [i \in {1, 2} |-> IF i = 1 THEN m.docs ELSE m2.docs]
<1>1. PICK frames : frames = <<frame>>
  OBVIOUS
<1>2. DOMAIN frames = {1} /\ frames[1] = frame /\ Len(frames) = 1
  BY <1>1, FewFrames
<1>3. docs[1] = m.docs /\ docs[2] = m2.docs
  OBVIOUS
<1> HIDE DEF docs
<1>4. Course(docs, frames, m, m2)
  BY <1>2, <1>3 DEF Course
<1> QED
  BY <1>1, <1>4 DEF Leads

\* One after the other.
LEMMA LeadsOn ==
  ASSUME NEW s, NEW r, NEW t, Extends(t, s, r), NEW m, NEW m1, NEW m2,
         Leads(s, m, m1), Leads(r, m1, m2)
  PROVE  Leads(t, m, m2)
<1>1. PICK first : Course(first, s, m, m1)
  BY DEF Leads
<1>2. PICK second : Course(second, r, m1, m2)
  BY DEF Leads
<1>3. /\ Len(s) \in Nat /\ Len(r) \in Nat /\ DOMAIN s = 1..Len(s) /\ DOMAIN r = 1..Len(r)
      /\ DOMAIN t = 1..(Len(s) + Len(r)) /\ Len(t) = Len(s) + Len(r)
      /\ \A i \in DOMAIN s : t[i] = s[i]
      /\ \A i \in DOMAIN t : \/ i \in DOMAIN s
                             \/ i > Len(s) /\ i - Len(s) \in DOMAIN r /\ t[i] = r[i - Len(s)]
  <2>1. /\ Sequence(t) /\ Len(s) \in Nat /\ Len(r) \in Nat
        /\ DOMAIN t = 1..(Len(s) + Len(r))
    BY DEF Extends
  <2>2. Len(t) = Len(s) + Len(r)
    <3>1. DOMAIN t = 1..Len(t) /\ Len(t) \in Nat
      BY <2>1, SequenceShape
    <3> QED BY <2>1, <3>1
  <2> QED BY <2>2 DEF Extends
<1> DEFINE n == Len(s)
           docs == [i \in 1..(n + Len(r) + 1) |-> IF i <= n THEN first[i] ELSE second[i - n]]
<1>4. first[n + 1] = second[1] /\ first[1] = m.docs /\ second[Len(r) + 1] = m2.docs
  BY <1>1, <1>2 DEF Course
<1>11. \A i \in 1..(n + Len(r) + 1) : docs[i] = IF i <= n THEN first[i] ELSE second[i - n]
  OBVIOUS
<1> HIDE DEF docs
<1>5. \A i \in 1..(n + 1) : docs[i] = first[i]
  <2> SUFFICES ASSUME NEW i \in 1..(n + 1) PROVE docs[i] = first[i]
    OBVIOUS
  <2> HIDE DEF n
  <2>0. n \in Nat /\ Len(r) \in Nat /\ i \in Nat
    BY <1>3 DEF n
  <2>1. i \in 1..(n + Len(r) + 1)
    BY <2>0
  <2>2. CASE i <= n
    BY <1>11, <2>1, <2>2
  <2>3. CASE i = n + 1
    <3>1. i - n = 1 /\ ~(i <= n)
      BY <2>0, <2>3
    <3>2. docs[i] = second[1]
      BY <1>11, <2>1, <3>1
    <3> QED BY <1>4, <2>3, <3>2
  <2>4. i <= n \/ i = n + 1
    BY <2>0
  <2> QED BY <2>2, <2>3, <2>4
<1>6. \A i \in 1..(Len(r) + 1) : docs[n + i] = second[i]
  <2> SUFFICES ASSUME NEW i \in 1..(Len(r) + 1) PROVE docs[n + i] = second[i]
    OBVIOUS
  <2> HIDE DEF n
  <2>0. n \in Nat /\ Len(r) \in Nat
    BY <1>3 DEF n
  <2>1. n + i \in 1..(n + Len(r) + 1) /\ ~(n + i <= n) /\ (n + i) - n = i
    BY <2>0
  <2> QED BY <1>11, <2>1
<1>7. docs[1] = m.docs
  BY <1>3, <1>4, <1>5
<1>8. docs[Len(t) + 1] = m2.docs
  <2>1. Len(t) + 1 = n + (Len(r) + 1) /\ Len(r) + 1 \in 1..(Len(r) + 1)
    BY <1>3
  <2>2. docs[n + (Len(r) + 1)] = second[Len(r) + 1]
    BY <1>6, <2>1
  <2> QED BY <1>4, <2>1, <2>2
<1>9. ASSUME NEW i \in DOMAIN t
      PROVE  /\ docs[i + 1] = IF Carries(t[i]) THEN Carried(t[i]).docs ELSE docs[i]
             /\ Dated(t[i]) => t[i].matched = <<t[i].query, docs[i]>>
  <2>1. CASE i \in DOMAIN s
    <3>1. i \in 1..(n + 1) /\ i + 1 \in 1..(n + 1) /\ t[i] = s[i]
      BY <1>3, <2>1
    <3>2. docs[i] = first[i] /\ docs[i + 1] = first[i + 1]
      BY <1>5, <3>1
    <3> QED BY <1>1, <2>1, <3>1, <3>2 DEF Course
  <2>2. CASE i \notin DOMAIN s
    <3>1. PICK k : k = i - n
      OBVIOUS
    <3>2. k \in DOMAIN r /\ t[i] = r[k]
      BY <1>3, <2>2, <3>1
    <3>3. i = n + k /\ i + 1 = n + (k + 1) /\ k \in 1..(Len(r) + 1) /\ k + 1 \in 1..(Len(r) + 1)
      <4>1. i \in Nat /\ k \in 1..Len(r) /\ n \in Nat /\ Len(r) \in Nat
        BY <1>3, <3>2
      <4> HIDE DEF n
      <4>2. i = n + k
        BY <3>1, <4>1
      <4>3. i + 1 = n + (k + 1)
        BY <4>1, <4>2
      <4>4. k \in 1..(Len(r) + 1) /\ k + 1 \in 1..(Len(r) + 1)
        BY <4>1
      <4> QED BY <4>2, <4>3, <4>4
    <3>4. docs[i] = second[k] /\ docs[i + 1] = second[k + 1]
      BY <1>6, <3>3
    <3> QED BY <1>2, <3>2, <3>4 DEF Course
  <2> QED BY <2>1, <2>2
<1>10. Course(docs, t, m, m2)
  BY <1>7, <1>8, <1>9 DEF Course
<1> QED
  BY <1>10 DEF Leads

\* The tail of a sequence, one place earlier.
Shift(s, t) ==
  /\ 1 \in DOMAIN s /\ Sequence(t) /\ Len(s) = Len(t) + 1
  /\ \A i \in DOMAIN s : i \in Nat /\ i >= 1
  /\ \A i \in DOMAIN t : i \in Nat /\ i >= 1 /\ i + 1 \in DOMAIN s /\ t[i] = s[i + 1]
  /\ \A i \in DOMAIN s : i # 1 => i - 1 \in DOMAIN t /\ t[i - 1] = s[i]

LEMMA Shifted ==
  ASSUME NEW s, Sequence(s), s # <<>>
  PROVE  Shift(s, Tail(s))
<1> DEFINE t == Tail(s)
<1>1. /\ 1 \in DOMAIN s /\ Sequence(t) /\ Len(t) = Len(s) - 1
      /\ \A i \in DOMAIN t : i + 1 \in DOMAIN s /\ t[i] = s[i + 1]
  BY Tailed
<1>2. DOMAIN s = 1..Len(s) /\ Len(s) \in Nat
  BY SequenceShape
<1>3. DOMAIN t = 1..Len(t) /\ Len(t) \in Nat
  BY <1>1, SequenceShape
<1>4. ASSUME NEW i \in DOMAIN s, i # 1
      PROVE  i - 1 \in DOMAIN t /\ t[i - 1] = s[i]
  <2>1. i - 1 \in 1..Len(t) /\ (i - 1) + 1 = i
    BY <1>1, <1>2, <1>4
  <2> QED BY <1>1, <1>3, <2>1
<1>5. Len(s) = Len(t) + 1
  BY <1>1, <1>2
<1> HIDE DEF t
<1>6. Shift(s, t)
  BY <1>1, <1>2, <1>3, <1>4, <1>5 DEF Shift
<1> QED
  BY <1>6 DEF t

\* A frame arrives: what it brings was matched against what is on screen.
LEMMA LeadsAway ==
  ASSUME NEW s, NEW t, Shift(s, t), NEW m, NEW m2, Leads(s, m, m2),
         NEW m1, m1.docs = IF Carries(s[1]) THEN Carried(s[1]).docs ELSE m.docs
  PROVE  /\ Leads(t, m1, m2)
         /\ Dated(s[1]) => s[1].matched = <<s[1].query, m.docs>>
<1>1. PICK docs : Course(docs, s, m, m2)
  BY DEF Leads
<1>2. /\ 1 \in DOMAIN s /\ Sequence(t) /\ Len(s) = Len(t) + 1
      /\ \A i \in DOMAIN t : i \in Nat /\ i >= 1 /\ i + 1 \in DOMAIN s /\ t[i] = s[i + 1]
  BY DEF Shift
<1>3. Len(t) \in Nat /\ DOMAIN t = 1..Len(t)
  BY <1>2, SequenceShape
<1>4. docs[1] = m.docs /\ docs[1 + 1] = m1.docs /\ docs[Len(s) + 1] = m2.docs
  BY <1>1, <1>2 DEF Course
<1> DEFINE later == [i \in 1..(Len(t) + 1) |-> docs[i + 1]]
<1>5. \A i \in 1..(Len(t) + 1) : later[i] = docs[i + 1]
  OBVIOUS
<1> HIDE DEF later
<1>6. later[1] = m1.docs /\ later[Len(t) + 1] = m2.docs
  BY <1>2, <1>3, <1>4, <1>5
<1>7. ASSUME NEW i \in DOMAIN t
      PROVE  /\ later[i + 1] = IF Carries(t[i]) THEN Carried(t[i]).docs ELSE later[i]
             /\ Dated(t[i]) => t[i].matched = <<t[i].query, later[i]>>
  <2>1. i \in 1..(Len(t) + 1) /\ i + 1 \in 1..(Len(t) + 1)
    BY <1>3
  <2>2. later[i] = docs[i + 1] /\ later[i + 1] = docs[(i + 1) + 1]
    BY <1>5, <2>1
  <2>3. i + 1 \in DOMAIN s /\ t[i] = s[i + 1]
    BY <1>2
  <2> QED BY <1>1, <2>2, <2>3 DEF Course
<1>8. Course(later, t, m1, m2)
  BY <1>6, <1>7 DEF Course
<1>9. Dated(s[1]) => s[1].matched = <<s[1].query, m.docs>>
  BY <1>1, <1>2, <1>4 DEF Course
<1> QED
  BY <1>8, <1>9 DEF Leads

-----------------------------------------------------------------------------
(***************************************************************************)
(* What a render asks.                                                     *)
(***************************************************************************)
\* The last input on its way asks q, and makes up for all that moved.
AskedLast(q) ==
  /\ link' = "open" /\ restored' = {}
  /\ Len(up') \in DOMAIN up' /\ \A j \in DOMAIN up' : j <= Len(up')
  /\ up'[Len(up')].type = "filter.query" /\ up'[Len(up')].epoch = epoch'
  /\ up'[Len(up')].query = q

Applies ==
  /\ applied' = IF app'.activeView = None THEN None ELSE applied
  /\ link' = "open" /\ ListedView(app'.views, app'.activeView) => app'.activeView = applied

\* The view asks for itself, or nothing is asked.
Reasked ==
  /\ AskedLast(app'.views[app'.activeView].query)
  /\ origin' = "view" /\ applied' = app'.activeView

Unasking(moved, asker) ==
  /\ restored' = restored \cup moved
  /\ \A i \in DOMAIN up : i \in DOMAIN up' /\ up'[i] = up[i]
  /\ \A i \in DOMAIN up' : i \in DOMAIN up \/ up'[i].type # "filter.query"
  /\ origin' = asker /\ Applies

\* The end of a sequence that something was put to.
LEMMA EndOf ==
  ASSUME NEW s, Sequence(s), NEW r, Sequence(r), NEW e
  PROVE  LET t == s \o Append(r, e)
         IN  /\ Len(t) \in DOMAIN t /\ Len(t) > Len(s) /\ t[Len(t)] = e
             /\ \A j \in DOMAIN t : j <= Len(t)
<1>1. PICK more : more = Append(r, e)
  OBVIOUS
<1>2. /\ Sequence(more) /\ Len(more) = Len(r) + 1 /\ more[Len(r) + 1] = e
      /\ Len(r) \in Nat /\ DOMAIN more = 1..(Len(r) + 1)
  BY <1>1, Appended, SequenceShape
<1>3. PICK t : t = s \o more
  OBVIOUS
<1>4. Extends(t, s, more)
  BY <1>2, <1>3, Extended
<1>5. Sequence(t) /\ Len(s) \in Nat /\ DOMAIN t = 1..(Len(s) + Len(more))
  BY <1>4 DEF Extends
<1>6. Len(t) = Len(s) + Len(more) /\ DOMAIN t = 1..Len(t) /\ Len(t) \in Nat
  <2>1. DOMAIN t = 1..Len(t) /\ Len(t) \in Nat
    BY <1>5, SequenceShape
  <2> QED BY <1>2, <1>5, <2>1
<1>7. t[Len(s) + (Len(r) + 1)] = more[Len(r) + 1]
  BY <1>2, <1>4 DEF Extends
<1>8. Len(t) \in DOMAIN t /\ Len(t) > Len(s) /\ \A j \in DOMAIN t : j <= Len(t)
  BY <1>2, <1>5, <1>6
<1>9. t[Len(t)] = e
  BY <1>2, <1>6, <1>7
<1> QED
  BY <1>1, <1>3, <1>8, <1>9

\* A query put to the inputs is the last one asked.
LEMMA Asking1 ==
  ASSUME EditorInv, epoch' = epoch, link' = "open", NEW inputs, Sequence(inputs), NEW q,
         up' = up \o Append(inputs, Asked(q)), NEW moved, Restores(moved)
  PROVE  AskedLast(q)
<1>1. PICK asked : asked = Asked(q)
  OBVIOUS
<1>2. asked.type = "filter.query" /\ asked.epoch = epoch /\ asked.query = q
  BY <1>1 DEF Asked
<1>3. PICK old, new : old = up /\ new = up' /\ new = old \o Append(inputs, asked)
  BY <1>1
<1>4. Sequence(old)
  BY <1>3 DEF EditorInv, Shapes
<1>5. /\ Len(new) \in DOMAIN new /\ Len(new) > Len(old) /\ new[Len(new)] = asked
      /\ \A j \in DOMAIN new : j <= Len(new)
  BY <1>3, <1>4, EndOf
<1>6. Asks
  BY <1>2, <1>3, <1>5 DEF Asks
<1>7. restored' = {}
  BY <1>6 DEF Restores
<1> QED
  BY <1>2, <1>3, <1>5, <1>7 DEF AskedLast

\* Whether the view asks.
LEMMA WhoAsks ==
  ASSUME NEW next, NEW inputs, NEW asker, Render(next, inputs, asker)
  PROVE  /\ app' = next
         /\ \/ /\ link' = "open" /\ origin' = "view" /\ applied' = next.activeView
               /\ up' = up \o Append(inputs, Asked(next.views[next.activeView].query))
            \/ /\ origin' = asker /\ Applies
               /\ up' = IF link' = "open" THEN up \o inputs ELSE up
<1> DEFINE view == ViewNeedingApplication(next, applied, link' = "open")
<1>1. app' = next
  BY DEF Render
<1>2. CASE view = None
  <2>1. ~(link' = "open" /\ next.activeView # applied /\ ListedView(next.views, next.activeView))
    BY <1>2, PathsAssumption DEF ViewNeedingApplication, ListedView
  <2>2. /\ applied' = IF next.activeView = None THEN None ELSE applied
        /\ origin' = asker /\ Sent(inputs, link' = "open")
    BY <1>2 DEF Render
  <2> QED BY <1>1, <2>1, <2>2 DEF Applies, Sent
<1>3. CASE view # None
  <2>1. link' = "open" /\ view = next.activeView
    BY <1>3 DEF ViewNeedingApplication
  <2>2. /\ applied' = view /\ origin' = "view"
        /\ Sent(Append(inputs, Asked(next.views[view].query)), link' = "open")
    BY <1>3 DEF Render
  <2> QED BY <1>1, <2>1, <2>2 DEF Sent
<1> QED
  BY <1>2, <1>3

\* A render that is given nothing to ask.
LEMMA Rerendered ==
  ASSUME EditorInv, epoch' = epoch, NEW next, NEW inputs, Sequence(inputs),
         \A k \in DOMAIN inputs : inputs[k].type # "filter.query",
         NEW asker, Render(next, inputs, asker), NEW moved, Restores(moved)
  PROVE  app' = next /\ (Reasked \/ Unasking(moved, asker))
<1>1. app' = next
  BY WhoAsks
<1>2. CASE /\ link' = "open" /\ origin' = "view" /\ applied' = next.activeView
           /\ up' = up \o Append(inputs, Asked(next.views[next.activeView].query))
  BY <1>1, <1>2, Asking1 DEF Reasked
<1>3. CASE /\ origin' = asker /\ Applies
           /\ up' = IF link' = "open" THEN up \o inputs ELSE up
  <2>1. Sequence(up) /\ Len(up) \in Nat
    BY SequenceShape DEF EditorInv, Shapes
  <2>2. CASE link' # "open"
    <3>1. up' = up /\ ~Asks
      BY <1>3, <2>1, <2>2 DEF Asks
    <3> QED BY <1>1, <1>3, <3>1 DEF Restores, Unasking
  <2>3. CASE link' = "open"
    <3>1. PICK old, new : old = up /\ new = up' /\ new = old \o inputs
      BY <1>3, <2>3
    <3>2. Extends(new, old, inputs)
      BY <2>1, <3>1, Extended
    <3>3. /\ \A i \in DOMAIN old : i \in DOMAIN new /\ new[i] = old[i]
          /\ \A i \in DOMAIN new : i \in DOMAIN old \/ new[i].type # "filter.query"
      BY <3>2 DEF Extends
    <3>4. DOMAIN new = 1..Len(new) /\ Len(new) \in Nat /\ DOMAIN old = 1..Len(old)
      BY <3>2, SequenceShape DEF Extends
    <3>5. Len(new) > Len(old) => Len(new) \in DOMAIN new /\ Len(new) \notin DOMAIN old
      BY <2>1, <3>1, <3>4
    <3>6. ~Asks
      BY <3>1, <3>3, <3>5 DEF Asks
    <3>7. restored' = restored \cup moved
      BY <3>6 DEF Restores
    <3> QED BY <1>1, <1>3, <3>1, <3>3, <3>7 DEF Unasking
  <2> QED BY <2>2, <2>3
<1> QED
  BY <1>2, <1>3, WhoAsks

\* A render that is given a query to ask.
LEMMA RerenderedAsking ==
  ASSUME EditorInv, epoch' = epoch, NEW next, NEW q, NEW asker,
         Render(next, <<Asked(q)>>, asker), NEW moved, Restores(moved)
  PROVE  /\ app' = next
         /\ \/ Reasked
            \/ AskedLast(q) /\ origin' = asker /\ Applies
            \/ link' # "open" /\ Unasking(moved, asker)
<1>1. PICK asked : asked = Asked(q)
  OBVIOUS
<1>2. PICK inputs : inputs = <<asked>>
  OBVIOUS
<1>3. Sequence(inputs) /\ Sequence(<<>>) /\ inputs = Append(<<>>, asked)
  BY <1>2, FewFrames
<1>4. Render(next, inputs, asker)
  BY <1>1, <1>2
<1>5. app' = next
  BY <1>4, WhoAsks
<1>6. CASE /\ link' = "open" /\ origin' = "view" /\ applied' = next.activeView
           /\ up' = up \o Append(inputs, Asked(next.views[next.activeView].query))
  BY <1>3, <1>5, <1>6, Asking1 DEF Reasked
<1>7. CASE /\ origin' = asker /\ Applies
           /\ up' = IF link' = "open" THEN up \o inputs ELSE up
  <2>1. CASE link' = "open"
    <3>1. up' = up \o Append(<<>>, Asked(q))
      BY <1>1, <1>3, <1>7, <2>1
    <3>2. AskedLast(q)
      BY <1>3, <2>1, <3>1, Asking1
    <3> QED BY <1>5, <1>7, <3>2
  <2>2. CASE link' # "open"
    <3>1. Sequence(up) /\ Len(up) \in Nat
      BY SequenceShape DEF EditorInv, Shapes
    <3>2. up' = up /\ ~Asks
      BY <1>7, <2>2, <3>1 DEF Asks
    <3> QED BY <1>5, <1>7, <2>2, <3>2 DEF Restores, Unasking
  <2> QED BY <2>1, <2>2
<1> QED
  BY <1>4, <1>6, <1>7, WhoAsks

\* Whoever has just asked is about to be shown the answer.
LEMMA AskingShows ==
  ASSUME Sequence(up)', NEW q, AskedLast(q),
         origin' = "view" /\ ListedView(app'.views, app'.activeView) =>
           q = app'.views[app'.activeView].query
  PROVE  Matching' /\ Showing'
<1>1. PICK last : last = Len(up')
  OBVIOUS
<1>2. last \in DOMAIN up' /\ Awaits(last)' /\ up'[last].query = q
  BY <1>1 DEF AskedLast, Awaits
<1>3. \A j \in DOMAIN up' : j <= last /\ j \in Nat /\ last \in Nat
  BY <1>1, SequenceShape DEF AskedLast
<1>4. Matching'
  BY <1>2 DEF Matching
<1>5. LastAsked(q)'
  <2>1. ASSUME NEW i \in DOMAIN up', \A j \in DOMAIN up' : Awaits(j)' => j <= i
        PROVE  up'[i].query = q
    <3>1. last <= i /\ i <= last /\ i \in Nat /\ last \in Nat
      BY <1>2, <1>3, <2>1
    <3>2. i = last
      BY <3>1
    <3> QED BY <1>2, <3>2
  <2> QED BY <1>2, <2>1 DEF LastAsked
<1>6. ~NothingAsked'
  BY <1>2 DEF NothingAsked
<1> QED
  BY <1>4, <1>5, <1>6 DEF Showing, Steady

LEMMA AskingFor ==
  ASSUME Sequence(up)', Reasked
  PROVE  Matching' /\ Showing'
BY AskingShows DEF Reasked

\* What was being asked still is, and nothing else.
LEMMA StillAsking ==
  ASSUME epoch' = epoch, NEW moved, NEW asker, Unasking(moved, asker)
  PROVE  /\ \A i \in DOMAIN up : Awaits(i) => i \in DOMAIN up' /\ Awaits(i)' /\ up'[i] = up[i]
         /\ \A i \in DOMAIN up' : Awaits(i)' => i \in DOMAIN up /\ Awaits(i) /\ up'[i] = up[i]
BY DEF Unasking, Awaits

LEMMA AppliedHere ==
  ASSUME Places, link = "open"
  PROVE  applied \in {None, app.activeView}
BY DEF Places, Looks

\* A view steady after a render that asks nothing was so before.
LEMMA SteadyBefore ==
  ASSUME ScreenInv, link = "open", NEW moved, NEW asker, Unasking(moved, asker),
         Off => Off', moved = {} => app'.views = app.views, Steady'
  PROVE  /\ Steady /\ moved = {}
         /\ app'.activeView = app.activeView /\ app'.views = app.views
<1>1. restored = {} /\ moved = {} /\ ~Off
  BY DEF Unasking, Steady, Undisturbed
<1>2. app'.activeView = applied /\ app'.activeView \in ViewPaths
  BY DEF Unasking, Applies, Steady, Undisturbed, ListedView
<1>3. app'.activeView = app.activeView
  BY <1>2, AppliedHere, PathsAssumption DEF ScreenInv
<1> QED
  BY <1>1, <1>3 DEF Steady, Undisturbed

\* The views a reviewer is at, after a render.
LEMMA PlacesRendered ==
  ASSUME Places, UNCHANGED repertoire,
         IF repertoire = "screen"
         THEN /\ Grows'
              /\ \A i \in DOMAIN up' : up'[i].type # "changeset.commit"
              /\ app'.activeView \in Listed(app'.views) \cup {None}
              /\ app'.focusReturn # None =>
                   app'.focusReturn.activeView \in Listed(app'.views) \cup {None}
         ELSE app'.activeView \in {None, Initial},
         Reasked \/ Applies
  PROVE  Places'
<1>1. CASE repertoire = "screen"
  <2>1. link' = "open" => applied' \in {None, app'.activeView}
    BY <1>1 DEF Reasked, Applies, ListedView, Listed
  <2> QED BY <1>1, <2>1 DEF Places, Looks
<1>2. CASE repertoire # "screen"
  BY <1>2 DEF Places, Reasked, Applies
<1> QED
  BY <1>1, <1>2

\* A gesture: nothing arrives, and the filter is kept, removed or put back.
LEMMA GestureShows ==
  ASSUME EditorInv, EditorInv', ScreenInv, NEW kinds, Gesture(kinds),
         app'.model = app.model, app'.views = app.views,
         IF repertoire = "screen"
         THEN /\ \A i \in DOMAIN up' : up'[i].type # "changeset.commit"
              /\ app'.activeView \in Listed(app.views) \cup {None}
              /\ app'.focusReturn # None =>
                   app'.focusReturn.activeView \in Listed(app.views) \cup {None}
         ELSE app'.activeView = app.activeView,
         NEW moved,
         \/ Reasked
         \/ /\ Unasking(moved, origin)
            /\ \/ app'.activeFilter \in {app.activeFilter, None}
               \/ "focus" \in moved
         \/ /\ Applies /\ origin' # "view" /\ \E q : AskedLast(q)
         \/ /\ link' # "open" /\ \E asker : Unasking(moved, asker)
  PROVE  ScreenInv'
<1>1. UNCHANGED <<link, epoch, down, model, views, repertoire>> /\ app.model # None
  BY DEF Gesture, serverVars, workVars
<1>2. link # "loading" /\ Sequence(up)'
  BY <1>1 DEF EditorInv, Opens, Shapes
<1>3. Known' /\ ReadyFirst' /\ Unopened'
  BY <1>1, <1>2 DEF ScreenInv, Known, ReadyFirst, Unopened
<1>4. Unseen'
  BY <1>1 DEF ScreenInv, Unseen, Reasked, AskedLast, Unasking
<1>5. Places'
  <2>1. Reasked \/ Applies
    BY DEF Unasking
  <2>2. repertoire = "screen" => Grows'
    BY <1>1 DEF ScreenInv, Places, Looks, Grows
  <2>3. repertoire # "screen" => app'.activeView \in {None, Initial}
    BY DEF ScreenInv, Places
  <2> QED BY <1>1, <2>1, <2>2, <2>3, PlacesRendered DEF ScreenInv
<1>6. ASSUME NEW asker, Unasking(moved, asker) PROVE Off => Off'
  BY <1>1, <1>6 DEF Off, Unasking
<1>7. CASE Reasked
  BY <1>2, <1>7, AskingFor, <1>3, <1>4, <1>5 DEF ScreenInv
<1>8. CASE Applies /\ origin' # "view" /\ \E q : AskedLast(q)
  BY <1>2, <1>8, AskingShows, <1>3, <1>4, <1>5 DEF ScreenInv
<1>9. CASE link' # "open"
  <2>1. Matching' /\ Showing'
    BY <1>9 DEF Matching, Showing, Steady, Undisturbed
  <2> QED BY <2>1, <1>3, <1>4, <1>5 DEF ScreenInv
<1>10. CASE /\ link' = "open" /\ Unasking(moved, origin)
            /\ \/ app'.activeFilter \in {app.activeFilter, None}
               \/ "focus" \in moved
  <2>1. Matching'
    <3> SUFFICES ASSUME Undisturbed', restored' \cap {"focus", "snapshot", "late"} = {},
                        app'.activeFilter # None
                 PROVE  \/ MatchesTheModel'
                        \/ \E i \in DOMAIN up' : Awaits(i)'
                        \/ \E i \in DOMAIN down' : Brings(down'[i])
      BY DEF Matching
    <3>1. restored' = restored \cup moved
      BY <1>10 DEF Unasking
    <3>2. /\ Undisturbed /\ restored \cap {"focus", "snapshot", "late"} = {}
          /\ app'.activeFilter = app.activeFilter
      <4>1. /\ Undisturbed /\ restored \cap {"focus", "snapshot", "late"} = {}
            /\ "focus" \notin moved
        BY <1>1, <1>6, <1>10, <3>1 DEF Undisturbed
      <4> QED BY <1>10, <4>1
    <3>3. \/ MatchesTheModel
          \/ \E i \in DOMAIN up : Awaits(i)
          \/ \E i \in DOMAIN down : Brings(down[i])
      BY <3>2 DEF ScreenInv, Matching
    <3>4. MatchesTheModel => MatchesTheModel'
      BY <3>2 DEF MatchesTheModel
    <3> QED BY <1>1, <1>10, <3>3, <3>4, StillAsking
  <2>2. Showing'
    <3> SUFFICES ASSUME Steady' PROVE Showing'
      BY DEF Showing
    <3>1. /\ Steady /\ moved = {}
          /\ app'.activeView = app.activeView /\ app'.views = app.views
      BY <1>1, <1>6, <1>10, SteadyBefore
    <3>2. app'.activeFilter \in {app.activeFilter, None}
      BY <1>10, <3>1
    <3>8. PICK q : q = app.views[app.activeView].query
      OBVIOUS
    <3>3. /\ origin = "view" => LastAsked(q)
          /\ NothingAsked /\ app.activeFilter # None /\ app.activeFilter.source = "view"
               => app.activeFilter.query = q
      BY <3>1, <3>8 DEF ScreenInv, Showing
    <3>4. LastAsked(q) => LastAsked(q)'
      <4>1. /\ \A i \in DOMAIN up : Awaits(i) => i \in DOMAIN up' /\ Awaits(i)' /\ up'[i] = up[i]
            /\ \A i \in DOMAIN up' : Awaits(i)' => i \in DOMAIN up /\ Awaits(i) /\ up'[i] = up[i]
            /\ down' = down
        BY <1>1, <1>10, StillAsking
      <4> QED BY <4>1 DEF LastAsked
    <3>5. NothingAsked' => NothingAsked
      <4>1. /\ \A i \in DOMAIN up : Awaits(i) => i \in DOMAIN up' /\ Awaits(i)'
            /\ down' = down
        BY <1>1, <1>10, StillAsking
      <4> QED BY <4>1 DEF NothingAsked
    <3>6. origin' = origin
      BY <1>10 DEF Unasking
    <3>7. q = app'.views[app'.activeView].query
      BY <3>1, <3>8
    <3> QED BY <3>2, <3>3, <3>4, <3>5, <3>6, <3>7 DEF Showing
  <2> QED BY <2>1, <2>2, <1>3, <1>4, <1>5 DEF ScreenInv
<1> QED
  BY <1>7, <1>8, <1>9, <1>10

-----------------------------------------------------------------------------
\* A state that looks like the one before it.
Aside(next) ==
  /\ next.model = app.model /\ next.views = app.views
  /\ next.activeFilter = app.activeFilter /\ next.activeView = app.activeView
  /\ next.focusReturn = app.focusReturn

LEMMA AsideSteps ==
  ASSUME EditorInv
  PROVE  /\ Aside(app)
         /\ Aside(ChatSent(app)) /\ Aside(EndRequested(app)) /\ Aside(ChangesetCommitSent(app))
         /\ Aside(ConnectionLost(app)) /\ Aside(SessionClosed(app)) /\ Aside(TurnAnswered(app))
         /\ (\A choice : Aside(ChoicePresented(app, choice)))
         /\ Aside(ChangesetCommitted(app)) /\ Aside(ApplyFailed(app))
         /\ Aside(ChangesetCleared(app)) /\ Aside(ChangesetUndone(app))
         /\ Aside(ChangesetRedone(app))
         /\ \A d, f : /\ Aside(ChangesetStaged(app, d, f))
                      /\ Aside(ChangesetStaged(TurnAnswered(app), d, f))
         /\ \A row : Aside(ChangesetViewStaged(app, row)) /\ Aside(ChangesetDiscarded(app, row))
         /\ \A view, subject, membership :
              Aside(ChangesetViewMembership(app, view, subject, membership))
<1>1. DOMAIN app = DOMAIN initialVisualAppState
  BY DEF EditorInv, Shapes
<1> USE <1>1, AppFields DEF Aside
<1>2. /\ Aside(app)
      /\ Aside(ChatSent(app)) /\ Aside(EndRequested(app)) /\ Aside(ChangesetCommitSent(app))
      /\ Aside(ConnectionLost(app)) /\ Aside(SessionClosed(app)) /\ Aside(TurnAnswered(app))
      /\ (\A choice : Aside(ChoicePresented(app, choice)))
      /\ Aside(ChangesetCommitted(app)) /\ Aside(ApplyFailed(app))
  BY DEF ChatSent, EndRequested, ChangesetCommitSent, ConnectionLost, SessionClosed,
         TurnAnswered, ChoicePresented, ChangesetCommitted, ApplyFailed
<1>3. Aside(ChangesetCleared(app))
  BY DEF ChangesetCleared
<1>4. Aside(ChangesetUndone(app))
  BY DEF ChangesetUndone
<1>5. Aside(ChangesetRedone(app))
  BY DEF ChangesetRedone
<1>6. DOMAIN TurnAnswered(app) = DOMAIN app
  BY DEF TurnAnswered
<1>7. ASSUME NEW s, DOMAIN s = DOMAIN app, Aside(s), NEW operations, NEW viewOperations
      PROVE  Aside(Staged(s, operations, viewOperations))
  BY <1>7 DEF Staged
<1> HIDE DEF Aside
<1>8. \A d, f : /\ Aside(ChangesetStaged(app, d, f))
                /\ Aside(ChangesetStaged(TurnAnswered(app), d, f))
  BY <1>2, <1>6, <1>7 DEF ChangesetStaged
<1>9. \A row : Aside(ChangesetViewStaged(app, row)) /\ Aside(ChangesetDiscarded(app, row))
  BY <1>2, <1>7 DEF ChangesetViewStaged, ChangesetDiscarded
<1>10. \A view, subject, membership :
         Aside(ChangesetViewMembership(app, view, subject, membership))
  <2>1. \A view, base, projection : Aside(Amended(app, view, base, projection))
    BY <1>2, <1>7 DEF Amended
  <2> QED BY <1>2, <2>1 DEF ChangesetViewMembership
<1> QED
  BY <1>2, <1>3, <1>4, <1>5, <1>8, <1>9, <1>10

\* The inputs of one who looks around bring no commit.
LEMMA NoCommits ==
  ASSUME Places, repertoire = "screen", NEW inputs, Grown(inputs),
         \A k \in DOMAIN inputs : inputs[k].type # "changeset.commit"
  PROVE  \A i \in DOMAIN up' : up'[i].type # "changeset.commit"
<1>1. \A i \in DOMAIN up : up[i].type # "changeset.commit"
  BY DEF Places, Looks
<1> QED
  BY <1>1 DEF Grown

\* A gesture that leaves the screen alone.
LEMMA AsideGesture ==
  ASSUME EditorInv, EditorInv', ScreenInv, NEW kinds, Gesture(kinds),
         NEW next, Aside(next), NEW inputs, Sequence(inputs),
         \A k \in DOMAIN inputs : inputs[k].type # "filter.query",
         \A k \in DOMAIN inputs : inputs[k].type = "changeset.commit" => "screen" \notin kinds,
         Render(visualAppReducer(app, next), inputs, origin), Restores({})
  PROVE  ScreenInv'
<1>1. UNCHANGED <<link, epoch>> /\ repertoire \in kinds /\ app.lifecycle # "closed"
  BY DEF Gesture
<1>2. Render(next, inputs, origin)
  BY <1>1 DEF visualAppReducer
<1>3. app' = next /\ (Reasked \/ Unasking({}, origin))
  BY <1>1, <1>2, Rerendered
<1>4. Grown(inputs)
  BY <1>2, Posted
<1>5. repertoire = "screen" =>
        /\ \A i \in DOMAIN up' : up'[i].type # "changeset.commit"
        /\ app'.activeView \in Listed(app.views) \cup {None}
        /\ app'.focusReturn # None =>
             app'.focusReturn.activeView \in Listed(app.views) \cup {None}
  BY <1>1, <1>3, <1>4, NoCommits DEF ScreenInv, Places, Looks, Aside
<1> QED
  BY <1>3, <1>5, GestureShows DEF Aside

LEMMA AsideTray ==
  ASSUME EditorInv, EditorInv', ScreenInv, NEW kinds, NEW next, Aside(next), Tray(kinds, next)
  PROVE  ScreenInv'
<1>1. Gesture(kinds) /\ Render(visualAppReducer(app, next), <<>>, origin) /\ Restores({})
  BY DEF Tray
<1>2. Sequence(<<>>) /\ DOMAIN <<>> = {}
  BY FewFrames
<1> QED
  BY <1>1, <1>2, AsideGesture

\* The gestures on the tray, and the conversation.
LEMMA TrayShows ==
  ASSUME EditorInv, EditorInv', ScreenInv,
         \/ StageOperation \/ StageView \/ DeleteListedView \/ EditMembership
         \/ Discard \/ Clear \/ Undo \/ Redo \/ Commit
         \/ Chat \/ Delegate \/ Choose \/ End
  PROVE  ScreenInv'
<1>1. CASE StageOperation
  BY <1>1, AsideSteps, AsideTray DEF StageOperation
<1>2. CASE StageView \/ DeleteListedView
  <2>1. PICK row : Tray({"views"}, ChangesetViewStaged(app, row))
    BY <1>2 DEF StageView, DeleteListedView
  <2> QED BY <2>1, AsideSteps, AsideTray
<1>3. CASE EditMembership
  <2>1. PICK p, s, membership :
          Tray({"views"}, ChangesetViewMembership(app, p, s, membership))
    BY <1>3 DEF EditMembership
  <2> QED BY <2>1, AsideSteps, AsideTray
<1>4. CASE Discard
  BY <1>4, AsideSteps, AsideTray DEF Discard
<1>5. CASE Clear \/ Undo \/ Redo
  BY <1>5, AsideSteps, AsideTray DEF Clear, Undo, Redo
<1>6. ASSUME NEW kinds, Gesture(kinds), "screen" \notin kinds, NEW next, Aside(next), NEW input,
             input.type # "filter.query",
             Render(visualAppReducer(app, next), <<input>>, origin), Restores({})
      PROVE  ScreenInv'
  <2>1. PICK inputs : inputs = <<input>>
    OBVIOUS
  <2>2. Sequence(inputs) /\ \A k \in DOMAIN inputs : inputs[k] = input
    BY <2>1, FewFrames
  <2>3. Render(visualAppReducer(app, next), inputs, origin)
    BY <1>6, <2>1
  <2> QED BY <1>6, <2>2, <2>3, AsideGesture
<1>7. CASE Commit
  <2>1. PICK input : input = [type |-> "changeset.commit", epoch |-> epoch, changeset |-> app.pending]
    OBVIOUS
  <2>2. input.type = "changeset.commit"
    BY <2>1
  <2>3. /\ Gesture({"rows", "views"}) /\ Restores({})
        /\ Render(visualAppReducer(app, ChangesetCommitSent(app)), <<input>>, origin)
    BY <1>7, <2>1 DEF Commit
  <2> QED BY <1>6, <2>2, <2>3, AsideSteps
<1>8. CASE Chat \/ Delegate \/ Choose \/ End
  <2>1. PICK next, input : Says(next, input) /\ Aside(next) /\ input.type # "filter.query"
    BY <1>8, AsideSteps DEF Chat, Delegate, Choose, End, Spoken
  <2>4. /\ Gesture({"talk"}) /\ Restores({})
        /\ Render(visualAppReducer(app, next), <<input>>, origin)
    BY <2>1 DEF Says
  <2> QED BY <1>6, <2>1, <2>4
<1> QED
  BY <1>1, <1>2, <1>3, <1>4, <1>5, <1>7, <1>8

\* Moving around and narrowing.
LEMMA LooksShow ==
  ASSUME EditorInv, EditorInv', ScreenInv, Navigate \/ Filter \/ ClearFilter
  PROVE  ScreenInv'
<1>1. /\ Gesture({"screen"}) /\ repertoire = "screen" /\ UNCHANGED <<link, epoch>>
      /\ app.lifecycle # "closed" /\ \A next : visualAppReducer(app, next) = next
  BY DEF Navigate, Filter, ClearFilter, Gesture, visualAppReducer
<1>2. DOMAIN app = DOMAIN initialVisualAppState
  BY DEF EditorInv, Shapes
<1>3. /\ app.activeView \in Listed(app.views) \cup {None}
      /\ app.focusReturn # None => app.focusReturn.activeView \in Listed(app.views) \cup {None}
  BY <1>1 DEF ScreenInv, Places, Looks
<1>4. Sequence(<<>>) /\ DOMAIN <<>> = {}
  BY FewFrames
<1>5. ASSUME NEW next, NEW asker, Render(next, <<>>, asker)
      PROVE  \A i \in DOMAIN up' : up'[i].type # "changeset.commit"
  <2>1. Grown(<<>>)
    BY <1>4, <1>5, Posted
  <2> QED BY <1>1, <1>4, <2>1, NoCommits DEF ScreenInv
<1>6. CASE Navigate
  <2>1. PICK p \in ViewPaths : /\ app.views[p] # None /\ Restores({})
                               /\ Render(ViewNavigated(app, p), <<>>, origin)
    BY <1>1, <1>6 DEF Navigate
  <2> DEFINE next == ViewNavigated(app, p)
  <2>2. /\ next.model = app.model /\ next.views = app.views
        /\ next.activeFilter = app.activeFilter
        /\ next.activeView \in {p, app.activeView} /\ next.focusReturn \in {None, app.focusReturn}
    BY <1>2, AppFields DEF ViewNavigated
  <2> HIDE DEF next
  <2>3. app' = next /\ (Reasked \/ Unasking({}, origin))
    BY <1>1, <1>4, <2>1, Rerendered DEF next
  <2>4. p \in Listed(app.views)
    BY <2>1 DEF Listed
  <2> QED BY <1>1, <1>3, <1>5, <2>1, <2>2, <2>3, <2>4, GestureShows
<1>7. CASE ClearFilter
  <2>1. PICK moved : moved = IF app'.activeFilter = None THEN {} ELSE {"focus"}
    OBVIOUS
  <2>2. Render(FilterCleared(app), <<>>, origin) /\ Restores(moved)
    BY <1>1, <1>7, <2>1 DEF ClearFilter
  <2> DEFINE next == FilterCleared(app)
  <2>3. /\ next.model = app.model /\ next.views = app.views
        /\ next.activeView = None \/ (app.focusReturn # None /\ next.activeView = app.focusReturn.activeView)
        /\ next.focusReturn = None
    BY <1>2, AppFields DEF FilterCleared
  <2> HIDE DEF next
  <2>4. app' = next /\ (Reasked \/ Unasking(moved, origin))
    BY <1>1, <1>4, <2>2, Rerendered DEF next
  <2>5. app'.activeFilter = None \/ "focus" \in moved
    BY <2>1
  <2> QED BY <1>1, <1>3, <1>5, <2>2, <2>3, <2>4, <2>5, GestureShows
<1>8. CASE Filter
  <2>1. PICK q, source : /\ source \in {"panel", "focus", "editor"} /\ Restores({})
                         /\ Render(app, <<Asked(q)>>, source)
    BY <1>8 DEF Filter
  <2>2. /\ app' = app
        /\ \/ Reasked
           \/ AskedLast(q) /\ origin' = source /\ Applies
           \/ link' # "open" /\ Unasking({}, source)
    BY <1>1, <2>1, RerenderedAsking
  <2>3. \A i \in DOMAIN up' : up'[i].type # "changeset.commit"
    <3>1. PICK asked : asked = Asked(q)
      OBVIOUS
    <3>2. PICK inputs : inputs = <<asked>>
      OBVIOUS
    <3>3. Sequence(inputs) /\ \A k \in DOMAIN inputs : inputs[k] = asked
      BY <3>2, FewFrames
    <3>4. asked.type = "filter.query"
      BY <3>1 DEF Asked
    <3>5. Grown(inputs)
      BY <2>1, <3>1, <3>2, <3>3, Posted
    <3> QED BY <1>1, <3>3, <3>4, <3>5, NoCommits DEF ScreenInv
  <2> QED BY <1>1, <1>3, <2>1, <2>2, <2>3, GestureShows
<1> QED
  BY <1>6, <1>7, <1>8

-----------------------------------------------------------------------------
(***************************************************************************)
(* A frame arrives.                                                        *)
(***************************************************************************)
\* What a frame makes of the screen.
LEMMA Transits ==
  ASSUME EditorInv, NEW frame, FrameTyped(frame), NEW next, next = Transition(app, frame, origin)
  PROVE  /\ frame.kind = "ready" =>
              /\ next.model = Carried(frame) /\ next.views = Listing(frame)
              /\ next.activeView = Carried(frame).initialView
              /\ next.activeFilter = app.activeFilter /\ next.focusReturn = app.focusReturn
         /\ frame.kind = "model" =>
              /\ next.model = Carried(frame) /\ next.views = Listing(frame)
              /\ next.activeView = app.activeView
              /\ next.activeFilter = app.activeFilter /\ next.focusReturn = app.focusReturn
         /\ frame.kind = "rejected" =>
              /\ next.model = app.model /\ next.views = app.views
              /\ next.activeView = app.activeView
              /\ next.activeFilter = app.activeFilter /\ next.focusReturn = app.focusReturn
         /\ Brings(frame) =>
              /\ next.model = app.model /\ next.views = app.views
              /\ next.activeView \in {None, app.activeView}
              /\ next.focusReturn \in {None, app.focusReturn, Anchor(app)}
              /\ next.activeFilter.query = frame.query /\ next.activeFilter.matched = frame.matched
              /\ next.activeFilter.source = IF Answers(frame) THEN origin ELSE "chat"
         /\ ~(frame.kind \in {"ready", "model", "rejected"} \/ Brings(frame)) => Aside(next)
<1>1. DOMAIN app = DOMAIN initialVisualAppState
  BY DEF EditorInv, Shapes
<1>2. CASE frame.kind = "ready"
  BY <1>1, <1>2, AppFields DEF Transition, SessionLoaded, Carried, Listing, Brings, Answers
<1>3. CASE frame.kind = "model"
  BY <1>1, <1>3, AppFields DEF Transition, ModelReceived, Carried, Listing, Brings, Answers
<1>4. CASE frame.kind = "rejected"
  BY <1>1, <1>4, AppFields DEF Transition, InputRefused, Brings, Answers
<1>5. ASSUME NEW s, Aside(s), DOMAIN s = DOMAIN app, NEW source,
             next = FilterApplied(s, frame.query, frame.matched, source)
      PROVE  /\ next.model = app.model /\ next.views = app.views
             /\ next.activeView \in {None, app.activeView}
             /\ next.focusReturn \in {None, app.focusReturn, Anchor(app)}
             /\ next.activeFilter.query = frame.query /\ next.activeFilter.matched = frame.matched
             /\ next.activeFilter.source = source
  BY <1>1, <1>5, AppFields DEF FilterApplied, Aside, Anchor
<1>6. CASE frame.kind = "filter-result"
  <2>1. next = FilterApplied(app, frame.query, frame.matched, origin)
    BY <1>6 DEF Transition
  <2>2. Aside(app)
    BY AsideSteps
  <2> QED BY <1>5, <1>6, <2>1, <2>2 DEF Brings, Answers
<1>7. CASE frame.kind \in {"closing", "apply-result"}
  <2>1. next \in {SessionClosed(app), ChangesetCommitted(app), ApplyFailed(app)}
    BY <1>7 DEF Transition
  <2> QED BY <1>7, <2>1, AsideSteps DEF Brings, Answers
<1>8. CASE frame.kind = "response"
  <2>1. next = Responded(app, frame) /\ DOMAIN TurnAnswered(app) = DOMAIN app
    BY <1>8 DEF Transition, TurnAnswered
  <2>2. CASE Brings(frame)
    <3>1. next = FilterApplied(TurnAnswered(app), frame.query, frame.matched, "chat")
      BY <1>8, <2>1, <2>2 DEF Responded, Brings, Answers
    <3>2. Aside(TurnAnswered(app))
      BY AsideSteps
    <3> QED BY <1>5, <1>8, <2>1, <2>2, <3>1, <3>2 DEF Answers
  <2>3. CASE ~Brings(frame)
    <3>1. \/ next = TurnAnswered(app)
          \/ next = ChoicePresented(app, frame.choice)
          \/ next = ChangesetStaged(TurnAnswered(app), frame.path, frame.field)
      BY <1>8, <2>1, <2>3 DEF Responded, Brings, FrameTyped
    <3> QED BY <1>8, <2>3, <3>1, AsideSteps
  <2> QED BY <2>2, <2>3
<1> QED
  BY <1>2, <1>3, <1>4, <1>6, <1>7, <1>8 DEF FrameTyped

\* What a browser does about a frame, and asks.
LEMMA FrameAsks ==
  ASSUME NoneHasNoQuery, EditorInv, epoch' = epoch, app.lifecycle # "closed",
         NEW frame, Receive(frame)
  PROVE  LET next == Transition(app, frame, origin)
             moved == Unasked(frame, next)
             view == app.views[app.activeView]
         IN  /\ app' = next
             /\ \/ Reasked
                \/ /\ frame.kind # "model" \/ app.activeFilter = None
                   /\ Unasking(moved, origin)
                \/ /\ frame.kind = "model" /\ app.activeFilter # None /\ link' # "open"
                \/ /\ frame.kind = "model" /\ app.activeFilter # None /\ Applies
                   /\ origin' = app.activeFilter.source
                   /\ AskedLast(IF FromTheView(origin') /\ ListedView(frame.views, app.activeView)
                                THEN frame.views[app.activeView].query ELSE app.activeFilter.query)
<1>1. PICK next : next = Transition(app, frame, origin)
  OBVIOUS
<1>2. visualAppReducer(app, next) = next
  BY DEF visualAppReducer
<1>3. PICK stale : stale = FilterToReresolve(frame, app)
  OBVIOUS
<1>4. /\ Render(next, IF stale = None THEN <<>> ELSE <<Asked(stale.query)>>,
                IF stale = None THEN origin ELSE stale.source)
      /\ Restores(Unasked(frame, next))
  BY <1>1, <1>2, <1>3 DEF Receive
<1>5. CASE frame.kind # "model" \/ app.activeFilter = None
  <2>1. stale = None
    BY <1>3, <1>5 DEF FilterToReresolve
  <2>2. Render(next, <<>>, origin)
    BY <1>4, <2>1
  <2>3. Sequence(<<>>) /\ DOMAIN <<>> = {}
    BY FewFrames
  <2>4. app' = next /\ (Reasked \/ Unasking(Unasked(frame, next), origin))
    BY <1>4, <2>2, <2>3, Rerendered
  <2> QED BY <1>1, <1>5, <2>4
<1>6. CASE frame.kind = "model" /\ app.activeFilter # None
  <2>1. PICK q : q = IF FromTheView(app.activeFilter.source) /\ ListedView(frame.views, app.activeView)
                     THEN frame.views[app.activeView].query ELSE app.activeFilter.query
    OBVIOUS
  <2>2. stale = [source |-> app.activeFilter.source, query |-> q]
    BY <1>3, <1>6, <2>1 DEF FilterToReresolve
  <2>3. stale # None /\ stale.query = q /\ stale.source = app.activeFilter.source
    BY <2>2 DEF NoneHasNoQuery
  <2>4. Render(next, <<Asked(q)>>, app.activeFilter.source)
    BY <1>4, <2>3
  <2>5. /\ app' = next
        /\ \/ Reasked
           \/ AskedLast(q) /\ origin' = app.activeFilter.source /\ Applies
           \/ link' # "open"
    BY <1>4, <2>4, RerenderedAsking
  <2> QED BY <1>1, <1>6, <2>1, <2>5
<1> QED
  BY <1>5, <1>6

\* The rest of the frames.
LEMMA Remaining ==
  ASSUME EditorInv, ReadyFirst, down # <<>>, down' = Tail(down)
  PROVE  /\ Shift(down, down')
         /\ \A i \in DOMAIN down' : down'[i].kind # "ready"
         /\ FrameTyped(down[1])
<1>1. Shift(down, down')
  BY Shifted DEF EditorInv, Shapes
<1>2. \A i \in DOMAIN down' : i + 1 # 1
  BY <1>1 DEF Shift
<1> QED
  BY <1>1, <1>2 DEF Shift, ReadyFirst, EditorInv, Shapes

\* A refusal that has arrived is not forgotten where nothing is asked.
LEMMA OffArrives ==
  ASSUME EditorInv, ReadyFirst, down # <<>>, down' = Tail(down), Off,
         NEW asker, Unasking(Unasked(down[1], app'), asker)
  PROVE  Off'
<1>1. Shift(down, down')
  BY Remaining
<1>2. restored' = restored \cup Unasked(down[1], app')
  BY DEF Unasking
<1>3. CASE \E i \in DOMAIN down : i # 1 /\ Refuses(down[i])
  <2>1. PICK i \in DOMAIN down : i # 1 /\ Refuses(down[i])
    BY <1>3
  <2>2. i - 1 \in DOMAIN down' /\ down'[i - 1] = down[i]
    BY <1>1, <2>1 DEF Shift
  <2> QED BY <2>1, <2>2 DEF Off
<1>4. CASE Refuses(down[1])
  <2>1. Unasked(down[1], app') = {"refusal"}
    BY <1>4 DEF Unasked, Refuses
  <2> QED BY <1>2, <2>1 DEF Off
<1>5. CASE "refusal" \in restored
  BY <1>2, <1>5 DEF Off
<1> QED
  BY <1>3, <1>4, <1>5 DEF Off

\* The views a frame leaves the reviewer at.
LEMMA FramePlaces ==
  ASSUME EditorInv, EditorInv', ScreenInv, UNCHANGED <<views, repertoire>>,
         down # <<>>, down' = Tail(down), app' = Transition(app, down[1], origin),
         NEW inputs, Grown(inputs), \A k \in DOMAIN inputs : inputs[k].type = "filter.query",
         Reasked \/ Applies
  PROVE  Places'
<1>1. PICK frame : frame = down[1]
  OBVIOUS
<1>2. Shift(down, down') /\ FrameTyped(frame) /\ 1 \in DOMAIN down
  BY <1>1, Remaining DEF ScreenInv, Shift
<1>3. Carries(frame) => Carried(frame).initialView = Initial
  BY <1>1, <1>2 DEF EditorInv, ModelsHold, InOrder, Modelled, Models
<1>4. /\ app'.activeView \in {None, app.activeView} \/ (Carries(frame) /\ app'.activeView = Initial)
      /\ app'.focusReturn \in {None, app.focusReturn, Anchor(app)}
      /\ app'.views = IF Carries(frame) THEN Listing(frame) ELSE app.views
  BY <1>1, <1>2, <1>3, Transits DEF Carries, Aside, FrameTyped, Brings, Answers
<1>5. CASE repertoire # "screen"
  <2>1. app'.activeView \in {None, Initial}
    BY <1>4, <1>5 DEF ScreenInv, Places
  <2> QED BY <1>5, <2>1, PlacesRendered DEF ScreenInv
<1>6. CASE repertoire = "screen"
  <2>1. Looks
    BY <1>6 DEF ScreenInv, Places
  <2>2. /\ Listed(app.views) \subseteq Listed(app'.views)
        /\ Carries(frame) => Initial \in Listed(app'.views)
    BY <1>1, <1>2, <1>4, <2>1 DEF Looks, Grows
  <2>3. Grows'
    <3>1. Listed(app'.views) \subseteq Listed(views)
      BY <1>1, <1>2, <1>4, <2>1 DEF Looks, Grows
    <3>2. ASSUME NEW i \in DOMAIN down', Carries(down'[i])
          PROVE  /\ Initial \in Listed(Listing(down'[i]))
                 /\ Listed(app'.views) \subseteq Listed(Listing(down'[i]))
                 /\ Listed(Listing(down'[i])) \subseteq Listed(views)
                 /\ \A j \in DOMAIN down' : i < j /\ Carries(down'[j]) =>
                      Listed(Listing(down'[i])) \subseteq Listed(Listing(down'[j]))
      <4>1. PICK k : k = i + 1
        OBVIOUS
      <4>2. i \in Nat /\ k \in DOMAIN down /\ down'[i] = down[k] /\ 1 < k
        BY <1>2, <4>1 DEF Shift
      <4>3. /\ Initial \in Listed(Listing(down[k]))
            /\ Listed(app.views) \subseteq Listed(Listing(down[k]))
            /\ Listed(Listing(down[k])) \subseteq Listed(views)
        BY <2>1, <3>2, <4>2 DEF Looks, Grows
      <4>4. Listed(app'.views) \subseteq Listed(Listing(down[k]))
        BY <1>1, <1>2, <1>4, <2>1, <3>2, <4>2, <4>3 DEF Looks, Grows
      <4>5. ASSUME NEW j \in DOMAIN down', i < j, Carries(down'[j])
            PROVE  Listed(Listing(down[k])) \subseteq Listed(Listing(down'[j]))
        <5>1. j \in Nat /\ j + 1 \in DOMAIN down /\ down'[j] = down[j + 1] /\ k < j + 1
          BY <1>2, <4>1, <4>2, <4>5 DEF Shift
        <5> QED BY <2>1, <3>2, <4>2, <4>5, <5>1 DEF Looks, Grows
      <4> QED BY <4>2, <4>3, <4>4, <4>5
    <3>3. DOMAIN views = ViewPaths /\ Initial \in Listed(views) /\ UNCHANGED views
      BY <2>1 DEF Looks, Grows
    <3> QED BY <3>1, <3>2, <3>3 DEF Grows
  <2>4. /\ app'.activeView \in Listed(app'.views) \cup {None}
        /\ app'.focusReturn # None => app'.focusReturn.activeView \in Listed(app'.views) \cup {None}
    BY <1>4, <2>1, <2>2 DEF Looks, Anchor
  <2>5. \A i \in DOMAIN up' : up'[i].type # "changeset.commit"
    BY <1>6, NoCommits DEF ScreenInv
  <2> QED BY <1>6, <2>3, <2>4, <2>5, PlacesRendered DEF ScreenInv
<1> QED
  BY <1>5, <1>6

\* After a frame that asked nothing, the filter is current or about to be.
LEMMA FrameMatches ==
  ASSUME EditorInv, ScreenInv, link = "open", epoch' = epoch,
         down # <<>>, down' = Tail(down), app' = Transition(app, down[1], origin),
         Unasking(Unasked(down[1], app'), origin),
         down[1].kind # "model" \/ app.activeFilter = None
  PROVE  Matching'
<1>1. PICK frame : frame = down[1]
  OBVIOUS
<1>2. Shift(down, down') /\ FrameTyped(frame) /\ 1 \in DOMAIN down
  BY <1>1, Remaining DEF ScreenInv, Shift
<1> SUFFICES ASSUME Undisturbed', restored' \cap {"focus", "snapshot", "late"} = {},
                    app'.activeFilter # None
             PROVE  \/ MatchesTheModel'
                    \/ \E i \in DOMAIN up' : Awaits(i)'
                    \/ \E i \in DOMAIN down' : Brings(down'[i])
  BY DEF Matching
<1>3. CASE Brings(frame)
  <2>1. /\ app'.model = app.model
        /\ app'.activeFilter.query = frame.query /\ app'.activeFilter.matched = frame.matched
    BY <1>1, <1>2, <1>3, Transits
  <2>2. ~Carries(frame)
    BY <1>3 DEF Carries, Brings, Answers
  <2>3. Leads(down, app.model, model)
    BY DEF ScreenInv, Known
  <2>5. Dated(frame)
    <3>1. "late" \notin Unasked(frame, app')
      BY <1>1 DEF Unasking
    <3> QED BY <1>3, <3>1 DEF Dated, Brings, Answers, Unasked
  <2>4. frame.matched = <<frame.query, app.model.docs>>
    BY <1>1, <1>2, <2>2, <2>3, <2>5, LeadsAway
  <2> QED BY <2>1, <2>4 DEF MatchesTheModel
<1>4. CASE ~Brings(frame)
  <2>1. app'.activeFilter = app.activeFilter
    BY <1>1, <1>2, <1>4, Transits DEF Aside
  <2>2. app'.model = app.model
    <3>1. CASE frame.kind = "ready"
      <4>1. "snapshot" \notin Unasked(frame, app')
        BY <1>1 DEF Unasking
      <4> QED BY <3>1, <4>1 DEF Unasked
    <3>2. CASE frame.kind # "ready"
      BY <1>1, <1>2, <1>4, <2>1, <3>2, Transits DEF Aside
    <3> QED BY <3>1, <3>2
  <2>3. Undisturbed /\ restored \cap {"focus", "snapshot", "late"} = {}
    <3>1. Off => Off'
      BY OffArrives DEF ScreenInv
    <3> QED BY <3>1 DEF Undisturbed, Unasking
  <2>4. \/ MatchesTheModel
        \/ \E i \in DOMAIN up : Awaits(i)
        \/ \E i \in DOMAIN down : Brings(down[i])
    BY <2>1, <2>3 DEF ScreenInv, Matching
  <2>5. CASE \E i \in DOMAIN down : Brings(down[i])
    <3>1. PICK i \in DOMAIN down : Brings(down[i])
      BY <2>5
    <3>2. i # 1
      BY <1>1, <1>4, <3>1
    <3>3. i - 1 \in DOMAIN down' /\ down'[i - 1] = down[i]
      BY <1>2, <3>2 DEF Shift
    <3> QED BY <3>1, <3>3
  <2>6. CASE \E i \in DOMAIN up : Awaits(i)
    BY <2>6, StillAsking
  <2>7. CASE MatchesTheModel
    BY <2>1, <2>2, <2>7 DEF MatchesTheModel
  <2> QED BY <2>4, <2>5, <2>6, <2>7
<1> QED
  BY <1>3, <1>4

\* After it, the view is shown with its own query or is about to be.
LEMMA FrameShowing ==
  ASSUME EditorInv, ScreenInv, link = "open", epoch' = epoch,
         down # <<>>, down' = Tail(down), app' = Transition(app, down[1], origin),
         Unasking(Unasked(down[1], app'), origin),
         down[1].kind # "model" \/ app.activeFilter = None
  PROVE  Showing'
<1> SUFFICES ASSUME Steady' PROVE Showing'
  BY DEF Showing
<1>1. PICK frame : frame = down[1]
  OBVIOUS
<1>2. Shift(down, down') /\ FrameTyped(frame) /\ 1 \in DOMAIN down
  BY <1>1, Remaining DEF ScreenInv, Shift
<1>3. Off => Off'
  BY OffArrives DEF ScreenInv
<1>4. Unasked(frame, app') = {} => app'.views = app.views
  BY DEF Unasked
<1>5. /\ Steady /\ app'.activeView = app.activeView /\ app'.views = app.views
  BY <1>1, <1>3, <1>4, SteadyBefore
<1>6. PICK q : q = app.views[app.activeView].query
  OBVIOUS
<1>7. /\ origin = "view" => LastAsked(q)
      /\ NothingAsked /\ app.activeFilter # None /\ app.activeFilter.source = "view"
           => app.activeFilter.query = q
  BY <1>5, <1>6 DEF ScreenInv, Showing
<1>8. /\ \A i \in DOMAIN up : Awaits(i) => i \in DOMAIN up' /\ Awaits(i)' /\ up'[i] = up[i]
      /\ \A i \in DOMAIN up' : Awaits(i)' => i \in DOMAIN up /\ Awaits(i) /\ up'[i] = up[i]
  BY StillAsking
<1>9. LastAsked(q) => LastAsked(q)'
  <2> SUFFICES ASSUME LastAsked(q) PROVE LastAsked(q)'
    OBVIOUS
  <2>1. ASSUME NEW i \in DOMAIN up', Awaits(i)', \A j \in DOMAIN up' : Awaits(j)' => j <= i
        PROVE  up'[i].query = q
    BY <1>8, <2>1 DEF LastAsked
  <2>2. ASSUME \A i \in DOMAIN up' : ~Awaits(i)', NEW i \in DOMAIN down', Answers(down'[i]),
               \A j \in DOMAIN down' : Answers(down'[j]) => j <= i
        PROVE  down'[i].query = q
    <3>1. \A k \in DOMAIN up : ~Awaits(k)
      BY <1>8, <2>2
    <3>2. i \in Nat /\ i >= 1 /\ i + 1 \in DOMAIN down /\ down'[i] = down[i + 1]
      BY <1>2 DEF Shift
    <3>3. ASSUME NEW j \in DOMAIN down, Answers(down[j])
          PROVE  j <= i + 1
      <4>1. CASE j = 1
        BY <3>2, <4>1
      <4>2. CASE j # 1
        <5>1. j \in Nat /\ j - 1 \in DOMAIN down' /\ down'[j - 1] = down[j]
          BY <1>2, <4>2 DEF Shift
        <5>2. j - 1 <= i
          BY <2>2, <3>3, <5>1
        <5> QED BY <3>2, <5>1, <5>2
      <4> QED BY <4>1, <4>2
    <3> QED BY <2>2, <3>1, <3>2, <3>3 DEF LastAsked
  <2> QED BY <2>1, <2>2 DEF LastAsked
<1>10. ASSUME NothingAsked', app'.activeFilter # None, app'.activeFilter.source = "view"
       PROVE  app'.activeFilter.query = q
  <2>1. \A i \in DOMAIN up : ~Awaits(i)
    BY <1>8, <1>10 DEF NothingAsked
  <2>2. \A i \in DOMAIN down : Answers(down[i]) => i = 1
    <3>1. \A i \in DOMAIN down : i # 1 => i - 1 \in DOMAIN down' /\ down'[i - 1] = down[i]
      BY <1>2 DEF Shift
    <3> QED BY <1>10, <3>1 DEF NothingAsked
  <2>3. CASE Answers(frame)
    <3>1. app'.activeFilter.query = frame.query /\ app'.activeFilter.source = origin
      BY <1>1, <1>2, <2>3, Transits DEF Brings
    <3>2. LastAsked(q)
      BY <1>7, <1>10, <3>1
    <3>3. \A j \in DOMAIN down : Answers(down[j]) => j <= 1
      BY <2>2
    <3>4. frame.query = q
      BY <1>1, <1>2, <2>1, <2>3, <3>2, <3>3 DEF LastAsked
    <3> QED BY <3>1, <3>4
  <2>4. CASE ~Answers(frame)
    <3>1. app'.activeFilter = app.activeFilter
      BY <1>1, <1>2, <1>10, <2>4, Transits DEF Aside
    <3>2. NothingAsked
      BY <1>1, <2>1, <2>2, <2>4 DEF NothingAsked
    <3> QED BY <1>7, <1>10, <3>1, <3>2
  <2> QED BY <2>3, <2>4
<1>11. origin' = origin /\ q = app'.views[app'.activeView].query
  BY <1>5, <1>6 DEF Unasking
<1> QED
  BY <1>7, <1>9, <1>10, <1>11 DEF Showing

\* The first frame on its way arrives.
LEMMA DeliverShows ==
  ASSUME NoneHasNoQuery, EditorInv, EditorInv', ScreenInv, Deliver
  PROVE  ScreenInv'
<1>1. PICK frame : frame = down[1]
  OBVIOUS
<1>2. /\ link = "open" /\ down # <<>> /\ down' = Tail(down)
      /\ link' = IF frame.kind = "closing" THEN "over" ELSE "open"
      /\ Receive(frame) /\ UNCHANGED <<epoch, model, views, repertoire>>
  BY <1>1 DEF Deliver, serverVars, workVars, boundVars
<1>3. app.lifecycle # "closed" /\ Sequence(up)'
  BY <1>2 DEF EditorInv, Opens, Shapes
<1>4. /\ app' = Transition(app, frame, origin)
      /\ \/ Reasked
         \/ /\ frame.kind # "model" \/ app.activeFilter = None
            /\ Unasking(Unasked(frame, app'), origin)
         \/ /\ frame.kind = "model" /\ app.activeFilter # None /\ link' # "open"
         \/ /\ frame.kind = "model" /\ app.activeFilter # None /\ Applies
            /\ origin' = app.activeFilter.source
            /\ AskedLast(IF FromTheView(origin') /\ ListedView(frame.views, app.activeView)
                         THEN frame.views[app.activeView].query ELSE app.activeFilter.query)
  BY <1>2, <1>3, FrameAsks
<1>5. PICK inputs : Grown(inputs) /\ \A k \in DOMAIN inputs : inputs[k].type = "filter.query"
  BY <1>2, ReceivedAccounts
<1>6. /\ Shift(down, down') /\ \A i \in DOMAIN down' : down'[i].kind # "ready"
      /\ FrameTyped(frame)
  BY <1>1, <1>2, Remaining DEF ScreenInv
<1>7. Known'
  <2>1. app'.model.docs = IF Carries(frame) THEN Carried(frame).docs ELSE app.model.docs
    BY <1>4, <1>6, Transits DEF Carries, Aside
  <2>2. Leads(down, app.model, model)
    BY <1>2 DEF ScreenInv, Known
  <2>3. Leads(down', app'.model, model)
    BY <1>1, <1>6, <2>1, <2>2, LeadsAway
  <2> QED BY <1>2, <2>3 DEF Known
<1>8. ReadyFirst' /\ Unopened' /\ Unseen'
  BY <1>2, <1>6 DEF ReadyFirst, Unopened, Unseen
<1>9. Places'
  <2>1. Reasked \/ Applies
    BY <1>2, <1>4 DEF Unasking
  <2> QED BY <1>1, <1>2, <1>4, <1>5, <2>1, FramePlaces
<1>10. CASE link' # "open"
  BY <1>7, <1>8, <1>9, <1>10 DEF ScreenInv, Matching, Showing, Steady, Undisturbed
<1>11. CASE Reasked
  BY <1>3, <1>7, <1>8, <1>9, <1>11, AskingFor DEF ScreenInv
<1>12. CASE /\ frame.kind # "model" \/ app.activeFilter = None
            /\ Unasking(Unasked(frame, app'), origin)
  <2>1. Matching' /\ Showing'
    BY <1>1, <1>2, <1>4, <1>12, FrameMatches, FrameShowing
  <2> QED BY <1>7, <1>8, <1>9, <2>1 DEF ScreenInv
<1>13. CASE /\ frame.kind = "model" /\ app.activeFilter # None
            /\ AskedLast(IF FromTheView(origin') /\ ListedView(frame.views, app.activeView)
                         THEN frame.views[app.activeView].query ELSE app.activeFilter.query)
  <2>1. app'.views = frame.views /\ app'.activeView = app.activeView
    BY <1>4, <1>6, <1>13, Transits DEF Listing
  <2>2. Matching' /\ Showing'
    BY <1>3, <1>13, <2>1, AskingShows DEF FromTheView
  <2> QED BY <1>7, <1>8, <1>9, <2>2 DEF ScreenInv
<1> QED
  BY <1>4, <1>10, <1>11, <1>12, <1>13

-----------------------------------------------------------------------------
(***************************************************************************)
(* The connection.                                                         *)
(***************************************************************************)
\* What the snapshot holds is what the host holds.
LEMMA SnapshotHolds ==
  /\ Carries(ReadyFrame) /\ ~Brings(ReadyFrame)
  /\ Carried(ReadyFrame) = model /\ Listing(ReadyFrame) = views
BY DEF ReadyFrame, Snapshot, Carries, Carried, Listing, Brings, Answers

\* Nor does a diagnostic behind it carry anything.
LEMMA GreetingLeads ==
  ASSUME NEW m
  PROVE  Leads(Greeting, m, model)
<1>1. PICK ready, told : ready = ReadyFrame /\ told = DiagnosticFrame
  OBVIOUS
<1>2. /\ Carries(ready) /\ ~Brings(ready) /\ Carried(ready) = model
      /\ ~Carries(told) /\ ~Brings(told)
  BY <1>1, SnapshotHolds DEF DiagnosticFrame, Carries, Brings, Answers
<1>3. Leads(<<ready>>, m, model)
  BY <1>2, LeadsOnce DEF Dated
<1>4. PICK more : more = IF compiles THEN <<>> ELSE <<told>>
  OBVIOUS
<1>5. Leads(more, model, model) /\ Sequence(more) /\ Sequence(<<ready>>)
  BY <1>2, <1>4, LeadsOnce, LeadsNowhere, FewFrames DEF Dated
<1>6. PICK greeting : greeting = <<ready>> \o more
  OBVIOUS
<1>7. Extends(greeting, <<ready>>, more)
  BY <1>5, <1>6, Extended
<1>8. Leads(greeting, m, model)
  BY <1>3, <1>5, <1>7, LeadsOn
<1> QED
  BY <1>1, <1>4, <1>6, <1>8 DEF Greeting

\* The opening snapshot.
LEMMA LoadShows ==
  ASSUME NoneHasNoQuery, EditorInv, EditorInv', ScreenInv, Load
  PROVE  ScreenInv'
<1>1. /\ link = "loading" /\ link' \in {"open", "connecting"} /\ Receive(ReadyFrame)
      /\ UNCHANGED <<epoch, down, model, views, repertoire>>
  BY DEF Load, serverVars, workVars, boundVars
<1>2. PICK frame : frame = ReadyFrame
  OBVIOUS
<1>3. /\ frame.kind = "ready" /\ FrameTyped(frame) /\ Carries(frame)
      /\ Carried(frame) = model /\ Listing(frame) = views
  BY <1>2, ReadySays, SnapshotHolds
<1>4. /\ app = initialVisualAppState /\ up = <<>> /\ down = <<>>
  BY <1>1 DEF ScreenInv, Unopened, EditorInv, Opens
<1>5. /\ app.lifecycle # "closed" /\ app.model = None
      /\ app.activeFilter = None /\ app.focusReturn = None
  BY <1>4 DEF initialVisualAppState
<1>6. /\ app' = Transition(app, frame, origin)
      /\ Reasked \/ Unasking(Unasked(frame, app'), origin)
  BY <1>1, <1>2, <1>3, <1>5, FrameAsks
<1>7. model \in Models /\ model.initialView = Initial /\ model # None
  BY NoneAssumption DEF EditorInv, ModelsHold, Modelled, Models
<1>8. /\ app'.model = model /\ app'.views = views /\ app'.activeView = Initial
      /\ app'.activeFilter = None /\ app'.focusReturn = None
  BY <1>3, <1>5, <1>6, <1>7, Transits
<1>9. DOMAIN up = {} /\ DOMAIN down' = {} /\ Sequence(up)'
  BY <1>1, <1>4, FewFrames DEF EditorInv, Shapes
<1>10. Known'
  <2>1. Leads(<<>>, app'.model, model')
    BY <1>1, <1>8, LeadsNowhere
  <2> QED BY <1>1, <1>4, <2>1 DEF Known
<1>11. ReadyFirst' /\ Unopened'
  BY <1>1, <1>9 DEF ReadyFirst, Unopened
<1>12. Unseen'
  <2>1. Unasked(frame, app') = {"snapshot"}
    BY <1>3, <1>5, <1>7, <1>8 DEF Unasked
  <2> QED BY <1>1, <1>6, <2>1 DEF Unseen, Reasked, AskedLast, Unasking
<1>13. Places'
  <2>1. PICK inputs : Grown(inputs) /\ \A k \in DOMAIN inputs : inputs[k].type = "filter.query"
    BY <1>1, ReceivedAccounts
  <2>2. repertoire = "screen" =>
          /\ Grows' /\ \A i \in DOMAIN up' : up'[i].type # "changeset.commit"
          /\ app'.activeView \in Listed(app'.views)
    BY <1>1, <1>8, <1>9, <2>1, NoCommits DEF ScreenInv, Places, Looks, Grows
  <2>3. Reasked \/ Applies
    BY <1>6 DEF Unasking
  <2> QED BY <1>1, <1>8, <2>2, <2>3, PlacesRendered DEF ScreenInv
<1>14. CASE Reasked
  BY <1>9, <1>10, <1>11, <1>12, <1>13, <1>14, AskingFor DEF ScreenInv
<1>15. CASE Unasking(Unasked(frame, app'), origin)
  <2>1. Matching'
    BY <1>8 DEF Matching
  <2>2. \A i \in DOMAIN up' : ~Awaits(i)'
    BY <1>1, <1>9, <1>15, StillAsking
  <2>3. Showing'
    <3>1. \A q : LastAsked(q)'
      BY <1>9, <2>2 DEF LastAsked
    <3> QED BY <1>8, <3>1 DEF Showing
  <2> QED BY <1>10, <1>11, <1>12, <1>13, <2>1, <2>3 DEF ScreenInv
<1> QED
  BY <1>6, <1>14, <1>15

\* Away from the host nothing is promised about the screen.
LEMMA AwayShows ==
  ASSUME ScreenInv, Aside(app'), UNCHANGED <<views, repertoire>>,
         applied' = applied \/ Applies,
         link' \notin {"loading", "open"}, Unseen',
         \A i \in DOMAIN up' : i \in DOMAIN up /\ up'[i] = up[i],
         \A i \in DOMAIN down' : i \in DOMAIN down /\ down'[i] = down[i]
  PROVE  ScreenInv'
<1>1. Known' /\ Unopened' /\ Matching' /\ Showing'
  BY DEF Known, Unopened, Matching, Showing, Steady, Undisturbed
<1>2. ReadyFirst'
  BY DEF ScreenInv, ReadyFirst
<1>3. Grows => Grows'
  BY DEF Grows, Aside
<1>4. Places'
  BY <1>3 DEF ScreenInv, Places, Looks, Aside, Applies
<1> QED
  BY <1>1, <1>2, <1>4 DEF ScreenInv

\* A connection made, lost, tried again or given up.
LEMMA WireShows ==
  ASSUME EditorInv, EditorInv', ScreenInv, LoadFails \/ Connect \/ Drop \/ Retry \/ GiveUp
  PROVE  ScreenInv'
<1>1. /\ Aside(app) /\ Aside(visualAppReducer(app, ConnectionLost(app)))
      /\ Aside(visualAppReducer(app, SessionClosed(app)))
  BY AsideSteps DEF visualAppReducer
<1>2. Sequence(up) /\ Len(up) \in Nat /\ Sequence(<<>>) /\ DOMAIN <<>> = {}
  BY SequenceShape, FewFrames DEF EditorInv, Shapes
<1>3. UNCHANGED <<model, views, repertoire>>
  BY DEF LoadFails, Connect, Drop, Retry, GiveUp, serverVars, workVars, boundVars
<1>4. CASE LoadFails
  <2>1. /\ link' = "waiting" /\ down' = down /\ Restores({"snapshot"})
        /\ Render(visualAppReducer(app, ConnectionLost(app)), <<>>, origin)
    BY <1>4 DEF LoadFails
  <2>2. /\ app' = visualAppReducer(app, ConnectionLost(app)) /\ Applies /\ up' = up
    BY <2>1, WhoAsks
  <2>3. "snapshot" \in restored'
    BY <1>2, <2>1, <2>2 DEF Restores, Asks
  <2> QED BY <1>1, <1>3, <2>1, <2>2, <2>3, AwayShows DEF Unseen
<1>5. CASE Drop
  <2>1. /\ link' = "waiting" /\ down' = <<>> /\ applied' = applied /\ "snapshot" \in restored'
        /\ app' = visualAppReducer(app, ConnectionLost(app))
    BY <1>5 DEF Drop
  <2>2. \A i \in DOMAIN up' : i \in DOMAIN up /\ up'[i] = up[i]
    <3>1. PICK old, reached : /\ old = up /\ reached \in 0..Len(up)
                              /\ up' = SubSeq(up, 1, reached)
      BY <1>5 DEF Drop
    <3>2. \A i \in DOMAIN SubSeq(old, 1, reached) :
             i \in DOMAIN old /\ SubSeq(old, 1, reached)[i] = old[i]
      BY <1>2, <3>1, Cut
    <3> QED BY <3>1, <3>2
  <2>3. DOMAIN down' = {}
    BY <1>2, <2>1
  <2> QED BY <1>1, <1>3, <2>1, <2>2, <2>3, AwayShows DEF Unseen
<1>6. CASE Retry
  <2>1. /\ link = "waiting" /\ link' = "connecting"
        /\ UNCHANGED <<app, applied, up, down, restored>>
    BY <1>6 DEF Retry, browserVars, historyVars
  <2>2. Aside(app') /\ Unseen'
    BY <1>1, <2>1 DEF ScreenInv, Unseen
  <2> QED BY <1>3, <2>1, <2>2, AwayShows
<1>7. CASE GiveUp
  <2>1. /\ link' = "over" /\ UNCHANGED <<applied, up, down>>
        /\ app' = visualAppReducer(app, SessionClosed(app))
    BY <1>7 DEF GiveUp
  <2> QED BY <1>1, <1>3, <2>1, AwayShows DEF Unseen
<1>8. CASE Connect
  <2>1. /\ link = "connecting" /\ link' = "open" /\ down' = Greeting /\ epoch' = epoch
        /\ Render(app, <<>>, origin) /\ Restores({})
    BY <1>8 DEF Connect, Greeting
  <2>2. app' = app /\ (Reasked \/ Unasking({}, origin))
    BY <1>2, <2>1, Rerendered
  <2>4. /\ Listing(ReadyFrame) = views
        /\ \A i \in DOMAIN down' : \/ i = 1 /\ down'[i] = ReadyFrame
                                   \/ i = 2 /\ down'[i] = DiagnosticFrame
    BY <2>1, SnapshotHolds, Greeted
  <2>3. ~Carries(DiagnosticFrame) /\ DiagnosticFrame.kind # "ready"
    BY DEF DiagnosticFrame, Carries
  <2>5. Known'
    BY <1>3, <2>1, <2>2, GreetingLeads DEF Known
  <2>6. ReadyFirst' /\ Unopened' /\ Unseen'
    BY <2>1, <2>3, <2>4 DEF ReadyFirst, Unopened, Unseen
  <2>7. Places'
    <3>1. Reasked \/ Applies
      BY <2>2 DEF Unasking
    <3>2. repertoire = "screen" => Grows'
      <4>1. \A i \in DOMAIN down' : Carries(down'[i]) => i = 1 /\ Listing(down'[i]) = views
        BY <2>3, <2>4
      <4> QED BY <1>3, <2>2, <4>1 DEF ScreenInv, Places, Looks, Grows
    <3>3. repertoire = "screen" => \A i \in DOMAIN up' : up'[i].type # "changeset.commit"
      <4>1. Grown(<<>>)
        BY <1>2, <2>1, Posted
      <4> QED BY <1>2, <4>1, NoCommits DEF ScreenInv
    <3>4. repertoire = "screen" =>
            /\ app'.activeView \in Listed(app'.views) \cup {None}
            /\ app'.focusReturn # None =>
                 app'.focusReturn.activeView \in Listed(app'.views) \cup {None}
      BY <2>2 DEF ScreenInv, Places, Looks
    <3>5. repertoire # "screen" => app'.activeView \in {None, Initial}
      BY <2>2 DEF ScreenInv, Places
    <3> QED BY <1>3, <3>1, <3>2, <3>3, <3>4, <3>5, PlacesRendered DEF ScreenInv
  <2>8. Matching' /\ Showing'
    <3>1. CASE Reasked
      <4>1. Sequence(up)'
        BY DEF EditorInv, Shapes
      <4> QED BY <3>1, <4>1, AskingFor
    <3>2. CASE Unasking({}, origin)
      <4>1. "snapshot" \in restored'
        BY <2>1, <3>2 DEF ScreenInv, Unseen, Unasking
      <4> QED BY <4>1 DEF Matching, Showing, Steady
    <3> QED BY <2>2, <3>1, <3>2
  <2> QED BY <2>5, <2>6, <2>7, <2>8 DEF ScreenInv
<1> QED
  BY <1>4, <1>5, <1>6, <1>7, <1>8

-----------------------------------------------------------------------------
(***************************************************************************)
(* The host.                                                               *)
(***************************************************************************)
\* What the host says, and whether it took the first input for it: it answers
\* a query it takes, or refuses it.
Says1(taken, more) ==
  /\ UNCHANGED <<app, origin, applied, link, epoch, restored, repertoire>>
  /\ Extends(down', down, more)
  /\ taken => Shift(up, up')
  /\ ~taken => up' = up
  /\ \A i \in DOMAIN more : more[i].kind # "ready"
  /\ link = "open" => Leads(more, model, model')
  /\ \A i \in DOMAIN more : Answers(more[i]) =>
       taken /\ Awaits(1) /\ i = 1 /\ more[i].query = up[1].query
  /\ taken /\ Awaits(1) /\ link = "open" =>
       \E i \in DOMAIN more : Answers(more[i]) \/ Refuses(more[i])

\* The views it lists, where the reviewer only looks.
Lists(more) ==
  repertoire = "screen" =>
    /\ DOMAIN views' = ViewPaths /\ Listed(views) \subseteq Listed(views')
    /\ \A i \in DOMAIN more : Carries(more[i]) => Listed(Listing(more[i])) = Listed(views')

LEMMA HostPlaces ==
  ASSUME ScreenInv, NEW taken, NEW more, Says1(taken, more), Lists(more)
  PROVE  Places'
<1>1. CASE repertoire # "screen"
  BY <1>1 DEF ScreenInv, Places, Says1
<1>2. CASE repertoire = "screen"
  <2>1. Looks /\ UNCHANGED <<app, applied, link, repertoire>>
    BY <1>2 DEF ScreenInv, Places, Says1
  <2>2. \A i \in DOMAIN up' : up'[i].type # "changeset.commit"
    BY <2>1 DEF Looks, Says1, Shift
  <2>3. /\ Extends(down', down, more) /\ DOMAIN views' = ViewPaths
        /\ Listed(views) \subseteq Listed(views')
        /\ \A i \in DOMAIN more : Carries(more[i]) => Listed(Listing(more[i])) = Listed(views')
    BY <1>2 DEF Says1, Lists
  <2>4. /\ Initial \in Listed(views') /\ Listed(app.views) \subseteq Listed(views')
    BY <2>1, <2>3 DEF Looks, Grows
  <2>5. ASSUME NEW i \in DOMAIN down', Carries(down'[i])
        PROVE  /\ Initial \in Listed(Listing(down'[i]))
               /\ Listed(app.views) \subseteq Listed(Listing(down'[i]))
               /\ Listed(Listing(down'[i])) \subseteq Listed(views')
    <3>1. CASE i \in DOMAIN down
      <4>1. down'[i] = down[i]
        BY <2>3, <3>1 DEF Extends
      <4> QED BY <2>1, <2>3, <2>5, <3>1, <4>1 DEF Looks, Grows
    <3>2. CASE i \notin DOMAIN down
      <4>1. i - Len(down) \in DOMAIN more /\ down'[i] = more[i - Len(down)]
        BY <2>3, <3>2 DEF Extends
      <4> QED BY <2>3, <2>4, <2>5, <4>1
    <3> QED BY <3>1, <3>2
  <2>6. ASSUME NEW i \in DOMAIN down', NEW j \in DOMAIN down', i < j,
               Carries(down'[i]), Carries(down'[j])
        PROVE  Listed(Listing(down'[i])) \subseteq Listed(Listing(down'[j]))
    <3>1. CASE j \in DOMAIN down
      <4>1. i \in DOMAIN down
        <5>1. DOMAIN down = 1..Len(down) /\ Len(down) \in Nat /\ i \in Nat /\ i >= 1
          BY <2>3 DEF Extends
        <5> QED BY <2>6, <3>1, <5>1
      <4>2. down'[i] = down[i] /\ down'[j] = down[j]
        BY <2>3, <3>1, <4>1 DEF Extends
      <4> QED BY <2>1, <2>6, <3>1, <4>1, <4>2 DEF Looks, Grows
    <3>2. CASE j \notin DOMAIN down
      <4>1. j - Len(down) \in DOMAIN more /\ down'[j] = more[j - Len(down)]
        BY <2>3, <3>2 DEF Extends
      <4>2. Listed(Listing(down'[j])) = Listed(views')
        BY <2>3, <2>6, <4>1
      <4> QED BY <2>5, <2>6, <4>2
    <3> QED BY <3>1, <3>2
  <2>7. Grows'
    BY <2>1, <2>3, <2>4, <2>5, <2>6 DEF Grows
  <2> QED BY <1>2, <2>1, <2>2, <2>7 DEF Places, Looks
<1> QED
  BY <1>1, <1>2

\* A query taken is answered, or refused.
LEMMA HostAnswers ==
  ASSUME NEW taken, NEW more, Says1(taken, more), link = "open", ~Off'
  PROVE  /\ ~Off
         /\ \A i \in DOMAIN up : Awaits(i) =>
              \/ \E k \in DOMAIN up' : Awaits(k)'
              \/ /\ i = 1 /\ taken
                 /\ \E k \in DOMAIN down' : k \notin DOMAIN down /\ Answers(down'[k])
         /\ \A i \in DOMAIN up' : Awaits(i)' =>
              LET k == IF taken THEN i + 1 ELSE i
              IN  k \in DOMAIN up /\ Awaits(k) /\ up'[i] = up[k]
<1>1. /\ Extends(down', down, more) /\ UNCHANGED <<app, epoch, restored>>
      /\ \A i \in DOMAIN more : more[i].kind # "ready"
  BY DEF Says1
<1>3. ~Off
  BY <1>1 DEF Off, Extends
<1>4. ASSUME NEW i \in DOMAIN more PROVE ~Refuses(more[i])
  <2>1. Len(down) + i \in DOMAIN down' /\ down'[Len(down) + i] = more[i]
    BY <1>1 DEF Extends
  <2> QED BY <2>1 DEF Off
<1>5. ASSUME NEW i \in DOMAIN up, Awaits(i), \A k \in DOMAIN up' : ~Awaits(k)'
      PROVE  /\ i = 1 /\ taken
             /\ \E k \in DOMAIN down' : k \notin DOMAIN down /\ Answers(down'[k])
  <2>1. taken
    <3>1. CASE ~taken
      <4>1. i \in DOMAIN up' /\ Awaits(i)'
        BY <1>1, <1>5, <3>1 DEF Says1, Awaits
      <4> QED BY <1>5, <4>1
    <3> QED BY <3>1
  <2>2. i = 1
    <3>1. CASE i # 1
      <4>1. i - 1 \in DOMAIN up' /\ up'[i - 1] = up[i]
        BY <2>1, <3>1 DEF Says1, Shift
      <4>2. Awaits(i - 1)'
        BY <1>1, <1>5, <4>1 DEF Awaits
      <4> QED BY <1>5, <4>1, <4>2
    <3> QED BY <3>1
  <2>3. PICK n \in DOMAIN more : Answers(more[n])
    BY <1>4, <1>5, <2>1, <2>2 DEF Says1
  <2>4. /\ Len(down) + n \in DOMAIN down' /\ down'[Len(down) + n] = more[n]
        /\ Len(down) + n \notin DOMAIN down
    BY <1>1 DEF Extends
  <2> QED BY <2>1, <2>2, <2>3, <2>4
<1>6. ASSUME NEW i \in DOMAIN up', Awaits(i)', NEW k, k = IF taken THEN i + 1 ELSE i
      PROVE  k \in DOMAIN up /\ Awaits(k) /\ up'[i] = up[k]
  <2>1. k \in DOMAIN up /\ up'[i] = up[k]
    BY <1>6 DEF Says1, Shift
  <2> QED BY <1>1, <1>6, <2>1 DEF Awaits
<1> QED
  BY <1>3, <1>5, <1>6

LEMMA HostShows ==
  ASSUME EditorInv, EditorInv', ScreenInv, NEW taken \in BOOLEAN, NEW more,
         Says1(taken, more), Lists(more)
  PROVE  ScreenInv'
<1>1. /\ UNCHANGED <<app, origin, applied, link, epoch, restored, repertoire>>
      /\ Extends(down', down, more)
  BY DEF Says1
<1>2. Places'
  BY HostPlaces
<1>3. Known'
  BY <1>1, LeadsOn DEF ScreenInv, Known, Says1
<1>4. ReadyFirst'
  BY <1>1 DEF ScreenInv, ReadyFirst, Extends, Says1
<1>5. Unopened'
  <2>1. link = "loading" => ~taken
    <3>1. up = <<>> => DOMAIN up = {}
      BY FewFrames
    <3> QED BY <3>1 DEF ScreenInv, Unopened, Says1, Shift
  <2> QED BY <1>1, <2>1 DEF ScreenInv, Unopened, Says1
<1>6. Unseen'
  BY <1>1 DEF ScreenInv, Unseen
<1>7. Matching'
  <2> SUFFICES ASSUME Undisturbed', restored \cap {"focus", "snapshot", "late"} = {},
                      app.activeFilter # None
               PROVE  \/ MatchesTheModel'
                      \/ \E i \in DOMAIN up' : Awaits(i)'
                      \/ \E i \in DOMAIN down' : Brings(down'[i])
    BY <1>1 DEF Matching
  <2>1. link = "open" /\ ~Off'
    BY <1>1 DEF Undisturbed
  <2>2. \/ MatchesTheModel
        \/ \E i \in DOMAIN up : Awaits(i)
        \/ \E i \in DOMAIN down : Brings(down[i])
    BY <2>1, HostAnswers DEF ScreenInv, Matching, Undisturbed
  <2>3. CASE MatchesTheModel
    BY <1>1, <2>3 DEF MatchesTheModel
  <2>4. CASE \E i \in DOMAIN down : Brings(down[i])
    BY <1>1, <2>4 DEF Extends
  <2>5. CASE \E i \in DOMAIN up : Awaits(i)
    BY <2>1, <2>5, HostAnswers DEF Brings
  <2> QED BY <2>2, <2>3, <2>4, <2>5
<1>8. Showing'
  <2> SUFFICES ASSUME Steady' PROVE Showing'
    BY DEF Showing
  <2>1. link = "open" /\ ~Off' /\ Steady
    BY <1>1, HostAnswers DEF Steady, Undisturbed
  <2>2. PICK q : q = app.views[app.activeView].query
    OBVIOUS
  <2>3. /\ origin = "view" => LastAsked(q)
        /\ NothingAsked /\ app.activeFilter # None /\ app.activeFilter.source = "view"
             => app.activeFilter.query = q
    BY <2>1, <2>2 DEF ScreenInv, Showing
  <2>4. NothingAsked' => NothingAsked
    <3> SUFFICES ASSUME NothingAsked' PROVE NothingAsked
      OBVIOUS
    <3>1. \A i \in DOMAIN up : ~Awaits(i)
      BY <2>1, HostAnswers DEF NothingAsked
    <3>2. \A i \in DOMAIN down : ~Answers(down[i])
      BY <1>1 DEF NothingAsked, Extends
    <3> QED BY <3>1, <3>2 DEF NothingAsked
  <2>5. LastAsked(q) => LastAsked(q)'
    <3> SUFFICES ASSUME LastAsked(q) PROVE LastAsked(q)'
      OBVIOUS
    <3>1. ASSUME NEW i \in DOMAIN up', Awaits(i)', \A j \in DOMAIN up' : Awaits(j)' => j <= i
          PROVE  up'[i].query = q
      <4>1. CASE ~taken
        BY <1>1, <3>1, <4>1 DEF LastAsked, Says1, Awaits
      <4>2. CASE taken
        <5>1. Shift(up, up')
          BY <4>2 DEF Says1
        <5>2. i \in Nat /\ i + 1 \in DOMAIN up /\ up'[i] = up[i + 1] /\ Awaits(i + 1)
          BY <1>1, <3>1, <5>1 DEF Shift, Awaits
        <5>3. ASSUME NEW j \in DOMAIN up, Awaits(j) PROVE j <= i + 1
          <6>1. CASE j = 1
            BY <5>2, <6>1
          <6>2. CASE j # 1
            <7>1. j \in Nat /\ j - 1 \in DOMAIN up' /\ up'[j - 1] = up[j]
              BY <5>1, <6>2 DEF Shift
            <7>2. Awaits(j - 1)'
              BY <1>1, <5>3, <7>1 DEF Awaits
            <7>3. j - 1 <= i
              BY <3>1, <7>1, <7>2
            <7> QED BY <5>2, <7>1, <7>3
          <6> QED BY <6>1, <6>2
        <5> QED BY <5>2, <5>3 DEF LastAsked
      <4> QED BY <4>1, <4>2
    <3>2. ASSUME \A i \in DOMAIN up' : ~Awaits(i)', NEW i \in DOMAIN down', Answers(down'[i]),
                 \A j \in DOMAIN down' : Answers(down'[j]) => j <= i
          PROVE  down'[i].query = q
      <4>0. /\ DOMAIN down = 1..Len(down) /\ Len(down) \in Nat
            /\ \A k \in DOMAIN down' : k \in Nat
        BY <1>1 DEF Extends
      <4>1. CASE i \in DOMAIN down
        <5>1. \A k \in DOMAIN down' : k \notin DOMAIN down => ~Answers(down'[k])
          <6> SUFFICES ASSUME NEW k \in DOMAIN down', k \notin DOMAIN down, Answers(down'[k])
                       PROVE  FALSE
            OBVIOUS
          <6>1. k <= i /\ k > Len(down)
            BY <1>1, <3>2 DEF Extends
          <6> QED BY <4>0, <4>1, <6>1
        <5>2. \A k \in DOMAIN up : ~Awaits(k)
          BY <2>1, <3>2, <5>1, HostAnswers
        <5>3. \A j \in DOMAIN down : j \in DOMAIN down' /\ down'[j] = down[j]
          BY <1>1 DEF Extends
        <5> QED BY <3>2, <4>1, <5>2, <5>3 DEF LastAsked
      <4>2. CASE i \notin DOMAIN down
        <5>1. PICK n : n = i - Len(down)
          OBVIOUS
        <5>2. n \in DOMAIN more /\ down'[i] = more[n]
          BY <1>1, <4>2, <5>1 DEF Extends
        <5>3. taken /\ Awaits(1) /\ more[n].query = up[1].query
          BY <3>2, <5>2 DEF Says1
        <5>4. 1 \in DOMAIN up
          BY <5>3 DEF Says1, Shift
        <5>5. \A j \in DOMAIN up : Awaits(j) => j = 1
          BY <2>1, <3>2, HostAnswers
        <5>6. \A j \in DOMAIN up : Awaits(j) => j <= 1
          BY <5>5
        <5>7. up[1].query = q
          BY <5>3, <5>4, <5>6 DEF LastAsked
        <5> QED BY <5>2, <5>3, <5>7
      <4> QED BY <4>1, <4>2
    <3> QED BY <3>1, <3>2 DEF LastAsked
  <2> QED BY <1>1, <2>2, <2>3, <2>4, <2>5 DEF Showing
<1> QED
  BY <1>2, <1>3, <1>4, <1>5, <1>6, <1>7, <1>8 DEF ScreenInv

\* The host takes the first input, or none.
LEMMA TakenSays ==
  ASSUME EditorInv, UNCHANGED <<app, origin, applied, link, epoch, restored, repertoire>>,
         up # <<>>, up' = Tail(up), NEW more, Sequence(more), down' = down \o more,
         \A i \in DOMAIN more : more[i].kind # "ready",
         link = "open" => Leads(more, model, model'),
         \A i \in DOMAIN more : Answers(more[i]) =>
           Awaits(1) /\ i = 1 /\ more[i].query = up[1].query,
         Awaits(1) /\ link = "open" =>
           \E i \in DOMAIN more : Answers(more[i]) \/ Refuses(more[i])
  PROVE  Says1(TRUE, more)
<1>1. PICK old, new : old = down /\ new = down' /\ new = old \o more
  OBVIOUS
<1>2. Sequence(up) /\ Sequence(old)
  BY <1>1 DEF EditorInv, Shapes
<1>3. Extends(new, old, more)
  BY <1>1, <1>2, Extended
<1>4. Shift(up, up')
  BY <1>2, Shifted
<1> QED
  BY <1>1, <1>3, <1>4 DEF Says1

LEMMA UntakenSays ==
  ASSUME EditorInv, UNCHANGED <<app, origin, applied, link, epoch, restored, repertoire>>,
         up' = up, NEW more, Sequence(more), down' = down \o more,
         \A i \in DOMAIN more : more[i].kind # "ready" /\ ~Answers(more[i]),
         link = "open" => Leads(more, model, model')
  PROVE  Says1(FALSE, more)
<1>1. PICK old, new : old = down /\ new = down' /\ new = old \o more
  OBVIOUS
<1>2. Sequence(old)
  BY <1>1 DEF EditorInv, Shapes
<1>3. Extends(new, old, more)
  BY <1>1, <1>2, Extended
<1> QED
  BY <1>1, <1>3 DEF Says1

\* At most one frame: what it carries is what the host has compiled by then.
LEMMA LeadsAtMost ==
  ASSUME NEW frame, NEW more, more \in {<<>>, <<frame>>}, NEW m, NEW m2,
         Dated(frame) => frame.matched = <<frame.query, m.docs>>,
         IF Carries(frame) THEN more = <<frame>> /\ m2.docs = Carried(frame).docs
         ELSE m2.docs = m.docs
  PROVE  Leads(more, m, m2)
<1>1. CASE more = <<>>
  <2>1. m2.docs = m.docs
    <3>1. <<>> # <<frame>>
      OBVIOUS
    <3> QED BY <1>1, <3>1
  <2> QED BY <1>1, <2>1, LeadsNowhere
<1>2. CASE more = <<frame>>
  BY <1>2, LeadsOnce
<1> QED
  BY <1>1, <1>2

\* What is said of a compile.
LEMMA NewsShows ==
  /\ News.kind \in {"model", "response"} /\ ~Brings(News) /\ ~Answers(News)
  /\ Carries(News) => Listing(News) = views'
  /\ Recompiles => Leads(<<News>>, model, model')
<1>1. /\ News.kind \in {"model", "response"} /\ ~Brings(News) /\ ~Answers(News)
      /\ Carries(News) => Listing(News) = views'
  BY DEF News, ModelFrame, DiagnosticFrame, Carries, Listing, Brings, Answers
<1>2. PICK news : news = News
  OBVIOUS
<1>3. ASSUME Recompiles PROVE Leads(<<news>>, model, model')
  <2>1. model'.docs = IF Carries(news) THEN Carried(news).docs ELSE model.docs
    BY <1>2, <1>3, NewsOfTheModel
  <2> QED BY <1>1, <1>2, <2>1, LeadsOnce DEF Dated
<1> QED
  BY <1>1, <1>2, <1>3

\* Where the reviewer only looks and the views stay as they are.
LEMMA ListsNothing ==
  ASSUME ScreenInv, UNCHANGED views, NEW more, \A i \in DOMAIN more : ~Carries(more[i])
  PROVE  Lists(more)
BY DEF ScreenInv, Places, Looks, Grows, Lists

\* Inputs refused, filters answered, turns and endings taken.
LEMMA RepliesShow ==
  ASSUME EditorInv, EditorInv', ScreenInv, Refuse \/ AnswerFilter \/ TakeTurn \/ TakeEnd
  PROVE  ScreenInv'
<1>1. CASE Refuse
  <2>1. PICK freezing : down' = down \o Replied(up[1], <<Rejected(up[1].type, freezing)>>)
    BY <1>1, Refusing
  <2>2. PICK frame : frame = Rejected(up[1].type, freezing)
    OBVIOUS
  <2>3. /\ ~Carries(frame) /\ ~Answers(frame) /\ ~Brings(frame) /\ frame.kind # "ready"
        /\ up[1].type = "filter.query" => Refuses(frame)
    BY <2>2 DEF Rejected, Carries, Answers, Brings, Refuses
  <2>4. PICK more : more = Replied(up[1], <<frame>>)
    OBVIOUS
  <2>5. /\ more \in {<<>>, <<frame>>} /\ Sequence(more) /\ \A i \in DOMAIN more : more[i] = frame
        /\ link = "open" /\ up[1].epoch = epoch => 1 \in DOMAIN more
    BY <2>4, FewFrames DEF Replied, Open
  <2>6. /\ UNCHANGED <<app, origin, applied, link, epoch, restored, repertoire, model, views>>
        /\ up # <<>> /\ up' = Tail(up)
    BY <1>1, Refusing DEF Remains, serverVars, workVars, browserVars
  <2>11. down' = down \o more
    BY <2>1, <2>2, <2>4
  <2>7. Leads(more, model, model')
    BY <2>3, <2>5, <2>6, LeadsAtMost DEF Dated
  <2>8. Awaits(1) /\ link = "open" => \E i \in DOMAIN more : Refuses(more[i])
    BY <2>3, <2>5 DEF Awaits
  <2>9. Says1(TRUE, more)
    BY <2>3, <2>5, <2>6, <2>7, <2>8, <2>11, TakenSays
  <2>10. Lists(more)
    BY <2>3, <2>5, <2>6, ListsNothing
  <2> QED BY <2>9, <2>10, HostShows
<1>2. CASE AnswerFilter
  <2>2. PICK frame : frame = [kind |-> "filter-result", query |-> up[1].query,
                              matched |-> <<up[1].query, model.docs>>]
    OBVIOUS
  <2>3. /\ frame.kind = "filter-result" /\ Answers(frame) /\ frame.query = up[1].query
        /\ frame.matched = <<frame.query, model.docs>> /\ ~Carries(frame)
    BY <2>2 DEF Carries, Answers
  <2>4. PICK more : more = Replied(up[1], <<frame>>)
    OBVIOUS
  <2>5. /\ more \in {<<>>, <<frame>>} /\ Sequence(more)
        /\ \A i \in DOMAIN more : i = 1 /\ more[i] = frame /\ up[1].epoch = epoch
        /\ link = "open" /\ up[1].epoch = epoch => 1 \in DOMAIN more
    BY <2>4, FewFrames DEF Replied, Open
  <2>6. /\ UNCHANGED <<app, origin, applied, link, epoch, restored, repertoire, model, views>>
        /\ up # <<>> /\ up[1].type = "filter.query" /\ up' = Tail(up) /\ down' = down \o more
    BY <1>2, <2>2, <2>4 DEF AnswerFilter, Next1, Stays, Remains, serverVars, workVars, browserVars
  <2>7. Leads(more, model, model')
    BY <2>3, <2>5, <2>6, LeadsAtMost
  <2>8. \A i \in DOMAIN more : Awaits(1) /\ i = 1 /\ more[i].query = up[1].query
    BY <2>3, <2>5, <2>6 DEF Awaits
  <2>9. Awaits(1) /\ link = "open" => \E i \in DOMAIN more : Answers(more[i])
    BY <2>3, <2>5 DEF Awaits
  <2>10. Says1(TRUE, more)
    BY <2>3, <2>5, <2>6, <2>7, <2>8, <2>9, TakenSays
  <2>11. Lists(more)
    BY <2>3, <2>5, <2>6, ListsNothing
  <2> QED BY <2>10, <2>11, HostShows
<1>3. CASE TakeTurn \/ TakeEnd
  <2>1. /\ UNCHANGED <<app, origin, applied, link, epoch, restored, repertoire, model, views, down>>
        /\ up # <<>> /\ up[1].type # "filter.query" /\ up' = Tail(up)
    BY <1>3 DEF TakeTurn, TakeEnd, Next1, Stays, Remains, browserVars, workVars
  <2>2. PICK more : more = <<>>
    OBVIOUS
  <2>3. Sequence(more) /\ DOMAIN more = {} /\ down' = down \o more
    BY <2>1, <2>2, NothingMore, FewFrames
  <2>4. Leads(more, model, model')
    BY <2>1, <2>2, LeadsNowhere
  <2>5. Says1(TRUE, more)
    BY <2>1, <2>3, <2>4, TakenSays DEF Awaits
  <2>6. Lists(more)
    BY <2>1, <2>3, ListsNothing
  <2> QED BY <2>5, <2>6, HostShows
<1> QED
  BY <1>1, <1>2, <1>3

\* A batch judged or landed: only who never just looks sends one.
LEMMA CommitsShow ==
  ASSUME EditorInv, EditorInv', ScreenInv, RefusePins \/ RefusePlan \/ Land
  PROVE  ScreenInv'
<1>1. PICK ok \in BOOLEAN :
        \/ /\ UNCHANGED model
           /\ down' = down \o Replied(up[1], <<[kind |-> "apply-result", ok |-> ok]>>)
        \/ /\ Recompiles
           /\ down' = down \o Replied(up[1], <<[kind |-> "apply-result", ok |-> ok]>>)
                           \o Broadcast(<<News>>)
  BY DEF RefusePins, RefusePlan, Land, workVars
<1>2. /\ UNCHANGED <<app, origin, applied, link, epoch, restored, repertoire>>
      /\ up # <<>> /\ up[1].type = "changeset.commit" /\ up' = Tail(up)
  BY DEF RefusePins, RefusePlan, Land, CommitNow, Next1, Stays, Remains, browserVars
<1>3. PICK receipt, news : /\ receipt = [kind |-> "apply-result", ok |-> ok]
                           /\ news = News
  OBVIOUS
<1>4. /\ receipt.kind = "apply-result" /\ ~Carries(receipt) /\ ~Brings(receipt)
      /\ news.kind \in {"model", "response"}
      /\ Recompiles => Leads(<<news>>, model, model')
  BY <1>3, NewsShows DEF Carries, Brings, Answers
<1>5. PICK reply, told : reply = Replied(up[1], <<receipt>>) /\ told = Broadcast(<<news>>)
  OBVIOUS
<1>6. /\ reply \in {<<>>, <<receipt>>} /\ Sequence(reply) /\ \A i \in DOMAIN reply : reply[i] = receipt
      /\ Sequence(told) /\ \A i \in DOMAIN told : told[i] = news
      /\ link = "open" => told = <<news>>
  BY <1>5, FewFrames DEF Replied, Broadcast, Open
<1>7. Leads(reply, model, model)
  BY <1>4, <1>6, LeadsAtMost DEF Dated
<1>8. ~Awaits(1)
  BY <1>2 DEF Awaits
<1>9. PICK more : /\ Sequence(more) /\ down' = down \o more
                  /\ \A i \in DOMAIN more : more[i].kind \in {"apply-result", "model", "response"}
                  /\ link = "open" => Leads(more, model, model')
  <2>1. CASE UNCHANGED model /\ down' = down \o reply
    <3>1. link = "open" => Leads(reply, model, model')
      <4>1. model' = model
        BY <2>1
      <4> QED BY <1>7, <4>1
    <3> QED BY <1>4, <1>6, <2>1, <3>1
  <2>2. CASE Recompiles /\ down' = down \o reply \o told
    <3>1. Extends(reply \o told, reply, told)
      BY <1>6, Extended
    <3>2. link = "open" => Leads(told, model, model')
      BY <1>4, <1>6, <2>2
    <3>3. link = "open" => Leads(reply \o told, model, model')
      BY <1>7, <3>1, <3>2, LeadsOn
    <3>4. down' = down \o (reply \o told)
      <4>1. Sequence(down)
        BY DEF EditorInv, Shapes
      <4> QED BY <1>6, <2>2, <4>1, Associated
    <3>5. /\ Sequence(reply \o told)
          /\ \A i \in DOMAIN (reply \o told) : (reply \o told)[i] \in {receipt, news}
      <4>1. /\ Sequence(reply \o told)
            /\ \A i \in DOMAIN (reply \o told) :
                 \/ \E j \in DOMAIN reply : (reply \o told)[i] = reply[j]
                 \/ \E j \in DOMAIN told : (reply \o told)[i] = told[j]
        BY <1>6, Both
      <4>2. ASSUME NEW i \in DOMAIN (reply \o told)
            PROVE  (reply \o told)[i] \in {receipt, news}
        BY <1>6, <4>1, Zenon
      <4> QED BY <4>1, <4>2
    <3>6. PICK both : both = reply \o told
      OBVIOUS
    <3>7. \A i \in DOMAIN both : both[i].kind \in {"apply-result", "model", "response"}
      BY <1>4, <3>5, <3>6
    <3> QED BY <3>3, <3>4, <3>5, <3>6, <3>7
  <2> QED BY <1>1, <1>3, <1>5, <2>1, <2>2
<1>10. Says1(TRUE, more)
  BY <1>2, <1>8, <1>9, TakenSays DEF Answers
<1>11. repertoire # "screen"
  <2>1. 1 \in DOMAIN up
    BY <1>2, Shifted DEF EditorInv, Shapes, Shift
  <2> QED BY <1>2, <2>1 DEF ScreenInv, Places, Looks
<1>12. Lists(more)
  BY <1>11 DEF Lists
<1> QED
  BY <1>10, <1>12, HostShows

\* A frame nobody asked for.
Volunteered(frame) ==
  /\ down' \in {down \o Broadcast(<<frame>>), down \o <<frame>>}
  /\ frame.kind \in {"response", "closing"}
  /\ Dated(frame) => frame.matched = <<frame.query, model.docs>>

\* Everybody else, and the host of its own accord.
LEMMA OthersShow ==
  ASSUME NoneHasNoQuery, EditorInv, EditorInv', ScreenInv,
         \/ Save \/ OtherTab \/ Freeze \/ RefreshHost
         \/ AgentAnswers \/ AgentAsks \/ MatchChatFilter \/ AgentFilters \/ SessionEnds
         \/ UNCHANGED vars
  PROVE  ScreenInv'
<1>1. CASE Save \/ Freeze \/ MatchChatFilter \/ UNCHANGED vars
  <2>1. UNCHANGED <<app, origin, applied, link, epoch, restored, repertoire, model, views, up, down>>
    BY <1>1 DEF Save, Freeze, MatchChatFilter, Writing, vars, browserVars, wireVars, serverVars,
                workVars, boundVars, historyVars
  <2>2. PICK more : more = <<>>
    OBVIOUS
  <2>3. Sequence(more) /\ DOMAIN more = {} /\ down' = down \o more
    BY <2>1, <2>2, NothingMore, FewFrames
  <2>4. Leads(more, model, model')
    BY <2>1, <2>2, LeadsNowhere
  <2>5. Says1(FALSE, more)
    BY <2>1, <2>3, <2>4, UntakenSays
  <2>6. Lists(more)
    BY <2>1, <2>3, ListsNothing
  <2> QED BY <2>5, <2>6, HostShows
<1>2. CASE OtherTab \/ RefreshHost
  <2>1. PICK news : news = News
    OBVIOUS
  <2>2. /\ news.kind # "ready" /\ ~Answers(news)
        /\ Carries(news) => Listing(news) = views'
        /\ Recompiles => Leads(<<news>>, model, model')
    BY <2>1, NewsShows
  <2>3. /\ UNCHANGED <<app, origin, applied, link, epoch, restored, repertoire, up>> /\ Recompiles
        /\ \/ down' = down \o Broadcast(<<news>>)
           \/ link = "open" /\ down' = down \o <<news>>
           \/ model' = model /\ down' = down
    BY <1>2, <2>1 DEF OtherTab, RefreshHost, Writing, Stays, Remains, browserVars, News, Recompiles
  <2>4. PICK more : /\ down' = down \o more /\ Sequence(more)
                    /\ \A i \in DOMAIN more : more[i] = news
                    /\ link = "open" => more = <<news>> \/ (model' = model /\ more = <<>>)
    BY <2>3, FewFrames, NothingMore DEF Broadcast, Open
  <2>5. link = "open" => Leads(more, model, model')
    BY <2>2, <2>3, <2>4, LeadsNowhere
  <2>6. Says1(FALSE, more)
    BY <2>2, <2>3, <2>4, <2>5, UntakenSays
  <2>7. repertoire = "screen" => DOMAIN views' = ViewPaths /\ Listed(views) \subseteq Listed(views')
    <3> SUFFICES ASSUME repertoire = "screen"
                 PROVE  DOMAIN views' = ViewPaths /\ Listed(views) \subseteq Listed(views')
      OBVIOUS
    <3>1. DOMAIN views = ViewPaths
      BY DEF ScreenInv, Places, Looks, Grows
    <3>2. CASE RefreshHost
      BY <3>1, <3>2 DEF RefreshHost
    <3>3. CASE OtherTab
      <4>1. PICK p \in Paths : \E content \in Written(p) :
              views' = IF p \in ViewPaths THEN [views EXCEPT ![p] = content] ELSE views
        BY <3>3 DEF OtherTab
      <4>2. PICK content \in Written(p) :
              views' = IF p \in ViewPaths THEN [views EXCEPT ![p] = content] ELSE views
        BY <4>1
      <4>3. p \in ViewPaths => content # None
        BY PathsAssumption DEF Written, Stored, NoneHasNoQuery
      <4> QED BY <3>1, <4>2, <4>3 DEF Listed
    <3> QED BY <1>2, <3>2, <3>3
  <2>8. Lists(more)
    BY <2>2, <2>4, <2>7 DEF Lists
  <2> QED BY <2>6, <2>8, HostShows
<1>3. CASE AgentAnswers \/ AgentAsks \/ AgentFilters \/ SessionEnds
  <2>1. PICK frame : Volunteered(frame)
    <3>1. CASE AgentAnswers
      <4>1. PICK frame \in AgentFrames : down' = down \o Broadcast(<<frame>>)
        BY <3>1 DEF AgentAnswers, AgentSays
      <4>2. frame.kind = "response" /\ ~Brings(frame)
        BY DEF AgentFrames, ChatResponse, Brings, Answers
      <4>3. Volunteered(frame)
        BY <4>1, <4>2 DEF Dated, Volunteered
      <4> QED BY <4>3
    <3>2. CASE AgentAsks
      <4>1. PICK choice :
              down' = down \o Broadcast(<<[kind |-> "response", type |-> "choice.present",
                                           choice |-> choice]>>)
        BY <3>2 DEF AgentAsks, AgentSays
      <4>2. PICK frame : frame = [kind |-> "response", type |-> "choice.present", choice |-> choice]
        OBVIOUS
      <4>3. frame.kind = "response" /\ ~Brings(frame)
        BY <4>2 DEF Brings, Answers
      <4>4. Volunteered(frame)
        BY <4>1, <4>2, <4>3 DEF Dated, Volunteered
      <4> QED BY <4>4
    <3>3. CASE AgentFilters
      <4>1. PICK frame : frame = ChatResponse(prepared.query, <<prepared.query, prepared.docs>>,
                                              prepared.docs # model.docs)
        OBVIOUS
      <4>2. down' = down \o Broadcast(<<frame>>)
        BY <3>3, <4>1 DEF AgentFilters, AgentSays
      <4>3. /\ frame.kind = "response" /\ frame.query = prepared.query
            /\ frame.matched = <<prepared.query, prepared.docs>>
            /\ frame.late = (prepared.docs # model.docs)
        BY <4>1 DEF ChatResponse
      <4>4. Dated(frame) => frame.matched = <<frame.query, model.docs>>
        BY <4>3 DEF Dated, Answers
      <4>5. Volunteered(frame)
        BY <4>2, <4>3, <4>4 DEF Volunteered
      <4> QED BY <4>5
    <3>4. CASE SessionEnds
      <4>1. PICK frame : frame = [kind |-> "closing"]
        OBVIOUS
      <4>2. down' = down \o <<frame>>
        BY <3>4, <4>1 DEF SessionEnds
      <4>3. frame.kind = "closing" /\ ~Brings(frame)
        BY <4>1 DEF Brings, Answers
      <4>4. Volunteered(frame)
        BY <4>2, <4>3 DEF Dated, Volunteered
      <4> QED BY <4>4
    <3> QED BY <1>3, <3>1, <3>2, <3>3, <3>4
  <2>2. UNCHANGED <<app, origin, applied, link, epoch, restored, repertoire, up, model, views>>
    BY <1>3 DEF AgentAnswers, AgentAsks, AgentFilters, AgentSays, SessionEnds, Remains,
                serverVars, workVars, browserVars, boundVars, historyVars
  <2>3. frame.kind # "ready" /\ ~Carries(frame) /\ ~Answers(frame)
    BY <2>1 DEF Volunteered, Carries, Answers
  <2>4. PICK more : /\ down' = down \o more /\ Sequence(more) /\ more \in {<<>>, <<frame>>}
                    /\ \A i \in DOMAIN more : more[i] = frame
    BY <2>1, FewFrames DEF Volunteered, Broadcast, Open
  <2>5. Leads(more, model, model')
    BY <2>1, <2>2, <2>3, <2>4, LeadsAtMost DEF Volunteered
  <2>6. Says1(FALSE, more)
    BY <2>2, <2>3, <2>4, <2>5, UntakenSays
  <2>7. Lists(more)
    BY <2>2, <2>3, <2>4, ListsNothing
  <2> QED BY <2>6, <2>7, HostShows
<1> QED
  BY <1>1, <1>2, <1>3

-----------------------------------------------------------------------------
LEMMA ScreenStarts ==
  ASSUME NoneHasNoQuery, Init
  PROVE  ScreenInv
<1>1. /\ app = initialVisualAppState /\ origin = "panel" /\ applied = None
      /\ link = "loading" /\ up = <<>> /\ down = <<>>
      /\ DOMAIN views = ViewPaths /\ \A p \in ViewPaths : views[p] = disk[p]
      /\ DOMAIN up = {} /\ DOMAIN down = {}
  BY FewFrames DEF Init
<1>2. app.activeView = None /\ app.focusReturn = None /\ \A p \in ViewPaths : app.views[p] = None
  BY <1>1 DEF initialVisualAppState
<1>3. Initial \in ViewPaths /\ views[Initial] # None
  <2>1. Initial \in ViewPaths /\ Initial \notin Documents /\ Initial \in Paths
    BY PathsAssumption DEF Paths
  <2>2. disk[Initial] = Stored(Content(FirstTitle, <<>>), 0)
    BY <2>1 DEF Init
  <2>3. disk[Initial] # None
    BY <2>2 DEF Stored, NoneHasNoQuery
  <2> QED BY <1>1, <2>1, <2>3
<1>4. Places
  BY <1>1, <1>2, <1>3 DEF Places, Looks, Grows, Listed
<1> QED
  BY <1>1, <1>4 DEF ScreenInv, Known, ReadyFirst, Unopened, Unseen, Matching, Showing, Steady,
                    Undisturbed

LEMMA ScreenSteps ==
  ASSUME NoneHasNoQuery, EditorInv, ScreenInv, [Next]_vars
  PROVE  ScreenInv'
<1>1. EditorInv'
  BY EditorSteps
<1>2. CASE Next
  BY <1>1, <1>2, TrayShows, LooksShow, LoadShows, WireShows, DeliverShows, RepliesShow,
     CommitsShow, OthersShow DEF Next
<1>3. CASE UNCHANGED vars
  BY <1>1, <1>3, OthersShow
<1> QED
  BY <1>2, <1>3

(***************************************************************************)
(* When nothing is on its way, the canvas shows what the standing query    *)
(* selects from the model on screen, and a view shows the query it is      *)
(* listed with: however commits, other browsers' landings, picks, focuses  *)
(* and the agent's queries cross, whichever compiles fail, over any number *)
(* of lost connections, and for any number of gestures and views (receive, *)
(* filterToReresolve and the view effect of session-client.tsx).  What the *)
(* property leaves out, a refused query and a filter of the agent's come   *)
(* too late among it, is stated with it.                                   *)
(***************************************************************************)
THEOREM QuietScreenShowsTheModel ==
  ASSUME NoneHasNoQuery
  PROVE  Spec => []QuietScreenIsCurrent
<1>1. ScreenInv => QuietScreenIsCurrent
  <2> SUFFICES ASSUME ScreenInv, ScreenRests,
                      restored \cap {"focus", "snapshot", "refusal", "late"} = {}
               PROVE  MatchesTheModel /\ (restored = {} => ShowsTheViewsQuery)
    BY DEF QuietScreenIsCurrent
  <2>1. /\ DOMAIN up = {} /\ DOMAIN down = {} /\ link = "open"
        /\ app.activeFilter # None
    BY FewFrames DEF ScreenRests, Quiet
  <2>2. Undisturbed
    BY <2>1 DEF Undisturbed, Off
  <2>3. MatchesTheModel
    BY <2>1, <2>2 DEF ScreenInv, Matching
  <2>4. restored = {} => ShowsTheViewsQuery
    BY <2>1, <2>2 DEF ScreenInv, Showing, Steady, NothingAsked, ShowsTheViewsQuery
  <2> QED BY <2>3, <2>4
<1>2. Init => EditorInv /\ ScreenInv
  BY EditorStarts, ScreenStarts
<1>3. EditorInv /\ ScreenInv /\ [Next]_vars => (EditorInv /\ ScreenInv)'
  BY EditorSteps, ScreenSteps
<1> QED
  BY <1>1, <1>2, <1>3, PTL DEF Spec
=============================================================================
