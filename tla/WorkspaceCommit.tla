-------------------------- MODULE WorkspaceCommit --------------------------
(***************************************************************************)
(* Batches landing in one workspace of files: `yarramate apply` processes, *)
(* the visual session's commit, and an editor that knows nothing of        *)
(* either.  Each process runs at the granularity of its file operations:   *)
(* the sources are read one by one, planned on, compared with the disk and *)
(* written one by one.  A revision is the content itself.                  *)
(***************************************************************************)
EXTENDS ApplyOperations

CONSTANTS
    Kinds,          \* [path -> kind]: what the manifest lists when it is there
    DirectoryOf,    \* [path -> directory]
    DefaultDirectory,   \* where the first view of a workspace may go
    Start,          \* what the workspace holds at first
    NoFile,         \* no file at this path
    Appliers,       \* processes that land a batch each
    Session,        \* the visual session: it serves one commit after another
    Batches,        \* [writer -> the batches it may be given]
    Saves,          \* [path -> what an editor may save there]
    MaxSaves,       \* saves by the editor in one behaviour
    MaxCommits      \* commits served by the session in one behaviour

Paths == DOMAIN Kinds
Writers == Appliers \cup {Session}

\* What a manifest lists is finite and of the kinds that planOperations reads;
\* the session is one process, and the editor none of the writers; a profile's
\* path has a place in the collation.
WorkspaceAssumption ==
    /\ IsFiniteSet(Paths) /\ DOMAIN Start = Paths
    /\ \A p \in Paths : Kinds[p] \in {"profile", "pattern", "document",
                                      "projection", "evidence", "mapping"}
    /\ \A p \in Paths : Kinds[p] = "profile" => p \in ToSet(Collation)
    /\ Session \notin Appliers
    /\ "editor" \notin Writers

ASSUME WorkspaceAssumption

VARIABLES
    files,      \* [path -> content or NoFile]
    run,        \* [writer -> how far it is in its batch]
    resolved,   \* the paths the session resolved when it started
    shown,      \* [path -> content]: the digests that go with the model
    views,      \* [path -> content]: the session's list of views
    frozen,     \* "recompile-failed": the session takes no more input
    saves,      \* saves made by the editor
    commits,    \* commits the session has taken
    others      \* [writer -> what others changed since it began, and checked]

vars == <<files, run, resolved, shown, views, frozen, saves, commits, others>>
session == <<resolved, shown, views, frozen>>

Present(f) == {p \in Paths : f[p] # NoFile}

\* The manifest, resolved now.
Listed(f) == [p \in Present(f) |-> Kinds[p]]

Projections(f) == PathsOf(Listed(f), "projection")

\* The order in which planOperations reads what the manifest lists.
ReadOrder(listed) ==
    LET Of(kind) == SetToSeq(PathsOf(listed, kind))
    IN  Of("profile") \o Of("pattern") \o Of("document") \o Of("projection")
            \o Of("evidence") \o Of("mapping")

Idle == [at |-> "idle"]
Nobody == [begun |-> {}, checked |-> {}]

Init ==
    /\ files = Start
    /\ run = [w \in Writers |-> Idle]
    /\ resolved = Present(Start)
    /\ shown = [p \in Present(Start) |-> Start[p]]
    /\ views = [p \in Projections(Start) |-> Start[p]]
    /\ frozen = FALSE
    /\ saves = 0 /\ commits = 0
    /\ others = [w \in Writers |-> Nobody]

\* A process changes a file: noted against every batch that is under way.
Put(w, p, content) ==
    /\ files' = [files EXCEPT ![p] = content]
    /\ others' = [v \in Writers |->
                    IF v = w THEN others[v]
                    ELSE [n \in DOMAIN Nobody |-> others[v][n] \cup {p}]]

\* Anyone may save a file, with or without the tools.
Save(p, content) ==
    /\ saves < MaxSaves
    /\ content # files[p]
    /\ Put("editor", p, content)
    /\ saves' = saves + 1
    /\ UNCHANGED <<run, commits, session>>

-----------------------------------------------------------------------------
CompilerInputs(paths) ==
    {p \in paths : Kinds[p] \in {"profile", "pattern", "document"}}

\* Variant: the session recompiles without the patterns.
RecompiledWithoutPatterns(f) ==
    /\ CompilerInputs(resolved) \subseteq Present(f)
    /\ CompileOf([p \in {q \in resolved : Kinds[q] # "pattern"} |-> Kinds[p]],
                 f).ok

\* Does recompileWorkspace succeed on this disk?
Recompiled(f) ==
    /\ CompilerInputs(resolved) \subseteq Present(f)
    /\ CompileOf([p \in resolved |-> Kinds[p]], f).ok

\* The last good model stays when the workspace does not compile.
Show(ok, listed) ==
    shown' = IF ok
             THEN [p \in CompilerInputs(resolved)
                         \cup (listed \cap Present(files)) |-> files[p]]
             ELSE shown

\* What a commit touches by name: the documents and the views.
Vouched(batch) ==
    {o.path : o \in ToSet(batch.operations)}
    \cup {v.path : v \in ToSet(batch.views)}

\* A batch names files of this workspace; its operations and its views come in
\* an order.  The browser writes a view where a view is, or may go.
BatchAssumption ==
    \A w \in Writers : \A batch \in Batches[w] :
        /\ Vouched(batch) \subseteq Paths
        /\ Len(batch.operations) \in Nat
        /\ DOMAIN batch.operations = 1 .. Len(batch.operations)
        /\ Len(batch.views) \in Nat
        /\ DOMAIN batch.views = 1 .. Len(batch.views)
        /\ \A v \in ToSet(batch.views) : Kinds[v.path] = "projection"

ASSUME BatchAssumption

\* Variant: only a document that is pinned is compared.
PinnedAndChanged(batch, pins) ==
    {p \in Vouched(batch) \cap DOMAIN pins : files[p] # pins[p]}

\* A document that is there must be pinned and still hold what was pinned.
PinFaults(batch, pins) ==
    {p \in Vouched(batch) :
        IF files[p] = NoFile THEN p \in DOMAIN pins
        ELSE p \notin DOMAIN pins \/ files[p] # pins[p]}

\* A reviewer's batch arrives, pinned to the model on the reviewer's screen.
Commit(batch) ==
    /\ run[Session].at = "idle" /\ ~frozen
    /\ commits < MaxCommits
    /\ commits' = commits + 1
    /\ run' = [run EXCEPT ![Session] =
                [at |-> "pins", batch |-> batch,
                 pins |-> Restrict(shown, Vouched(batch) \cap DOMAIN shown)]]
    /\ UNCHANGED <<files, saves, others, session>>

Begin(w, batch, pins) ==
    /\ run' = [run EXCEPT ![w] =
                [at |-> "reading", batch |-> batch, pins |-> pins,
                 held |-> <<>>, listed |-> Listed(files),
                 todo |-> IF batch.operations = <<>> THEN <<>>
                          ELSE ReadOrder(Listed(files))]]
    /\ others' = [others EXCEPT ![w] = Nobody]

\* Stale rows are refused and the model is refreshed.
RefusePins ==
    /\ run[Session].at = "pins"
    /\ PinFaults(run[Session].batch, run[Session].pins) # {}
    /\ run' = [run EXCEPT ![Session] = Idle]
    /\ Show(Recompiled(files), DOMAIN views)
    /\ UNCHANGED <<files, saves, commits, others, resolved, views, frozen>>

PassPins ==
    /\ run[Session].at = "pins"
    /\ PinFaults(run[Session].batch, run[Session].pins) = {}
    /\ Begin(Session, run[Session].batch, run[Session].pins)
    /\ UNCHANGED <<files, saves, commits, session>>

\* `yarramate apply`: the workspace is resolved and then read.
Apply(w, batch) ==
    /\ run[w].at = "idle"
    /\ Begin(w, batch, <<>>)
    /\ UNCHANGED <<files, saves, commits, session>>

\* A file that has gone since the workspace was resolved is not read.
Read(w) ==
    LET p == Head(run[w].todo)
    IN  /\ run[w].at = "reading" /\ run[w].todo # <<>>
        /\ run' = [run EXCEPT ![w].todo = Tail(@),
                              ![w].held = IF files[p] = NoFile THEN @
                                          ELSE With(@, p, files[p])]
        /\ UNCHANGED <<files, saves, commits, others, session>>

-----------------------------------------------------------------------------
projectionDirectoryIsCovered(p, listed) ==
    LET known == PathsOf(listed, "projection")
    IN  IF known = {} THEN DirectoryOf[p] = DefaultDirectory
        ELSE DirectoryOf[p] \in {DirectoryOf[q] : q \in known}

\* planViewWrites: a view that is gone, or that no manifest pattern reaches.
ViewFault(v, listed) ==
    /\ files[v.path] = NoFile
    /\ v.op = "delete-view" \/ ~projectionDirectoryIsCovered(v.path, listed)

Write(p, content, expected) ==
    [path |-> p, content |-> content, expected |-> expected]

ViewWrites(batch) ==
    [i \in DOMAIN batch.views |->
        LET v == batch.views[i]
        IN  Write(v.path, IF v.op = "delete-view" THEN NoFile ELSE v.content,
                  files[v.path])]

\* What a batch would write, each write with the revision that was read.
ModelWrites(held, writes) ==
    LET paths == SetToSeq(DOMAIN writes \cap Paths)
    IN  [i \in DOMAIN paths |->
            Write(paths[i], writes[paths[i]],
                  IF paths[i] \in DOMAIN held THEN held[paths[i]] ELSE NoFile)]

Planned(r) ==
    IF r.batch.operations = <<>> THEN [ok |-> TRUE, writes |-> <<>>]
    ELSE applyOperations(r.listed, r.held, r.batch.operations)

Ended(w, how) == [run EXCEPT ![w] = IF w = Session THEN Idle ELSE [at |-> how]]

PlannedAs(w, plan) ==
    LET r == run[w]
    IN  run' = IF ~plan.ok \/ \E v \in ToSet(r.batch.views) : ViewFault(v, r.listed)
               THEN Ended(w, "refused")
               ELSE [run EXCEPT ![w] =
                        [at |-> "planned", batch |-> r.batch, pins |-> r.pins,
                         held |-> r.held, listed |-> r.listed,
                         writes |-> ModelWrites(r.held, plan.writes)
                                    \o ViewWrites(r.batch),
                         written |-> 0]]

\* Core is handed what was read, and the views are planned beside it.
Plan(w) ==
    /\ run[w].at = "reading" /\ run[w].todo = <<>>
    /\ PlannedAs(w, Planned(run[w]))
    /\ UNCHANGED <<files, saves, commits, others, session>>

\* Variant: a write is checked only when the file has gone or appeared.
PresenceConflicts(writes) ==
    {i \in DOMAIN writes :
        (files[writes[i].path] = NoFile) # (writes[i].expected = NoFile)}

Conflicts(writes) ==
    {i \in DOMAIN writes : files[writes[i].path] # writes[i].expected}

\* writeAll compares every file before any of them is written.
Check(w) ==
    /\ run[w].at = "planned"
    /\ IF Conflicts(run[w].writes) # {}
       THEN run' = Ended(w, "refused") /\ UNCHANGED others
       ELSE /\ run' = [run EXCEPT ![w].at = "writing"]
            /\ others' = [others EXCEPT ![w].checked = {}]
    /\ UNCHANGED <<files, saves, commits, session>>

MoreToWrite(r) == r.at = "writing" /\ r.written < Len(r.writes)
AllWritten(r) == r.at = "writing" /\ r.written = Len(r.writes)

\* One file lands whole, or goes.
WriteOne(w) ==
    LET write == run[w].writes[run[w].written + 1]
    IN  /\ MoreToWrite(run[w])
        /\ Put(w, write.path, write.content)
        /\ run' = [run EXCEPT ![w].written = @ + 1]
        /\ UNCHANGED <<saves, commits, session>>

\* A write fails: the temporary file goes, what landed before it stays.  A
\* process that dies between two writes leaves the same.
WriteThrows(w) ==
    /\ MoreToWrite(run[w])
    /\ run' = Ended(w, "threw")
    /\ UNCHANGED <<files, saves, commits, others, session>>

LandApply(w) ==
    /\ w \in Appliers
    /\ AllWritten(run[w])
    /\ run' = [run EXCEPT ![w].at = "landed"]
    /\ UNCHANGED <<files, saves, commits, others, session>>

\* adoptLandedViews: the list follows the view operations, read back.
adoptLandedViews(batch) ==
    LET Named(op) == {v.path : v \in {x \in ToSet(batch.views) : x.op = op}}
        there == {p \in Named("write-view") : files[p] # NoFile}
    IN  [p \in (DOMAIN views \ Named("delete-view")) \cup there |->
            IF p \in there THEN files[p] ELSE views[p]]

\* The commit is reported, the model recompiled; a failure freezes.
LandCommit ==
    LET ok == Recompiled(files)
        listed == adoptLandedViews(run[Session].batch)
    IN  /\ AllWritten(run[Session])
        /\ run' = [run EXCEPT ![Session] =
                    [at |-> "landed", batch |-> run[Session].batch,
                     held |-> run[Session].held]]
        /\ views' = listed
        /\ Show(ok, DOMAIN listed)
        /\ frozen' = ~ok
        /\ UNCHANGED <<files, saves, commits, others, resolved>>

Settle ==
    /\ run[Session].at = "landed"
    /\ run' = [run EXCEPT ![Session] = Idle]
    /\ UNCHANGED <<files, saves, commits, others, session>>

Next ==
    \/ \E p \in DOMAIN Saves : \E content \in Saves[p] : Save(p, content)
    \/ \E batch \in Batches[Session] : Commit(batch)
    \/ RefusePins \/ PassPins \/ LandCommit \/ Settle
    \/ \E w \in Appliers : \E batch \in Batches[w] : Apply(w, batch)
    \/ \E w \in Writers : \/ Read(w) \/ Plan(w) \/ Check(w)
                          \/ WriteOne(w) \/ WriteThrows(w) \/ LandApply(w)

Spec == Init /\ [][Next]_vars

-----------------------------------------------------------------------------
Alone(w) == others[w].begun = {}
Landed(w) == run[w].at = "landed"
DiskCompiles == CompileOf(Listed(files), files)

\* ADR 0100: a batch never lands on bytes its author did not read.  Files are
\* compared and written one by one, so what remains is a change by somebody
\* else after the comparison; nothing else is ever overwritten unread, except
\* by a batch that writes one file twice.
OnlyTheWindowLosesAnUpdate ==
    \A w \in Writers : run[w].at = "writing" =>
        \A i \in DOMAIN run[w].writes : i > run[w].written =>
            LET write == run[w].writes[i]
            IN  \/ files[write.path] = write.expected
                \/ write.path \in others[w].checked
                \/ \E j \in 1 .. run[w].written :
                        run[w].writes[j].path = write.path

\* ADR 0093: a reviewer's rows land on the values the reviewer was shown: the
\* bytes a vouched document is replaced against are those of the model on the
\* screen, unless somebody saved it after the pins were compared.
LandsOnWhatWasShown ==
    run[Session].at \in {"planned", "writing"} =>
        \A write \in ToSet(run[Session].writes) :
            LET p == write.path
                pins == run[Session].pins
            IN  \/ p \notin Vouched(run[Session].batch)
                \/ p \in others[Session].begun
                \/ IF p \in DOMAIN pins THEN write.expected = pins[p]
                   ELSE write.expected = NoFile

\* A batch of operations that nobody disturbs leaves a workspace that
\* compiles, with every overlay it wrote naming subjects and claims that are
\* there: the gate a batch passes is about the bytes that land.
AloneLandsWhole ==
    \A w \in Writers :
        Landed(w) /\ Alone(w) /\ run[w].batch.operations # <<>> =>
            /\ DiskCompiles.ok
            /\ \A p \in PathsOf(Listed(files), "evidence") :
                    files[p] # run[w].held[p] =>
                        EvidenceFaults(DiskCompiles.graph, files[p]) = {}

Freezes == frozen' /\ ~frozen

\* The session recompiles the files it resolved when it started; a batch is
\* planned on those the manifest lists now.
ResolvedStill == CompilerInputs(Present(files)) = CompilerInputs(resolved)

\* A commit that wrote to the model freezes the session only when somebody
\* else changed a file while it ran, or added or took one away since the
\* session started: what passed the gate recompiles, if it is all of it read.
FreezeIsSomebodyElses ==
    [][Freezes => \/ ~Alone(Session)
                  \/ run[Session].batch.operations = <<>>
                  \/ ~ResolvedStill]_vars

Relabel(id, o) == IF id = o.id THEN o.to ELSE id

RelabelObject(c, o) ==
    CASE c.object[1] = "ref" -> Ref(Relabel(c.object[2], o))
      [] c.predicate[1] = "attestation" ->
            Val(Relabel(Front(c.object[2]), o) \o <<Last(c.object[2])>>)
      [] OTHER -> c.object

\* What a graph says, under another name for one subject; identifiers that
\* are derived from others are left out.
Told(graph, o) ==
    [concepts |-> {Relabel(c, o) : c \in graph.concepts},
     edges |-> {<<Relabel(e.from, o), e.predicate, Relabel(e.to, o)>> :
                    e \in graph.edges},
     claims |-> {<<Relabel(c.subject, o), c.predicate, RelabelObject(c, o)>> :
                    c \in graph.claims}]

\* A rename is total but for rules: a workspace in which one batch renamed one subject, and
\* nobody wrote meanwhile, says of the new name what it said of the old one, and its
\* overlays stay as sound as they were.  What a `forbids` rule names is no part of the graph
\* and is not moved: that case is RulesFollowTheRename's, below.
RenameMovesTheWorkspace ==
    \A w \in Writers : Landed(w) /\ Alone(w) =>
        \A o \in ToSet(run[w].batch.operations) :
            o.op = "rename" =>
                LET before == CompileOf(Listed(files), run[w].held)
                IN  before.ok =>
                    /\ Told(before.graph, o) =
                            Told(DiskCompiles.graph, [id |-> o.to, to |-> o.to])
                    /\ \A p \in PathsOf(Listed(files), "evidence") :
                            EvidenceFaults(before.graph, run[w].held[p]) =
                                EvidenceFaults(DiskCompiles.graph, files[p])

\* ADR 0062: an update enriches what is there and never silently shrinks it:
\* only what it replaces by name, or removes by name, is gone from the graph.
UpdatesOnlyEnrich ==
    \A w \in Writers : Landed(w) /\ Alone(w) =>
        LET operations == ToSet(run[w].batch.operations)
            Named(c) == \E o \in operations :
                /\ o.op = "update"
                /\ o.id = c.subject
                /\ \E f \in o.remove \cup (DOMAIN o.set \ (ListFields \cup OrderedFields)) :
                        f \in ToSet(c.part) \cup {c.predicate[2]}
        IN  operations # {} /\ (\A o \in operations : o.op \in {"add", "update"} /\ o.in # "observations") =>
                LET before == CompileOf(Listed(files), run[w].held)
                IN  before.ok => \A c \in before.graph.claims :
                        c \in DiskCompiles.graph.claims \/ Named(c)

\* What a batch does to the workspace is what its operations say, and no more.
BatchSaysWhatItDid == RenameMovesTheWorkspace /\ UpdatesOnlyEnrich

-----------------------------------------------------------------------------
(* What the repository says of a rename and the code does not keep.        *)

\* The rules some sources declare, under another name for one subject.
RulesTold(held, o) ==
    LET Declaring == {p \in PathsOf(Listed(files), "document") : held[p] # NoFile /\ held[p].wellFormed}
        Rules == UNION {UNION {c.forbids : c \in ToSet(held[p].value.concepts)} : p \in Declaring}
    IN  {[r EXCEPT !.from = Relabel(@, o), !.to = Relabel(@, o),
                   !.exceptFrom = {Relabel(i, o) : i \in @},
                   !.exceptTo = {Relabel(i, o) : i \in @}] : r \in Rules}

\* "A rename is only honest if it is total": what a rule forbade of a subject it forbids of the
\* same subject under its new name, when one batch renamed it and nobody wrote meanwhile.
RulesFollowTheRename ==
    \A w \in Writers : Landed(w) /\ Alone(w) =>
        \A o \in ToSet(run[w].batch.operations) :
            o.op = "rename" =>
                RulesTold(run[w].held, o) = RulesTold(files, [id |-> o.to, to |-> o.to])
=============================================================================
