------------------------- MODULE IncrementalCompile -------------------------
(***************************************************************************)
(* A caller that recompiles a workspace as its files are edited, handing   *)
(* back the parse cache of some earlier compile (it need not be the last). *)
(* A file is [path, text]; Parse gives what a text composes to, so that an *)
(* entry of the cache is a pure function of its text.  Which files are     *)
(* compiled is what the manifest's patterns resolve to at that moment.     *)
(*                                                                         *)
(* resolveManifest, which makes the patterns into files, comes first.  A   *)
(* path is the sequence of its names; a pattern is a sequence of segments, *)
(* each the set of the names it covers (a literal, `*`, `?`, `{...}` or    *)
(* `[...]`), or Deep, which is `**`.  A manifest is [at, coverage] with a  *)
(* sequence of patterns for each category it fills.                        *)
(***************************************************************************)
EXTENDS SemanticGraph

CONSTANTS SegmentsOf,   \* [file -> the names of its path]
          PathOrder     \* the files in the order their paths sort

Deep == {}

\* `**/` crosses any number of directories, a last `**` anything that is left.
patternToRegExp(pattern, path) ==
    LET Covers[i \in 1 .. Len(pattern) + 1, j \in 1 .. Len(path) + 1] ==
          IF i > Len(pattern) THEN j > Len(path)
          ELSE IF pattern[i] # Deep
          THEN j <= Len(path) /\ path[j] \in pattern[i] /\ Covers[i + 1, j + 1]
          ELSE IF i = Len(pattern) THEN j <= Len(path)
          ELSE Covers[i + 1, j] \/ (j <= Len(path) /\ Covers[i, j + 1])
    IN  Covers[1, 1]

\* A pattern that leaves the directory it is written for, or starts at the root.
unsafePattern(pattern) == \E i \in DOMAIN pattern : {"..", ""} \cap pattern[i] # {}

Categories == {"documents", "profiles", "projections", "adapterMappings",
               "patterns", "questions", "evidence", "contracts"}

PatternsOf(manifest, field) ==
    IF field \in DOMAIN manifest THEN ToSet(manifest[field]) ELSE {}

Stated(manifest) == UNION {PatternsOf(manifest, f) : f \in Categories}

\* What a category comes to: the matches of its safe patterns, inside the directory.
expandCategory(manifest, field, matches) ==
    UNION {{m \in matches[p] : ~m.outside} :
              p \in {q \in PatternsOf(manifest, field) : ~unsafePattern(q)}}

Faulty(patterns, matches) ==
    {p \in patterns : unsafePattern(p) \/ matches[p] = {} \/ \E m \in matches[p] : m.outside}

\* One physical file may be claimed by one category only, under whatever name.
ClaimedTwice(claims) ==
    \E f, g \in DOMAIN claims : f # g /\ \E m \in claims[f], n \in claims[g] : m.identity = n.identity

resolveManifest(manifest, matches) ==
    LET claims == [f \in Categories |-> expandCategory(manifest, f, matches)]
    IN  IF \/ Faulty(Stated(manifest), matches) # {}
           \/ \E p \in PatternsOf(manifest, "coverage") : unsafePattern(p)
           \/ ClaimedTwice(claims)
        THEN [ok |-> FALSE]
        ELSE [ok |-> TRUE,
              workspace |-> [f \in Categories |->
                               LET claimed == {m.path : m \in claims[f]}
                               IN  FlattenSeq([i \in DOMAIN PathOrder |->
                                     IF PathOrder[i] \in claimed THEN <<PathOrder[i]>> ELSE <<>>])]]

\* Over the files a store lists: it holds no links, and nothing is outside of it.
resolveWorkspaceFrom(manifest, listed) ==
    LET base == manifest.at
        Beneath(p) == IsPrefix(base, SegmentsOf[p])
        Rest(p) == SubSeq(SegmentsOf[p], Len(base) + 1, Len(SegmentsOf[p]))
        Matched(pattern) == {p \in listed : Beneath(p) /\ patternToRegExp(pattern, Rest(p))}
    IN  resolveManifest(manifest,
            [pattern \in Stated(manifest) |->
                {[path |-> p, identity |-> p, outside |-> FALSE] : p \in Matched(pattern)}])

CONSTANTS
    Paths,      \* the files of the workspace
    TextsOf,    \* [path -> what the file may hold, NoText included]
    Parse,      \* [text -> [kind, wellFormed, value]]
    NoText,     \* a file that is not there
    Manifests,  \* [name -> what the manifest may be rewritten to]
    MaxBehind   \* how many saves old the cache that is handed back may be

\* What a well-formed source holds: a document's identifiers are sequences of
\* segments, and the profile of a file has a place in the collation.
WellRead(kind, value) ==
    CASE kind = "document" ->
            \A sort \in {"states", "concepts", "relationships"} :
                /\ IsSequence(value[sort])
                /\ \A item \in ToSet(value[sort]) : IsSequence(item.id)
      [] kind = "profile" ->
            /\ value.identity \in ToSet(Collation)
            /\ IsSequence(value.concepts) /\ IsSequence(value.relationships)
      [] kind = "pattern" ->
            IsSequence(value) /\ \A p \in ToSet(value) : IsSequence(p.wiring)

\* Files come in an order, and what one may hold parses to something.
SourcesAssumption ==
    /\ IsSequence(PathOrder) /\ Paths \subseteq ToSet(Collation)
    /\ \A p \in Paths : TextsOf[p] \subseteq DOMAIN Parse \cup {NoText}
    /\ \A text \in DOMAIN Parse :
          Parse[text].wellFormed => WellRead(Parse[text].kind, Parse[text].value)

ASSUME SourcesAssumption

VARIABLES
    files,      \* [path -> text or NoText]
    manifest,   \* the name of the manifest as it stands
    cache,      \* the CompilationCache the caller holds
    behind,     \* the saves made since the compile that returned it
    result      \* what its last compile returned

vars == <<files, manifest, cache, behind, result>>

parseWorkspaceSource(text) == [text |-> text, parsed |-> Parse[text]]

Present(f) == {p \in Paths : f[p] # NoText}

\* Variant: the entry of a file the cache knows is trusted whatever it holds.
ParsesByPath(f, listed, previous) ==
    [p \in listed |-> IF p \in DOMAIN previous THEN previous[p]
                      ELSE parseWorkspaceSource(f[p])]

\* The entry of every file: the cached one when its text is the same.
parseSources(f, listed, previous) ==
    [p \in listed |->
        IF p \in DOMAIN previous /\ previous[p].text = f[p]
        THEN previous[p] ELSE parseWorkspaceSource(f[p])]

\* The sources in the order they are listed (joined to <<>>, the sequence is
\* evaluated once).
Sources(order, entries) ==
    <<>> \o [i \in DOMAIN order |->
        [path |-> order[i], kind |-> entries[order[i]].parsed.kind,
         wellFormed |-> entries[order[i]].parsed.wellFormed,
         value |-> entries[order[i]].parsed.value]]

\* compileWorkspaceIncremental; without a cache it is compileWorkspace.
Compile(f, order, previous) ==
    compileWorkspaceResolved(Sources(order, parseSources(f, ToSet(order), previous)))

compileWorkspace(f, order) == Compile(f, order, <<>>)

Resolved(f, m) == resolveWorkspaceFrom(Manifests[m], Present(f))

Listing(workspace) == workspace.profiles \o workspace.patterns \o workspace.documents

\* A workspace that does not resolve is not compiled.
ResultOf(f, resolved, previous) ==
    IF resolved.ok THEN Compile(f, Listing(resolved.workspace), previous) ELSE resolved

Init ==
    /\ files \in [Paths -> UNION {TextsOf[p] : p \in Paths}]
    /\ \A p \in Paths : files[p] \in TextsOf[p]
    /\ manifest \in DOMAIN Manifests
    /\ cache = <<>> /\ behind = 0
    /\ result = ResultOf(files, Resolved(files, manifest), <<>>)

\* The caller keeps the cache it is given, where there is one, or goes on with the one it has.
Recompile(f, name) ==
    \E resolved \in {Resolved(f, name)} :
        /\ files' = f /\ manifest' = name
        /\ result' = ResultOf(f, resolved, cache)
        /\ \/ /\ resolved.ok
              /\ cache' = parseSources(f, ToSet(Listing(resolved.workspace)), cache)
              /\ behind' = 0
           \/ behind < MaxBehind /\ cache' = cache /\ behind' = behind + 1

\* A file is written, or leaves the workspace, and the caller recompiles.
Save(p, text) ==
    /\ files[p] # text
    /\ Recompile([files EXCEPT ![p] = text], manifest)

\* The manifest is rewritten: files join and leave though nothing they hold changed.
Relist(name) ==
    /\ name # manifest
    /\ Recompile(files, name)

Next ==
    \/ \E p \in Paths : \E text \in TextsOf[p] : Save(p, text)
    \/ \E name \in DOMAIN Manifests : Relist(name)

Spec == Init /\ [][Next]_vars

-----------------------------------------------------------------------------
\* A cache, however old, never changes what a compile returns.
CacheChangesNothing == result = ResultOf(files, Resolved(files, manifest), <<>>)

\* The verdict and the graph do not depend on the order the files are listed
\* in: two checkouts of one workspace compile to the same graph.
ListingOrderIsIrrelevant ==
    LET resolved == Resolved(files, manifest)
        other == compileWorkspace(files, Reverse(Listing(resolved.workspace)))
    IN  resolved.ok => /\ other.ok = result.ok
                       /\ result.ok => other = result

ReferencesOf(graph) ==
    {c.object[2] : c \in {x \in graph.claims : x.object[1] = "ref"}}

SubjectsOf(graph) == graph.concepts \cup {e.id : e \in graph.edges}

\* A compiled graph is closed: whatever a claim refers to is a subject of the
\* graph, and every relationship, minted ones included, has an identifier of
\* its own that no concept has.
CompiledGraphIsClosed ==
    result.ok =>
        /\ ReferencesOf(result.graph) \subseteq SubjectsOf(result.graph)
        /\ \A e \in result.graph.edges : e.id \notin result.graph.concepts
        /\ \A e, f \in result.graph.edges : e.id = f.id => e = f

KindIn(res, id) ==
    LET claim == CHOOSE c \in res.graph.claims :
                    /\ c.subject = id /\ c.predicate = <<"concept", "kind">>
                    /\ c.object[1] = "value"
    IN  claim.object[2]

\* Every relationship of a compiled graph is one the table permits between
\* the kinds its ends really have, whoever wrote it: an author, a pattern's
\* wiring bound to a descendant kind, or a port between two patterns.
EveryEdgeIsPermitted ==
    result.ok =>
        \A e \in result.graph.edges :
            {e.from, e.to} \subseteq result.graph.concepts =>
                result.policies[e.predicate].coreKind \in
                    Permits[<<CoreOf(result.kinds[KindIn(result, e.from)]),
                              CoreOf(result.kinds[KindIn(result, e.to)])>>]

AuthoredIds ==
    UNION {LET parsed == Parse[files[p]] IN
             IF parsed.kind = "document" /\ parsed.wellFormed
             THEN Ids(Items(<<[path |-> p, value |-> parsed.value]>>,
                            "relationships"))
             ELSE {} : p \in ToSet(Listing(Resolved(files, manifest).workspace))}

Wired(e) == e.id \notin AuthoredIds /\ Last(e.id) # "expansion"
Expanded(e) == e.id \notin AuthoredIds /\ Last(e.id) = "expansion"

\* Two wires of two patterns may name one fact: the graph states it once, and
\* the identifier it gets is nobody else's.
WiresStatedOnce ==
    result.ok =>
        \A e, f \in {x \in result.graph.edges : Wired(x)} :
            Triple(e) = Triple(f) => e = f

\* A graph the compiler yields can be read without asking who wrote what in it:
\* it is closed, each of its relationships is permitted, and minted facts are stated once.
CompiledGraphIsSound == CompiledGraphIsClosed /\ EveryEdgeIsPermitted /\ WiresStatedOnce

=============================================================================
