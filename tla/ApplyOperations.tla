-------------------------- MODULE ApplyOperations --------------------------
(***************************************************************************)
(* applyOperations: a batch of operations against the sources of a         *)
(* workspace, a pure function; and, first, what its renames rest on: where *)
(* the address of a subject may stand, and the surgery that moves one.     *)
(* `listed` is the resolved workspace (path to kind), `held` the sources   *)
(* that were handed in.  The operations are staged one after the other;    *)
(* the staged workspace must then compile, or nothing of the batch is      *)
(* written.                                                                *)
(*                                                                         *)
(* An operation is [op, in, path, ...]: `in` is the collection it edits.   *)
(* Concepts and relationships are found by their id, observations by the   *)
(* pair of target and key, which is their id here: [field, base, aspect,   *)
(* key], the subject or the claim it is about.  A file is [kind,           *)
(* wellFormed, value]; a projection holds the addresses its query names by *)
(* field, a mapping the set of its native addresses.                       *)
(***************************************************************************)
EXTENDS SemanticGraph

ReferenceKinds == {"document", "projection", "evidence", "mapping"}

ConceptAddresses(c) ==
    {c.id, c.owner} \cup c.distinctFrom
    \cup {s.subject : s \in c.supersedes}
    \cup {k.ref : k \in ToSet(c.constraints)}
    \cup {p.to : p \in ToSet(c.parts)}
    \cup {x.ref : x \in ToSet(c.references)}
    \cup {a.by : a \in ToSet(c.attestations)}

RelationshipAddresses(r) ==
    {r.id, r.from, r.to} \cup {x.ref : x \in ToSet(r.references)}

ProjectionAddresses(v) == UNION {v.query[f] : f \in DOMAIN v.query}

EvidenceAddresses(v) == {o.id.base : o \in ToSet(v.observations)}

\* Variant: the observations of an overlay are no reference positions.
AddressesOfTheModel(file) ==
    LET v == file.value
    IN  CASE ~file.wellFormed -> {}
          [] file.wellFormed /\ file.kind = "document" ->
                UNION {ConceptAddresses(c) : c \in ToSet(v.concepts)}
                \cup UNION {RelationshipAddresses(r) :
                                r \in ToSet(v.relationships)}
          [] file.wellFormed /\ file.kind = "projection" ->
                ProjectionAddresses(v)
          [] OTHER -> {}

\* scanSubjectReferences: the addresses at the enumerated positions.
Addresses(file) ==
    LET v == file.value
    IN  CASE ~file.wellFormed -> {}
          [] file.wellFormed /\ file.kind = "document" ->
                UNION {ConceptAddresses(c) : c \in ToSet(v.concepts)}
                \cup UNION {RelationshipAddresses(r) :
                                r \in ToSet(v.relationships)}
          [] file.wellFormed /\ file.kind = "projection" ->
                ProjectionAddresses(v)
          [] file.wellFormed /\ file.kind = "evidence" ->
                EvidenceAddresses(v)
          [] file.wellFormed /\ file.kind = "mapping" -> v.natives
          [] OTHER -> {}

ConceptMoved(c, from, to) ==
    LET M(id) == IF id = from THEN to ELSE id
        MovedRefs(list) == [i \in DOMAIN list |->
                                [list[i] EXCEPT !.ref = M(@)]]
    IN  [c EXCEPT
            !.id = M(@), !.owner = M(@),
            !.distinctFrom = {M(x) : x \in @},
            !.supersedes = {[s EXCEPT !.subject = M(@)] : s \in @},
            !.constraints = MovedRefs(@), !.references = MovedRefs(@),
            !.parts = [i \in DOMAIN @ |-> [@[i] EXCEPT !.to = M(@)]],
            !.attestations =
                [i \in DOMAIN @ |-> [@[i] EXCEPT !.by = M(@)]]]

RelationshipMoved(r, from, to) ==
    LET M(id) == IF id = from THEN to ELSE id
    IN  [r EXCEPT !.id = M(@), !.from = M(@), !.to = M(@),
                  !.references = [i \in DOMAIN @ |->
                                    [@[i] EXCEPT !.ref = M(@)]]]

\* rewriteSubjectReferences: every enumerated position that names `from`.
Moved(file, from, to) ==
    LET Each(list, Op(_, _, _)) ==
            [i \in DOMAIN list |-> Op(list[i], from, to)]
        Readdressed(o, f, t) ==
            IF o.id.base = f THEN [o EXCEPT !.id.base = t] ELSE o
        Swapped(set) == IF from \in set THEN (set \ {from}) \cup {to} ELSE set
    IN  CASE from \notin Addresses(file) -> file
          [] from \in Addresses(file) /\ file.kind = "document" ->
                [file EXCEPT
                    !.value.concepts = Each(@, ConceptMoved),
                    !.value.relationships = Each(@, RelationshipMoved)]
          [] from \in Addresses(file) /\ file.kind = "projection" ->
                [file EXCEPT !.value.query =
                    [f \in DOMAIN @ |-> Swapped(@[f])]]
          [] from \in Addresses(file) /\ file.kind = "evidence" ->
                [file EXCEPT !.value.observations = Each(@, Readdressed)]
          [] from \in Addresses(file) /\ file.kind = "mapping" ->
                [file EXCEPT !.value.natives = Swapped(@)]
          [] OTHER -> file

declaredStateIds(file) ==
    IF file.wellFormed THEN {s.id : s \in ToSet(file.value.states)} ELSE {}

CONSTANT NoValue    \* what a source that does not read as its kind holds

Unreadable(kind) == [kind |-> kind, wellFormed |-> FALSE, value |-> NoValue]

\* What a fold over the operations carries.
Staging(listed, held) ==
    [ok |-> TRUE,
     sources |-> [p \in DOMAIN listed |->
                    IF p \in DOMAIN held THEN held[p] ELSE Unreadable(listed[p])],
     touched |-> {}, deleted |-> {}, moved |-> {}]

Refuse(a) == [a EXCEPT !.ok = FALSE]

Targets(listed, o) ==
    {p \in DOMAIN listed :
        listed[p] = IF o.in = "observations" THEN "evidence" ELSE "document"}

ItemAt(items, id) == SelectInSeq(items, LAMBDA x : x.id = id)

ListFields == {"aka", "presentIn", "distinctFrom", "supersedes"}
OrderedFields == {"constraints", "references", "attestations"}

\* Is an optional field of an item there?
IsSet(item, f) ==
    CASE f \in ListFields -> item[f] # {}
      [] f \in DOMAIN item \ ListFields -> item[f] # <<>>
      [] OTHER -> \E g \in {"text", "evidence"} \cap DOMAIN item :
                        f \in DOMAIN item[g]

\* Scalars are replaced, lists appended to, parts merged by their slot.
Enriched(item, f, v) ==
    LET slots == {p.slot : p \in ToSet(v)}
        Kept(p) == p.slot \notin slots
    IN  CASE f \in ListFields -> [item EXCEPT ![f] = @ \cup v]
          [] f \in OrderedFields -> [item EXCEPT ![f] = @ \o v]
          [] f = "parts" -> [item EXCEPT !.parts = SelectSeq(@, Kept) \o v]
          [] f \in {"uri", "message"} ->
                [item EXCEPT !.evidence = With(@, f, v)]
          [] OTHER -> IF f \in DOMAIN item THEN [item EXCEPT ![f] = v]
                      ELSE [item EXCEPT !.text = With(@, f, v)]

Without(item, f) ==
    CASE f \in ListFields -> [item EXCEPT ![f] = {}]
      [] f \in DOMAIN item \ ListFields -> [item EXCEPT ![f] = <<>>]
      [] OTHER ->
            LET g == CHOOSE x \in {"text", "evidence"} \cap DOMAIN item : TRUE
            IN  [item EXCEPT ![g] = [h \in DOMAIN @ \ {f} |-> @[h]]]

Updated(item, o) ==
    LET set == FoldLeft(LAMBDA i, f : Enriched(i, f, o.set[f]),
                        item, SetToSeq(DOMAIN o.set))
    IN  FoldLeft(Without, set, SetToSeq(o.remove))

\* An update sets or removes a field, not both, and removes only what is there.
UpdateFaults(items, at, o) ==
    IF o.remove \cap DOMAIN o.set # {} THEN {"contradiction"}
    ELSE IF at = 0 THEN {"missing"}
    ELSE {"unset" : f \in {g \in o.remove :
                            ~IsSet(Updated(items[at], [o EXCEPT !.remove = {}]), g)}}

\* An observation is recorded once in its overlay; its evidence is edited where there is some.
ObservationFaults(items, at, o) ==
    CASE o.op = "add" -> IF at = 0 THEN {} ELSE {"twice"}
      [] o.op = "delete" -> IF at = 0 THEN {"missing"} ELSE {}
      [] o.op = "update" ->
            UpdateFaults(items, at, o)
            \cup IF at # 0 /\ {"uri", "message"} \cap DOMAIN o.set # {} /\ DOMAIN items[at].evidence = {}
                 THEN {"locator"} ELSE {}

\* A rename moves one subject to another id; the id of a state stays.
RenameFaults(file, at, o) ==
    (IF at = 0 THEN {"missing"} ELSE {})
    \cup (IF o.id = o.to THEN {"itself"} ELSE {})
    \cup (IF {o.id, o.to} \cap declaredStateIds(file) # {} THEN {"state"} ELSE {})

\* Why an operation is refused before anything else is staged.
OperationFaults(listed, a, o) ==
    LET file == a.sources[o.path]
        items == file.value[o.in]
        at == ItemAt(items, o.id)
    IN  IF o.path \notin Targets(listed, o) THEN {"target"}
        ELSE IF ~file.wellFormed THEN {"unreadable"}
        ELSE IF o.in = "observations" THEN ObservationFaults(items, at, o)
        ELSE CASE o.op = "add" -> {}
               [] o.op = "delete" -> IF at = 0 THEN {"missing"} ELSE {}
               [] o.op = "rename" -> RenameFaults(file, at, o)
               [] o.op = "update" -> UpdateFaults(items, at, o)

\* A rename re-points every file that can name a subject.
RenamedSources(a, o) ==
    LET moving == {p \in DOMAIN a.sources :
                    /\ a.sources[p].kind \in ReferenceKinds
                    /\ o.id \in Addresses(a.sources[p])}
    IN  [a EXCEPT !.sources = [p \in DOMAIN @ |->
                    IF p \in moving THEN Moved(@[p], o.id, o.to) ELSE @[p]],
                  !.touched = @ \cup moving,
                  !.moved = @ \cup {o.id}]

Edited(items, o) ==
    LET at == ItemAt(items, o.id)
    IN  CASE o.op = "add" -> Append(items, o.item)
          [] o.op = "delete" -> RemoveAt(items, at)
          [] o.op = "update" -> [items EXCEPT ![at] = Updated(@, o)]

Operate(listed, a, o) ==
    LET Done(b) == [b EXCEPT !.touched = @ \cup {o.path}]
    IN  IF ~a.ok THEN a
        ELSE IF OperationFaults(listed, a, o) # {} THEN Refuse(a)
        ELSE IF o.op = "rename" THEN Done(RenamedSources(a, o))
        ELSE Done([a EXCEPT
                !.sources[o.path].value[o.in] = Edited(@, o),
                !.deleted = IF o.op = "delete" /\ o.in # "observations"
                            THEN @ \cup {o.id} ELSE @])

\* The sites a deletion looks for: an address these name cannot go.
ReferringSites(file) ==
    LET v == file.value
    IN  IF ~file.wellFormed THEN {}
        ELSE UNION {{c.owner} \cup {k.ref : k \in ToSet(c.constraints)}
                    \cup {x.ref : x \in ToSet(c.references)} :
                        c \in ToSet(v.concepts)}
             \cup UNION {{r.from, r.to} \cup {x.ref : x \in ToSet(r.references)} :
                            r \in ToSet(v.relationships)}

PathsOf(listed, kind) == {p \in DOMAIN listed : listed[p] = kind}

StillReferenced(listed, a) ==
    a.deleted \cap UNION {ReferringSites(a.sources[p]) :
                            p \in PathsOf(listed, "document")}

\* compileWorkspace over the profiles, the patterns and the documents.
CompilePaths(listed) ==
    SetToSeq(PathsOf(listed, "profile")) \o SetToSeq(PathsOf(listed, "pattern"))
        \o SetToSeq(PathsOf(listed, "document"))

SourcesAt(paths, sources) ==
    [i \in DOMAIN paths |->
        [path |-> paths[i], kind |-> sources[paths[i]].kind,
         wellFormed |-> sources[paths[i]].wellFormed,
         value |-> sources[paths[i]].value]]

CompileOf(listed, sources) ==
    compileWorkspaceResolved(SourcesAt(CompilePaths(listed), sources))

SubjectsIn(graph) == graph.concepts \cup {e.id : e \in graph.edges}

\* evaluateEvidence: targets that are not there, targets observed twice.
EvidenceFaults(graph, file) ==
    LET observed == file.value.observations
        IsClaim(id) ==
            \/ id.aspect = <<>> /\ \E e \in graph.edges : e.id = id.base
            \/ \E c \in graph.claims :
                    <<c.subject, c.part>> = <<id.base, id.aspect>>
        Known(id) == IF id.field = "subject" THEN id.base \in SubjectsIn(graph)
                     ELSE IsClaim(id)
    IN  {i \in DOMAIN observed :
            \/ ~Known(observed[i].id)
            \/ \E j \in 1 .. i - 1 : observed[j].id = observed[i].id}

Residue(a) ==
    {p \in a.touched : Addresses(a.sources[p]) \cap a.moved # {}}

\* The gates a staged batch passes, in order.
Admitted(listed, a, compiled) ==
    /\ StillReferenced(listed, a) = {}
    /\ compiled.ok
    /\ \A p \in a.touched \cap PathsOf(listed, "evidence") :
            EvidenceFaults(compiled.graph, a.sources[p]) = {}
    /\ Residue(a) = {}

NothingWritten == [ok |-> FALSE, writes |-> <<>>]

Landing(listed, a) ==
    IF ~a.ok THEN NothingWritten
    ELSE IF Admitted(listed, a, CompileOf(listed, a.sources))
    THEN [ok |-> TRUE, writes |-> [p \in a.touched |-> a.sources[p]]]
    ELSE NothingWritten

\* Variant: the staged workspace is not compiled.
ApplyUngated(listed, held, operations) ==
    LET a == FoldLeft(LAMBDA b, o : Operate(listed, b, o),
                      Staging(listed, held), operations)
    IN  IF a.ok THEN [ok |-> TRUE, writes |-> [p \in a.touched |-> a.sources[p]]]
        ELSE NothingWritten

applyOperations(listed, held, operations) ==
    LET staged[n \in 0 .. Len(operations)] ==
            IF n = 0 THEN Staging(listed, held)
            ELSE Operate(listed, staged[n - 1], operations[n])
    IN  Landing(listed, staged[Len(operations)])
=============================================================================
