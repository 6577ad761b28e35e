------------------------------ MODULE Compiler ------------------------------
(***************************************************************************)
(* The workspace compiler: parsed sources in, a semantic graph or a set of *)
(* diagnostics out.  A document is [id, profile, states, concepts,         *)
(* relationships]; an identifier is the sequence of its hyphen-separated   *)
(* segments, so that the joins which derive identifiers are modelled with  *)
(* their collisions.  <<>> stands for an absent reference.  The optional   *)
(* scalar fields of an item are one function `text` of the fields it has.  *)
(***************************************************************************)
EXTENDS Profiles

CONSTANT IdOrder    \* relationship identifiers in localeCompare order

NoReference == <<>>

IdPrecedes(a, b) ==
    SelectInSeq(IdOrder, LAMBDA x : x = a)
        < SelectInSeq(IdOrder, LAMBDA x : x = b)

\* Every declaration of one sort with the document that makes it.
Items(documents, sort) ==
    FlattenSeq([i \in DOMAIN documents |->
        [j \in DOMAIN documents[i].value[sort] |->
            [path |-> documents[i].path,
             document |-> documents[i].value.id,
             profile |-> documents[i].value.profile,
             item |-> documents[i].value[sort][j]]]])

\* What the later phases look at: the resolution, the shapes, the items.
Workspace(r, shapes, documents) ==
    [r |-> r, shapes |-> shapes, documents |-> documents,
     states |-> Items(documents, "states"),
     concepts |-> Items(documents, "concepts"),
     relationships |-> Items(documents, "relationships")]

Ids(items) == {e.item.id : e \in ToSet(items)}
StateIds(w) == Ids(w.states)
ConceptIds(w) == Ids(w.concepts)

\* Variant: only the first document's subjects are known when a reference is
\* checked, as in a compiler of one pass.
SubjectsOfFirstDocument(w) ==
    LET first(items) == {e.item.id : e \in {x \in ToSet(items) :
                            x.path = w.documents[1].path}}
    IN  first(w.states) \cup first(w.concepts) \cup first(w.relationships)

SubjectIds(w) == StateIds(w) \cup ConceptIds(w) \cup Ids(w.relationships)

\* The items of documents whose profile is available: the others are skipped.
Checked(w, items) == {e \in ToSet(items) : e.profile \in DOMAIN w.r.profiles}

\* A Map keeps the last declaration of an identifier.
ConceptOf(w, id) ==
    w.concepts[SelectLastInSeq(w.concepts, LAMBDA e : e.item.id = id)]

KnownKind(w, e) ==
    /\ e.profile \in DOMAIN w.r.profiles
    /\ e.item.kind \in DOMAIN w.r.profiles[e.profile].concepts

KindIdentity(w, e) ==
    IF KnownKind(w, e) THEN w.r.profiles[e.profile].concepts[e.item.kind]
    ELSE <<e.item.kind>>

KnownPolicy(w, e) ==
    /\ e.profile \in DOMAIN w.r.profiles
    /\ e.item.kind \in DOMAIN w.r.profiles[e.profile].relationships

PolicyIdentity(w, e) == w.r.profiles[e.profile].relationships[e.item.kind]
Policy(w, e) == w.r.policies[PolicyIdentity(w, e)]

\* Does a reference lead to a concept whose kind resolves, and which core
\* kind and aspect does it have?
Resolves(w, id) == id \in ConceptIds(w) /\ KnownKind(w, ConceptOf(w, id))
ResolvedKind(w, id) == w.r.kinds[KindIdentity(w, ConceptOf(w, id))]
CoreOf(kind) == kind.lineage[1][2]

At(e, code) == Diagnostic(code, e.path, e.item.id)
When(condition, e, code) == {d \in {At(e, code)} : condition}

DocumentIdFaults(w) ==
    LET D == w.documents
    IN  {Diagnostic("YM303", D[i].path, NoReference) :
            i \in {n \in DOMAIN D :
                    \E m \in 1 .. n - 1 : D[m].value.id = D[n].value.id}}
        \cup {Diagnostic("YM403", d.path, NoReference) :
                d \in {s \in ToSet(D) :
                        s.value.profile \notin DOMAIN w.r.profiles}}

\* The documents that are walked: of an available profile, under an id that no
\* such document before them has.
Walked(w) ==
    LET D == w.documents
        available == {i \in DOMAIN D : D[i].value.profile \in DOMAIN w.r.profiles}
    IN  {i \in available :
            ~\E j \in available : j < i /\ D[j].value.id = D[i].value.id}

DeclaredBy(v) == v.states \o v.concepts \o v.relationships

\* Every identifier that is declared, in the order the documents are walked.
Declarations(w) ==
    LET D == w.documents
        walked == Walked(w)
    IN  FlattenSeq([i \in DOMAIN D |->
            IF i \notin walked THEN <<>>
            ELSE [j \in DOMAIN DeclaredBy(D[i].value) |->
                    [path |-> D[i].path, id |-> DeclaredBy(D[i].value)[j].id]]])

\* Where the identifier of the n-th declaration is declared first.
FirstDeclared(declarations, n) ==
    CHOOSE m \in 1 .. n :
        /\ declarations[m].id = declarations[n].id
        /\ \A k \in 1 .. m - 1 : declarations[k].id # declarations[n].id

\* Identifiers are unique across the workspace.
DeclarationFaults(w) ==
    LET D == Declarations(w)
        First(n) == FirstDeclared(D, n)
    IN  {Diagnostic(IF D[First(n)].path = D[n].path THEN "YM301" ELSE "YM314",
                    D[n].path, D[n].id) :
            n \in {k \in DOMAIN D : First(k) # k}}

\* Everything some edge leads to from `start`, in as many steps as edges.
ReachedFrom(edges, start) ==
    FoldLeft(LAMBDA reached, e :
                reached \cup {f[2] : f \in {g \in edges : g[1] \in reached}},
             {f[2] : f \in {g \in edges : g[1] = start}}, SetToSeq(edges))

StateOrder(w) ==
    {<<e.item.id, e.item.after>> :
        e \in {s \in ToSet(w.states) : s.item.after # NoReference}}

StateFaults(w) ==
    UNION {When(e.item.after \notin StateIds(w), e, "YM307")
           \cup When(e.item.id \in ReachedFrom(StateOrder(w), e.item.id),
                     e, "YM502") :
             e \in {s \in Checked(w, w.states) : s.item.after # NoReference}}

\* Who took over from whom; declaring oneself is a fault of its own.
Succession(w) ==
    {p \in UNION {{<<e.item.id, s.subject>> : s \in e.item.supersedes} :
                    e \in ToSet(w.concepts)} : p[1] # p[2]}

SuccessionFaults(w, e) ==
    UNION {IF s.subject \notin ConceptIds(w) THEN {At(e, "YM312")}
           ELSE IF s.subject = e.item.id THEN {At(e, "YM313")}
           ELSE When(e.item.id \in ReachedFrom(Succession(w), e.item.id),
                     e, "YM504") : s \in e.item.supersedes}

\* Identified lists: an id used twice, and a reference nothing declares.
ListFaults(e, list, targets, twice, unresolved) ==
    UNION {When(\E j \in 1 .. i - 1 : list[j].id = list[i].id, e, twice)
           \cup When(list[i].ref \notin targets, e, unresolved) :
             i \in DOMAIN list}

PresenceFaults(w, e) ==
    When(~(e.item.presentIn \subseteq StateIds(w)), e, "YM307")

ConceptFaults(w, e) ==
    LET c == e.item
    IN  When(~KnownKind(w, e), e, "YM401")
        \cup When(c.owner \notin ConceptIds(w) \cup {NoReference}, e, "YM304")
        \cup When(~(c.distinctFrom \subseteq ConceptIds(w)), e, "YM310")
        \cup When(c.id \in c.distinctFrom \cap ConceptIds(w), e, "YM311")
        \cup SuccessionFaults(w, e)
        \cup ListFaults(e, c.constraints, ConceptIds(w), "YM306", "YM305")
        \cup ListFaults(e, c.references, SubjectIds(w), "YM309", "YM308")
        \cup PresenceFaults(w, e)
        \cup When(\E a \in ToSet(c.attestations) :
                    a.by \notin ConceptIds(w), e, "YM304")

\* A relationship is absent wherever one of its ends is.
AbsentEndFaults(w, e) ==
    LET Presence(id) == ConceptOf(w, id).item.presentIn
        Absent(id, state) == /\ id \in ConceptIds(w)
                             /\ Presence(id) # {} /\ state \notin Presence(id)
    IN  When(\E state \in e.item.presentIn \cap StateIds(w) :
                Absent(e.item.from, state) \/ Absent(e.item.to, state),
             e, "YM503")

RelationshipFaults(w, e) ==
    LET rel == e.item
        Has(field) == field \in DOMAIN rel.text
    IN  ListFaults(e, rel.references, SubjectIds(w), "YM309", "YM308")
        \cup PresenceFaults(w, e)
        \cup AbsentEndFaults(w, e)
        \cup When(\/ Has("mode") /\ rel.kind # "access"
                  \/ Has("content") /\ rel.kind # "flow", e, "YM405")
        \cup When(~KnownPolicy(w, e), e, "YM402")
        \cup When(~({rel.from, rel.to} \subseteq ConceptIds(w)), e, "YM302")

ForbidRules(w) ==
    UNION {e.item.forbids : e \in ToSet(w.concepts)}

Breaks(rule, kind, coreKind, from, to) ==
    /\ rule.relationship \in {kind, coreKind}
    /\ rule.from \in {NoReference, from}
    /\ rule.to \in {NoReference, to}
    /\ from \notin rule.exceptFrom
    /\ to \notin rule.exceptTo

\* The relationship table, the kind's own narrowing, and the forbids rules.
EndpointFaults(w, e) ==
    LET rel == e.item
        policy == Policy(w, e)
        from == ResolvedKind(w, rel.from)
        to == ResolvedKind(w, rel.to)
        Permitted == policy.coreKind \in Permits[<<CoreOf(from), CoreOf(to)>>]
        Narrowed(aspects, aspect) == aspects # {} /\ aspect \notin aspects
    IN  IF ~(KnownPolicy(w, e) /\ Resolves(w, rel.from) /\ Resolves(w, rel.to))
        THEN {}
        ELSE When(\E rule \in ForbidRules(w) :
                    Breaks(rule, rel.kind, policy.coreKind, rel.from, rel.to),
                  e, "YM415")
             \cup When(\/ ~Permitted
                       \/ Narrowed(policy.source, from.aspect)
                       \/ Narrowed(policy.target, to.aspect), e, "YM404")

\* Same ends, one composition and one aggregation, at a time they share.
WholePartFaults(w) ==
    LET wholes == {e \in ToSet(w.relationships) :
                    e.item.kind \in {"composition", "aggregation"}}
        Contradicts(e, f) ==
            /\ IdPrecedes(f.item.id, e.item.id)
            /\ <<f.item.from, f.item.to>> = <<e.item.from, e.item.to>>
            /\ f.item.kind # e.item.kind
            /\ \/ {} \in {e.item.presentIn, f.item.presentIn}
               \/ e.item.presentIn \cap f.item.presentIn # {}
    IN  {At(e, "YM501") : e \in {x \in wholes : \E f \in wholes : Contradicts(x, f)}}

\* Every relationship on one junction is of the first one's core kind.
JunctionFaults(w) ==
    LET Through(e, id) ==
            id \in {e.item.from, e.item.to} /\ KnownPolicy(w, e)
        IsJunction(id) == /\ Resolves(w, id)
                          /\ CoreOf(ResolvedKind(w, id)) \in JunctionKinds
        Other(e, id) ==
            \E f \in ToSet(w.relationships) :
                /\ Through(f, id)
                /\ Policy(w, f).coreKind # Policy(w, e).coreKind
                /\ \A g \in ToSet(w.relationships) :
                    Through(g, id) => ~IdPrecedes(g.item.id, f.item.id)
    IN  UNION {{At(e, "YM414") :
                  e \in {x \in ToSet(w.relationships) :
                            Through(x, id) /\ Other(x, id)}} :
               id \in {c \in ConceptIds(w) : IsJunction(c)}}

=============================================================================
