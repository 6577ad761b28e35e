--------------------------- MODULE SemanticGraph ---------------------------
(***************************************************************************)
(* The last phase of a compile: what pattern instances mint, the claims    *)
(* the graph holds, and the result.  A claim is [subject, part, predicate, *)
(* object]; its id in the code is the pair of subject and part.            *)
(***************************************************************************)
EXTENDS Compiler

HasShape(w, e) == KindIdentity(w, e) \in DOMAIN w.shapes
ShapeOf(w, e) == w.shapes[KindIdentity(w, e)]

BoundParts(w, e) ==
    SelectSeq(e.item.parts, LAMBDA p : p.slot \in SlotsOf(ShapeOf(w, e)))

PartsFaults(w, e) ==
    When(/\ e.item.parts # <<>>
         /\ \/ ~HasShape(w, e)
            \/ \E p \in ToSet(e.item.parts) : p.slot \notin SlotsOf(ShapeOf(w, e)),
         e, "YM419")

\* patternInstances: the concepts that bind parts of the shape of their kind.
Instances(w) ==
    {[id |-> e.item.id, path |-> e.path, shape |-> ShapeOf(w, e),
      bindings |-> BoundParts(w, e)] :
        e \in {x \in Checked(w, w.concepts) :
                x.item.parts # <<>> /\ HasShape(w, x)}}

DeclaredIds(w) ==
    {e.item.id : e \in Checked(w, w.states) \cup Checked(w, w.concepts)
                        \cup Checked(w, w.relationships)}

\* The kind of a declared subject; a relationship has none.
KindOfSubject(w, id) ==
    IF \E e \in Checked(w, w.concepts) : e.item.id = id
    THEN KindIdentity(w, CHOOSE e \in Checked(w, w.concepts) : e.item.id = id)
    ELSE IF \E e \in Checked(w, w.states) : e.item.id = id
    THEN CoreKind("plateau") ELSE <<>>

Bound(instance, slot) ==
    {p.to : p \in {q \in ToSet(instance.bindings) : q.slot = slot}}

BindingFaults(w, n) ==
    LET b == n.bindings
        Declared(i) == b[i].to \in DeclaredIds(w)
        Taken(i) == \E j \in 1 .. i - 1 : b[j].to = b[i].to
        Refused(i) == ~Admits(w.r, SlotNamed(n.shape, b[i].slot),
                              KindOfSubject(w, b[i].to))
    IN  {d \in {Diagnostic("YM315", n.path, n.id)} :
            \E i \in DOMAIN b : ~Declared(i) \/ Taken(i)}
        \cup {d \in {Diagnostic("YM417", n.path, n.id)} :
            \E i \in DOMAIN b : Declared(i) /\ ~Taken(i) /\ Refused(i)}
        \cup {d \in {Diagnostic("YM416", n.path, n.id)} :
            b # <<>> /\ \E s \in ToSet(n.shape.parts) :
                            s.required /\ Bound(n, s.name) = {}}

\* A relationship as the graph states it.
Edge(id, from, predicate, to) ==
    [id |-> id, from |-> from, predicate |-> predicate, to |-> to]

AuthoredEdges(w) ==
    {Edge(e.item.id, e.item.from,
          IF KnownPolicy(w, e) THEN PolicyIdentity(w, e) ELSE <<e.item.kind>>,
          e.item.to) : e \in Checked(w, w.relationships)}

Triple(edge) == <<edge.from, edge.predicate, edge.to>>

\* The wires of an instance whose two ends are bound and declared.
BoundWires(w, n) ==
    LET Ends(endpoint) == IF endpoint = Self THEN {n.id} ELSE Bound(n, endpoint)
        CoreKindOf(wire) == w.r.policies[wire.kind].coreKind
        WireId(wire) == n.id \o (IF wire.from = Self THEN <<>> ELSE <<wire.from>>)
                             \o <<CoreKindOf(wire), wire.to>>
    IN  UNION {{[from |-> f, predicate |-> wire.kind, to |-> t,
                 owner |-> wire.from = Self, id |-> WireId(wire),
                 coreKind |-> CoreKindOf(wire)] :
                  f \in Ends(wire.from) \cap DeclaredIds(w),
                  t \in Ends(wire.to) \cap DeclaredIds(w)} :
               wire \in ToSet(n.shape.wiring)}

AllWires(w) == UNION {BoundWires(w, n) : n \in Instances(w)}

\* An authored edge of a wired pair that is not the wire itself.
WiringFaults(w) ==
    LET wires == AllWires(w)
        edges == AuthoredEdges(w)
        Contradicts(e) ==
            \E wire \in wires :
                /\ {e.item.from, e.item.to} = {wire.from, wire.to}
                /\ ~\E edge \in edges :
                        edge.id = e.item.id /\ Triple(edge) = Triple(wire)
    IN  {At(e, "YM418") :
            e \in {x \in Checked(w, w.relationships) : Contradicts(x)}}

\* One edge per triple no author wrote: its owner names it, or the only wire
\* that asks for it, or else the triple does.
MintedWires(w) ==
    LET authored == {Triple(e) : e \in AuthoredEdges(w)}
        wires == AllWires(w)
        wanted == {wire \in wires : Triple(wire) \notin authored}
        Group(t) == {wire \in wanted : Triple(wire) = t}
        Owners(t) == {wire \in Group(t) : wire.owner}
        WireId(t) ==
            IF Owners(t) # {} THEN (CHOOSE x \in Owners(t) : TRUE).id
            ELSE IF Cardinality(Group(t)) = 1
            THEN (CHOOSE x \in Group(t) : TRUE).id
            ELSE t[1] \o <<(CHOOSE x \in Group(t) : TRUE).coreKind>> \o t[3]
    IN  {Edge(WireId(t), t[1], t[2], t[3]) : t \in {Triple(x) : x \in wanted}}

\* Identifiers that are derived and already taken, or derived twice.
Collisions(declared, minted) ==
    {d \in {Diagnostic("YM420", "", NoReference)} :
        \/ \E e \in minted : e.id \in declared
        \/ \E e, f \in minted : e # f /\ e.id = f.id}

\* The edges between two instances whose patterns both have a port for it.
MacroLandings(w, edges) ==
    LET instances == Instances(w)
        Landing(edge, a, b) ==
            {[edge |-> edge, from |-> Bound(a, out.out), to |-> Bound(b, in.in)] :
                out \in PortFor(a.shape, edge.predicate),
                in \in PortFor(b.shape, edge.predicate)}
    IN  UNION {UNION {Landing(edge, a, b) :
                        a \in {n \in instances : n.id = edge.from},
                        b \in {n \in instances : n.id = edge.to}} :
               edge \in edges}

LandsUnbound(l) == {} \in {l.from, l.to}

LandsForbidden(w, l) ==
    /\ ~LandsUnbound(l)
    /\ \E f \in l.from, t \in l.to :
        /\ {KindOfSubject(w, f), KindOfSubject(w, t)} \subseteq DOMAIN w.r.kinds
        /\ w.r.policies[l.edge.predicate].coreKind \notin
            permittedBetween(w.r, KindOfSubject(w, f), KindOfSubject(w, t))

MacroFaults(w, edges) ==
    {Diagnostic("YM421", "", l.edge.id) :
        l \in {x \in MacroLandings(w, edges) : LandsUnbound(x)}}
    \cup {Diagnostic("YM404", "", l.edge.id) :
        l \in {x \in MacroLandings(w, edges) : LandsForbidden(w, x)}}

\* What a macro edge expands to, unless its landing is stated already.
Expansions(w, edges) ==
    LET stated == {Triple(e) : e \in edges}
        Expanded(l) ==
            {x \in {Edge(l.edge.id \o <<"expansion">>, f, l.edge.predicate, t) :
                        f \in l.from, t \in l.to} : Triple(x) \notin stated}
    IN  UNION {Expanded(l) : l \in {x \in MacroLandings(w, edges) :
                                        ~LandsForbidden(w, x)}}

-----------------------------------------------------------------------------
Ref(id) == <<"ref", id>>
Val(v) == <<"value", v>>

Claim(subject, part, predicate, object) ==
    [subject |-> subject, part |-> part, predicate |-> predicate,
     object |-> object]

TextClaims(item) ==
    {Claim(item.id, <<f>>, <<"text", f>>, Val(<<item.text[f]>>)) :
        f \in DOMAIN item.text}

ReferenceClaims(item) ==
    {Claim(item.id, <<"reference", x.id>>, <<"reference", "refers-to">>,
           Ref(x.ref)) : x \in ToSet(item.references)}

PresenceClaims(item) ==
    {Claim(item.id, <<"present-in">> \o s, <<"state", "present-in">>, Ref(s)) :
        s \in item.presentIn}

StateClaims(e) ==
    LET s == e.item
    IN  {Claim(s.id, <<"kind">>, <<"concept", "kind">>,
               Val(CoreKind("plateau"))),
         Claim(s.id, <<"state-type">>, <<"state", "type">>, Val(<<s.kind>>))}
        \cup TextClaims(s)
        \cup {Claim(s.id, <<"after">>, <<"state", "after">>, Ref(x)) :
                x \in {s.after} \ {NoReference}}

SuccessionClaims(c) ==
    UNION {{Claim(c.id, <<"supersedes">> \o s.subject,
                  <<"lineage", "supersedes">>, Ref(s.subject))}
           \cup {Claim(c.id, <<"respect">> \o s.subject,
                       <<"lineage", "supersedes-respect">>, Val(<<x>>)) :
                    x \in {s.scope} \ {""}} : s \in c.supersedes}

ConstraintClaims(c) ==
    UNION {{Claim(c.id, <<"constraint", k.id>>, <<"constraint", "requires">>,
                  Ref(k.ref))}
           \cup {Claim(c.id, <<"expects", k.id>>, <<"constraint", "expects">>,
                       Val(k.expects)) : x \in {k.expects} \ {<<>>}} :
             k \in ToSet(c.constraints)}

ConceptClaims(w, e) ==
    LET c == e.item
    IN  {Claim(c.id, <<"kind">>, <<"concept", "kind">>,
               Val(KindIdentity(w, e)))}
        \cup TextClaims(c)
        \cup {Claim(c.id, <<"alias", a>>, <<"concept", "alias">>, Val(<<a>>)) :
                a \in c.aka}
        \cup {Claim(c.id, <<"distinct-from">> \o d,
                    <<"identity", "distinct-from">>, Ref(d)) :
                d \in c.distinctFrom}
        \cup SuccessionClaims(c)
        \cup {Claim(c.id, <<"owner">>, <<"ownership", "owner">>, Ref(o)) :
                o \in {c.owner} \ {NoReference}}
        \cup ConstraintClaims(c)
        \cup ReferenceClaims(c)
        \cup {Claim(c.id, <<"attestation", a.topic>>,
                    <<"attestation", a.topic>>, Val(a.by \o <<a.on>>)) :
                a \in ToSet(c.attestations)}
        \cup PresenceClaims(c)

\* A relationship is one claim about its source, whose id is its own.
EdgeClaim(edge) == Claim(edge.from, edge.id, edge.predicate, Ref(edge.to))

RelationshipClaims(e) ==
    TextClaims(e.item) \cup ReferenceClaims(e.item) \cup PresenceClaims(e.item)

Memberships(w) ==
    UNION {{[member |-> p.to, slot |-> p.slot, instance |-> n.id,
             pattern |-> n.shape.kind,
             wiring |-> slotWiringOf(n.shape, p.slot)] : p \in ToSet(n.bindings)} :
           n \in Instances(w)}

\* An instance that binds nothing is asked about every slot.
Vacancies(w) ==
    LET Open(e) == {s \in ToSet(ShapeOf(w, e).parts) :
                        s.name \notin {p.slot : p \in ToSet(BoundParts(w, e))}}
    IN  UNION {{[instance |-> e.item.id, pattern |-> ShapeOf(w, e).kind,
                 slot |-> s.name, slotKind |-> s.kind,
                 required |-> s.required] : s \in Open(e)} :
               e \in {x \in Checked(w, w.concepts) : HasShape(w, x)}}

DerivedFaults(w, minted, edges) ==
    MacroFaults(w, edges)
    \cup Collisions(DeclaredIds(w) \cup {e.id : e \in minted},
                    Expansions(w, edges))

\* Every fault of the documents, once profiles and patterns have resolved.
DocumentFaults(w) ==
    LET Derived(minted) ==
            Collisions(DeclaredIds(w), minted)
            \cup DerivedFaults(w, minted, AuthoredEdges(w) \cup minted)
    IN  DocumentIdFaults(w) \cup DeclarationFaults(w) \cup StateFaults(w)
        \cup (UNION {ConceptFaults(w, e) \cup PartsFaults(w, e) :
                         e \in Checked(w, w.concepts)})
        \cup (UNION {RelationshipFaults(w, e) \cup EndpointFaults(w, e) :
                         e \in Checked(w, w.relationships)})
        \cup WholePartFaults(w) \cup JunctionFaults(w)
        \cup (UNION {BindingFaults(w, n) : n \in Instances(w)})
        \cup WiringFaults(w)
        \cup Derived(MintedWires(w))

\* The relationships of the graph: authored, wired and expanded.
GraphEdges(w) ==
    LET WithExpansions(edges) == edges \cup Expansions(w, edges)
    IN  WithExpansions(AuthoredEdges(w) \cup MintedWires(w))

Graph(w, edges) ==
    [documents |-> {d.value.id : d \in ToSet(w.documents)},
     profiles |-> UNION {ToSet(w.r.profiles[d.value.profile].lineage) :
                            d \in ToSet(w.documents)},
     concepts |-> StateIds(w) \cup ConceptIds(w),
     edges |-> edges,
     claims |-> (UNION {StateClaims(e) : e \in ToSet(w.states)})
                \cup (UNION {ConceptClaims(w, e) : e \in ToSet(w.concepts)})
                \cup (UNION {RelationshipClaims(e) :
                                 e \in ToSet(w.relationships)})
                \cup {EdgeClaim(x) : x \in edges}]

Failed(diagnostics) == [ok |-> FALSE, diagnostics |-> diagnostics]

Compiled(w) ==
    [ok |-> TRUE, graph |-> Graph(w, GraphEdges(w)), memberships |-> Memberships(w),
     vacancies |-> Vacancies(w), kinds |-> w.r.kinds,
     policies |-> w.r.policies, shapes |-> w.shapes]

CompileDocuments(w, faults) ==
    IF faults # {} THEN Failed(faults) ELSE Compiled(w)

CompileWithPatterns(r, documents, found) ==
    LET illFormed == {d \in ToSet(documents) : ~d.wellFormed}
        Judged(w) == CompileDocuments(w, DocumentFaults(w))
    IN  IF found.diagnostics # {} THEN Failed(found.diagnostics)
        ELSE IF illFormed # {}
        THEN Failed({Diagnostic("YM201", d.path, NoReference) : d \in illFormed})
        ELSE Judged(Workspace(r, found.shapes, documents))

CompileWithProfiles(r, sources) ==
    IF r.diagnostics # {} THEN Failed(r.diagnostics)
    ELSE CompileWithPatterns(r, SourcesOf(sources, "document"),
                             ResolvePatterns(r, sources))

\* Each phase that finds a fault keeps the ones after it from running.
compileWorkspaceResolved(sources) ==
    CompileWithProfiles(ResolveProfiles(sources), sources)
=============================================================================
