------------------------------ MODULE FoldTree ------------------------------
(***************************************************************************)
(* What contains what on a canvas, and what a folded box stands for.  A    *)
(* view says which relationships nest; a pattern says which subjects are   *)
(* the parts of an instance.  Both are read into one parent-of map, and    *)
(* folding reads that map and nothing else.                                *)
(*                                                                         *)
(* A graph is [concepts, relationships], each a function from ids to       *)
(* facts; of a concept this module reads its kind, of a relationship its   *)
(* kind and its ends.  A membership is one bound slot: the member, the     *)
(* instance, and how the pattern's wiring relates the two.                 *)
(***************************************************************************)
EXTENDS Naturals, Sequences, SequencesExt

CONSTANTS CoreOf,      \* the core kind each concept kind resolves to
          Services,    \* core kinds that are a promise to the layer above
          Interfaces,  \* core kinds that expose one
          Rulings      \* core kinds that state a ruling about other subjects

\* A function that says `value` of `x`, whatever it said before.
Including(f, x, value) == [y \in DOMAIN f \cup {x} |-> IF y = x THEN value ELSE f[y]]

(***************************************************************************)
(* A parent-of map: the ids above `id`, and the chain that starts with it. *)
(***************************************************************************)
Above(parentOf, id) ==
  LET climb[at \in DOMAIN parentOf, left \in SUBSET DOMAIN parentOf] ==
        {parentOf[at]}
          \cup (IF parentOf[at] \in left THEN climb[parentOf[at], left \ {parentOf[at]}] ELSE {})
  IN  IF id \in DOMAIN parentOf THEN climb[id, DOMAIN parentOf \ {id}] \ {id} ELSE {}

Chain(parentOf, id) == {id} \cup Above(parentOf, id)

\* The ids in `among` that nothing else in `among` contains.
Outermost(parentOf, among) == {c \in among : Above(parentOf, c) \cap among = {}}

(***************************************************************************)
(* The view's nesting, in precedence order.  Assignment nests internal     *)
(* behaviour and never a service, unless an interface exposes it.          *)
(***************************************************************************)
nestsAsAssignment(graph, edge) ==
  \/ CoreOf[graph.concepts[edge.to].kind] \notin Services
  \/ CoreOf[graph.concepts[edge.from].kind] \in Interfaces

NestingEdges(graph, nesting) ==
  {r \in DOMAIN graph.relationships :
     LET edge == graph.relationships[r]
     IN  /\ \E i \in DOMAIN nesting : nesting[i] = edge.kind
         /\ edge.kind = "assignment" => nestsAsAssignment(graph, edge)}

RankOf(nesting, kind) == CHOOSE i \in DOMAIN nesting : nesting[i] = kind

\* The parents that claim `child` at the best rank anybody claims it at.
BestClaims(graph, nesting, edges, child) ==
  LET claims == {graph.relationships[r] : r \in {q \in edges : graph.relationships[q].to = child}}
      rank(c) == RankOf(nesting, c.kind)
  IN  {c.from : c \in {d \in claims : \A e \in claims : rank(d) <= rank(e)}}

\* Every id of a loop is unnested; what leads into the loop is not.
unnestCycles(parentOf) ==
  [c \in {d \in DOMAIN parentOf : d \notin Chain(parentOf, parentOf[d])} |-> parentOf[c]]

\* Two best claims that name different parents leave the child unnested.
ClaimedParents(graph, nesting, edges) ==
  LET claims == [c \in DOMAIN graph.concepts |-> BestClaims(graph, nesting, edges, c)]
  IN  [c \in {d \in DOMAIN claims : \E p \in claims[d] : claims[d] = {p}} |->
         CHOOSE p \in claims[c] : TRUE]

nestingTree(graph, nesting) ==
  unnestCycles(ClaimedParents(graph, nesting, NestingEdges(graph, nesting)))

\* The relationships that the nesting says, and that no line repeats.
ConsumedEdges(graph, nesting, fromNesting) ==
  {r \in NestingEdges(graph, nesting) :
     LET edge == graph.relationships[r]
     IN  edge.to \in DOMAIN fromNesting /\ fromNesting[edge.to] = edge.from}

(***************************************************************************)
(* Slot members join the tree.  HoldersOf is every instance whose slots    *)
(* name the member; a candidate is held out by one of them, is no ruling,  *)
(* is not placed by the view and does not hold itself.                     *)
(***************************************************************************)
HoldersOf(memberships, member) ==
  {memberships[i].instance : i \in {j \in DOMAIN memberships : memberships[j].member = member}}

IsCandidate(graph, memberships, fromNesting, member) ==
  /\ member \notin DOMAIN fromNesting
  /\ \E i \in DOMAIN memberships : memberships[i].member = member /\ memberships[i].wiring # "context"
  /\ member \in DOMAIN graph.concepts
  /\ CoreOf[graph.concepts[member].kind] \notin Rulings
  /\ member \notin HoldersOf(memberships, member)

\* Each member once, at its first binding.
Candidates(graph, memberships, fromNesting) ==
  LET members == [i \in DOMAIN memberships |-> memberships[i].member]
      First(acc, m) == IF m \in ToSet(acc) \/ ~IsCandidate(graph, memberships, fromNesting, m)
                       THEN acc ELSE Append(acc, m)
  IN  FoldLeft(First, <<>>, members)

\* Of boxes one inside the other, the innermost.
Innermost(parentOf, boxes) == {c \in boxes : boxes \subseteq Chain(parentOf, c)}

\* The innermost box that holds all of `ids`, as a set of at most one.
lowestCommonAncestor(parentOf, ids) ==
  Innermost(parentOf, {c \in UNION {Chain(parentOf, i) : i \in ids} :
                         \A i \in ids : c \in Chain(parentOf, i)})

PutInto(parentOf, member, boxes) ==
  IF boxes = {} THEN parentOf ELSE Including(parentOf, member, CHOOSE b \in boxes : TRUE)

(***************************************************************************)
(* One member placed against the tree as it stands: inside its holder, or  *)
(* inside the box all of its holders share, and never inside something it  *)
(* already contains.                                                       *)
(***************************************************************************)
Settle(parentOf, member, holders) ==
  IF \E h \in holders : member \in Above(parentOf, h) THEN parentOf
  ELSE PutInto(parentOf, member, lowestCommonAncestor(parentOf, holders) \ {member})

(***************************************************************************)
(* Members are placed in rounds, because a holder may itself be a member   *)
(* whose place is decided here: a round takes those with no holder still   *)
(* pending, and what no round can decide stays outside.                    *)
(***************************************************************************)
Rounds(parentOf, candidates, memberships) ==
  LET Place(tree, m) == Settle(tree, m, HoldersOf(memberships, m))
      pending[n \in Nat] ==
        IF n = 0 THEN ToSet(candidates)
        ELSE LET waiting == pending[n - 1]
             IN  {m \in waiting : (HoldersOf(memberships, m) \ {m}) \cap waiting # {}}
      Ready(n) == SelectSeq(candidates, LAMBDA m : m \in pending[n - 1] \ pending[n])
      order == FlattenSeq([n \in DOMAIN candidates |-> Ready(n)])
  IN  FoldLeft(Place, parentOf, order)

\* [parentOf, consumed]: the tree, and the relationships its nesting says.
FoldTreeFrom(graph, memberships, nesting, fromNesting) ==
  [parentOf |-> unnestCycles(Rounds(fromNesting, Candidates(graph, memberships, fromNesting),
                                    memberships)),
   consumed |-> ConsumedEdges(graph, nesting, fromNesting)]

foldTree(graph, memberships, nesting) ==
  FoldTreeFrom(graph, memberships, nesting, nestingTree(graph, nesting))

InsideIds(parentOf, box) == {c \in DOMAIN parentOf : box \in Above(parentOf, c)}

(***************************************************************************)
(* What is drawn once some boxes are folded.  An edge with an end inside a *)
(* folded box is lifted to the outermost one; lifted edges of one kind     *)
(* between one ordered pair merge, carrying the names they stand for, and  *)
(* an edge whose ends fold into the same box is not drawn at all.          *)
(***************************************************************************)
visibleAncestorOf(parentOf, folded, id) ==
  LET shut == Above(parentOf, id) \cap folded
  IN  IF shut = {} THEN id ELSE CHOOSE c \in Outermost(parentOf, shut) : TRUE

Lift(graph, parentOf, folded, r) ==
  LET edge == graph.relationships[r]
  IN  [from |-> visibleAncestorOf(parentOf, folded, edge.from),
       to |-> visibleAncestorOf(parentOf, folded, edge.to), kind |-> edge.kind]

IsLifted(graph, lifts, r) ==
  LET edge == graph.relationships[r]
  IN  lifts[r].from # lifts[r].to /\ (lifts[r].from # edge.from \/ lifts[r].to # edge.to)

LiftedFrom(graph, lifts) ==
  LET lifted == {r \in DOMAIN lifts : IsLifted(graph, lifts, r)}
  IN  {[from |-> l.from, to |-> l.to, kind |-> l.kind, names |-> {r \in lifted : lifts[r] = l}] :
         l \in {lifts[r] : r \in lifted}}

foldGraph(graph, drawn, parentOf, folded) ==
  LiftedFrom(graph, [r \in drawn |-> Lift(graph, parentOf, folded, r)])
=============================================================================
