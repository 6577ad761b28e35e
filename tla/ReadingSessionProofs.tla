------------------------ MODULE ReadingSessionProofs ------------------------
(***************************************************************************)
(* Proofs about ReadingSession for every graph the store may hold, every   *)
(* view, catalogue and bound: what stands on the canvas is the answer to   *)
(* what was asked, and what stands beside it is of the model as it is.     *)
(***************************************************************************)
EXTENDS ReadingSession, WellFoundedInduction, TLAPS

-----------------------------------------------------------------------------
(* The invariants.                                                         *)

\* Nothing is a view, a filter or a query to ask again; TLC's model value is none of them.
NoneHasNoQuery == \A r : "query" \in DOMAIN r => r # None

PageFields ==
  {"model", "views", "activeView", "activeFilter", "focusReturn", "extras", "applied", "nesting",
   "foldMode", "folded", "unfolded", "showResponsibility", "text"}

NestingAsked(extras) == Option(extras, "nesting", <<"composition">>)

IsPage(p) ==
  /\ DOMAIN p = PageFields
  /\ p.model = ModelOf(p.model.graph) /\ IsGraph(p.model.graph) /\ AreViews(p.views)
  /\ NestingAsked(p.extras) = p.nesting

\* What is selected is the answer to the standing query, asked as things were asked last.
Answered(p) ==
  p.activeFilter # None =>
    p.activeFilter.matched = Answer(p, p.activeFilter.query, p.extras)

\* A filter that is no focus belongs to a view that is there, unless views may be deleted.
Attributed(p) ==
  p.activeFilter # None =>
    /\ p.activeFilter.source \in {"view", "editor", "focus"}
    /\ p.activeFilter.source # "focus" /\ repertoire # "pointing" => ListedView(p.views, p.activeView)

\* What a focus gives back belongs to a view that is there, or is nothing.
LeadsBack(p) ==
  p.focusReturn # None =>
    /\ repertoire # "pointing" /\ p.activeView = None
    /\ (p.focusReturn.activeFilter # None =>
          /\ ListedView(p.views, p.focusReturn.activeView)
          /\ p.focusReturn.activeFilter.source \in {"view", "editor"})

\* A focus on instances asks for the box and nothing else, under the nesting that stands.
OneBox(query) == \E id : query = [instances |-> {id}, relationships |-> "between"]

Focuses(p) ==
  p.activeFilter # None /\ p.activeFilter.source = "focus" =>
    /\ ("instances" \in DOMAIN p.activeFilter.query => OneBox(p.activeFilter.query))
    /\ (p.activeView = None =>
          \E extras : /\ NestingAsked(extras) = p.nesting
                      /\ p.activeFilter.matched = Answer(p, p.activeFilter.query, extras))

\* The effect that follows a render has nothing left to do.
Settled(p) ==
  /\ p.applied \in {p.activeView, None}
  /\ ListedView(p.views, p.activeView) => p.applied = p.activeView

Stands(p) == IsPage(p) /\ Attributed(p) /\ LeadsBack(p) /\ Focuses(p)

PageInv == Stands(page) /\ Settled(page) /\ (compiled => Answered(page))

\* Between a gesture and the effect that follows it a filter may be one that was given back.
NeedsNoRender(p) == ListedView(p.views, p.activeView) => p.activeView = p.applied

ToBeRendered(p) ==
  /\ Stands(p)
  /\ p.applied \in {p.activeView, None} \/ p.activeView = None \/ ListedView(p.views, p.activeView)
  /\ compiled => Answered(p) \/ ~NeedsNoRender(p)

-----------------------------------------------------------------------------
(* What the page's operations do to it.                                    *)

LEMMA FilterFields ==
  ASSUME NEW p, DOMAIN p = PageFields, NEW query, NEW matched, NEW source,
         NEW r, r = FilterApplied(p, query, matched, source)
  PROVE  /\ DOMAIN r = PageFields
         /\ r.model = p.model /\ r.views = p.views /\ r.extras = p.extras
         /\ r.applied = p.applied /\ r.nesting = p.nesting
         /\ r.activeFilter = [query |-> query, matched |-> matched, source |-> source]
         /\ r.activeView = IF FromTheView(source) THEN p.activeView ELSE None
         /\ r.focusReturn = IF source # "focus" THEN None
                            ELSE IF p.activeFilter # None /\ p.activeFilter.source = "focus"
                            THEN p.focusReturn ELSE Anchor(p)
BY DEF FilterApplied, PageFields

LEMMA AnswerReadsTheModel ==
  ASSUME NEW p, NEW q, p.model = q.model, NEW query, NEW extras
  PROVE  Answer(p, query, extras) = Answer(q, query, extras)
BY DEF Answer

LEMMA ListedIsSome ==
  ASSUME NEW views, NEW view, ListedView(views, view)
  PROVE  view \in ViewPaths /\ view # None /\ views[view] # None
BY PathsAssumption DEF ListedView

LEMMA NoneIsNotListed == \A views : ~ListedView(views, None)
BY PathsAssumption DEF ListedView

\* What is asked under a view's nesting is read under it.
LEMMA DeclaredNesting ==
  ASSUME NEW presentation
  PROVE  NestingAsked(DeclaredExtras(presentation)) = NestingAsked(presentation)
<1> DEFINE asked == DOMAIN presentation \cap {"nesting", "showResponsibility"}
<1>1. /\ DOMAIN DeclaredExtras(presentation) = asked
      /\ \A f \in asked : DeclaredExtras(presentation)[f] = presentation[f]
  BY DEF DeclaredExtras, Restrict
<1>2. "nesting" \in asked <=> "nesting" \in DOMAIN presentation
  OBVIOUS
<1> QED
  BY <1>1, <1>2 DEF NestingAsked, Option

\* Only what a page says of these fields matters here.
LEMMA SameStanding ==
  ASSUME NEW p, NEW q, DOMAIN q = PageFields, q.model = p.model, q.views = p.views,
         q.activeView = p.activeView, q.activeFilter = p.activeFilter,
         q.focusReturn = p.focusReturn, q.nesting = p.nesting
  PROVE  /\ Stands(p) /\ NestingAsked(q.extras) = q.nesting => Stands(q)
         /\ q.extras = p.extras /\ Answered(p) => Answered(q)
         /\ q.extras = p.extras /\ Stands(p) => Stands(q)
         /\ q.extras = p.extras /\ q.applied = p.applied /\ ToBeRendered(p) => ToBeRendered(q)
         /\ q.applied = p.applied /\ Settled(p) => Settled(q)
<1>1. /\ \A query, extras : Answer(p, query, extras) = Answer(q, query, extras)
  BY AnswerReadsTheModel
<1>2. NestingAsked(q.extras) = q.nesting /\ IsPage(p) => IsPage(q)
  BY DEF IsPage
<1>3. Attributed(p) => Attributed(q)
  BY DEF Attributed
<1>4. LeadsBack(p) => LeadsBack(q)
  BY DEF LeadsBack
<1>5. Focuses(p) => Focuses(q)
  BY <1>1 DEF Focuses
<1>6. q.extras = p.extras => (Answered(p) => Answered(q))
  BY <1>1 DEF Answered
<1>7. Settled(p) /\ q.applied = p.applied => Settled(q)
  BY DEF Settled
<1>8. q.extras = p.extras /\ Stands(p) => NestingAsked(q.extras) = q.nesting
  BY DEF Stands, IsPage
<1>9. Stands(p) /\ NestingAsked(q.extras) = q.nesting => Stands(q)
  BY <1>2, <1>3, <1>4, <1>5 DEF Stands
<1>10. q.applied = p.applied => (NeedsNoRender(p) <=> NeedsNoRender(q))
  BY DEF NeedsNoRender
<1> QED
  BY <1>6, <1>7, <1>8, <1>9, <1>10 DEF ToBeRendered

-----------------------------------------------------------------------------
(* The effect after a render.                                              *)

\* The presentation a view declares, applied to a page that shows the view.
LEMMA PresentationFields ==
  ASSUME NEW p, DOMAIN p = PageFields, NEW presentation,
         NEW r, r = presentationActionsFor(p, presentation)
  PROVE  /\ DOMAIN r = PageFields
         /\ r.model = p.model /\ r.views = p.views /\ r.extras = p.extras
         /\ r.applied = p.applied /\ r.nesting = NestingAsked(presentation)
         /\ r.activeFilter = p.activeFilter /\ r.activeView = p.activeView
         /\ r.focusReturn = p.focusReturn
BY DEF presentationActionsFor, PageFields, NestingAsked

LEMMA AppliedStands ==
  ASSUME NEW p, Stands(p), ListedView(p.views, p.activeView)
  PROVE  LET r == AppliedView(p, p.views[p.activeView])
         IN  Stands(r) /\ Settled(r) /\ (compiled => Answered(r)) /\ r.model = p.model /\ r.views = p.views
<1> DEFINE view == p.views[p.activeView]
           extras == DeclaredExtras(view.presentation)
           asked == [p EXCEPT !.extras = extras]
           f == Filter(p, view.query, "view", extras)
           a == [f EXCEPT !.applied = p.activeView]
           r == AppliedView(p, view)
<1>1. DOMAIN p = PageFields /\ p.activeView # None /\ p.activeView \in ViewPaths
  BY ListedIsSome DEF Stands, IsPage
<1>2. /\ DOMAIN asked = PageFields
      /\ asked.model = p.model /\ asked.views = p.views /\ asked.activeView = p.activeView
      /\ asked.activeFilter = p.activeFilter /\ asked.focusReturn = p.focusReturn
      /\ asked.extras = extras
  BY <1>1 DEF PageFields
<1>3. p.focusReturn = None
  BY <1>1 DEF Stands, LeadsBack
<1>4. /\ DOMAIN f = PageFields
      /\ f.model = p.model /\ f.views = p.views /\ f.extras = extras
      /\ f.activeView = p.activeView /\ f.focusReturn = None
      /\ \/ ~compiled /\ f.activeFilter = p.activeFilter
         \/ f.activeFilter = [query |-> view.query, matched |-> Answer(p, view.query, extras),
                              source |-> "view"]
  <2>1. CASE compiled
    <3>1. f = FilterApplied(asked, view.query, Answer(p, view.query, extras), "view")
      BY <2>1 DEF Filter
    <3> HIDE DEF f, asked, extras, view
    <3> QED
      BY <1>2, <3>1, FilterFields DEF FromTheView
  <2>2. CASE ~compiled
    <3>1. f = asked
      BY <2>2 DEF Filter
    <3> QED
      BY <1>2, <1>3, <2>2, <3>1
  <2> QED
    BY <2>1, <2>2
<1>5. /\ DOMAIN a = PageFields
      /\ a.model = p.model /\ a.views = p.views /\ a.extras = extras
      /\ a.activeView = p.activeView /\ a.focusReturn = None /\ a.applied = p.activeView
      /\ a.activeFilter = f.activeFilter
  BY <1>4 DEF PageFields
<1>6. /\ DOMAIN r = PageFields
      /\ r.model = p.model /\ r.views = p.views /\ r.extras = extras
      /\ r.activeView = p.activeView /\ r.focusReturn = None /\ r.applied = p.activeView
      /\ r.activeFilter = f.activeFilter /\ r.nesting = NestingAsked(view.presentation)
  <2>1. r = presentationActionsFor(a, view.presentation)
    BY DEF AppliedView
  <2> HIDE DEF r, a, f, asked, extras, view
  <2> QED
    BY <1>5, <2>1, PresentationFields
<1> HIDE DEF r, a, f, asked
<1>7. IsPage(r)
  BY <1>6, DeclaredNesting DEF Stands, IsPage
<1>8. Attributed(r) /\ LeadsBack(r)
  BY <1>4, <1>6 DEF Stands, Attributed, LeadsBack
<1>9. Focuses(r)
  BY <1>1, <1>4, <1>6 DEF Stands, Focuses
<1>10. Settled(r)
  BY <1>6 DEF Settled
<1>11. compiled => Answered(r)
  BY <1>4, <1>6, AnswerReadsTheModel DEF Answered
<1> QED
  BY <1>6, <1>7, <1>8, <1>9, <1>10, <1>11 DEF r, Stands

\* After the effect, what stands is settled and answered.
LEMMA RenderedStands ==
  ASSUME NEW p, ToBeRendered(p)
  PROVE  /\ Stands(Rendered(p)) /\ Settled(Rendered(p))
         /\ compiled => Answered(Rendered(p))
         /\ Answered(p) /\ NeedsNoRender(p) => Answered(Rendered(p))
         /\ Rendered(p).model = p.model
<1> DEFINE blank == [p EXCEPT !.applied = None]
<1>1. CASE p.activeView = None
  <2>1. Rendered(p) = blank
    BY <1>1 DEF Rendered
  <2>2. /\ DOMAIN blank = PageFields /\ blank.model = p.model /\ blank.views = p.views
        /\ blank.activeView = p.activeView /\ blank.activeFilter = p.activeFilter
        /\ blank.focusReturn = p.focusReturn /\ blank.nesting = p.nesting
        /\ blank.extras = p.extras /\ blank.applied = None
    BY DEF ToBeRendered, Stands, IsPage, PageFields
  <2> HIDE DEF blank
  <2>3. Stands(blank) /\ (Answered(p) => Answered(blank))
    BY <2>2, SameStanding DEF ToBeRendered
  <2>4. Settled(blank)
    BY <1>1, <2>2, NoneIsNotListed DEF Settled
  <2>5. NeedsNoRender(p)
    BY <1>1, NoneIsNotListed DEF NeedsNoRender
  <2> QED
    BY <2>1, <2>2, <2>3, <2>4, <2>5 DEF ToBeRendered
<1>2. CASE p.activeView # None /\ NeedsNoRender(p)
  <2>1. Rendered(p) = p
    BY <1>2 DEF Rendered, ViewNeedingApplication, NeedsNoRender
  <2>2. Settled(p)
    BY <1>2 DEF ToBeRendered, Settled, NeedsNoRender
  <2> QED
    BY <1>2, <2>1, <2>2 DEF ToBeRendered
<1>3. CASE p.activeView # None /\ ~NeedsNoRender(p)
  <2>1. ListedView(p.views, p.activeView) /\ p.activeView # p.applied
    BY <1>3 DEF NeedsNoRender
  <2>2. Rendered(p) = AppliedView(p, p.views[p.activeView])
    BY <1>3, <2>1 DEF Rendered, ViewNeedingApplication
  <2> QED
    BY <1>3, <2>1, <2>2, AppliedStands DEF ToBeRendered
<1> QED
  BY <1>1, <1>2, <1>3

-----------------------------------------------------------------------------
(* What the page asks before that effect.                                  *)

\* A query asked on the spot: of the page as it stands, under what is said beside it.
LEMMA AskedFields ==
  ASSUME NEW p, DOMAIN p = PageFields, NEW query, NEW source, NEW extras,
         NEW r, r = Filter(p, query, source, extras)
  PROVE  /\ DOMAIN r = PageFields
         /\ r.model = p.model /\ r.views = p.views /\ r.extras = extras
         /\ r.applied = p.applied /\ r.nesting = p.nesting
         /\ ~compiled => /\ r.activeFilter = p.activeFilter /\ r.activeView = p.activeView
                         /\ r.focusReturn = p.focusReturn
         /\ compiled =>
              /\ r.activeFilter = [query |-> query, matched |-> Answer(p, query, extras), source |-> source]
              /\ r.activeView = IF FromTheView(source) THEN p.activeView ELSE None
              /\ r.focusReturn = IF source # "focus" THEN None
                                 ELSE IF p.activeFilter # None /\ p.activeFilter.source = "focus"
                                 THEN p.focusReturn ELSE Anchor(p)
<1> DEFINE asked == [p EXCEPT !.extras = extras]
<1>1. /\ DOMAIN asked = PageFields
      /\ asked.model = p.model /\ asked.views = p.views /\ asked.activeView = p.activeView
      /\ asked.activeFilter = p.activeFilter /\ asked.focusReturn = p.focusReturn
      /\ asked.extras = extras /\ asked.applied = p.applied /\ asked.nesting = p.nesting
  BY DEF PageFields
<1>2. Anchor(asked) = Anchor(p)
  BY <1>1 DEF Anchor
<1>3. CASE compiled
  <2>1. r = FilterApplied(asked, query, Answer(p, query, extras), source)
    BY <1>3 DEF Filter
  <2> HIDE DEF asked
  <2> QED
    BY <1>1, <1>2, <1>3, <2>1, FilterFields
<1>4. CASE ~compiled
  <2>1. r = asked
    BY <1>4 DEF Filter
  <2> QED
    BY <1>1, <1>4, <2>1
<1> QED
  BY <1>3, <1>4

\* The anchor a focus keeps: what stood before the first of them.
LEMMA FocusLeadsBack ==
  ASSUME NEW p, Stands(p), repertoire # "pointing", NEW r, r.views = p.views, r.activeView = None,
         r.focusReturn = IF p.activeFilter # None /\ p.activeFilter.source = "focus"
                         THEN p.focusReturn ELSE Anchor(p)
  PROVE  LeadsBack(r)
<1>1. CASE p.activeFilter # None /\ p.activeFilter.source = "focus"
  BY <1>1 DEF Stands, LeadsBack
<1>2. CASE ~(p.activeFilter # None /\ p.activeFilter.source = "focus")
  <2>1. r.focusReturn.activeView = p.activeView /\ r.focusReturn.activeFilter = p.activeFilter
    BY <1>2 DEF Anchor
  <2> QED
    BY <1>2, <2>1 DEF Stands, Attributed, LeadsBack
<1> QED
  BY <1>1, <1>2

MayAsk(p, query, source) ==
  /\ source \in {"view", "editor", "focus"}
  /\ source # "focus" /\ repertoire # "pointing" => ListedView(p.views, p.activeView)
  /\ source = "focus" =>
       /\ "instances" \in DOMAIN query => OneBox(query)
       /\ \/ repertoire # "pointing"
          \/ p.activeFilter # None /\ p.activeFilter.source = "focus"

LEMMA AskedToBeRendered ==
  ASSUME NEW p, Stands(p), Settled(p), NEW query, NEW source, MayAsk(p, query, source),
         NEW r, r = Filter(p, query, source, BoardExtras(p))
  PROVE  ToBeRendered(r) /\ r.model = p.model
<1> DEFINE extras == BoardExtras(p)
<1>1. DOMAIN p = PageFields
  BY DEF Stands, IsPage
<1>2. NestingAsked(extras) = p.nesting
  BY DEF NestingAsked, BoardExtras, Option
<1> HIDE DEF extras
<1>3. /\ DOMAIN r = PageFields
      /\ r.model = p.model /\ r.views = p.views /\ r.extras = extras
      /\ r.applied = p.applied /\ r.nesting = p.nesting
      /\ ~compiled => /\ r.activeFilter = p.activeFilter /\ r.activeView = p.activeView
                      /\ r.focusReturn = p.focusReturn
      /\ compiled =>
           /\ r.activeFilter = [query |-> query, matched |-> Answer(p, query, extras), source |-> source]
           /\ r.activeView = IF FromTheView(source) THEN p.activeView ELSE None
           /\ r.focusReturn = IF source # "focus" THEN None
                              ELSE IF p.activeFilter # None /\ p.activeFilter.source = "focus"
                              THEN p.focusReturn ELSE Anchor(p)
  BY <1>1, AskedFields DEF extras
<1>4. CASE ~compiled
  <2>1. Stands(r)
    BY <1>2, <1>3, <1>4, SameStanding
  <2> QED
    BY <1>3, <1>4, <2>1 DEF ToBeRendered, Settled
<1>5. CASE compiled
  <2>1. IsPage(r)
    BY <1>2, <1>3 DEF Stands, IsPage
  <2>2. Answered(r)
    BY <1>3, <1>5, AnswerReadsTheModel DEF Answered
  <2>3. CASE source # "focus"
    <3>1. r.activeView = p.activeView /\ r.focusReturn = None
      BY <1>3, <1>5, <2>3 DEF FromTheView, MayAsk
    <3>2. Attributed(r) /\ LeadsBack(r) /\ Focuses(r)
      BY <1>3, <1>5, <2>3, <3>1 DEF Attributed, LeadsBack, Focuses, MayAsk
    <3> QED
      BY <1>3, <2>1, <2>2, <3>1, <3>2 DEF ToBeRendered, Stands, Settled
  <2>4. CASE source = "focus"
    <3>1. r.activeView = None
      BY <1>3, <1>5, <2>4 DEF FromTheView
    <3>2. Attributed(r)
      BY <1>3, <1>5, <2>4 DEF Attributed
    <3>3. Focuses(r)
      <4>1. r.activeFilter.matched = Answer(r, r.activeFilter.query, extras)
        BY <1>3, <1>5, AnswerReadsTheModel
      <4>2. "instances" \in DOMAIN r.activeFilter.query => OneBox(r.activeFilter.query)
        BY <1>3, <1>5, <2>4 DEF MayAsk
      <4> QED
        BY <1>2, <1>3, <4>1, <4>2 DEF Focuses
    <3>4. LeadsBack(r)
      <4>1. CASE repertoire # "pointing"
        BY <1>3, <1>5, <2>4, <3>1, <4>1, FocusLeadsBack
      <4>2. CASE p.activeFilter # None /\ p.activeFilter.source = "focus"
        BY <1>3, <1>5, <2>4, <3>1, <4>2 DEF Stands, LeadsBack
      <4> QED
        BY <2>4, <4>1, <4>2 DEF MayAsk
    <3> QED
      BY <1>3, <2>1, <2>2, <3>1, <3>2, <3>3, <3>4 DEF ToBeRendered, Stands
  <2> QED
    BY <2>3, <2>4
<1> QED
  BY <1>3, <1>4, <1>5

LEMMA NavigatedToBeRendered ==
  ASSUME PageInv, NEW view, ListedView(page.views, view)
  PROVE  ToBeRendered(ViewNavigated(page, view)) /\ ViewNavigated(page, view).model = page.model
<1> DEFINE r == [page EXCEPT !.activeView = view, !.focusReturn = None]
<1>1. CASE page.activeView = view
  BY <1>1 DEF PageInv, ToBeRendered, Settled, ViewNavigated
<1>2. CASE page.activeView # view
  <2>1. ViewNavigated(page, view) = r
    BY <1>2 DEF ViewNavigated
  <2>2. /\ DOMAIN r = PageFields /\ r.model = page.model /\ r.views = page.views
        /\ r.extras = page.extras /\ r.nesting = page.nesting /\ r.applied = page.applied
        /\ r.activeView = view /\ r.focusReturn = None /\ r.activeFilter = page.activeFilter
    BY DEF PageInv, Stands, IsPage, PageFields
  <2> HIDE DEF r
  <2>3. view # None
    BY ListedIsSome
  <2>4. IsPage(r) /\ Attributed(r) /\ LeadsBack(r) /\ Focuses(r)
    BY <2>2, <2>3 DEF PageInv, Stands, IsPage, Attributed, LeadsBack, Focuses
  <2>5. ~NeedsNoRender(r)
    BY <1>2, <2>2, <2>3 DEF PageInv, Settled, NeedsNoRender
  <2> QED
    BY <2>1, <2>2, <2>4, <2>5 DEF ToBeRendered, Stands
<1> QED
  BY <1>1, <1>2

LEMMA ClearedToBeRendered ==
  ASSUME PageInv
  PROVE  ToBeRendered(FilterCleared(page)) /\ FilterCleared(page).model = page.model
<1>1. DOMAIN page = PageFields
  BY DEF PageInv, Stands, IsPage
<1>2. CASE page.focusReturn # None
  <2> DEFINE r == [page EXCEPT !.activeFilter = page.focusReturn.activeFilter,
                               !.activeView = page.focusReturn.activeView, !.focusReturn = None]
  <2>1. FilterCleared(page) = r
    BY <1>2 DEF FilterCleared
  <2>2. /\ DOMAIN r = PageFields /\ r.model = page.model /\ r.views = page.views
        /\ r.extras = page.extras /\ r.nesting = page.nesting /\ r.applied = page.applied
        /\ r.activeView = page.focusReturn.activeView /\ r.focusReturn = None
        /\ r.activeFilter = page.focusReturn.activeFilter
    BY <1>1 DEF PageFields
  <2> HIDE DEF r
  <2>3. /\ page.applied = None
        /\ r.activeFilter # None =>
             ListedView(r.views, r.activeView) /\ r.activeFilter.source \in {"view", "editor"}
    BY <1>2, <2>2 DEF PageInv, Stands, Settled, LeadsBack
  <2>4. IsPage(r) /\ Attributed(r) /\ LeadsBack(r) /\ Focuses(r)
    BY <2>2, <2>3 DEF PageInv, Stands, IsPage, Attributed, LeadsBack, Focuses
  <2>5. Answered(r) \/ ~NeedsNoRender(r)
    <3>1. CASE r.activeFilter = None
      BY <3>1 DEF Answered
    <3>2. CASE r.activeFilter # None
      BY <2>2, <2>3, <3>2, ListedIsSome DEF NeedsNoRender
    <3> QED
      BY <3>1, <3>2
  <2> QED
    BY <2>1, <2>2, <2>3, <2>4, <2>5 DEF ToBeRendered, Stands
<1>3. CASE page.focusReturn = None
  <2> DEFINE r == [page EXCEPT !.activeFilter = None, !.activeView = None]
  <2>1. FilterCleared(page) = r
    BY <1>3 DEF FilterCleared
  <2>2. /\ DOMAIN r = PageFields /\ r.model = page.model /\ r.views = page.views
        /\ r.extras = page.extras /\ r.nesting = page.nesting /\ r.applied = page.applied
        /\ r.activeView = None /\ r.focusReturn = None /\ r.activeFilter = None
    BY <1>1, <1>3 DEF PageFields
  <2> HIDE DEF r
  <2> QED
    BY <2>1, <2>2
    DEF PageInv, ToBeRendered, Stands, IsPage, Attributed, LeadsBack, Focuses, Answered
<1> QED
  BY <1>2, <1>3

\* What else a gesture does to the page: the quick filter, the flag, the folds.
LEMMA RedrawnToBeRendered ==
  ASSUME PageInv, NEW r, DOMAIN r = PageFields, r.model = page.model, r.views = page.views,
         r.activeView = page.activeView, r.activeFilter = page.activeFilter,
         r.focusReturn = page.focusReturn, r.nesting = page.nesting,
         r.extras = page.extras, r.applied = page.applied
  PROVE  Stands(r) /\ Settled(r) /\ (compiled => Answered(r)) /\ ToBeRendered(r)
<1>1. Stands(r) /\ Settled(r) /\ (Answered(page) => Answered(r))
  BY SameStanding DEF PageInv
<1> QED
  BY <1>1 DEF PageInv, ToBeRendered, Settled

\* The standing query, asked again with the board as it is now.
LEMMA StandingToBeRendered ==
  ASSUME NEW p, Stands(p), Settled(p), p.activeFilter # None,
         NEW r, r = Filter(p, p.activeFilter.query, p.activeFilter.source, BoardExtras(p))
  PROVE  ToBeRendered(r) /\ r.model = p.model
<1>1. MayAsk(p, p.activeFilter.query, p.activeFilter.source)
  BY DEF Stands, Attributed, Focuses, MayAsk
<1> QED
  BY <1>1, AskedToBeRendered

\* The flag is toggled, and the standing query asked again with it.
LEMMA ToggledToBeRendered ==
  ASSUME PageInv, NEW toggled, DOMAIN toggled = PageFields,
         toggled.model = page.model, toggled.views = page.views,
         toggled.activeView = page.activeView, toggled.activeFilter = page.activeFilter,
         toggled.focusReturn = page.focusReturn, toggled.nesting = page.nesting,
         toggled.extras = page.extras, toggled.applied = page.applied,
         NEW r, r = IF page.activeFilter = None THEN toggled
                    ELSE Filter(toggled, page.activeFilter.query, page.activeFilter.source,
                                BoardExtras(toggled))
  PROVE  ToBeRendered(r) /\ r.model = page.model
<1>1. Stands(toggled) /\ Settled(toggled) /\ ToBeRendered(toggled)
  BY RedrawnToBeRendered
<1>2. CASE page.activeFilter = None
  BY <1>1, <1>2
<1>3. CASE page.activeFilter # None
  BY <1>1, <1>3, StandingToBeRendered
<1> QED
  BY <1>2, <1>3

-----------------------------------------------------------------------------
(* A new model.                                                            *)

\* A frame's query is asked again of the model it carries, under what was asked beside it.
LEMMA FrameToBeRendered ==
  ASSUME NoneHasNoQuery, Stands(page), Settled(page),
         NEW graph, IsGraph(graph), NEW views, AreViews(views),
         repertoire # "pointing" => \A v : ListedView(page.views, v) => ListedView(views, v),
         NEW r, r = ModelFrame(page, graph, views)
  PROVE  /\ ToBeRendered(r) /\ Answered(r) /\ r.model = ModelOf(graph)
         /\ r.views = views /\ r.applied = page.applied /\ r.activeView \in {page.activeView, None}
<1> DEFINE s == ModelReceived(page, ModelOf(graph), views)
           stale == FilterToReresolve([kind |-> "model", views |-> views], page)
<1>1. /\ DOMAIN s = PageFields /\ s.model = ModelOf(graph) /\ s.views = views
      /\ s.activeView = page.activeView /\ s.activeFilter = page.activeFilter
      /\ s.focusReturn = page.focusReturn /\ s.nesting = page.nesting
      /\ s.extras = page.extras /\ s.applied = page.applied
  BY DEF Stands, IsPage, PageFields, ModelReceived
<1>2. r = Reasked(s, stale)
  BY DEF ModelFrame
<1>3. ModelOf(graph) = ModelOf(ModelOf(graph).graph) /\ IsGraph(ModelOf(graph).graph)
  BY DEF ModelOf
<1>4. CASE page.activeFilter = None
  <2>1. stale = None
    BY <1>4 DEF FilterToReresolve
  <2> HIDE DEF s, stale
  <2>2. r = s
    BY <1>2, <2>1 DEF Reasked
  <2>3. IsPage(s)
    BY <1>1, <1>3 DEF Stands, IsPage
  <2>4. Attributed(s) /\ Focuses(s) /\ Answered(s)
    BY <1>1, <1>4 DEF Attributed, Focuses, Answered
  <2>5. LeadsBack(s)
    BY <1>1 DEF Stands, LeadsBack
  <2> QED
    BY <1>1, <2>2, <2>3, <2>4, <2>5 DEF ToBeRendered, Stands, Settled
<1>5. CASE page.activeFilter # None
  <2> DEFINE source == page.activeFilter.source
             query == IF FromTheView(source) /\ ListedView(views, page.activeView)
                      THEN views[page.activeView].query ELSE page.activeFilter.query
  <2>1. stale = [source |-> source, query |-> query]
    BY <1>5 DEF FilterToReresolve
  <2>2. stale # None /\ stale.query = query /\ stale.source = source
    BY <2>1 DEF NoneHasNoQuery
  <2>3. /\ source \in {"view", "editor", "focus"}
        /\ source # "focus" /\ repertoire # "pointing" => ListedView(views, page.activeView)
        /\ source = "focus" => query = page.activeFilter.query
    BY <1>5 DEF Stands, Attributed, FromTheView
  <2>4. source = "focus" => ("instances" \in DOMAIN query => OneBox(query))
    BY <1>5, <2>3 DEF Stands, Focuses
  <2> HIDE DEF s, stale, query
  <2>5. r = FilterApplied(s, query, Answer(s, query, s.extras), source)
    BY <1>2, <2>2 DEF Reasked
  <2>6. /\ DOMAIN r = PageFields
        /\ r.model = s.model /\ r.views = views /\ r.extras = s.extras
        /\ r.applied = page.applied /\ r.nesting = page.nesting
        /\ r.activeFilter = [query |-> query, matched |-> Answer(s, query, s.extras), source |-> source]
        /\ r.activeView = IF FromTheView(source) THEN page.activeView ELSE None
        /\ r.focusReturn = IF source # "focus" THEN None ELSE page.focusReturn
    BY <1>1, <1>5, <2>5, FilterFields
  <2> HIDE DEF source
  <2>7. IsPage(r)
    BY <1>1, <1>3, <2>6 DEF Stands, IsPage
  <2>8. Answered(r)
    BY <1>1, <2>6, AnswerReadsTheModel DEF Answered
  <2>9. Attributed(r)
    BY <2>3, <2>6 DEF Attributed, FromTheView
  <2>10. LeadsBack(r)
    BY <1>1, <2>3, <2>6 DEF Stands, LeadsBack, FromTheView
  <2>11. Focuses(r)
    <3>1. r.activeFilter.matched = Answer(r, r.activeFilter.query, r.extras)
      BY <1>1, <2>6, AnswerReadsTheModel
    <3>2. NestingAsked(r.extras) = r.nesting
      BY <1>1, <2>6 DEF Stands, IsPage
    <3>3. r.activeFilter.query = query /\ r.activeFilter.source = source
      BY <2>6
    <3> QED
      BY <2>4, <3>1, <3>2, <3>3 DEF Focuses
  <2>12. r.activeView \in {page.activeView, None}
    BY <2>6
  <2> QED
    BY <1>1, <2>6, <2>7, <2>8, <2>9, <2>10, <2>11, <2>12 DEF ToBeRendered, Stands, Settled
<1> QED
  BY <1>4, <1>5

LEMMA LeastOf ==
  ASSUME NEW S \in SUBSET Nat, S # {}
  PROVE  \E n \in S : \A m \in S : n <= m
<1>1. PICK n \in S : \A m \in S : ~(<<m, n>> \in OpToRel(<, Nat))
  BY NatLessThanWellFounded, WFMin
<1>2. \A m \in S : m < n => <<m, n>> \in OpToRel(<, Nat)
  BY DEF OpToRel
<1>3. \A m \in S : ~(m < n)
  BY <1>1, <1>2
<1>4. \A m \in S : n <= m
  BY <1>3
<1> QED
  BY <1>4

\* While an id is left, the one proposed is nothing's.
LEMMA ProposedIsFresh ==
  ASSUME idsLeft
  PROVE  proposeRelationshipId(page.model.graph) \notin Everything(page.model.graph)
<1> DEFINE graph == page.model.graph
           free == {i \in DOMAIN FreshIds :
                      FreshIds[i] \notin DOMAIN graph.relationships \cup DOMAIN graph.concepts}
<1>1. DOMAIN FreshIds \subseteq Nat
  BY FreshIdsAssumption
<1>2. free # {}
  BY DEF idsLeft, Everything
<1>3. \E i \in free : \A j \in free : i <= j
  BY <1>1, <1>2, LeastOf
<1>4. (CHOOSE i \in free : \A j \in free : i <= j) \in free
  BY <1>3
<1> QED
  BY <1>4 DEF proposeRelationshipId, Everything

LEMMA DraftedIsGraph ==
  ASSUME NEW from, NEW kind, NEW to, idsLeft, IsGraph(page.model.graph)
  PROVE  IsGraph(draftRelationship(page.model.graph, from, kind, to))
<1> DEFINE graph == page.model.graph
           id == proposeRelationshipId(graph)
           edge == NewEdge(from, to, kind)
           g == [graph EXCEPT !.relationships = Including(@, id, edge)]
<1>1. CASE kind \notin connectableKinds(graph, from, to)
  BY <1>1 DEF draftRelationship
<1>2. CASE kind \in connectableKinds(graph, from, to)
  <2>1. draftRelationship(graph, from, kind, to) = g
    BY <1>2 DEF draftRelationship
  <2>2. {from, to} \subseteq DOMAIN graph.concepts
    BY <1>2 DEF connectableKinds
  <2>3. id \notin DOMAIN graph.concepts /\ id \notin DOMAIN graph.relationships
    BY ProposedIsFresh DEF Everything
  <2>4. DOMAIN edge = {"kind", "from", "to", "status", "claims", "references"}
        /\ edge.from = from /\ edge.to = to
    BY DEF NewEdge
  <2> HIDE DEF id, edge
  <2>5. /\ DOMAIN g = DOMAIN graph /\ g.concepts = graph.concepts
        /\ g.relationships = Including(graph.relationships, id, edge)
    BY DEF IsGraph
  <2> HIDE DEF g
  <2>6. /\ DOMAIN g.relationships = {id} \cup DOMAIN graph.relationships
        /\ g.relationships[id] = edge
        /\ \A x \in DOMAIN graph.relationships \ {id} : g.relationships[x] = graph.relationships[x]
    BY <2>5 DEF Including
  <2>7. IsGraph(g)
    BY <2>2, <2>3, <2>4, <2>5, <2>6 DEF IsGraph
  <2> QED
    BY <2>1, <2>7
<1> QED
  BY <1>1, <1>2

LEMMA EnlargedIsGraph ==
  ASSUME NEW fact, idsLeft, IsGraph(page.model.graph)
  PROVE  IsGraph([page.model.graph EXCEPT
                    !.concepts = Including(@, proposeRelationshipId(page.model.graph), fact)])
<1> DEFINE graph == page.model.graph
           id == proposeRelationshipId(graph)
           g == [graph EXCEPT !.concepts = Including(@, id, fact)]
<1>1. id \notin DOMAIN graph.relationships
  BY ProposedIsFresh DEF Everything
<1> HIDE DEF id
<1>2. /\ DOMAIN g = DOMAIN graph /\ g.relationships = graph.relationships
      /\ g.concepts = Including(graph.concepts, id, fact)
  BY DEF IsGraph
<1> HIDE DEF g
<1>3. DOMAIN g.concepts = {id} \cup DOMAIN graph.concepts
  BY <1>2 DEF Including
<1>4. IsGraph(g)
  BY <1>1, <1>2, <1>3 DEF IsGraph
<1> QED
  BY <1>4 DEF g, id

\* What is restated of a subject leaves every id and every end alone.
LEMMA RestatedIsGraph ==
  ASSUME NEW graph, IsGraph(graph), NEW g, DOMAIN g = DOMAIN graph,
         DOMAIN g.concepts = DOMAIN graph.concepts,
         DOMAIN g.relationships = DOMAIN graph.relationships,
         \A r \in DOMAIN graph.relationships :
           /\ DOMAIN g.relationships[r] = DOMAIN graph.relationships[r]
           /\ g.relationships[r].from = graph.relationships[r].from
           /\ g.relationships[r].to = graph.relationships[r].to
  PROVE  IsGraph(g)
BY DEF IsGraph

\* A subject goes with what touches it, so nothing is left without an end.
LEMMA RemovedIsGraph ==
  ASSUME NEW graph, IsGraph(graph), NEW id
  PROVE  IsGraph(Removed(graph, draftDeletion(graph, id)))
<1> DEFINE gone == draftDeletion(graph, id)
           g == Removed(graph, gone)
<1>1. /\ DOMAIN g = {"concepts", "relationships"}
      /\ DOMAIN g.concepts = DOMAIN graph.concepts \ gone
      /\ DOMAIN g.relationships = DOMAIN graph.relationships \ gone
      /\ \A r \in DOMAIN graph.relationships \ gone : g.relationships[r] = graph.relationships[r]
  BY DEF Removed
<1>2. ASSUME NEW r \in DOMAIN graph.relationships \ gone
      PROVE  {graph.relationships[r].from, graph.relationships[r].to} \cap gone = {}
  <2>1. {graph.relationships[r].from, graph.relationships[r].to} \subseteq DOMAIN graph.concepts
    BY DEF IsGraph
  <2>2. CASE id \in DOMAIN graph.concepts
    <3>1. gone = {id} \cup Touching(graph, id)
      BY <2>2 DEF draftDeletion
    <3>2. Touching(graph, id) \subseteq DOMAIN graph.relationships
      BY DEF Touching
    <3>3. id \notin {graph.relationships[r].from, graph.relationships[r].to}
      BY <3>1 DEF Touching
    <3> QED
      BY <2>1, <3>1, <3>2, <3>3 DEF IsGraph
  <2>3. CASE id \notin DOMAIN graph.concepts
    <3>1. gone \subseteq DOMAIN graph.relationships
      BY <2>3 DEF draftDeletion
    <3> QED
      BY <2>1, <3>1 DEF IsGraph
  <2> QED
    BY <2>2, <2>3
<1> HIDE DEF g, gone
<1>3. IsGraph(g)
  BY <1>1, <1>2 DEF IsGraph
<1> QED
  BY <1>3 DEF g, gone

\* A statement about a subject, or another kind for a relationship.
LEMMA DescribedIsGraph ==
  ASSUME NEW graph, IsGraph(graph), NEW id, NEW claims, NEW status
  PROVE  /\ IsGraph([graph EXCEPT !.concepts[id].claims = claims])
         /\ IsGraph([graph EXCEPT !.concepts[id].status = status])
<1>1. ASSUME NEW facts
      PROVE  IsGraph([graph EXCEPT !.concepts = [@ EXCEPT ![id] = facts]])
  <2> DEFINE concepts == [graph.concepts EXCEPT ![id] = facts]
             g == [graph EXCEPT !.concepts = concepts]
  <2>1. DOMAIN concepts = DOMAIN graph.concepts
    OBVIOUS
  <2> HIDE DEF concepts
  <2>2. DOMAIN g = DOMAIN graph /\ g.concepts = concepts /\ g.relationships = graph.relationships
    BY DEF IsGraph
  <2> HIDE DEF g
  <2>3. IsGraph(g)
    BY <2>1, <2>2, RestatedIsGraph
  <2> QED
    BY <2>3 DEF g, concepts
<1> QED
  BY <1>1

LEMMA RetypedIsGraph ==
  ASSUME NEW graph, IsGraph(graph), NEW id, NEW kind
  PROVE  IsGraph([graph EXCEPT !.relationships[id].kind = kind])
<1> DEFINE edge == [graph.relationships[id] EXCEPT !.kind = kind]
           edges == [graph.relationships EXCEPT ![id] = edge]
           g == [graph EXCEPT !.relationships = edges]
<1>1. /\ DOMAIN edge = DOMAIN graph.relationships[id]
      /\ "from" \in DOMAIN edge => edge.from = graph.relationships[id].from
      /\ "to" \in DOMAIN edge => edge.to = graph.relationships[id].to
  OBVIOUS
<1> HIDE DEF edge
<1>2. /\ DOMAIN edges = DOMAIN graph.relationships
      /\ id \in DOMAIN edges => edges[id] = edge
      /\ \A r \in DOMAIN edges : r # id => edges[r] = graph.relationships[r]
  OBVIOUS
<1> HIDE DEF edges
<1>3. DOMAIN g = DOMAIN graph /\ g.concepts = graph.concepts /\ g.relationships = edges
  BY DEF IsGraph
<1> HIDE DEF g
<1>4. ASSUME NEW r \in DOMAIN graph.relationships
      PROVE  /\ DOMAIN edges[r] = DOMAIN graph.relationships[r]
             /\ edges[r].from = graph.relationships[r].from /\ edges[r].to = graph.relationships[r].to
  <2>1. CASE r = id
    <3>1. {"from", "to"} \subseteq DOMAIN graph.relationships[id]
      BY <2>1 DEF IsGraph
    <3>2. edges[r] = edge
      BY <1>2, <2>1
    <3> QED
      BY <1>1, <2>1, <3>1, <3>2
  <2>2. CASE r # id
    BY <1>2, <2>2
  <2> QED
    BY <2>1, <2>2
<1>5. IsGraph(g)
  BY <1>2, <1>3, <1>4, RestatedIsGraph
<1> QED
  BY <1>5 DEF g, edges, edge

\* A view whose query is restated is a view still, and is there still.
LEMMA RequeriedAreViews ==
  ASSUME NoneHasNoQuery, NEW views, AreViews(views), NEW view, ListedView(views, view), NEW query,
         NEW w, w = [views EXCEPT ![view].query = query]
  PROVE  /\ AreViews(w)
         /\ \A v : ListedView(views, v) => ListedView(w, v)
<1> DEFINE new == [views[view] EXCEPT !.query = query]
<1>1. view \in DOMAIN views /\ DOMAIN views = ViewPaths /\ DOMAIN views[view] = {"query", "presentation"}
  BY DEF AreViews, ListedView
<1>2. DOMAIN new = {"query", "presentation"}
  BY <1>1
<1>3. new # None
  BY <1>2 DEF NoneHasNoQuery
<1>4. w = [views EXCEPT ![view] = new]
  OBVIOUS
<1> HIDE DEF new
<1>5. /\ DOMAIN w = ViewPaths /\ w[view] = new
      /\ \A v \in ViewPaths : v # view => w[v] = views[v]
  BY <1>1, <1>4
<1>6. AreViews(w)
  BY <1>2, <1>5 DEF AreViews
<1>7. \A v : ListedView(views, v) => ListedView(w, v)
  BY <1>3, <1>5 DEF ListedView
<1> QED
  BY <1>6, <1>7

-----------------------------------------------------------------------------
(* The steps.                                                              *)

LEMMA RenderedKeeps ==
  ASSUME NEW p, ToBeRendered(p), page' = Rendered(p), UNCHANGED <<compiled, repertoire>>
  PROVE  PageInv' /\ page'.model = p.model
<1> DEFINE r == Rendered(p)
<1>1. Stands(r) /\ Settled(r) /\ (compiled => Answered(r)) /\ r.model = p.model
  BY RenderedStands
<1>2. page' = r
  OBVIOUS
<1> HIDE DEF r
<1>3. IsPage(page') /\ Settled(page') /\ (compiled => Answered(page'))
  BY <1>1, <1>2 DEF Stands
<1>4. Attributed(page)'
  BY <1>1, <1>2 DEF Stands, Attributed
<1>5. LeadsBack(page)'
  BY <1>1, <1>2 DEF Stands, LeadsBack
<1>6. Focuses(page')
  BY <1>1, <1>2 DEF Stands
<1> QED
  BY <1>1, <1>2, <1>3, <1>4, <1>5, <1>6 DEF PageInv, Stands

\* Nothing that stands on the page is disturbed by what leaves it as it is.
LEMMA StandingKeeps ==
  ASSUME PageInv, UNCHANGED <<page, repertoire>>, compiled' => compiled
  PROVE  PageInv'
<1>1. IsPage(page') /\ Settled(page') /\ (compiled' => Answered(page')) /\ Focuses(page')
  BY DEF PageInv, Stands
<1>2. Attributed(page)'
  BY DEF PageInv, Stands, Attributed
<1>3. LeadsBack(page)'
  BY DEF PageInv, Stands, LeadsBack
<1> QED
  BY <1>1, <1>2, <1>3 DEF PageInv, Stands

LEMMA GestureKeeps ==
  ASSUME NEW next, ToBeRendered(next), next.model = page.model, Gesture(next)
  PROVE  PageInv' /\ page'.model = page.model
<1>1. page' = Rendered(next) /\ UNCHANGED <<compiled, repertoire>>
  BY DEF Gesture, Moves
<1> QED
  BY <1>1, RenderedKeeps

LEMMA ReadsIsGesture ==
  ASSUME NEW target, NEW intent, NEW next, Reads(target, intent, next)
  PROVE  Gesture(next) /\ Offered(target, intent)
BY DEF Reads

LEMMA LandedKeeps ==
  ASSUME NoneHasNoQuery, PageInv,
         NEW d, NEW graph, NEW views, LandedOn(d, graph, views), IsGraph(graph), AreViews(views),
         repertoire # "pointing" => \A v : ListedView(page.views, v) => ListedView(views, v)
  PROVE  PageInv' /\ page'.model = ModelOf(graph) /\ shell' = ModelReplaced(d, graph)
<1> DEFINE p == ModelFrame(page, graph, views)
<1>1. page' = Rendered(p) /\ UNCHANGED <<compiled, repertoire>> /\ shell' = ModelReplaced(d, graph)
  BY DEF LandedOn
<1>2. ToBeRendered(p) /\ p.model = ModelOf(graph)
  BY FrameToBeRendered DEF PageInv
<1> HIDE DEF p
<1> QED
  BY <1>1, <1>2, RenderedKeeps

LEMMA RefreshKeeps ==
  ASSUME NoneHasNoQuery, PageInv, Refresh
  PROVE  /\ PageInv'
         /\ \/ UNCHANGED <<page, shell>>
            \/ page'.model = ModelOf(ElsewhereGraph) /\ shell' = ModelReplaced(shell, ElsewhereGraph)
<1>1. CASE UNCHANGED <<page, shell>> /\ compiled' = FALSE
  BY <1>1, StandingKeeps DEF Refresh
<1>2. CASE /\ page' = Rendered(ModelFrame(page, ElsewhereGraph, page.views))
           /\ shell' = ModelReplaced(shell, ElsewhereGraph)
  <2> DEFINE p == ModelFrame(page, ElsewhereGraph, page.views)
             r == Rendered(p)
  <2>1. /\ ToBeRendered(p) /\ Answered(p) /\ p.model = ModelOf(ElsewhereGraph)
        /\ p.views = page.views /\ p.applied = page.applied
        /\ p.activeView \in {page.activeView, None}
    BY StoreAssumption, FrameToBeRendered DEF PageInv, Stands, IsPage
  <2>2. page' = r /\ repertoire' = repertoire
    BY <1>2 DEF Refresh
  <2> HIDE DEF p
  <2>3. NeedsNoRender(p)
    BY <2>1, NoneIsNotListed DEF NeedsNoRender, PageInv, Settled
  <2>4. Stands(r) /\ Settled(r) /\ Answered(r) /\ r.model = p.model
    BY <2>1, <2>3, RenderedStands
  <2> HIDE DEF r
  <2>5. IsPage(page') /\ Settled(page') /\ Answered(page') /\ Focuses(page')
    BY <2>2, <2>4 DEF Stands
  <2>6. Attributed(page)'
    BY <2>2, <2>4 DEF Stands, Attributed
  <2>7. LeadsBack(page)'
    BY <2>2, <2>4 DEF Stands, LeadsBack
  <2> QED
    BY <1>2, <2>1, <2>2, <2>4, <2>5, <2>6, <2>7 DEF PageInv, Stands
<1> QED
  BY <1>1, <1>2 DEF Refresh

\* The page as it is, with nothing but a fold, a text or a layout to draw anew.
LEMMA AsItIs ==
  ASSUME PageInv
  PROVE  /\ ToBeRendered(page)
         /\ \A text : ToBeRendered([page EXCEPT !.text = text]) /\ [page EXCEPT !.text = text].model = page.model
         /\ \A folded, unfolded :
              LET p == [page EXCEPT !.folded = folded, !.unfolded = unfolded]
              IN  ToBeRendered(p) /\ p.model = page.model
<1>1. DOMAIN page = PageFields
  BY DEF PageInv, Stands, IsPage
<1>2. ToBeRendered(page)
  BY <1>1, RedrawnToBeRendered
<1>3. ASSUME NEW text
      PROVE  ToBeRendered([page EXCEPT !.text = text]) /\ [page EXCEPT !.text = text].model = page.model
  <2> DEFINE p == [page EXCEPT !.text = text]
  <2>1. /\ DOMAIN p = PageFields /\ p.model = page.model /\ p.views = page.views
        /\ p.activeView = page.activeView /\ p.activeFilter = page.activeFilter
        /\ p.focusReturn = page.focusReturn /\ p.nesting = page.nesting
        /\ p.extras = page.extras /\ p.applied = page.applied
    BY <1>1 DEF PageFields
  <2> HIDE DEF p
  <2>2. ToBeRendered(p) /\ p.model = page.model
    BY <2>1, RedrawnToBeRendered
  <2> QED
    BY <2>2 DEF p
<1>4. ASSUME NEW folded, NEW unfolded
      PROVE  LET p == [page EXCEPT !.folded = folded, !.unfolded = unfolded]
             IN  ToBeRendered(p) /\ p.model = page.model
  <2> DEFINE p == [page EXCEPT !.folded = folded, !.unfolded = unfolded]
  <2>1. /\ DOMAIN p = PageFields /\ p.model = page.model /\ p.views = page.views
        /\ p.activeView = page.activeView /\ p.activeFilter = page.activeFilter
        /\ p.focusReturn = page.focusReturn /\ p.nesting = page.nesting
        /\ p.extras = page.extras /\ p.applied = page.applied
    BY <1>1 DEF PageFields
  <2> HIDE DEF p
  <2>2. ToBeRendered(p) /\ p.model = page.model
    BY <2>1, RedrawnToBeRendered
  <2> QED
    BY <2>2 DEF p
<1> QED
  BY <1>2, <1>3, <1>4

-----------------------------------------------------------------------------
(* One step per gesture.                                                   *)

\* Folding is a statement about two sets and nothing else.
LEMMA FoldingKeeps ==
  ASSUME PageInv, NEW p, \E folded, unfolded : p = [page EXCEPT !.folded = folded, !.unfolded = unfolded],
         Gesture(p)
  PROVE  PageInv' /\ page'.model = page.model
<1>1. PICK folded, unfolded : p = [page EXCEPT !.folded = folded, !.unfolded = unfolded]
  OBVIOUS
<1>2. ToBeRendered(p) /\ p.model = page.model
  BY <1>1, AsItIs
<1> QED
  BY <1>2, GestureKeeps

LEMMA FocusKeeps ==
  ASSUME PageInv, repertoire # "pointing", NEW query,
         "instances" \in DOMAIN query => OneBox(query), Gesture(Focused(query))
  PROVE  PageInv' /\ page'.model = page.model
<1> DEFINE r == Focused(query)
<1>1. r = Filter(page, query, "focus", BoardExtras(page))
  BY DEF Focused
<1>2. MayAsk(page, query, "focus")
  BY DEF MayAsk
<1> HIDE DEF r
<1>3. ToBeRendered(r) /\ r.model = page.model
  BY <1>1, <1>2, AskedToBeRendered DEF PageInv
<1> QED
  BY <1>3, GestureKeeps DEF r

LEMMA NavigateKeeps ==
  ASSUME PageInv, NEW view, Navigate(view)
  PROVE  PageInv' /\ page'.model = page.model
<1>1. Gesture(ViewNavigated(page, view)) /\ IsReachable(page, OnView(view))
  BY ReadsIsGesture DEF Navigate, Offered
<1>2. ListedView(page.views, view)
  BY <1>1 DEF IsReachable, OnView
<1> QED
  BY <1>1, <1>2, NavigatedToBeRendered, GestureKeeps

LEMMA ShowAllKeeps ==
  ASSUME PageInv, ShowAll
  PROVE  PageInv' /\ page'.model = page.model
<1>1. Gesture(FilterCleared(page))
  BY ReadsIsGesture DEF ShowAll
<1> QED
  BY <1>1, ClearedToBeRendered, GestureKeeps

LEMMA FocusesKeep ==
  ASSUME PageInv, repertoire # "pointing", NEW id,
         FocusSubject(id) \/ FocusRelationship(id) \/ FocusInstance(id)
  PROVE  PageInv' /\ page'.model = page.model
<1>1. CASE FocusSubject(id)
  <2> DEFINE query == [subjects |-> focusNeighbourhood(page.model.graph, id), relationships |-> "between"]
  <2>1. Gesture(Focused(query))
    BY <1>1, ReadsIsGesture DEF FocusSubject
  <2>2. "instances" \notin DOMAIN query
    OBVIOUS
  <2> HIDE DEF query
  <2> QED
    BY <2>1, <2>2, FocusKeeps
<1>2. CASE FocusRelationship(id)
  <2> DEFINE query == [subjects |-> EndsOf(page.model.graph, {id}), relationships |-> "between"]
  <2>1. Gesture(Focused(query))
    BY <1>2, ReadsIsGesture DEF FocusRelationship
  <2>2. "instances" \notin DOMAIN query
    OBVIOUS
  <2> HIDE DEF query
  <2> QED
    BY <2>1, <2>2, FocusKeeps
<1>3. CASE FocusInstance(id)
  <2> DEFINE query == [instances |-> {id}, relationships |-> "between"]
  <2>1. Gesture(Focused(query))
    BY <1>3, ReadsIsGesture DEF FocusInstance
  <2>2. OneBox(query)
    BY DEF OneBox
  <2> HIDE DEF query
  <2> QED
    BY <2>1, <2>2, FocusKeeps
<1> QED
  BY <1>1, <1>2, <1>3

LEMMA ToggleResponsibilityKeeps ==
  ASSUME PageInv, ToggleResponsibility
  PROVE  PageInv' /\ page'.model = page.model
<1> DEFINE toggled == [page EXCEPT !.showResponsibility = ~@]
           r == IF page.activeFilter = None THEN toggled
                ELSE Filter(toggled, page.activeFilter.query, page.activeFilter.source,
                            BoardExtras(toggled))
<1>1. Gesture(r)
  BY DEF ToggleResponsibility
<1>2. /\ DOMAIN toggled = PageFields /\ toggled.model = page.model /\ toggled.views = page.views
      /\ toggled.activeView = page.activeView /\ toggled.activeFilter = page.activeFilter
      /\ toggled.focusReturn = page.focusReturn /\ toggled.nesting = page.nesting
      /\ toggled.extras = page.extras /\ toggled.applied = page.applied
  BY DEF PageInv, Stands, IsPage, PageFields
<1> HIDE DEF toggled
<1>3. ToBeRendered(r) /\ r.model = page.model
  BY <1>2, ToggledToBeRendered
<1> HIDE DEF r
<1> QED
  BY <1>1, <1>3, GestureKeeps

LEMMA FoldsKeep ==
  ASSUME PageInv, NEW id, Fold(id) \/ UnfoldAll(id) \/ FoldCanvas
  PROVE  PageInv' /\ page'.model = page.model
<1>1. ASSUME NEW any
      PROVE  \E folded, unfolded : FoldToggled(page, any) = [page EXCEPT !.folded = folded, !.unfolded = unfolded]
  BY DEF FoldToggled
<1>2. ASSUME NEW ids, NEW shut
      PROVE  \E folded, unfolded : FoldAll(page, ids, shut) = [page EXCEPT !.folded = folded, !.unfolded = unfolded]
  BY DEF FoldAll
<1>3. \/ Gesture(FoldToggled(page, id))
      \/ \E ids, shut : Gesture(FoldAll(page, ids, shut))
  BY ReadsIsGesture DEF Fold, UnfoldAll, FoldCanvas
<1>4. CASE Gesture(FoldToggled(page, id))
  <2> DEFINE p == FoldToggled(page, id)
  <2>1. \E folded, unfolded : p = [page EXCEPT !.folded = folded, !.unfolded = unfolded]
    BY <1>1
  <2>2. Gesture(p)
    BY <1>4
  <2> HIDE DEF p
  <2> QED
    BY <2>1, <2>2, FoldingKeeps
<1>5. ASSUME NEW ids, NEW shut, Gesture(FoldAll(page, ids, shut))
      PROVE  PageInv' /\ page'.model = page.model
  <2> DEFINE p == FoldAll(page, ids, shut)
  <2>1. \E folded, unfolded : p = [page EXCEPT !.folded = folded, !.unfolded = unfolded]
    BY <1>2
  <2>2. Gesture(p)
    BY <1>5
  <2> HIDE DEF p
  <2> QED
    BY <2>1, <2>2, FoldingKeeps
<1> QED
  BY <1>3, <1>4, <1>5

LEMMA SaveLayoutKeeps ==
  ASSUME PageInv, SaveLayout
  PROVE  PageInv' /\ page'.model = page.model
<1>1. Gesture(page)
  BY DEF SaveLayout
<1> QED
  BY <1>1, AsItIs, GestureKeeps

LEMMA QuickFilterKeeps ==
  ASSUME PageInv, NEW text, QuickFilter(text)
  PROVE  PageInv' /\ page'.model = page.model
<1> DEFINE p == [page EXCEPT !.text = text]
<1>1. Gesture(p) /\ ToBeRendered(p) /\ p.model = page.model
  BY AsItIs DEF QuickFilter
<1> HIDE DEF p
<1> QED
  BY <1>1, GestureKeeps

LEMMA EditFilterKeeps ==
  ASSUME PageInv, NEW id, EditFilter(id)
  PROVE  PageInv' /\ page'.model = page.model
<1>1. PICK query : Gesture(Filter(page, query, "editor", BoardExtras(page)))
  BY DEF EditFilter
<1>2. MayAsk(page, query, "editor")
  BY DEF EditFilter, MayAsk
<1> DEFINE r == Filter(page, query, "editor", BoardExtras(page))
<1>3. Gesture(r) /\ r = Filter(page, query, "editor", BoardExtras(page))
  BY <1>1
<1> HIDE DEF r
<1>4. ToBeRendered(r) /\ r.model = page.model
  BY <1>2, <1>3, AskedToBeRendered DEF PageInv
<1> QED
  BY <1>3, <1>4, GestureKeeps

-----------------------------------------------------------------------------
(* What lands.                                                             *)

LEMMA TellViewKeeps ==
  ASSUME NoneHasNoQuery, PageInv, NEW id, TellView(id)
  PROVE  PageInv' /\ page'.model = page.model /\ shell' = ModelReplaced(shell, page.model.graph)
<1> DEFINE view == page.activeView
           query == ToldQuery(page.views[view].query, id)
           views == [page.views EXCEPT ![view].query = query]
           context == MenuContext(page)
<1>1. \E intent : /\ intent \in {<<"view.add-subject", id>>, <<"view.remove-subject", id>>}
                  /\ intent \in contextMenuFor(InRail(id), context)
  BY DEF TellView, Offered
<1>2. contextMenuFor(InRail(id), context) \subseteq modelRowMenu(id, context)
  BY DEF contextMenuFor, InRail
<1>3. context.membership = activeViewMembership(page)
  BY DEF MenuContext, MenuContextFrom
<1> HIDE DEF context
<1>4. ASSUME context.membership = {}
      PROVE  FALSE
  <2>1. membershipGroup(id, context) = {}
    BY <1>4 DEF membershipGroup
  <2>2. \A intent \in modelRowMenu(id, context) :
          intent[1] \notin {"view.add-subject", "view.remove-subject"}
    <3>1. \A intent \in focusInstanceItems(id, context) : intent[1] = "subject.focus-instance"
      BY DEF focusInstanceItems
    <3>2. \A intent \in foldGroup(id, context) :
            intent[1] \in {"subject.fold", "subject.unfold", "subject.unfold-all"}
      BY DEF foldGroup
    <3>3. \A intent \in questionsGroup({id}, context) :
            intent[1] \in {"question.answer", "question.delegate"}
      <4> DEFINE rows == SelectSeq(context.rows, LAMBDA row : row.about = {id})
                 all == ToSet(rows)
                 first == Head(rows)
      <4>1. questionsGroup({id}, context) \subseteq
              {<<"question.answer", row>> : row \in all} \cup {<<"question.delegate", first>>}
        BY DEF questionsGroup
      <4> HIDE DEF all, first
      <4> QED
        BY <4>1
    <3> QED
      BY <2>1, <3>1, <3>2, <3>3 DEF modelRowMenu
  <2> QED
    BY <1>1, <1>2, <2>2
<1>5. ListedView(page.views, view)
  BY <1>3, <1>4 DEF activeViewMembership
<1>6. IsGraph(page.model.graph) /\ AreViews(page.views) /\ page.model = ModelOf(page.model.graph)
  BY DEF PageInv, Stands, IsPage
<1>7. LandedOn(shell, page.model.graph, views)
  BY DEF TellView, Landed
<1> HIDE DEF query
<1>8. views = [page.views EXCEPT ![view].query = query]
  OBVIOUS
<1> HIDE DEF views
<1>9. AreViews(views) /\ \A v : ListedView(page.views, v) => ListedView(views, v)
  BY <1>5, <1>6, <1>8, RequeriedAreViews
<1> QED
  BY <1>6, <1>7, <1>9, LandedKeeps

\* A commit that leaves the views as they are.
LEMMA GraphLandedKeeps ==
  ASSUME NoneHasNoQuery, PageInv, NEW d, NEW graph, LandedOn(d, graph, page.views), IsGraph(graph)
  PROVE  PageInv' /\ page'.model = ModelOf(graph) /\ shell' = ModelReplaced(d, graph)
<1>1. AreViews(page.views)
  BY DEF PageInv, Stands, IsPage
<1> QED
  BY <1>1, LandedKeeps

LEMMA AddSubjectKeeps ==
  ASSUME NoneHasNoQuery, PageInv, NEW kind, AddSubject(kind)
  PROVE  /\ PageInv'
         /\ \E graph : page'.model = ModelOf(graph) /\ shell' = ModelReplaced(DraftClosed(shell), graph)
<1> DEFINE id == proposeRelationshipId(page.model.graph)
           graph == [page.model.graph EXCEPT !.concepts = Including(@, id, NewConcept(kind))]
           views == ToldOfNew(page, id)
<1>1. LandedOn(DraftClosed(shell), graph, views) /\ idsLeft
  BY DEF AddSubject
<1>2. IsGraph(page.model.graph) /\ AreViews(page.views)
  BY DEF PageInv, Stands, IsPage
<1>3. IsGraph(graph)
  BY <1>1, <1>2, EnlargedIsGraph
<1>4. AreViews(views) /\ \A v : ListedView(page.views, v) => ListedView(views, v)
  <2>1. CASE \E m \in activeViewMembership(page) : m.enumerated
    <3>1. ListedView(page.views, page.activeView)
      BY <2>1 DEF activeViewMembership
    <3>2. PICK query : views = [page.views EXCEPT ![page.activeView].query = query]
      BY <2>1 DEF ToldOfNew
    <3> HIDE DEF views
    <3> QED
      BY <1>2, <3>1, <3>2, RequeriedAreViews
  <2>2. CASE ~\E m \in activeViewMembership(page) : m.enumerated
    BY <1>2, <2>2 DEF ToldOfNew
  <2> QED
    BY <2>1, <2>2
<1> HIDE DEF graph, views
<1> QED
  BY <1>1, <1>3, <1>4, LandedKeeps

LEMMA StageConnectionKeeps ==
  ASSUME NoneHasNoQuery, PageInv, NEW kind, StageConnection(kind)
  PROVE  /\ PageInv'
         /\ \E graph : page'.model = ModelOf(graph) /\ shell' = ModelReplaced(ConnectionCancelled(shell), graph)
<1>1. PICK from, to :
        LandedOn(ConnectionCancelled(shell), draftRelationship(page.model.graph, from, kind, to), page.views)
  BY DEF StageConnection
<1> DEFINE graph == draftRelationship(page.model.graph, from, kind, to)
<1>2. IsGraph(graph)
  BY DraftedIsGraph DEF PageInv, Stands, IsPage, StageConnection
<1> HIDE DEF graph
<1>3. LandedOn(ConnectionCancelled(shell), graph, page.views)
  BY <1>1 DEF graph
<1> QED
  BY <1>2, <1>3, GraphLandedKeeps

LEMMA ChangedKeeps ==
  ASSUME NoneHasNoQuery, PageInv, NEW target, NEW intent, NEW graph, IsGraph(graph),
         Changed(target, intent, graph)
  PROVE  /\ PageInv'
         /\ page'.model = ModelOf(graph) /\ shell' = ModelReplaced(shell, graph)
<1>1. LandedOn(shell, graph, page.views)
  BY DEF Changed, Landed
<1> QED
  BY <1>1, GraphLandedKeeps

LEMMA EditsKeep ==
  ASSUME NoneHasNoQuery, PageInv, NEW id, NEW value,
         Describe(id, value) \/ Retire(id) \/ Retype(id, value)
  PROVE  PageInv' /\ \E graph : page'.model = ModelOf(graph) /\ shell' = ModelReplaced(shell, graph)
<1>1. IsGraph(page.model.graph)
  BY DEF PageInv, Stands, IsPage
<1>2. PICK target, intent, graph : Changed(target, intent, graph) /\ IsGraph(graph)
  <2>1. CASE Describe(id, value)
    <3> DEFINE claims == page.model.graph.concepts[id].claims \cup {value}
               graph == [page.model.graph EXCEPT !.concepts[id].claims = claims]
    <3>1. Changed(InRail(id), <<"subject.inspect", id>>, graph)
      BY <2>1 DEF Describe
    <3> HIDE DEF claims
    <3>2. IsGraph(graph)
      BY <1>1, DescribedIsGraph
    <3> HIDE DEF graph
    <3> QED
      BY <3>1, <3>2
  <2>2. CASE Retire(id)
    <3> DEFINE graph == [page.model.graph EXCEPT !.concepts[id].status = "retired"]
    <3>1. Changed(InRail(id), <<"subject.inspect", id>>, graph)
      BY <2>2 DEF Retire
    <3>2. IsGraph(graph)
      BY <1>1, DescribedIsGraph
    <3> HIDE DEF graph
    <3> QED
      BY <3>1, <3>2
  <2>3. CASE Retype(id, value)
    <3> DEFINE graph == [page.model.graph EXCEPT !.relationships[id].kind = value]
    <3>1. Changed(OnEdge(id), <<"relationship.retype", id, value>>, graph)
      BY <2>3 DEF Retype
    <3>2. IsGraph(graph)
      BY <1>1, RetypedIsGraph
    <3> HIDE DEF graph
    <3> QED
      BY <3>1, <3>2
  <2> QED
    BY <2>1, <2>2, <2>3
<1> QED
  BY <1>2, ChangedKeeps

LEMMA DeletesKeep ==
  ASSUME NoneHasNoQuery, PageInv, Delete
  PROVE  PageInv' /\ \E graph : page'.model = ModelOf(graph) /\ shell' = ModelReplaced(DeletionDismissed(shell), graph)
<1> DEFINE graph == Removed(page.model.graph, draftDeletion(page.model.graph, shell.deletion))
<1>1. LandedOn(DeletionDismissed(shell), graph, page.views)
  BY DEF Delete
<1>2. IsGraph(graph)
  BY RemovedIsGraph DEF PageInv, Stands, IsPage
<1> HIDE DEF graph
<1> QED
  BY <1>1, <1>2, GraphLandedKeeps

LEMMA DeleteSavedViewKeeps ==
  ASSUME NoneHasNoQuery, PageInv, repertoire = "pointing", DeleteSavedView
  PROVE  PageInv' /\ page'.model = page.model
         /\ shell' = ModelReplaced(ViewDeletionDismissed(shell), page.model.graph)
<1> DEFINE views == [page.views EXCEPT ![shell.viewDeletion] = None]
<1>1. LandedOn(ViewDeletionDismissed(shell), page.model.graph, views)
  BY DEF DeleteSavedView
<1>2. AreViews(page.views) /\ IsGraph(page.model.graph) /\ page.model = ModelOf(page.model.graph)
  BY DEF PageInv, Stands, IsPage
<1>3. AreViews(views)
  BY <1>2 DEF AreViews
<1> HIDE DEF views
<1> QED
  BY <1>1, <1>2, <1>3, LandedKeeps

-----------------------------------------------------------------------------
(* What stands on the page, at every step.                                 *)

\* A step that touches the page at all answers to one of the lemmas above.
LEMMA OpenedPageStands ==
  ASSUME Init
  PROVE  PageInv
<1> DEFINE p == OpenedPage
           r == Rendered(p)
<1>1. /\ DOMAIN p = PageFields /\ p.model = ModelOf(OpeningGraph) /\ p.views = OpeningViews
      /\ p.activeFilter = None /\ p.focusReturn = None /\ p.applied = None
      /\ p.nesting = <<"composition">> /\ p.extras = [f \in {} |-> None]
  BY DEF OpenedPage, PageFields
<1>2. NestingAsked(p.extras) = p.nesting
  BY <1>1 DEF NestingAsked, Option
<1> HIDE DEF p
<1>3. p.model = ModelOf(p.model.graph) /\ IsGraph(p.model.graph)
  BY <1>1, StoreAssumption DEF ModelOf
<1>4. IsPage(p)
  BY <1>1, <1>2, <1>3, StoreAssumption DEF IsPage
<1>5. ToBeRendered(p)
  BY <1>1, <1>4 DEF ToBeRendered, Stands, Attributed, LeadsBack, Focuses, Answered
<1>6. Stands(r) /\ Settled(r) /\ (compiled => Answered(r))
  BY <1>5, RenderedStands
<1>7. page = r
  BY DEF Init, p
<1> HIDE DEF r
<1> QED
  BY <1>6, <1>7 DEF PageInv

LEMMA LooksKeeps ==
  ASSUME NoneHasNoQuery, PageInv, repertoire # "pointing", Looks
  PROVE  PageInv'
<1>1. ASSUME NEW view, Navigate(view)
      PROVE  PageInv'
  BY <1>1, NavigateKeeps
<1>2. CASE ShowAll
  BY <1>2, ShowAllKeeps
<1>3. CASE ToggleResponsibility
  BY <1>3, ToggleResponsibilityKeeps
<1>4. CASE FoldCanvas
  BY <1>4, FoldsKeep
<1>5. CASE SaveLayout
  BY <1>5, SaveLayoutKeeps
<1>6. CASE Refresh
  BY <1>6, RefreshKeeps
<1>7. ASSUME NEW id, FocusSubject(id) \/ FocusInstance(id) \/ FocusRelationship(id)
      PROVE  PageInv'
  BY <1>7, FocusesKeep
<1>8. ASSUME NEW id, Fold(id) \/ UnfoldAll(id)
      PROVE  PageInv'
  BY <1>8, FoldsKeep
<1> QED
  BY <1>1, <1>2, <1>3, <1>4, <1>5, <1>6, <1>7, <1>8 DEF Looks

\* What points at the page leaves it as it is.
PointsOnly == UNCHANGED <<page, compiled, repertoire>>

LEMMA HandlesPoints ==
  /\ \A d : Handles(d) => PointsOnly
  /\ \A d : Points(d) => PointsOnly
  /\ \A d : Moves(page, d) => PointsOnly
BY DEF Handles, Points, Moves, PointsOnly

LEMMA PointingPoints ==
  ASSUME \/ Selects /\ ~\E id : Retire(id)
         \/ Confirms /\ ~DeleteSavedView
         \/ Column \/ Takes \/ PointerOpensDraft
         \/ \E id : AskDeletion(id) \/ PointerSelects(id) \/ PointerConnects(id)
         \/ \E row : AnswerQuestion(row)
  PROVE  PointsOnly
<1>1. CASE Selects /\ ~\E id : Retire(id)
  BY <1>1, HandlesPoints DEF Selects, ClearSelection, ToggleDescription, SelectSubject, SelectRelationship
<1>2. CASE Confirms /\ ~DeleteSavedView
  BY <1>2, HandlesPoints DEF Confirms, Keep, AskViewDeletion, OpenMenu
<1>3. CASE Column
  BY <1>3, HandlesPoints DEF Column, ToggleConversation, Notified, ToggleSection, PointsOnly
<1>4. CASE Takes
  BY <1>4, HandlesPoints
  DEF Takes, OpenDraft, CloseDraft, CancelConnection, AnswerQuestion, StartConnection, Target, OpenMenu
<1>5. CASE PointerOpensDraft
  BY <1>5, HandlesPoints DEF PointerOpensDraft
<1>6. CASE \E id : AskDeletion(id) \/ PointerSelects(id) \/ PointerConnects(id)
  BY <1>6, HandlesPoints DEF AskDeletion, PointerSelects, PointerConnects
<1>7. CASE \E row : AnswerQuestion(row)
  BY <1>7, HandlesPoints DEF AnswerQuestion
<1> QED
  BY <1>1, <1>2, <1>3, <1>4, <1>5, <1>6, <1>7

LEMMA PointsOnlyKeeps ==
  ASSUME PageInv, PointsOnly
  PROVE  PageInv' /\ page' = page
BY StandingKeeps DEF PointsOnly

LEMMA PointerShowsKeeps ==
  ASSUME PageInv, NEW view, PointerShows(view)
  PROVE  PageInv' /\ page'.model = page.model
<1> DEFINE p == ViewNavigated(page, view)
<1>1. ToBeRendered(p) /\ p.model = page.model
  BY NavigatedToBeRendered DEF PointerShows
<1>2. page' = Rendered(p) /\ UNCHANGED <<compiled, repertoire>>
  BY DEF PointerShows, Moves
<1> HIDE DEF p
<1> QED
  BY <1>1, <1>2, RenderedKeeps

LEMMA PageStep ==
  ASSUME NoneHasNoQuery, PageInv, [Next]_vars
  PROVE  PageInv'
<1>1. CASE UNCHANGED vars
  BY <1>1, StandingKeeps DEF vars
<1>2. CASE repertoire # "pointing" /\ Looks
  BY <1>2, LooksKeeps
<1>3. CASE Narrows
  BY <1>3, QuickFilterKeeps, EditFilterKeeps DEF Narrows
<1>4. CASE Connects
  <2>1. CASE CancelConnection
    BY <2>1, HandlesPoints, PointsOnlyKeeps DEF CancelConnection
  <2>2. CASE OpenDraft
    BY <2>2, HandlesPoints, PointsOnlyKeeps DEF OpenDraft
  <2>3. CASE \E id : StartConnection(id) \/ Target(id)
    BY <2>3, HandlesPoints, PointsOnlyKeeps DEF StartConnection, Target
  <2>4. CASE \E row : AnswerQuestion(row)
    BY <2>4, PointingPoints, PointsOnlyKeeps
  <2>5. CASE \E kind : StageConnection(kind)
    BY <2>5, StageConnectionKeeps
  <2>6. CASE \E kind : AddSubject(kind)
    BY <2>6, AddSubjectKeeps
  <2> QED
    BY <1>4, <2>1, <2>2, <2>3, <2>4, <2>5, <2>6 DEF Connects
<1>5. CASE Edits
  BY <1>5, EditsKeep, TellViewKeeps DEF Edits
<1>6. CASE Deletes
  BY <1>6, DeletesKeep, PointingPoints, PointsOnlyKeeps DEF Deletes
<1>7. CASE repertoire = "pointing" /\ Selects
  BY <1>7, EditsKeep, PointingPoints, PointsOnlyKeeps
<1>8. CASE repertoire = "pointing" /\ Confirms
  BY <1>8, DeleteSavedViewKeeps, PointingPoints, PointsOnlyKeeps
<1>9. CASE Column \/ Takes
  BY <1>9, PointingPoints, PointsOnlyKeeps
<1>10. CASE Refresh
  BY <1>10, RefreshKeeps
<1>11. CASE PointerActs
  BY <1>11, PointerShowsKeeps, PointingPoints, PointsOnlyKeeps DEF PointerActs
<1> QED
  BY <1>1, <1>2, <1>3, <1>4, <1>5, <1>6, <1>7, <1>8, <1>9, <1>10, <1>11 DEF Next

\* However the page is gestured at, re-rendered and refreshed, its filter, focus and
\* nesting stand in the relations the other theorems rest on.
THEOREM PageStands ==
  ASSUME NoneHasNoQuery
  PROVE  Spec => []PageInv
<1>1. Init => PageInv
  BY OpenedPageStands
<1>2. PageInv /\ [Next]_vars => PageInv'
  BY PageStep
<1> QED
  BY <1>1, <1>2, PTL DEF Spec

-----------------------------------------------------------------------------
(* What follows from what stands.                                          *)

LEMMA FirstFacet == 1 \in DOMAIN FacetOrder /\ FacetOrder[1] = "exclude"
BY DEF FacetOrder

LEMMA KeptAreRefusedByNothing ==
  ASSUME NEW graph, NEW memberships, NEW view
  PROVE  LET held == instanceClosureOf(graph, memberships, view)
         IN  Kept(graph, memberships, view)
               = {c \in DOMAIN graph.concepts : RefusedBy(graph, view.query, held, c) = {}}
BY DEF Kept, explainProjection

\* What a query excludes by name is in no answer to it, nor anything that touches it.
LEMMA AnswerLeavesOut ==
  ASSUME NEW graph, IsGraph(graph), NEW memberships, NEW view
  PROVE  LET out == Option(view.query, "exclude", {})
         IN  evaluateProjection(graph, memberships, view)
               \cap (out \cup UNION {Touching(graph, id) : id \in out}) = {}
<1> DEFINE out == Option(view.query, "exclude", {})
           kept == Kept(graph, memberships, view)
           rs == SelectedRelationships(graph, view, kept)
<1>1. \A id : Names(view.query, "exclude", id) <=> id \in out
  BY DEF Names, Option
<1>2. kept \subseteq DOMAIN graph.concepts /\ kept \cap out = {}
  <2>1. ASSUME NEW c \in kept
        PROVE  c \in DOMAIN graph.concepts /\ c \notin out
    <3> DEFINE held == instanceClosureOf(graph, memberships, view)
    <3>1. c \in DOMAIN graph.concepts /\ RefusedBy(graph, view.query, held, c) = {}
      BY KeptAreRefusedByNothing
    <3>2. ~Refuses(graph, view.query, held, c, "exclude")
      BY <3>1, FirstFacet DEF RefusedBy
    <3>3. ~Names(view.query, "exclude", c)
      BY <3>2 DEF Refuses
    <3> QED
      BY <1>1, <3>1, <3>3
  <2> QED
    BY <2>1
<1> HIDE DEF kept
<1>3. ASSUME NEW r \in rs
      PROVE  /\ r \in DOMAIN graph.relationships /\ r \notin out
             /\ graph.relationships[r].from \notin out /\ graph.relationships[r].to \notin out
             /\ graph.relationships[r].from \in DOMAIN graph.concepts
             /\ graph.relationships[r].to \in DOMAIN graph.concepts
  <2>1. r \in DOMAIN graph.relationships /\ RelationshipPasses(graph, view.query, r)
    BY DEF SelectedRelationships
  <2> QED
    BY <1>1, <2>1 DEF RelationshipPasses, endpointExcluded, IsGraph
<1> HIDE DEF rs
<1>4. EndsOf(graph, rs) \subseteq DOMAIN graph.concepts \ out
  BY <1>3 DEF EndsOf
<1>5. evaluateProjection(graph, memberships, view) \subseteq rs \cup kept \cup EndsOf(graph, rs)
  <2>1. evaluateProjection(graph, memberships, view) = SelectedWith(graph, view, kept, rs)
    BY DEF evaluateProjection, SelectedFrom, kept, rs
  <2> QED
    BY <2>1 DEF SelectedWith
<1>6. ASSUME NEW id \in out, NEW r \in Touching(graph, id)
      PROVE  r \notin rs /\ r \notin DOMAIN graph.concepts
  BY <1>3, <1>6 DEF Touching, IsGraph
<1> HIDE DEF out
<1>7. evaluateProjection(graph, memberships, view) \cap (out \cup UNION {Touching(graph, id) : id \in out}) = {}
  BY <1>2, <1>3, <1>4, <1>5, <1>6
<1> QED
  BY <1>7 DEF out

LEMMA ExcludedStayOut == PageInv => ExclusionIsFinal
<1> SUFFICES ASSUME PageInv, compiled, page.activeFilter # None
             PROVE  LET out == Option(page.activeFilter.query, "exclude", {})
                    IN  page.activeFilter.matched
                          \cap (out \cup UNION {Touching(page.model.graph, id) : id \in out}) = {}
  BY DEF ExclusionIsFinal
<1> DEFINE view == [query |-> page.activeFilter.query, presentation |-> page.extras]
<1>1. page.activeFilter.matched = evaluateProjection(page.model.graph, page.model.memberships, view)
  BY DEF PageInv, Answered, Answer
<1>2. IsGraph(page.model.graph)
  BY DEF PageInv, Stands, IsPage
<1>3. view.query = page.activeFilter.query
  OBVIOUS
<1> HIDE DEF view
<1> QED
  BY <1>1, <1>2, <1>3, AnswerLeavesOut

\* What a view excludes by name stays out of what is selected, with every relationship
\* of it, through every change of the model, of the view and of how it is shown.
THEOREM ExclusionHolds ==
  ASSUME NoneHasNoQuery
  PROVE  Spec => []ExclusionIsFinal
BY PageStands, ExcludedStayOut, PTL

\* The number in the rail is that of the subjects the canvas was given, while the view
\* stands as it was saved, by whatever road it came back.
THEOREM RailCountHolds ==
  ASSUME NoneHasNoQuery
  PROVE  Spec => []RailCountsTheView
<1>1. PageInv => RailCountsTheView
  BY DEF PageInv, Answered, RailCountsTheView, StandsAsSaved, conceptCountOf
<1> QED
  BY <1>1, PageStands, PTL

-----------------------------------------------------------------------------
(* A focus on an instance.                                                 *)

LEMMA NothingAboveARoot ==
  ASSUME NEW parentOf, NEW c, c \notin DOMAIN parentOf
  PROVE  Above(parentOf, c) = {}
BY DEF Above

\* A query that names instances and nothing else refuses what it does not hold.
LEMMA BoxRefuses ==
  ASSUME NEW graph, NEW held, NEW query, OneBox(query), NEW c
  PROVE  RefusedBy(graph, query, held, c) = {} <=> c \in held
<1>1. DOMAIN query = {"instances", "relationships"}
  BY DEF OneBox
<1>2. \A facet : facet \notin {"instances", "relationships"} =>
        ~States(query, facet) /\ \A x : ~Names(query, facet, x)
  BY <1>1 DEF States, Names
<1>3. \A i \in DOMAIN FacetOrder : FacetOrder[i] \in
        {"exclude", "states", "identity", "documents", "kinds", "layers", "statuses",
         "excludeStatuses", "owners", "constraints"}
  BY DEF FacetOrder
<1>4. 3 \in DOMAIN FacetOrder /\ FacetOrder[3] = "identity"
  BY DEF FacetOrder
<1>5. Refuses(graph, query, held, c, "identity") <=> c \notin held
  BY <1>1, <1>2 DEF Refuses, States
<1>6. ASSUME NEW facet \in {"exclude", "states", "documents", "kinds", "layers", "statuses",
                            "excludeStatuses", "owners", "constraints"}
      PROVE  ~Refuses(graph, query, held, c, facet)
  BY <1>2 DEF Refuses
<1>7. CASE c \in held
  BY <1>3, <1>5, <1>6, <1>7 DEF RefusedBy
<1>8. CASE c \notin held
  BY <1>4, <1>5, <1>8 DEF RefusedBy
<1> QED
  BY <1>7, <1>8

\* What such a query selects is the box and what the canvas draws inside it.
LEMMA BoxIsSelected ==
  ASSUME NEW graph, IsGraph(graph), NEW memberships, NEW query, OneBox(query), NEW extras
  PROVE  LET view == [query |-> query, presentation |-> extras]
             parentOf == foldTree(graph, memberships, NestingAsked(extras)).parentOf
             drawn == UNION {InsideIds(parentOf, id) : id \in query.instances}
         IN  evaluateProjection(graph, memberships, view) \cap DOMAIN graph.concepts
               = (query.instances \cup drawn) \cap DOMAIN graph.concepts
<1> DEFINE view == [query |-> query, presentation |-> extras]
           parentOf == foldTree(graph, memberships, NestingAsked(extras)).parentOf
           drawn == UNION {InsideIds(parentOf, id) : id \in query.instances}
           kept == Kept(graph, memberships, view)
           rs == SelectedRelationships(graph, view, kept)
           held == instanceClosureOf(graph, memberships, view)
<1>1. PICK box : query = [instances |-> {box}, relationships |-> "between"]
  BY DEF OneBox
<1>2. /\ view.query = query /\ view.presentation = extras
      /\ query.instances = {box} /\ query.relationships = "between"
      /\ DOMAIN query = {"instances", "relationships"}
  BY <1>1
<1>3. NestingOf(view) = NestingAsked(extras)
  BY DEF NestingOf, NestingAsked
<1>4. held = HeldBy(graph, parentOf, {box})
  BY <1>2, <1>3 DEF instanceClosureOf, Option
<1>5. kept = {c \in DOMAIN graph.concepts : c \in held}
  <2>1. kept = {c \in DOMAIN graph.concepts : RefusedBy(graph, query, held, c) = {}}
    BY <1>2, KeptAreRefusedByNothing
  <2> HIDE DEF kept, held
  <2> QED
    BY <2>1, BoxRefuses
<1> HIDE DEF parentOf
<1>6. held \cap DOMAIN graph.concepts = ({box} \cup drawn) \cap DOMAIN graph.concepts
  <2>1. drawn = InsideIds(parentOf, box)
    BY <1>2
  <2>2. \A c : c \in InsideIds(parentOf, box) <=> box \in Above(parentOf, c)
    BY NothingAboveARoot DEF InsideIds
  <2> QED
    BY <1>4, <2>1, <2>2 DEF HeldBy
<1>7. evaluateProjection(graph, memberships, view) = rs \cup kept
  <2>1. evaluateProjection(graph, memberships, view) = SelectedWith(graph, view, kept, rs)
    BY DEF evaluateProjection, SelectedFrom
  <2> HIDE DEF kept, rs, view
  <2> QED
    BY <1>2, <2>1 DEF SelectedWith, Option
<1>8. rs \cap DOMAIN graph.concepts = {}
  BY DEF SelectedRelationships, IsGraph
<1> HIDE DEF kept, rs, held, drawn, view
<1>9. evaluateProjection(graph, memberships, view) \cap DOMAIN graph.concepts
        = (query.instances \cup drawn) \cap DOMAIN graph.concepts
  BY <1>2, <1>5, <1>6, <1>7, <1>8
<1> QED
  BY <1>9 DEF view, drawn, parentOf

LEMMA FocusedIsTheBox == PageInv => FocusShowsTheBox
<1> SUFFICES ASSUME PageInv, StandsOnInstances
             PROVE  LET named == page.activeFilter.query.instances
                        drawn == UNION {InsideIds(TreeOf(page).parentOf, id) : id \in named}
                    IN  page.activeFilter.matched \cap DOMAIN page.model.graph.concepts
                          = (named \cup drawn) \cap DOMAIN page.model.graph.concepts
  BY DEF FocusShowsTheBox
<1> DEFINE query == page.activeFilter.query
           graph == page.model.graph
<1>1. OneBox(query) /\ IsGraph(graph)
  BY DEF PageInv, Stands, Focuses, IsPage, StandsOnInstances
<1>2. PICK extras : /\ NestingAsked(extras) = page.nesting
                    /\ page.activeFilter.matched = Answer(page, query, extras)
  BY DEF PageInv, Stands, Focuses, StandsOnInstances
<1> DEFINE view == [query |-> query, presentation |-> extras]
<1>3. page.activeFilter.matched = evaluateProjection(graph, page.model.memberships, view)
  BY <1>2 DEF Answer
<1>4. TreeOf(page) = foldTree(graph, page.model.memberships, NestingAsked(extras))
  BY <1>2 DEF TreeOf
<1> QED
  BY <1>1, <1>3, <1>4, BoxIsSelected

\* A focus on an instance selects the box and what the canvas draws inside it, and goes
\* on doing so through every change of the model and of how it is nested.
THEOREM FocusHolds ==
  ASSUME NoneHasNoQuery
  PROVE  Spec => []FocusShowsTheBox
BY PageStands, FocusedIsTheBox, PTL

-----------------------------------------------------------------------------
(* What stands beside the canvas.                                          *)

ShellFields ==
  {"selected", "expanded", "connection", "drafting", "deletion", "viewDeletion", "menu", "shut",
   "hidden", "unread"}

IsShell(d) ==
  /\ DOMAIN d = ShellFields
  /\ d.expanded \in BOOLEAN /\ d.drafting \in BOOLEAN /\ d.hidden \in BOOLEAN
  /\ d.unread \in Nat

SelectionIsOf(d, graph) ==
  /\ d.selected # None => d.selected = InModel(graph, d.selected)
  /\ d.expanded => d.selected # None

\* A menu is opened over a subject that is there, or over a row of the rail.
MenuIsOver(d, graph) ==
  d.menu # None =>
    \/ \E id \in DOMAIN graph.concepts : d.menu = OnCanvas(id) \/ d.menu = InRail(id)
    \/ \E view : d.menu = OnView(view)

OneTool(d) == d.connection # None => ~d.drafting

MissedOutOfSight(d) == d.unread > 0 => d.hidden \/ "chat" \in d.shut

Beside(d, graph) ==
  IsShell(d) /\ SelectionIsOf(d, graph) /\ MenuIsOver(d, graph) /\ OneTool(d) /\ MissedOutOfSight(d)

ShellInv == Beside(shell, page.model.graph)

LEMMA ReadAgainIsCurrent ==
  ASSUME NEW graph, NEW subject, NEW survivor,
         \/ survivor = InModel(graph, subject)
         \/ survivor = nextElement(graph, subject) \/ survivor = nextRelationship(graph, subject)
  PROVE  survivor # None => survivor = InModel(graph, survivor)
BY DEF InModel, nextElement, nextRelationship

\* What one gesture sets, with what it leaves: two operators act on one more field each.
LEMMA MenuKeepsBeside ==
  ASSUME NEW d, NEW graph, Beside(d, graph)
  PROVE  Beside(MenuDismissed(d), graph)
BY DEF Beside, MenuDismissed, IsShell, ShellFields, SelectionIsOf, MenuIsOver, OneTool, MissedOutOfSight

LEMMA OpenedKeepsBeside ==
  ASSUME NEW d, NEW graph, Beside(d, graph), NEW target,
         \/ \E id \in DOMAIN graph.concepts : target = OnCanvas(id) \/ target = InRail(id)
         \/ \E view : target = OnView(view)
  PROVE  Beside(MenuOpened(d, target), graph)
BY DEF Beside, MenuOpened, IsShell, ShellFields, SelectionIsOf, MenuIsOver, OneTool, MissedOutOfSight

LEMMA ToolsKeepBeside ==
  ASSUME NEW d, NEW graph, Beside(d, graph)
  PROVE  /\ \A id, kinds, direction : Beside(ConnectionStarted(d, id, kinds, direction), graph)
         /\ Beside(ConnectionCancelled(d), graph)
         /\ Beside(DraftOpened(d), graph) /\ Beside(DraftClosed(d), graph)
         /\ d.connection # None => \A id : Beside(ConnectionTargeted(d, id), graph)
<1>1. ASSUME NEW id, NEW kinds, NEW direction
      PROVE  Beside(ConnectionStarted(d, id, kinds, direction), graph)
  BY DEF Beside, ConnectionStarted, IsShell, ShellFields, SelectionIsOf, MenuIsOver, OneTool, MissedOutOfSight
<1>2. Beside(ConnectionCancelled(d), graph)
  BY DEF Beside, ConnectionCancelled, IsShell, ShellFields, SelectionIsOf, MenuIsOver, OneTool, MissedOutOfSight
<1>3. Beside(DraftOpened(d), graph)
  BY DEF Beside, DraftOpened, IsShell, ShellFields, SelectionIsOf, MenuIsOver, OneTool, MissedOutOfSight
<1>4. Beside(DraftClosed(d), graph)
  BY DEF Beside, DraftClosed, IsShell, ShellFields, SelectionIsOf, MenuIsOver, OneTool, MissedOutOfSight
<1>5. ASSUME NEW connection, d.connection # None
      PROVE  Beside([d EXCEPT !.connection = connection], graph)
  BY <1>5 DEF Beside, IsShell, ShellFields, SelectionIsOf, MenuIsOver, OneTool, MissedOutOfSight
<1>6. \A id : \E connection : ConnectionTargeted(d, id) = [d EXCEPT !.connection = connection]
  BY DEF ConnectionTargeted
<1> QED
  BY <1>1, <1>2, <1>3, <1>4, <1>5, <1>6

LEMMA QuestionsKeepBeside ==
  ASSUME NEW d, NEW graph, Beside(d, graph)
  PROVE  /\ \A id : Beside(DeletionAsked(d, id), graph)
         /\ Beside(DeletionDismissed(d), graph)
         /\ \A view : Beside(ViewDeletionAsked(d, view), graph)
         /\ Beside(ViewDeletionDismissed(d), graph)
<1>1. ASSUME NEW id
      PROVE  Beside(DeletionAsked(d, id), graph)
  BY DEF Beside, DeletionAsked, IsShell, ShellFields, SelectionIsOf, MenuIsOver, OneTool, MissedOutOfSight
<1>2. Beside(DeletionDismissed(d), graph)
  BY DEF Beside, DeletionDismissed, IsShell, ShellFields, SelectionIsOf, MenuIsOver, OneTool, MissedOutOfSight
<1>3. ASSUME NEW view
      PROVE  Beside(ViewDeletionAsked(d, view), graph)
  BY DEF Beside, ViewDeletionAsked, IsShell, ShellFields, SelectionIsOf, MenuIsOver, OneTool, MissedOutOfSight
<1>4. Beside(ViewDeletionDismissed(d), graph)
  BY DEF Beside, ViewDeletionDismissed, IsShell, ShellFields, SelectionIsOf, MenuIsOver, OneTool, MissedOutOfSight
<1> QED
  BY <1>1, <1>2, <1>3, <1>4

LEMMA SelectingKeepsBeside ==
  ASSUME NEW d, NEW graph, Beside(d, graph)
  PROVE  /\ \A subject : (subject # None => subject = InModel(graph, subject))
                           => Beside(SubjectSelected(d, subject), graph)
         /\ Beside(SubjectCleared(d), graph)
         /\ Beside(DescriptionToggled(d), graph)
<1>1. ASSUME NEW subject, subject # None => subject = InModel(graph, subject)
      PROVE  Beside(SubjectSelected(d, subject), graph)
  BY <1>1 DEF Beside, SubjectSelected, IsShell, ShellFields, SelectionIsOf, MenuIsOver, OneTool, MissedOutOfSight
<1>2. Beside(SubjectCleared(d), graph)
  BY DEF Beside, SubjectCleared, IsShell, ShellFields, SelectionIsOf, MenuIsOver, OneTool, MissedOutOfSight
<1>3. Beside(DescriptionToggled(d), graph)
  BY DEF Beside, DescriptionToggled, IsShell, ShellFields, SelectionIsOf, MenuIsOver, OneTool, MissedOutOfSight
<1> QED
  BY <1>1, <1>2, <1>3

LEMMA ColumnKeepsBeside ==
  ASSUME NEW d, NEW graph, Beside(d, graph)
  PROVE  /\ \A section : Beside(SectionToggled(d, section), graph)
         /\ Beside(ConversationToggled(d), graph)
         /\ Beside(AttentionReceived(d), graph)
<1>1. ASSUME NEW section
      PROVE  Beside(SectionToggled(d, section), graph)
  BY DEF Beside, SectionToggled, IsShell, ShellFields, SelectionIsOf, MenuIsOver, OneTool, MissedOutOfSight
<1>2. Beside(ConversationToggled(d), graph)
  BY DEF Beside, ConversationToggled, IsShell, ShellFields, SelectionIsOf, MenuIsOver, OneTool, MissedOutOfSight
<1>3. Beside(AttentionReceived(d), graph)
  BY DEF Beside, AttentionReceived, ChatInSight, IsShell, ShellFields, SelectionIsOf, MenuIsOver, OneTool,
         MissedOutOfSight
<1> QED
  BY <1>1, <1>2, <1>3

\* A new model closes the menu and reads the selection again.
LEMMA ReplacedKeepsBeside ==
  ASSUME NEW d, NEW old, Beside(d, old), NEW graph
  PROVE  Beside(ModelReplaced(d, graph), graph)
<1> DEFINE survivor == IF d.selected = None THEN None ELSE InModel(graph, d.selected)
<1>1. survivor # None => survivor = InModel(graph, survivor)
  BY ReadAgainIsCurrent
<1> HIDE DEF survivor
<1>2. ModelReplaced(d, graph) = [d EXCEPT !.menu = None, !.selected = survivor,
                                          !.expanded = @ /\ survivor # None]
  BY DEF ModelReplaced, survivor
<1> QED
  BY <1>1, <1>2 DEF Beside, IsShell, ShellFields, SelectionIsOf, MenuIsOver, OneTool, MissedOutOfSight

LEMMA GesturesDismiss ==
  ASSUME \/ \E view : Navigate(view)
         \/ ShowAll \/ ToggleResponsibility \/ FoldCanvas \/ SaveLayout
         \/ \E id : FocusSubject(id) \/ FocusInstance(id) \/ FocusRelationship(id)
         \/ \E id : Fold(id) \/ UnfoldAll(id)
         \/ \E text : QuickFilter(text)
         \/ \E id : EditFilter(id)
  PROVE  shell' = MenuDismissed(shell)
<1>1. \E next : Gesture(next)
  BY ReadsIsGesture
  DEF Navigate, ShowAll, ToggleResponsibility, FoldCanvas, SaveLayout, FocusSubject, FocusInstance,
      FocusRelationship, Fold, UnfoldAll, QuickFilter, EditFilter
<1> QED
  BY <1>1 DEF Gesture, Moves

LEMMA LooksBeside ==
  ASSUME NoneHasNoQuery, PageInv, ShellInv, repertoire # "pointing", Looks \/ Narrows
  PROVE  ShellInv'
<1>1. ASSUME Beside(MenuDismissed(shell), page.model.graph), shell' = MenuDismissed(shell),
             page'.model = page.model
      PROVE  ShellInv'
  BY <1>1 DEF ShellInv
<1>2. Beside(MenuDismissed(shell), page.model.graph)
  BY MenuKeepsBeside DEF ShellInv
<1>3. CASE \E view : Navigate(view)
  BY <1>1, <1>2, <1>3, NavigateKeeps, GesturesDismiss
<1>4. CASE ShowAll \/ ToggleResponsibility \/ FoldCanvas \/ SaveLayout
  BY <1>1, <1>2, <1>4, ShowAllKeeps, ToggleResponsibilityKeeps, FoldsKeep, SaveLayoutKeeps, GesturesDismiss
<1>5. CASE \E id : FocusSubject(id) \/ FocusInstance(id) \/ FocusRelationship(id)
  BY <1>1, <1>2, <1>5, FocusesKeep, GesturesDismiss
<1>6. CASE \E id : Fold(id) \/ UnfoldAll(id)
  BY <1>1, <1>2, <1>6, FoldsKeep, GesturesDismiss
<1>7. CASE \E text : QuickFilter(text)
  BY <1>1, <1>2, <1>7, QuickFilterKeeps, GesturesDismiss
<1>8. CASE \E id : EditFilter(id)
  BY <1>1, <1>2, <1>8, EditFilterKeeps, GesturesDismiss
<1>9. ASSUME Refresh
      PROVE  ShellInv'
  <2>1. CASE UNCHANGED <<page, shell>>
    BY <2>1 DEF ShellInv
  <2>2. CASE page'.model = ModelOf(ElsewhereGraph) /\ shell' = ModelReplaced(shell, ElsewhereGraph)
    BY <2>2, ReplacedKeepsBeside DEF ShellInv, ModelOf
  <2> QED
    BY <1>9, <2>1, <2>2, RefreshKeeps
<1> QED
  BY <1>3, <1>4, <1>5, <1>6, <1>7, <1>8, <1>9 DEF Looks, Narrows

\* A hand at the page, or a program pointing at it: the model is as it was.
LEMMA PointsBeside ==
  ASSUME NEW d, Beside(d, page.model.graph), shell' = d, page' = page
  PROVE  ShellInv'
BY DEF ShellInv

LEMMA HandlesSays ==
  /\ \A d : Handles(d) => shell' = d /\ page' = page
  /\ \A d : Points(d) => shell' = MenuDismissed(d) /\ page' = page
  /\ \A d : Moves(page, d) => shell' = d /\ page' = page
BY DEF Handles, Points, Moves

LEMMA AnswerBeside ==
  ASSUME ShellInv, NEW row, AnswerQuestion(row)
  PROVE  ShellInv'
<1> DEFINE graph == page.model.graph
<1>1. Beside(shell, graph)
  BY DEF ShellInv
<1>2. ASSUME NEW about
      PROVE  Beside(PropertiesInFront(about), graph)
  <2> DEFINE id == CHOOSE i \in about : TRUE
             picked == IF about = {} THEN MenuDismissed(shell)
                       ELSE SubjectSelected(shell, nextElement(graph, id))
  <2>1. nextElement(graph, id) # None => nextElement(graph, id) = InModel(graph, nextElement(graph, id))
    BY ReadAgainIsCurrent
  <2>2. Beside(picked, graph)
    BY <1>1, <2>1, MenuKeepsBeside, SelectingKeepsBeside
  <2> HIDE DEF picked
  <2>3. Beside(SectionToggled(picked, "properties"), graph)
    BY <2>2, ColumnKeepsBeside
  <2> QED
    BY <2>2, <2>3 DEF PropertiesInFront, picked
<1>3. ASSUME NEW gesture
      PROVE  Beside(VerbRun(row, gesture), graph)
  <2>1. Beside(PropertiesInFront(row.about), graph) /\ Beside(DraftOpened(shell), graph)
    BY <1>1, <1>2, ToolsKeepBeside
  <2>2. \A id, kinds, direction : Beside(ConnectionStarted(shell, id, kinds, direction), graph)
    BY <1>1, ToolsKeepBeside
  <2> QED
    BY <2>1, <2>2 DEF VerbRun
<1>4. \/ \E gesture : Handles(VerbRun(row, gesture))
      \/ Handles(PropertiesInFront(row.about))
  BY DEF AnswerQuestion
<1> QED
  BY <1>2, <1>3, <1>4, HandlesSays, PointsBeside

LEMMA ToolsBeside ==
  ASSUME ShellInv,
         \/ CancelConnection \/ OpenDraft \/ CloseDraft \/ PointerOpensDraft
         \/ \E id : StartConnection(id) \/ Target(id) \/ PointerConnects(id)
  PROVE  ShellInv'
<1> DEFINE graph == page.model.graph
<1>1. Beside(shell, graph)
  BY DEF ShellInv
<1>2. CASE OpenDraft \/ PointerOpensDraft
  BY <1>1, <1>2, ToolsKeepBeside, HandlesSays, PointsBeside DEF OpenDraft, PointerOpensDraft
<1>3. CASE \E id : StartConnection(id) \/ PointerConnects(id)
  BY <1>1, <1>3, ToolsKeepBeside, HandlesSays, PointsBeside DEF StartConnection, PointerConnects
<1>4. ASSUME NEW d, Beside(d, graph), Points(d)
      PROVE  ShellInv'
  BY <1>4, MenuKeepsBeside, HandlesSays, PointsBeside
<1>5. CASE CancelConnection \/ CloseDraft
  BY <1>1, <1>4, <1>5, ToolsKeepBeside DEF CancelConnection, CloseDraft
<1>6. CASE \E id : Target(id)
  BY <1>1, <1>4, <1>6, ToolsKeepBeside DEF Target
<1> QED
  BY <1>2, <1>3, <1>5, <1>6

LEMMA QuestionsBeside ==
  ASSUME ShellInv, Keep \/ \E any : AskDeletion(any) \/ AskViewDeletion(any)
  PROVE  ShellInv'
<1>1. Beside(shell, page.model.graph)
  BY DEF ShellInv
<1>2. CASE Keep
  BY <1>1, <1>2, QuestionsKeepBeside, HandlesSays, PointsBeside DEF Keep
<1>3. CASE \E any : AskDeletion(any) \/ AskViewDeletion(any)
  BY <1>1, <1>3, QuestionsKeepBeside, HandlesSays, PointsBeside DEF AskDeletion, AskViewDeletion
<1> QED
  BY <1>2, <1>3

LEMMA SelectionBeside ==
  ASSUME ShellInv,
         \/ ClearSelection \/ ToggleDescription
         \/ \E id : SelectSubject(id) \/ SelectRelationship(id) \/ PointerSelects(id)
  PROVE  ShellInv'
<1> DEFINE graph == page.model.graph
<1>1. Beside(shell, graph)
  BY DEF ShellInv
<1>2. ASSUME NEW d, Beside(d, graph), Points(d)
      PROVE  ShellInv'
  BY <1>2, MenuKeepsBeside, HandlesSays, PointsBeside
<1>3. ASSUME NEW id
      PROVE  /\ Beside(SubjectSelected(shell, nextElement(graph, id)), graph)
             /\ Beside(SubjectSelected(shell, nextRelationship(graph, id)), graph)
  <2>1. nextElement(graph, id) # None => nextElement(graph, id) = InModel(graph, nextElement(graph, id))
    BY ReadAgainIsCurrent
  <2>2. nextRelationship(graph, id) # None
          => nextRelationship(graph, id) = InModel(graph, nextRelationship(graph, id))
    BY ReadAgainIsCurrent
  <2> QED
    BY <1>1, <2>1, <2>2, SelectingKeepsBeside
<1>4. CASE ClearSelection \/ ToggleDescription
  BY <1>1, <1>2, <1>4, SelectingKeepsBeside DEF ClearSelection, ToggleDescription
<1>5. CASE \E id : SelectSubject(id) \/ SelectRelationship(id)
  BY <1>2, <1>3, <1>5 DEF SelectSubject, SelectRelationship
<1>6. CASE \E id : PointerSelects(id)
  <2>1. \E id : \/ Moves(page, SubjectSelected(shell, nextElement(graph, id)))
                \/ Moves(page, SubjectSelected(shell, nextRelationship(graph, id)))
    BY <1>6 DEF PointerSelects
  <2> QED
    BY <1>3, <2>1, HandlesSays, PointsBeside
<1> QED
  BY <1>4, <1>5, <1>6

LEMMA ColumnBeside ==
  ASSUME ShellInv, Column
  PROVE  ShellInv'
<1> DEFINE graph == page.model.graph
<1>1. Beside(shell, graph)
  BY DEF ShellInv
<1>2. ASSUME NEW d, Beside(d, graph), Points(d)
      PROVE  ShellInv'
  BY <1>2, MenuKeepsBeside, HandlesSays, PointsBeside
<1>3. CASE Notified
  BY <1>1, <1>3, ColumnKeepsBeside, PointsBeside DEF Notified
<1>4. CASE ToggleConversation \/ \E section : ToggleSection(section)
  BY <1>1, <1>2, <1>4, ColumnKeepsBeside DEF ToggleConversation, ToggleSection
<1> QED
  BY <1>3, <1>4 DEF Column

\* A menu is opened over a subject that is there, or over a view of the rail.
LEMMA MenuBeside ==
  ASSUME ShellInv, \/ \E id \in DOMAIN page.model.graph.concepts : OpenMenu(OnCanvas(id)) \/ OpenMenu(InRail(id))
                   \/ \E view : OpenMenu(OnView(view))
  PROVE  ShellInv'
<1>1. Beside(shell, page.model.graph)
  BY DEF ShellInv
<1>2. PICK target : /\ OpenMenu(target)
                    /\ \/ \E id \in DOMAIN page.model.graph.concepts : target = OnCanvas(id) \/ target = InRail(id)
                       \/ \E view : target = OnView(view)
  OBVIOUS
<1>3. Beside(MenuOpened(shell, target), page.model.graph)
  BY <1>1, <1>2, OpenedKeepsBeside
<1> QED
  BY <1>2, <1>3, HandlesSays, PointsBeside DEF OpenMenu

\* What lands replaces the model, and what stands beside it is read again.
LEMMA LandingsBeside ==
  ASSUME NoneHasNoQuery, PageInv, ShellInv,
         \/ \E kind : StageConnection(kind) \/ AddSubject(kind)
         \/ \E id, value : Describe(id, value) \/ Retire(id) \/ Retype(id, value)
         \/ \E id : TellView(id)
         \/ Delete
         \/ repertoire = "pointing" /\ DeleteSavedView
  PROVE  ShellInv'
<1> DEFINE now == page.model.graph
<1>1. Beside(shell, now) /\ page.model = ModelOf(now)
  BY DEF ShellInv, PageInv, Stands, IsPage
<1>2. /\ Beside(ConnectionCancelled(shell), now) /\ Beside(DraftClosed(shell), now)
      /\ Beside(DeletionDismissed(shell), now) /\ Beside(ViewDeletionDismissed(shell), now)
  BY <1>1, ToolsKeepBeside, QuestionsKeepBeside
<1>3. ASSUME NEW d, Beside(d, now), NEW graph, page'.model = ModelOf(graph), shell' = ModelReplaced(d, graph)
      PROVE  ShellInv'
  BY <1>3, ReplacedKeepsBeside DEF ShellInv, ModelOf
<1>4. CASE \E kind : StageConnection(kind)
  BY <1>2, <1>3, <1>4, StageConnectionKeeps
<1>5. CASE \E kind : AddSubject(kind)
  BY <1>2, <1>3, <1>5, AddSubjectKeeps
<1>6. CASE \E id, value : Describe(id, value) \/ Retire(id) \/ Retype(id, value)
  BY <1>1, <1>3, <1>6, EditsKeep
<1>7. CASE \E id : TellView(id)
  BY <1>1, <1>3, <1>7, TellViewKeeps
<1>8. CASE Delete
  BY <1>2, <1>3, <1>8, DeletesKeep
<1>9. CASE repertoire = "pointing" /\ DeleteSavedView
  BY <1>1, <1>2, <1>3, <1>9, DeleteSavedViewKeeps
<1> QED
  BY <1>4, <1>5, <1>6, <1>7, <1>8, <1>9

LEMMA ShellStep ==
  ASSUME NoneHasNoQuery, PageInv, ShellInv, [Next]_vars
  PROVE  ShellInv'
<1>1. CASE UNCHANGED vars
  BY <1>1 DEF vars, ShellInv
<1>2. CASE repertoire # "pointing" /\ Looks
  BY <1>2, LooksBeside
<1>3. CASE repertoire = "changing" /\ Narrows
  BY <1>3, LooksBeside
<1>4. CASE Connects
  BY <1>4, ToolsBeside, AnswerBeside, LandingsBeside DEF Connects
<1>5. CASE Edits
  BY <1>5, LandingsBeside DEF Edits
<1>6. CASE Deletes
  BY <1>6, LandingsBeside, QuestionsBeside DEF Deletes
<1>7. CASE Selects
  BY <1>7, SelectionBeside, LandingsBeside DEF Selects
<1>8. CASE repertoire = "pointing" /\ Confirms
  BY <1>8, QuestionsBeside, MenuBeside, LandingsBeside DEF Confirms
<1>9. CASE Column
  BY <1>9, ColumnBeside
<1>10. CASE Takes
  BY <1>10, ToolsBeside, AnswerBeside, MenuBeside DEF Takes
<1>11. CASE Refresh
  <2>1. CASE UNCHANGED <<page, shell>>
    BY <2>1 DEF ShellInv
  <2>2. CASE page'.model = ModelOf(ElsewhereGraph) /\ shell' = ModelReplaced(shell, ElsewhereGraph)
    BY <2>2, ReplacedKeepsBeside DEF ShellInv, ModelOf
  <2> QED
    BY <1>11, <2>1, <2>2, RefreshKeeps
<1>12. CASE PointerActs
  <2>1. CASE \E view : PointerShows(view)
    <3>1. shell' = shell
      BY <2>1 DEF PointerShows, Moves
    <3>2. page'.model = page.model
      BY <2>1, PointerShowsKeeps
    <3> QED
      BY <3>1, <3>2 DEF ShellInv
  <2> QED
    BY <1>12, <2>1, ToolsBeside, SelectionBeside DEF PointerActs
<1> QED
  BY <1>1, <1>2, <1>3, <1>4, <1>5, <1>6, <1>7, <1>8, <1>9, <1>10, <1>11, <1>12 DEF Next

\* A menu over what is there has something to offer, however the page is drawn.
LEMMA MenuOffers ==
  ASSUME NEW d, MenuIsOver(d, page.model.graph), d.menu # None
  PROVE  contextMenuFor(d.menu, MenuContext(page)) # {}
<1> DEFINE context == MenuContext(page)
<1>1. context.graph = page.model.graph
  BY DEF MenuContext, MenuContextFrom
<1> HIDE DEF context
<1>2. ASSUME NEW id \in DOMAIN page.model.graph.concepts
      PROVE  contextMenuFor(OnCanvas(id), context) # {} /\ contextMenuFor(InRail(id), context) # {}
  <2>1. contextMenuFor(OnCanvas(id), context) = subjectMenu(id, context)
    BY <1>1 DEF contextMenuFor, OnCanvas
  <2>2. <<"subject.focus", id>> \in subjectMenu(id, context)
    BY DEF subjectMenu
  <2>3. contextMenuFor(InRail(id), context) = modelRowMenu(id, context)
    BY <1>1 DEF contextMenuFor, InRail
  <2>4. <<"subject.inspect", id>> \in modelRowMenu(id, context)
    BY DEF modelRowMenu
  <2> QED
    BY <2>1, <2>2, <2>3, <2>4
<1>3. ASSUME NEW view
      PROVE  contextMenuFor(OnView(view), context) # {}
  <2>1. contextMenuFor(OnView(view), context) = viewRowMenu({view}, context)
    BY DEF contextMenuFor, OnView
  <2>2. <<"view.new">> \in viewRowMenu({view}, context)
    BY DEF viewRowMenu, NewView
  <2> QED
    BY <2>1, <2>2
<1> QED
  BY <1>2, <1>3 DEF MenuIsOver, context

LEMMA BesideFollows == ShellInv => ShellFollowsTheModel
<1> SUFFICES ASSUME ShellInv
             PROVE  ShellFollowsTheModel
  OBVIOUS
<1>1. SelectionIsCurrent
  BY DEF ShellInv, Beside, SelectionIsOf, SelectionIsCurrent
<1>2. MenuHasItsTarget
  BY MenuOffers DEF ShellInv, Beside, MenuHasItsTarget
<1>3. OneToolAtATime /\ (shell.unread > 0 => ~ChatInSight(shell))
  BY DEF ShellInv, Beside, OneTool, MissedOutOfSight, OneToolAtATime, ChatInSight
<1> QED
  BY <1>1, <1>2, <1>3 DEF ShellFollowsTheModel

\* What stands beside the canvas is of the model as it is: the properties shown, the menu
\* that is open, the tool in hand and the count of what was missed.
THEOREM ShellHolds ==
  ASSUME NoneHasNoQuery
  PROVE  Spec => []ShellFollowsTheModel
<1>1. Init => ShellInv
  BY DEF Init, createVisualWorkspaceState, ShellInv, Beside, IsShell, ShellFields, SelectionIsOf,
         MenuIsOver, OneTool, MissedOutOfSight
<1>2. PageInv /\ ShellInv /\ [Next]_vars => ShellInv'
  BY ShellStep
<1> QED
  BY <1>1, <1>2, PageStands, BesideFollows, PTL DEF Spec
=============================================================================
