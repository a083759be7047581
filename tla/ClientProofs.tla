----------------------------- MODULE ClientProofs -----------------------------
(***************************************************************************)
(* Proofs about two parts of the web client that share nothing but the     *)
(* way they are built: the process designer (DefinitionEditor) and the     *)
(* pages on which an operator works (Workbench).                           *)
(*                                                                         *)
(* Designer: EInv.  Workbench: WorkbenchInv, one invariant for each page.  *)
(***************************************************************************)
EXTENDS DefinitionEditor, Workbench, SequenceTheorems, TLAPS

\* A graph whose conditions are on its edges; everything that is drawn, kept or sent is one.
Whole == {g \in Graph : g.cond \subseteq g.edges}

Stored == [graph : Whole, status : Statuses]
Caches == [Definitions -> [has : BOOLEAN, data : Stored, failed : BOOLEAN]]
Histories == {h \in [past : Seq(Whole), future : Seq(Whole)] : Len(h.past) + Len(h.future) <= MaxDepth}
Triggers == [undo : BOOLEAN, redo : BOOLEAN, layout : BOOLEAN, add : BOOLEAN, update : BOOLEAN, attr : Attrs]
Layouts == [on : BOOLEAN, live : BOOLEAN, of : Whole]
Opened == Definitions \cup {"new", "none"}
Pages ==
  [page : Opened, mount : 0..MaxMounts, shown : BOOLEAN, canvas : Whole,
   hasRef : BOOLEAN, ref : Whole, dirty : BOOLEAN,
   valErr : BOOLEAN, srvErr : BOOLEAN, checking : BOOLEAN, conflict : BOOLEAN,
   leaving : BOOLEAN, dialog : SUBSET Edges, snapped : BOOLEAN, layout : Layouts,
   trig : Triggers, promote : {"none", "confirm", "pending"}, base : Whole, slipped : BOOLEAN]
Drafts == [def : Opened, graph : Whole, keys : SUBSET {"description", "graph"}]

\* What is written or read at the server is a definition it keeps.
Requests ==
  {k \in [kind : {"update", "create", "validate", "activate", "merge", "promote", "fetch"},
          def : Definitions \cup {"none"}, graph : Whole, mount : 0..MaxMounts,
          reply : {"sent", "ok", "conflict", "invalid", "error"}, data : Stored] :
     k.kind \in {"update", "activate", "merge", "fetch"} => k.def \in Definitions}

\* UnsavedIsMarked, of any page.
Marks(e) == e.shown /\ e.canvas # e.base => e.dirty \/ e.slipped

ScreenInv == cache \in Caches /\ ed \in Pages /\ Marks(ed) /\ hist \in Histories /\ draft \in Drafts
EInv == ScreenInv /\ server \in [Definitions -> Stored] /\ requests \in SUBSET Requests
-----------------------------------------------------------------------------
(* The history *)

\* The constants of a fresh page are in their sets.
LEMMA FirstForms ==
  /\ FirstGraph \in Whole /\ NoDefinition \in Stored /\ NoTriggers \in Triggers
  /\ NoLayout \in Layouts /\ ClearedHistory \in Histories /\ NoDraft \in Drafts
  <1>1. FirstGraph \in Whole
    BY EditorAssumption DEF FirstGraph, Whole, Graph, Positions
  <1>2. NoDefinition \in Stored /\ NoLayout \in Layouts /\ NoDraft \in Drafts
    BY <1>1 DEF NoDefinition, Stored, Statuses, NoLayout, Layouts, NoDraft, Drafts, Opened
  <1>3. NoTriggers \in Triggers
    BY EditorAssumption DEF NoTriggers, Triggers
  <1>4. ClearedHistory \in Histories
    <2>1. <<>> \in Seq(Whole) /\ Len(<<>>) = 0
      OBVIOUS
    <2> QED
      BY <2>1, EditorAssumption DEF ClearedHistory, Histories
  <1> QED
    BY <1>1, <1>2, <1>3, <1>4

\* pushSnapshot trims what it pushed to, and forgets what could be redone.
LEMMA PushKeeps ==
  ASSUME NEW h \in Histories, NEW g \in Whole
  PROVE  PushSnapshot(h, g) \in Histories
  <1> DEFINE longer == Append(h.past, g)
             over == IF Len(longer) > MaxDepth THEN Len(longer) - MaxDepth ELSE 0
             past == SubSeq(longer, over + 1, Len(longer))
  <1>1. longer \in Seq(Whole) /\ Len(longer) \in Nat /\ MaxDepth \in Nat
    BY EditorAssumption DEF Histories
  <1>2. over \in Nat /\ over <= Len(longer) /\ Len(longer) - over <= MaxDepth
    BY <1>1
  <1>3. past \in Seq(Whole) /\ Len(past) = Len(longer) - over
    <2> HIDE DEF longer, over
    <2> QED
      BY <1>1, <1>2, SubSeqProperties
  <1>4. <<>> \in Seq(Whole) /\ Len(<<>>) = 0
    OBVIOUS
  <1>5. PushSnapshot(h, g) = [past |-> past, future |-> <<>>]
    BY DEF PushSnapshot
  <1> HIDE DEF past, over, longer
  <1> QED
    BY <1>1, <1>2, <1>3, <1>4, <1>5 DEF Histories

\* undo moves one snapshot, and returns a graph.
LEMMA UndoKeeps ==
  ASSUME NEW h \in Histories, NEW g \in Whole, h.past # <<>>
  PROVE  UndoStack(h, g) \in Histories /\ Last(h.past) \in Whole
  <1>1. h.past \in Seq(Whole) /\ h.future \in Seq(Whole) /\ Len(h.past) \in Nat \ {0} /\ Len(h.future) \in Nat
        /\ Len(h.past) + Len(h.future) <= MaxDepth
    BY EmptySeq DEF Histories
  <1>2. Front(h.past) \in Seq(Whole) /\ Len(Front(h.past)) = Len(h.past) - 1
    BY <1>1, SubSeqProperties DEF Front
  <1>3. <<g>> \o h.future \in Seq(Whole) /\ Len(<<g>> \o h.future) = 1 + Len(h.future)
    BY <1>1
  <1>4. UndoStack(h, g) = [past |-> Front(h.past), future |-> <<g>> \o h.future]
    BY DEF UndoStack
  <1>5. Last(h.past) \in Whole
    BY <1>1 DEF Last
  <1> QED
    BY <1>1, <1>2, <1>3, <1>4, <1>5, EditorAssumption DEF Histories

\* redo moves it back, without a look at the bound.
LEMMA RedoKeeps ==
  ASSUME NEW h \in Histories, NEW g \in Whole, h.future # <<>>
  PROVE  RedoStack(h, g) \in Histories /\ Head(h.future) \in Whole
  <1>1. h.past \in Seq(Whole) /\ h.future \in Seq(Whole) /\ Len(h.future) \in Nat \ {0} /\ Len(h.past) \in Nat
        /\ Len(h.past) + Len(h.future) <= MaxDepth
    BY EmptySeq DEF Histories
  <1>2. Tail(h.future) \in Seq(Whole) /\ Len(Tail(h.future)) = Len(h.future) - 1 /\ Head(h.future) \in Whole
    BY <1>1
  <1>3. Append(h.past, g) \in Seq(Whole) /\ Len(Append(h.past, g)) = Len(h.past) + 1
    BY <1>1
  <1>4. RedoStack(h, g) = [past |-> Append(h.past, g), future |-> Tail(h.future)]
    BY DEF RedoStack
  <1> QED
    BY <1>1, <1>2, <1>3, <1>4, EditorAssumption DEF Histories

-----------------------------------------------------------------------------
(* Rendering *)

\* What the replay passes on.
Replays == [g : Whole, h : Histories, ed : Pages, edit : BOOLEAN, marked : BOOLEAN]

\* Whatever differs from the graph that was mounted has marked the page; the update alone
\* leaves a note of another kind.
Noted(s, from) == (s.marked => s.ed.dirty) /\ (s.g # from => s.marked)
NotedOrSnapped(s, from) == (s.marked => s.ed.dirty) /\ (s.g # from => s.marked \/ s.ed.snapped)

\* What a replay passes on, put together.
LEMMA ReplayForms ==
  ASSUME NEW g \in Whole, NEW h \in Histories, NEW e \in Pages, NEW b \in BOOLEAN, NEW m \in BOOLEAN,
         NEW from, m => e.dirty, NEW s, s = [g |-> g, h |-> h, ed |-> e, edit |-> b, marked |-> m]
  PROVE  /\ s \in Replays
         /\ (g # from => m) => Noted(s, from)
         /\ (g # from => m \/ e.snapped) => NotedOrSnapped(s, from)
  BY DEF Replays, Noted, NotedOrSnapped

\* A replayed layout changes no graph.
LEMMA LayoutReplayKeeps ==
  ASSUME NEW s \in Replays, NEW from \in Whole, Noted(s, from)
  PROVE  LayoutReplayed(s, from) \in Replays /\ Noted(LayoutReplayed(s, from), from)
  <1>1. PushSnapshot(s.h, from) \in Histories
    BY PushKeeps DEF Replays
  <1>2. s.ed \in Pages
    BY DEF Replays
  <1>3. [on |-> TRUE, live |-> TRUE, of |-> from] \in Layouts /\ [s.ed.layout EXCEPT !.live = FALSE] \in Layouts
    BY <1>2 DEF Pages, Layouts
  <1>4. /\ [s.ed EXCEPT !.layout = [on |-> TRUE, live |-> TRUE, of |-> from]] \in Pages
        /\ [s.ed EXCEPT !.layout.live = FALSE] \in Pages
    BY <1>2, <1>3 DEF Pages
  <1>5. CASE s.ed.trig.layout /\ s.edit
    BY <1>1, <1>2, <1>4, <1>5 DEF LayoutReplayed, Replays, Pages, Noted
  <1>6. CASE ~(s.ed.trig.layout /\ s.edit)
    BY <1>2, <1>4, <1>6 DEF LayoutReplayed, Replays, Pages, Noted
  <1> QED
    BY <1>5, <1>6
\* A replayed undo or redo marks the page.
LEMMA UndoReplayKeeps ==
  ASSUME NEW s \in Replays, NEW from \in Whole, Noted(s, from)
  PROVE  UndoReplayed(s, from) \in Replays /\ Noted(UndoReplayed(s, from), from)
  <1>0. s.edit \in BOOLEAN
    BY DEF Replays
  <1>1. CASE s.ed.trig.undo /\ s.h.past # <<>>
    <2>1. UndoStack(s.h, from) \in Histories /\ Last(s.h.past) \in Whole
      BY <1>1, UndoKeeps DEF Replays
    <2>2. [s.ed EXCEPT !.dirty = TRUE] \in Pages
      BY DEF Replays, Pages
    <2>3. UndoReplayed(s, from) = [g |-> Last(s.h.past), h |-> UndoStack(s.h, from),
                                   ed |-> [s.ed EXCEPT !.dirty = TRUE], edit |-> s.edit, marked |-> TRUE]
      BY <1>1 DEF UndoReplayed, Replays
    <2>4. [s.ed EXCEPT !.dirty = TRUE].dirty
      BY DEF Replays, Pages
    <2> QED
      BY <1>0, <2>1, <2>2, <2>3, <2>4, ReplayForms
  <1>2. CASE ~(s.ed.trig.undo /\ s.h.past # <<>>)
    BY <1>2 DEF UndoReplayed
  <1> QED
    BY <1>1, <1>2

\* The same of a redo.
LEMMA RedoReplayKeeps ==
  ASSUME NEW s \in Replays, NEW from \in Whole, Noted(s, from)
  PROVE  RedoReplayed(s, from) \in Replays /\ Noted(RedoReplayed(s, from), from)
  <1>0. s.edit \in BOOLEAN
    BY DEF Replays
  <1>1. CASE s.ed.trig.redo /\ s.h.future # <<>>
    <2>1. RedoStack(s.h, from) \in Histories /\ Head(s.h.future) \in Whole
      BY <1>1, RedoKeeps DEF Replays
    <2>2. [s.ed EXCEPT !.dirty = TRUE] \in Pages /\ [s.ed EXCEPT !.dirty = TRUE].dirty
      BY DEF Replays, Pages
    <2>3. RedoReplayed(s, from) = [g |-> Head(s.h.future), h |-> RedoStack(s.h, from),
                                   ed |-> [s.ed EXCEPT !.dirty = TRUE], edit |-> s.edit, marked |-> TRUE]
      BY <1>1 DEF RedoReplayed, Replays
    <2> QED
      BY <1>0, <2>1, <2>2, <2>3, ReplayForms
  <1>2. CASE ~(s.ed.trig.redo /\ s.h.future # <<>>)
    BY <1>2 DEF RedoReplayed
  <1> QED
    BY <1>1, <1>2

\* A replayed update does not, but it is remembered that a snapshot was taken.
LEMMA UpdateReplayKeeps ==
  ASSUME NEW s \in Replays, NEW from \in Whole, Noted(s, from)
  PROVE  UpdateReplayed(s, from) \in Replays /\ NotedOrSnapped(UpdateReplayed(s, from), from)
  <1>0. s.g \in Whole /\ s.h \in Histories /\ s.ed \in Pages /\ s.edit \in BOOLEAN /\ s.marked \in BOOLEAN
    BY DEF Replays
  <1> DEFINE noted == [s.ed EXCEPT !.snapped = TRUE]
             plain == [s.ed EXCEPT !.snapped = FALSE]
             g == [s.g EXCEPT !.attr = s.ed.trig.attr]
  <1>a. (s.marked => s.ed.dirty) /\ (s.g # from => s.marked)
    BY DEF Noted
  <1>1. CASE s.ed.trig.update /\ s.edit
    <2>1. PushSnapshot(s.h, from) \in Histories
      BY <1>0, PushKeeps
    <2>2. g \in Whole
      BY <1>0 DEF Whole, Graph, Pages, Triggers
    <2>3. noted \in Pages /\ noted.snapped /\ noted.dirty = s.ed.dirty
      BY <1>0 DEF Pages
    <2>4. UpdateReplayed(s, from) =
            [g |-> g, h |-> PushSnapshot(s.h, from),
             ed |-> noted, edit |-> s.edit, marked |-> s.marked]
      BY <1>1 DEF UpdateReplayed, Replays
    <2> HIDE DEF noted, g
    <2> QED
      BY <1>0, <1>a, <2>1, <2>2, <2>3, <2>4, ReplayForms
  <1>2. CASE ~(s.ed.trig.update /\ s.edit)
    <2>1. plain \in Pages /\ plain.dirty = s.ed.dirty
      BY <1>0 DEF Pages
    <2>2. UpdateReplayed(s, from) =
            [g |-> s.g, h |-> s.h, ed |-> plain, edit |-> s.edit, marked |-> s.marked]
      BY <1>2 DEF UpdateReplayed, Replays
    <2> HIDE DEF plain
    <2> QED
      BY <1>0, <1>a, <2>1, <2>2, ReplayForms
  <1> QED
    BY <1>1, <1>2

\* A node that is added again marks the page.
LEMMA AddReplayKeeps ==
  ASSUME NEW s \in Replays, NEW from \in Whole, NotedOrSnapped(s, from)
  PROVE  AddReplayed(s, from) \in Replays /\ NotedOrSnapped(AddReplayed(s, from), from)
  <1> DEFINE free == Nodes \ from.nodes
             n == CHOOSE m \in free : TRUE
  <1>0. s.g \in Whole /\ s.h \in Histories /\ s.ed \in Pages /\ s.edit \in BOOLEAN /\ s.marked \in BOOLEAN
    BY DEF Replays
  <1>1. CASE s.ed.trig.add /\ s.edit /\ free # {}
    <2>1. PushSnapshot(s.h, from) \in Histories
      BY <1>0, PushKeeps
    <2>2. n \in Nodes
      BY <1>1
    <2>3. AddReplayed(s, from) =
            [g |-> [s.g EXCEPT !.nodes = s.g.nodes \cup {n}], h |-> PushSnapshot(s.h, from),
             ed |-> [s.ed EXCEPT !.dirty = TRUE], edit |-> s.edit, marked |-> TRUE]
      BY <1>1 DEF AddReplayed, Replays
    <2> HIDE DEF n, free
    <2>4. [s.g EXCEPT !.nodes = s.g.nodes \cup {n}] \in Whole
      BY <1>0, <2>2 DEF Whole, Graph
    <2>5. [s.ed EXCEPT !.dirty = TRUE] \in Pages /\ [s.ed EXCEPT !.dirty = TRUE].dirty
      BY <1>0 DEF Pages
    <2> QED
      BY <1>0, <2>1, <2>3, <2>4, <2>5, ReplayForms
  <1>2. CASE ~(s.ed.trig.add /\ s.edit /\ free # {})
    BY <1>2 DEF AddReplayed
  <1> QED
    BY <1>1, <1>2

\* What a mount shows is marked, or has slipped by the update alone.
LEMMA ShownKeeps ==
  ASSUME NEW s \in Replays, NEW from \in Whole, NotedOrSnapped(s, from)
  PROVE  Shown(s, from).hist \in Histories /\ Shown(s, from).ed \in Pages /\ Marks(Shown(s, from).ed)
  <1> DEFINE e == Shown(s, from).ed
  <1>0. s.g \in Whole /\ s.h \in Histories /\ s.ed \in Pages /\ s.marked \in BOOLEAN
    BY DEF Replays
  <1>1. e = [s.ed EXCEPT !.shown = TRUE, !.canvas = s.g, !.hasRef = TRUE, !.ref = s.g, !.base = from,
                         !.slipped = s.ed.snapped /\ ~s.marked, !.dialog = {}]
        /\ Shown(s, from).hist = s.h
    BY DEF Shown
  <1>2. (s.ed.snapped /\ ~s.marked) \in BOOLEAN
    OBVIOUS
  <1>3. e \in Pages
    BY <1>0, <1>1, <1>2 DEF Pages
  <1>4. e.canvas = s.g /\ e.base = from /\ e.dirty = s.ed.dirty /\ e.slipped = (s.ed.snapped /\ ~s.marked)
    BY <1>0, <1>1 DEF Pages
  <1> HIDE DEF e
  <1>5. Marks(e)
    BY <1>4 DEF Marks, NotedOrSnapped
  <1> QED
    BY <1>0, <1>1, <1>3, <1>5 DEF e

\* Whatever the render after a handler mounts, replays or hides, the page keeps its mark.
LEMMA SettledKeeps ==
  ASSUME NEW c \in Caches, NEW e \in Pages, NEW h \in Histories, Marks(e)
  PROVE  Settled(c, e, h).hist \in Histories /\ Settled(c, e, h).ed \in Pages /\ Marks(Settled(c, e, h).ed)
  <1> DEFINE g == Data(c, e).graph
             start == [g |-> g, h |-> h, ed |-> e, edit |-> ~ReadOnly(c, e), marked |-> FALSE]
             s1 == LayoutReplayed(start, g)
             s2 == UndoReplayed(s1, g)
             s3 == RedoReplayed(s2, g)
             s4 == UpdateReplayed(s3, g)
             s5 == AddReplayed(s4, g)
  <1>1. g \in Whole
    BY FirstForms DEF Data, Existing, Caches, Stored
  <1>2. ReadOnly(c, e) \in BOOLEAN
    BY DEF ReadOnly
  <1>3. start \in Replays /\ Noted(start, g)
    BY <1>1, <1>2 DEF Replays, Noted
  <1>4. Mounted(c, e, h, g) = Shown(s5, g)
    BY DEF Mounted
  <1> HIDE DEF g, start
  <1>5. s1 \in Replays /\ Noted(s1, g)
    BY <1>1, <1>3, LayoutReplayKeeps
  <1> HIDE DEF s1
  <1>6. s2 \in Replays /\ Noted(s2, g)
    BY <1>1, <1>5, UndoReplayKeeps
  <1> HIDE DEF s2
  <1>7. s3 \in Replays /\ Noted(s3, g)
    BY <1>1, <1>6, RedoReplayKeeps
  <1> HIDE DEF s3
  <1>8. s4 \in Replays /\ NotedOrSnapped(s4, g)
    BY <1>1, <1>7, UpdateReplayKeeps
  <1> HIDE DEF s4
  <1>9. s5 \in Replays /\ NotedOrSnapped(s5, g)
    BY <1>1, <1>8, AddReplayKeeps
  <1> HIDE DEF s5
  <1>10. /\ Mounted(c, e, h, g).hist \in Histories /\ Mounted(c, e, h, g).ed \in Pages
         /\ Marks(Mounted(c, e, h, g).ed)
    BY <1>1, <1>4, <1>9, ShownKeeps
  <1>11. [e EXCEPT !.shown = FALSE, !.layout.live = FALSE] \in Pages
         /\ Marks([e EXCEPT !.shown = FALSE, !.layout.live = FALSE])
    <2>1. [e.layout EXCEPT !.live = FALSE] \in Layouts
      BY DEF Pages, Layouts
    <2> QED
      BY <2>1 DEF Pages, Marks
  <1> QED
    BY <1>10, <1>11 DEF Settled, g
\* A render with its effects.
LEMMA RenderKeeps ==
  ASSUME NEW c \in Caches, NEW e \in Pages, NEW h \in Histories, NEW dr \in Drafts, Marks(e), Render(c, e, h, dr)
  PROVE  ScreenInv'
  <1> DEFINE s == Settled(c, e, h)
  <1>1. s.hist \in Histories /\ s.ed \in Pages /\ Marks(s.ed)
    BY SettledKeeps
  <1>2. ed' = s.ed /\ hist' = s.hist /\ cache' = c /\ draft' \in {Mirrored(c, s.ed, dr), dr}
    BY DEF Render, Rendered
  <1> HIDE DEF s
  <1>3. Mirrored(c, s.ed, dr) \in Drafts
    <2>1. DirtyKeys(c, s.ed) \in SUBSET {"description", "graph"}
      BY DEF DirtyKeys
    <2> QED
      BY <1>1, <2>1 DEF Mirrored, Drafts, Existing, Opened, Pages
  <1> QED
    BY <1>1, <1>2, <1>3 DEF ScreenInv, Marks

\* The same with the cache and the draft as they were.
LEMMA ShowKeeps ==
  ASSUME EInv, NEW e \in Pages, NEW h \in Histories, Marks(e), Show(e, h)
  PROVE  ScreenInv' /\ server' \in [Definitions -> Stored]
  BY RenderKeeps DEF Show, EInv, ScreenInv

\* A canvas that is drawn on is marked.
LEMMA DrawnKeeps ==
  ASSUME EInv, NEW g \in Whole
  PROVE  Drawn(g) \in Pages /\ Drawn(g).dirty /\ Drawn(g).trig = ed.trig
         /\ Marks(Drawn(g))
  BY DEF EInv, ScreenInv, Pages, Drawn, Marks

\* What an edit starts from.
LEMMA SnapKeeps == ASSUME EInv PROVE Snap \in Histories /\ hist \in Histories /\ ed \in Pages /\ ed.canvas \in Whole
  <1>1. hist \in Histories /\ ed \in Pages /\ ed.canvas \in Whole
    BY DEF EInv, ScreenInv, Pages
  <1> QED
    BY <1>1, PushKeeps DEF Snap

\* Adding and removing nodes and edges.
LEMMA NodesKeep ==
  ASSUME EInv, NEW n \in Nodes, (\E b \in BOOLEAN : AddNode(n, b)) \/ RemoveNode(n)
  PROVE  EInv'
  <1> DEFINE g == ed.canvas
  <1>0. Snap \in Histories /\ hist \in Histories /\ ed \in Pages /\ g \in Whole
    BY SnapKeeps
  <1>1. CASE \E b \in BOOLEAN : AddNode(n, b)
    <2>1. PICK b \in BOOLEAN : AddNode(n, b)
      BY <1>1
    <2> DEFINE d == Drawn([g EXCEPT !.nodes = g.nodes \cup {n}])
               e == [d EXCEPT !.trig.add = d.trig.add \/ ~b]
    <2>2. [g EXCEPT !.nodes = g.nodes \cup {n}] \in Whole
      BY <1>0 DEF Whole, Graph
    <2>3. d \in Pages /\ d.dirty /\ d.trig \in Triggers
      BY <2>2, DrawnKeeps DEF Pages
    <2>4. Show(e, Snap) /\ requests' = requests
      BY <2>1 DEF AddNode, Edit
    <2> HIDE DEF d
    <2>5. [d.trig EXCEPT !.add = d.trig.add \/ ~b] \in Triggers
      <3>1. (d.trig.add \/ ~b) \in BOOLEAN
        OBVIOUS
      <3> QED
        BY <2>3, <3>1 DEF Triggers
    <2>6. e \in Pages /\ Marks(e)
      BY <2>3, <2>5 DEF Pages, Marks
    <2> QED
      BY <1>0, <2>4, <2>6, ShowKeeps DEF EInv
  <1>2. CASE RemoveNode(n)
    <2> DEFINE gone == {x \in g.edges : x[1] = n \/ x[2] = n}
               h == IF gone = {} THEN Snap ELSE PushSnapshot(Snap, g)
               d == Drawn([g EXCEPT !.nodes = g.nodes \ {n}, !.edges = g.edges \ gone, !.cond = g.cond \ gone])
    <2>1. Show(d, h) /\ requests' = requests
      BY <1>2 DEF RemoveNode, Edit
    <2>2. h \in Histories
      BY <1>0, PushKeeps
    <2>3. d \in Pages /\ Marks(d)
      <3> HIDE DEF gone
      <3>1. [g EXCEPT !.nodes = g.nodes \ {n}, !.edges = g.edges \ gone, !.cond = g.cond \ gone] \in Whole
        BY <1>0 DEF Whole, Graph
      <3> QED
        BY <3>1, DrawnKeeps
    <2> HIDE DEF d, h
    <2> QED
      BY <2>1, <2>2, <2>3, ShowKeeps DEF EInv
  <1> QED
    BY <1>1, <1>2

\* Edges and their conditions.
LEMMA EdgesKeep ==
  ASSUME EInv, NEW x \in Edges, Connect(x) \/ EditCondition(x) \/ RemoveEdge(x)
  PROVE  EInv'
  <1> DEFINE g == ed.canvas
             asks == [ed EXCEPT !.dialog = {x}]
             drawn == Drawn([g EXCEPT !.edges = g.edges \cup {x}])
             cut == Drawn([g EXCEPT !.edges = g.edges \ {x}, !.cond = g.cond \ {x}])
  <1>0. Snap \in Histories /\ hist \in Histories /\ ed \in Pages /\ g \in Whole
    BY SnapKeeps
  <1>1. asks \in Pages /\ Marks(asks)
    BY <1>0 DEF Pages, Marks, EInv, ScreenInv
  <1>2. drawn \in Pages /\ Marks(drawn)
    <2>1. [g EXCEPT !.edges = g.edges \cup {x}] \in Whole
      BY <1>0 DEF Whole, Graph
    <2> QED
      BY <2>1, DrawnKeeps
  <1>3. cut \in Pages /\ Marks(cut)
    <2>1. [g EXCEPT !.edges = g.edges \ {x}, !.cond = g.cond \ {x}] \in Whole
      BY <1>0 DEF Whole, Graph
    <2> QED
      BY <2>1, DrawnKeeps
  <1>4. /\ Show(asks, Snap) \/ Show(drawn, Snap) \/ Show(asks, hist) \/ Show(cut, Snap)
        /\ requests' = requests
    BY DEF Connect, EditCondition, RemoveEdge, Edit
  <1> HIDE DEF asks, drawn, cut
  <1> QED
    BY <1>0, <1>1, <1>2, <1>3, <1>4, ShowKeeps DEF EInv
\* The dialog of a condition, a move, and what only marks the page or its errors.
LEMMA TouchesKeep ==
  ASSUME EInv, (\E b \in BOOLEAN : ConfirmCondition(b)) \/ CancelCondition \/ Move \/ Touch \/ Revalidate
  PROVE  EInv'
  <1> DEFINE g == ed.canvas
  <1>0. hist \in Histories /\ ed \in Pages /\ g \in Whole /\ Marks(ed)
    BY SnapKeeps DEF EInv, ScreenInv
  <1>1. CASE \E b \in BOOLEAN : ConfirmCondition(b)
    <2>1. PICK b \in BOOLEAN : ConfirmCondition(b)
      BY <1>1
    <2> DEFINE cond == IF b THEN g.cond \ ed.dialog ELSE g.cond \cup ed.dialog
               d == Drawn([g EXCEPT !.edges = g.edges \cup ed.dialog, !.cond = cond])
               e == [d EXCEPT !.dialog = {}]
    <2>2. Show(e, hist) /\ requests' = requests
      BY <2>1 DEF ConfirmCondition
    <2>3. [g EXCEPT !.edges = g.edges \cup ed.dialog, !.cond = cond] \in Whole
      <3>1. ed.dialog \subseteq Edges
        BY <1>0 DEF Pages
      <3> QED
        BY <1>0, <3>1 DEF Whole, Graph
    <2>4. d \in Pages /\ d.dirty
      BY <2>3, DrawnKeeps
    <2> HIDE DEF d
    <2>5. e \in Pages /\ Marks(e)
      BY <2>4 DEF Pages, Marks
    <2> QED
      BY <1>0, <2>2, <2>5, ShowKeeps DEF EInv
  <1>2. CASE CancelCondition
    <2>1. [ed EXCEPT !.dialog = {}] \in Pages /\ Marks([ed EXCEPT !.dialog = {}])
      BY <1>0 DEF Pages, Marks
    <2> QED
      BY <1>0, <1>2, <2>1, ShowKeeps DEF EInv, CancelCondition
  <1>3. CASE Move
    <2>1. [g EXCEPT !.pos = "moved"] \in Whole
      BY <1>0 DEF Whole, Graph, Positions
    <2> QED
      BY <1>0, <1>3, <2>1, DrawnKeeps, ShowKeeps DEF EInv, Move, Edit
  <1>4. CASE Touch
    <2>1. [ed EXCEPT !.dirty = TRUE] \in Pages /\ Marks([ed EXCEPT !.dirty = TRUE])
      BY <1>0 DEF Pages, Marks
    <2> QED
      BY <1>0, <1>4, <2>1, ShowKeeps DEF EInv, Touch
  <1>5. CASE Revalidate
    <2>1. [ed EXCEPT !.valErr = ~ed.valErr] \in Pages /\ Marks([ed EXCEPT !.valErr = ~ed.valErr])
      BY <1>0 DEF Pages, Marks
    <2> QED
      BY <1>0, <1>5, <2>1, ShowKeeps DEF EInv, Revalidate
  <1> QED
    BY <1>1, <1>2, <1>3, <1>4, <1>5

\* The property panel.
LEMMA UpdateKeeps == ASSUME EInv, NEW a \in Attrs, UpdateNode(a) PROVE EInv'
  <1> DEFINE g == ed.canvas
             d == Drawn([g EXCEPT !.attr = a])
             e == [d EXCEPT !.snapped = TRUE, !.trig.update = TRUE, !.trig.attr = a]
             h == IF ed.snapped THEN hist ELSE Snap
  <1>0. Snap \in Histories /\ hist \in Histories /\ g \in Whole
    BY SnapKeeps
  <1>1. Show(e, h) /\ requests' = requests
    BY DEF UpdateNode, Edit
  <1>2. d \in Pages /\ d.dirty /\ d.trig \in Triggers
    <2>1. [g EXCEPT !.attr = a] \in Whole
      BY <1>0 DEF Whole, Graph
    <2>2. d \in Pages /\ d.dirty
      BY <2>1, DrawnKeeps
    <2> QED
      BY <2>2 DEF Pages
  <1> HIDE DEF d
  <1>3. e \in Pages /\ Marks(e)
    <2>1. [d.trig EXCEPT !.update = TRUE, !.attr = a] \in Triggers
      BY <1>2 DEF Triggers
    <2> QED
      BY <1>2, <2>1 DEF Pages, Marks
  <1> QED
    BY <1>0, <1>1, <1>3, ShowKeeps DEF EInv

\* A layout is asked for and comes; where no canvas waits for it, it marks the page all the same.
LEMMA LayoutKeeps == ASSUME EInv, AutoLayout \/ LayoutDone PROVE EInv'
  <1> DEFINE g == ed.canvas
  <1>0. Snap \in Histories /\ hist \in Histories /\ ed \in Pages /\ g \in Whole /\ Marks(ed)
    BY SnapKeeps DEF EInv, ScreenInv
  <1>1. CASE AutoLayout
    <2> DEFINE l == [on |-> TRUE, live |-> TRUE, of |-> g]
               e == [ed EXCEPT !.trig.layout = TRUE, !.layout = l]
    <2>1. Show(e, Snap) /\ requests' = requests
      BY <1>1 DEF AutoLayout, Edit
    <2>2. l \in Layouts /\ [ed.trig EXCEPT !.layout = TRUE] \in Triggers
      BY <1>0 DEF Layouts, Triggers, Pages
    <2>3. e \in Pages /\ Marks(e)
      <3> HIDE DEF l
      <3> QED
        BY <1>0, <2>2 DEF Pages, Marks
    <2> QED
      BY <1>0, <2>1, <2>3, ShowKeeps DEF EInv
  <1>2. CASE LayoutDone
    <2> DEFINE of == ed.layout.of
               l == [g EXCEPT !.nodes = of.nodes, !.attr = of.attr, !.pos = "moved"]
               e == [ed EXCEPT !.dirty = TRUE, !.layout = NoLayout]
               f == [e EXCEPT !.canvas = l, !.ref = l]
    <2>1. Show(IF ed.layout.live /\ ed.shown THEN f ELSE e, hist) /\ requests' = requests
      BY <1>2 DEF LayoutDone
    <2>2. l \in Whole
      <3>1. of \in Whole
        BY <1>0 DEF Pages, Layouts
      <3> QED
        BY <1>0, <3>1 DEF Whole, Graph, Positions
    <2>3. e \in Pages /\ e.dirty
      BY <1>0, FirstForms DEF Pages
    <2> HIDE DEF l, e
    <2>4. f \in Pages /\ f.dirty
      BY <2>2, <2>3 DEF Pages
    <2> HIDE DEF f
    <2> QED
      BY <1>0, <2>1, <2>3, <2>4, ShowKeeps DEF EInv, Marks
  <1> QED
    BY <1>1, <1>2

\* Undo and redo, heard by a canvas or not.
LEMMA StacksKeep == ASSUME EInv, Undo \/ Redo PROVE EInv'
  <1>0. hist \in Histories /\ ed \in Pages /\ ed.ref \in Whole /\ Marks(ed)
    BY DEF EInv, ScreenInv, Pages
  <1>1. CASE Undo
    <2> DEFINE e == [ed EXCEPT !.trig.undo = TRUE]
               f == [e EXCEPT !.canvas = Last(hist.past), !.ref = Last(hist.past), !.dirty = TRUE]
    <2>1. e \in Pages /\ Marks(e)
      <3>1. [ed.trig EXCEPT !.undo = TRUE] \in Triggers
        BY <1>0 DEF Pages, Triggers
      <3> QED
        BY <1>0, <3>1 DEF Pages, Marks
    <2>2. CASE ed.shown /\ hist.past # <<>>
      <3>1. UndoStack(hist, ed.ref) \in Histories /\ Last(hist.past) \in Whole
        BY <1>0, <2>2, UndoKeeps
      <3>2. Show(f, UndoStack(hist, ed.ref)) /\ requests' = requests
        BY <1>1, <2>2 DEF Undo, Edit
      <3>3. f \in Pages /\ Marks(f)
        <4> HIDE DEF e
        <4> QED
          BY <2>1, <3>1 DEF Pages, Marks
      <3> QED
        BY <3>1, <3>2, <3>3, ShowKeeps DEF EInv
    <2>3. CASE ~(ed.shown /\ hist.past # <<>>)
      <3>1. Show(e, hist) /\ requests' = requests
        BY <1>1, <2>3 DEF Undo, Edit
      <3> QED
        BY <1>0, <2>1, <3>1, ShowKeeps DEF EInv
    <2> QED
      BY <2>2, <2>3
  <1>2. CASE Redo
    <2> DEFINE e == [ed EXCEPT !.trig.redo = TRUE]
               f == [e EXCEPT !.canvas = Head(hist.future), !.ref = Head(hist.future), !.dirty = TRUE]
    <2>1. e \in Pages /\ Marks(e)
      <3>1. [ed.trig EXCEPT !.redo = TRUE] \in Triggers
        BY <1>0 DEF Pages, Triggers
      <3> QED
        BY <1>0, <3>1 DEF Pages, Marks
    <2>2. CASE ed.shown /\ hist.future # <<>>
      <3>1. RedoStack(hist, ed.ref) \in Histories /\ Head(hist.future) \in Whole
        BY <1>0, <2>2, RedoKeeps
      <3>2. Show(f, RedoStack(hist, ed.ref)) /\ requests' = requests
        BY <1>2, <2>2 DEF Redo, Edit
      <3>3. f \in Pages /\ Marks(f)
        <4> HIDE DEF e
        <4> QED
          BY <2>1, <3>1 DEF Pages, Marks
      <3> QED
        BY <3>1, <3>2, <3>3, ShowKeeps DEF EInv
    <2>3. CASE ~(ed.shown /\ hist.future # <<>>)
      <3>1. Show(e, hist) /\ requests' = requests
        BY <1>2, <2>3 DEF Redo, Edit
      <3> QED
        BY <1>0, <2>1, <3>1, ShowKeeps DEF EInv
    <2> QED
      BY <2>2, <2>3
  <1> QED
    BY <1>1, <1>2
-----------------------------------------------------------------------------
(* The page, its requests and their answers *)

\* What is asked for is well formed, and of a definition where it has to be.
LEMMA CallForms ==
  ASSUME NEW e \in Pages, NEW g \in Whole,
         NEW k \in {"update", "create", "validate", "activate", "merge", "promote", "fetch"},
         k \in {"update", "activate", "merge", "fetch"} => Existing(e)
  PROVE  Call(k, e, g) \in Requests /\ [Call(k, e, g) EXCEPT !.mount = 0] \in Requests
  <1>1. 0 \in 0..MaxMounts
    BY EditorAssumption
  <1>2. NoDefinition \in Stored /\ e.mount \in 0..MaxMounts
    BY FirstForms DEF Pages
  <1> QED
    BY <1>1, <1>2 DEF Call, Requests, Existing

\* A query has one fetch at a time.
LEMMA RefetchForms ==
  ASSUME NEW e \in Pages, NEW rest \in SUBSET Requests
  PROVE  Refetch(e, rest) \in SUBSET Requests
  <1>1. ASSUME Existing(e) PROVE [Call("fetch", e, FirstGraph) EXCEPT !.mount = 0] \in Requests
    BY <1>1, CallForms, FirstForms
  <1> QED
    BY <1>1 DEF Refetch

\* A step of the page that shows the page changed and leaves the history, and may send something.
LEMMA PageKeeps ==
  ASSUME EInv, NEW e \in Pages, Marks(e), NEW h \in Histories, Show(e, h), requests' \in SUBSET Requests
  PROVE  EInv'
  BY ShowKeeps DEF EInv

\* A page that opens, and the one that is left behind, show nothing.
LEMMA FreshPages ==
  ASSUME NEW p \in Opened, NEW m \in 0..MaxMounts
  PROVE  [NoPage EXCEPT !.page = p, !.mount = m] \in Pages /\ Marks([NoPage EXCEPT !.page = p, !.mount = m])
  <1>1. {} \in SUBSET Edges /\ 0 \in 0..MaxMounts /\ "none" \in Opened
    BY EditorAssumption DEF Opened
  <1>2. NoPage \in Pages
    BY <1>1, FirstForms DEF NoPage, Pages
  <1>3. NoPage.shown = FALSE
    BY DEF NoPage
  <1> QED
    BY <1>2, <1>3 DEF Pages, Marks

\* The page that is left behind keeps nothing but the count of the mounts.
LEMMA LeftForms == ASSUME ed \in Pages PROVE Left \in Pages /\ Marks(Left)
  <1>1. {} \in SUBSET Edges /\ 0 \in 0..MaxMounts /\ "none" \in Opened /\ ed.mount \in 0..MaxMounts
    BY EditorAssumption DEF Opened, Pages
  <1>2. NoPage \in Pages
    BY <1>1, FirstForms DEF NoPage, Pages
  <1>3. NoPage.shown = FALSE
    BY DEF NoPage
  <1> QED
    BY <1>1, <1>2, <1>3 DEF Pages, Marks, Left

\* Opening the page and leaving it.
LEMMA VisitsKeep ==
  ASSUME EInv,
         \/ \E p \in Definitions \cup {"new"}, stale \in BOOLEAN : Open(p, stale)
         \/ Navigate \/ Stay \/ DiscardAndProceed \/ Reload
  PROVE  EInv'
  <1>0. /\ hist \in Histories /\ ed \in Pages /\ Marks(ed) /\ ClearedHistory \in Histories /\ NoDraft \in Drafts
        /\ draft \in Drafts /\ cache \in Caches /\ Left \in Pages /\ Marks(Left) /\ requests \in SUBSET Requests
    BY FirstForms, LeftForms DEF EInv, ScreenInv
  <1>1. CASE \E p \in Definitions \cup {"new"}, stale \in BOOLEAN : Open(p, stale)
    <2>1. PICK p \in Definitions \cup {"new"}, stale \in BOOLEAN : Open(p, stale)
      BY <1>1
    <2> DEFINE e == [NoPage EXCEPT !.page = p, !.mount = ed.mount + 1]
               fetch == p \in Definitions /\ (stale \/ ~cache[p].has)
               c == IF p \in Definitions /\ ~cache[p].has THEN [cache EXCEPT ![p].failed = FALSE] ELSE cache
    <2>2. /\ Render(c, e, ClearedHistory, draft)
          /\ requests' = IF fetch THEN Refetch(e, requests) ELSE requests
      BY <2>1 DEF Open
    <2>7. server' = server
      BY <2>1 DEF Open
    <2>3. ed.mount + 1 \in 0..MaxMounts
      <3>1. ed.mount < MaxMounts
        BY <2>1 DEF Open
      <3> QED
        BY <1>0, <3>1, EditorAssumption DEF Pages
    <2>4. e \in Pages /\ Marks(e)
      BY <2>3, FreshPages DEF Opened
    <2>5. c \in Caches
      BY <1>0 DEF Caches
    <2> HIDE DEF e, c
    <2>6. ScreenInv'
      BY <1>0, <2>2, <2>4, <2>5, RenderKeeps
    <2> QED
      BY <1>0, <2>2, <2>4, <2>6, <2>7, RefetchForms DEF EInv
  <1>2. CASE Navigate
    <2>1. [ed EXCEPT !.leaving = TRUE] \in Pages /\ Marks([ed EXCEPT !.leaving = TRUE])
      BY <1>0 DEF Pages, Marks
    <2>2. requests' = requests /\ (Show([ed EXCEPT !.leaving = TRUE], hist) \/ Show(Left, hist))
      BY <1>2 DEF Navigate
    <2> QED
      BY <1>0, <2>1, <2>2, PageKeeps
  <1>3. CASE Stay
    <2>1. [ed EXCEPT !.leaving = FALSE] \in Pages /\ Marks([ed EXCEPT !.leaving = FALSE])
      BY <1>0 DEF Pages, Marks
    <2> QED
      BY <1>0, <1>3, <2>1, PageKeeps DEF Stay
  <1>4. CASE DiscardAndProceed
    BY <1>0, <1>4, PageKeeps DEF DiscardAndProceed
  <1>5. CASE Reload
    <2>1. cache' \in Caches
      BY <1>5, FirstForms DEF Reload, Caches
    <2> QED
      BY <1>0, <1>5, <2>1 DEF Reload, EInv, ScreenInv, Marks
  <1> QED
    BY <1>1, <1>2, <1>3, <1>4, <1>5

\* The buttons of the page.
LEMMA ButtonsKeep ==
  ASSUME EInv,
         \/ DiscardDraft \/ Save \/ SubmitForRelease \/ OpenPromote \/ ConfirmPromote \/ CancelPromote
         \/ \E b \in BOOLEAN : SaveMerged(b)
         \/ DiscardMine \/ RefetchPage
  PROVE  EInv'
  <1>0. /\ hist \in Histories /\ ed \in Pages /\ Marks(ed) /\ NoDraft \in Drafts /\ FirstGraph \in Whole
        /\ draft \in Drafts /\ cache \in Caches /\ requests \in SUBSET Requests /\ ed.ref \in Whole
        /\ server \in [Definitions -> Stored]
    BY FirstForms DEF EInv, ScreenInv, Pages
  <1>1. CASE DiscardDraft
    BY <1>0, <1>1, RenderKeeps DEF DiscardDraft, EInv
  <1>2. CASE Save
    <2>1. [ed EXCEPT !.srvErr = FALSE] \in Pages /\ Marks([ed EXCEPT !.srvErr = FALSE])
      BY <1>0 DEF Pages, Marks
    <2>2. Call(IF Existing(ed) THEN "update" ELSE "create", ed, ed.ref) \in Requests
      BY <1>0, CallForms
    <2>3. Show([ed EXCEPT !.srvErr = FALSE], hist) /\ requests' \in SUBSET Requests
      BY <1>0, <1>2, <2>2 DEF Save, Send
    <2> QED
      BY <1>0, <2>1, <2>3, PageKeeps
  <1>3. CASE SubmitForRelease
    <2>1. [ed EXCEPT !.checking = TRUE] \in Pages /\ Marks([ed EXCEPT !.checking = TRUE])
      BY <1>0 DEF Pages, Marks
    <2>2. Call("activate", ed, FirstGraph) \in Requests
      BY <1>0, <1>3, CallForms DEF SubmitForRelease
    <2> QED
      BY <1>0, <1>3, <2>1, <2>2, PageKeeps DEF SubmitForRelease, Send
  <1>4. CASE OpenPromote \/ CancelPromote
    <2>1. \A x \in {"none", "confirm"} : [ed EXCEPT !.promote = x] \in Pages /\ Marks([ed EXCEPT !.promote = x])
      BY <1>0 DEF Pages, Marks
    <2>2. requests' = requests /\ \E x \in {"none", "confirm"} : Show([ed EXCEPT !.promote = x], hist)
      BY <1>4 DEF OpenPromote, CancelPromote
    <2> QED
      BY <1>0, <2>1, <2>2, PageKeeps
  <1>5. CASE ConfirmPromote
    <2>1. [ed EXCEPT !.promote = "pending"] \in Pages /\ Marks([ed EXCEPT !.promote = "pending"])
      BY <1>0 DEF Pages, Marks
    <2>2. Call("promote", ed, FirstGraph) \in Requests
      BY <1>0, CallForms
    <2> QED
      BY <1>0, <1>5, <2>1, <2>2, PageKeeps DEF ConfirmPromote, Send
  <1>6. CASE \E b \in BOOLEAN : SaveMerged(b)
    <2>1. PICK b \in BOOLEAN : SaveMerged(b)
      BY <1>6
    <2>2. draft.graph \in Whole /\ Data(cache, ed).graph \in Whole
      BY <1>0, FirstForms DEF Drafts, Data, Existing, Caches, Stored
    <2>3. Existing(ed)
      BY <2>1 DEF SaveMerged, Resolving
    <2>4. Call("merge", ed, IF b THEN draft.graph ELSE Data(cache, ed).graph) \in Requests
      BY <1>0, <2>2, <2>3, CallForms
    <2> QED
      BY <1>0, <2>1, <2>4, PageKeeps DEF SaveMerged, Send
  <1>7. CASE DiscardMine
    <2>1. [ed EXCEPT !.conflict = FALSE] \in Pages /\ Marks([ed EXCEPT !.conflict = FALSE])
      BY <1>0 DEF Pages, Marks
    <2>2. ScreenInv'
      BY <1>0, <1>7, <2>1, RenderKeeps DEF DiscardMine
    <2> QED
      BY <1>0, <1>7, <2>2, RefetchForms DEF DiscardMine, EInv
  <1>8. CASE RefetchPage
    BY <1>0, <1>8, RefetchForms, PageKeeps DEF RefetchPage
  <1> QED
    BY <1>1, <1>2, <1>3, <1>4, <1>5, <1>6, <1>7, <1>8

\* The server keeps definitions, and what it replies with is one.
LEMMA ServerKeeps ==
  ASSUME EInv, \/ \E k \in requests : Serve(k)
               \/ \E d \in Definitions, s \in Statuses : OtherUser(d, OtherGraph, s)
  PROVE  EInv'
  <1>0. server \in [Definitions -> Stored] /\ requests \in SUBSET Requests
    BY DEF EInv
  <1>1. ASSUME UNCHANGED <<cache, ed, hist, draft>> PROVE ScreenInv'
    BY <1>1 DEF EInv, ScreenInv, Marks
  <1>2. CASE \E k \in requests : Serve(k)
    <2>1. PICK k \in requests : Serve(k)
      BY <1>2
    <2>2. k \in Requests
      BY <1>0, <2>1
    <2>3. \A r \in {"ok", "conflict", "invalid", "error"} : [k EXCEPT !.reply = r] \in Requests
      BY <2>2 DEF Requests
    <2>4. UNCHANGED <<cache, ed, hist, draft>>
      BY <2>1 DEF Serve
    <2>5. CASE \E r \in {"ok", "error"} : Write(k, r)
      <3>1. PICK r \in {"ok", "error"} : Write(k, r)
        BY <2>5
      <3>2. k.def \in Definitions
        BY <2>2, <3>1 DEF Write, Requests
      <3>3. Apply(k) \in Stored
        <4>1. server[k.def] \in Stored /\ k.graph \in Whole
          BY <1>0, <2>2, <3>2 DEF Requests
        <4> QED
          BY <4>1 DEF Apply, Stored, Statuses
      <3>4. server' = [server EXCEPT ![k.def] = Apply(k)] /\ Reply(k, r)
        BY <3>1 DEF Write
      <3>5. server' \in [Definitions -> Stored]
        BY <1>0, <3>2, <3>3, <3>4
      <3>6. requests' \in SUBSET Requests
        BY <1>0, <2>3, <3>4 DEF Reply
      <3> QED
        BY <1>1, <2>4, <3>5, <3>6 DEF EInv
    <2>6. CASE \E r \in {"ok", "conflict", "invalid", "error"} : Refuse(k, r)
      BY <1>0, <1>1, <2>3, <2>4, <2>6 DEF Refuse, Reply, EInv
    <2>7. CASE Read(k)
      <3>1. k.def \in Definitions
        BY <2>2, <2>7 DEF Read, Requests
      <3>2. server[k.def] \in Stored
        BY <1>0, <3>1
      <3>3. [k EXCEPT !.reply = "ok", !.data = server[k.def]] \in Requests
        BY <2>2, <3>2 DEF Requests
      <3> QED
        BY <1>0, <1>1, <2>4, <2>7, <3>3 DEF Read, EInv
    <2> QED
      BY <2>1, <2>5, <2>6, <2>7 DEF Serve
  <1>3. CASE \E d \in Definitions, s \in Statuses : OtherUser(d, OtherGraph, s)
    <2>1. PICK d \in Definitions, s \in Statuses : OtherUser(d, OtherGraph, s)
      BY <1>3
    <2>2. OtherGraph \in Whole
      BY FirstForms DEF OtherGraph, Whole, Graph, Positions
    <2>3. server' = [server EXCEPT ![d].graph = OtherGraph, ![d].status = s]
          /\ UNCHANGED <<cache, ed, hist, draft, requests>>
      BY <2>1 DEF OtherUser
    <2>4. server[d] \in Stored
      BY <1>0
    <2>5. server' \in [Definitions -> Stored]
      <3> HIDE DEF OtherGraph
      <3> QED
        BY <1>0, <2>2, <2>3, <2>4 DEF Stored
    <2> QED
      BY <1>0, <1>1, <2>3, <2>5 DEF EInv
  <1> QED
    BY <1>2, <1>3

\* An answer to a save, a check, a release, a promotion: the page it belongs to is changed only
\* while it is open.
LEMMA SaveAnswerKeeps == ASSUME EInv, NEW k \in requests, SaveAnswered(k) PROVE EInv'
  <1> DEFINE saved == [ed EXCEPT !.dirty = FALSE, !.base = k.graph, !.slipped = ed.shown /\ ed.canvas # k.graph]
             again == [k EXCEPT !.kind = "validate", !.reply = "sent"]
             stale == [ed EXCEPT !.conflict = TRUE]
  <1>0. /\ hist \in Histories /\ ed \in Pages /\ Marks(ed) /\ ClearedHistory \in Histories
        /\ requests \in SUBSET Requests /\ k \in Requests /\ k.graph \in Whole
    BY FirstForms DEF EInv, ScreenInv, Requests
  <1>1. saved \in Pages /\ Marks(saved)
    BY <1>0 DEF Pages, Marks
  <1>2. stale \in Pages /\ Marks(stale)
    BY <1>0 DEF Pages, Marks
  <1>3. again \in Requests
    BY <1>0 DEF Requests
  <1>4. \/ Show(Own(k, saved), ClearedHistory) /\ requests' = (requests \ {k}) \cup {again}
        \/ Show(Own(k, stale), hist) /\ requests' = requests \ {k}
        \/ Show(ed, hist) /\ requests' = requests \ {k}
    BY DEF SaveAnswered
  <1>5. Own(k, saved) \in {saved, ed} /\ Own(k, stale) \in {stale, ed}
    BY DEF Own
  <1> HIDE DEF saved, again, stale
  <1> QED
    BY <1>0, <1>1, <1>2, <1>3, <1>4, <1>5, PageKeeps

\* The same for the answer to a check, a release or a promotion.
LEMMA CheckAnswersKeep ==
  ASSUME EInv, NEW k \in requests, ValidateAnswered(k) \/ ActivateAnswered(k) \/ PromoteAnswered(k)
  PROVE  EInv'
  <1>0. /\ hist \in Histories /\ ed \in Pages /\ Marks(ed) /\ requests \in SUBSET Requests
        /\ requests \ {k} \in SUBSET Requests
    BY DEF EInv, ScreenInv
  <1>1. requests' \in {requests \ {k}, Refetch(ed, requests \ {k})}
    BY DEF ValidateAnswered, ActivateAnswered, PromoteAnswered
  <1>2. requests' \in SUBSET Requests
    BY <1>0, <1>1, RefetchForms
  <1>3. \E e \in Pages : Marks(e) /\ Show(e, hist)
    <2>1. CASE ValidateAnswered(k)
      <3>1. \A b \in BOOLEAN : [ed EXCEPT !.srvErr = b] \in Pages /\ Marks([ed EXCEPT !.srvErr = b])
        BY <1>0 DEF Pages, Marks
      <3>2. \/ Show(ed, hist)
            \/ Show([ed EXCEPT !.srvErr = (k.reply = "invalid")], hist)
        BY <2>1 DEF ValidateAnswered, Own
      <3> QED
        BY <1>0, <3>1, <3>2
    <2>2. CASE ActivateAnswered(k)
      <3>1. [ed EXCEPT !.checking = FALSE] \in Pages /\ Marks([ed EXCEPT !.checking = FALSE])
        BY <1>0 DEF Pages, Marks
      <3> QED
        BY <1>0, <2>2, <3>1 DEF ActivateAnswered, Own
    <2>3. CASE PromoteAnswered(k)
      <3>1. \A x \in {"none", "confirm"} : [ed EXCEPT !.promote = x] \in Pages /\ Marks([ed EXCEPT !.promote = x])
        BY <1>0 DEF Pages, Marks
      <3>2. \/ Show(ed, hist)
            \/ \E x \in {"none", "confirm"} : Show([ed EXCEPT !.promote = x], hist)
        BY <2>3 DEF PromoteAnswered, Own
      <3> QED
        BY <1>0, <3>1, <3>2
    <2> QED
      BY <2>1, <2>2, <2>3
  <1> QED
    BY <1>0, <1>2, <1>3, PageKeeps

\* An answer to a merge writes the draft, and an answer to a fetch the cache, whichever page is open.
LEMMA StoreAnswersKeep ==
  ASSUME EInv, NEW k \in requests, MergeAnswered(k) \/ FetchAnswered(k)
  PROVE  EInv'
  <1>0. /\ hist \in Histories /\ ed \in Pages /\ Marks(ed) /\ draft \in Drafts /\ cache \in Caches
        /\ requests \ {k} \in SUBSET Requests /\ k \in Requests
        /\ server \in [Definitions -> Stored] /\ server' = server
    BY DEF EInv, ScreenInv, MergeAnswered, FetchAnswered
  <1>1. CASE MergeAnswered(k)
    <2> DEFINE e == [ed EXCEPT !.conflict = FALSE]
               dr == [def |-> k.def, graph |-> k.graph, keys |-> {}]
    <2>1. e \in Pages /\ Marks(e)
      BY <1>0 DEF Pages, Marks
    <2>2. dr \in Drafts
      BY <1>0, <1>1 DEF MergeAnswered, Requests, Drafts, Opened
    <2>3. Render(cache, e, hist, dr) \/ Render(cache, ed, hist, dr) \/ Render(cache, ed, hist, draft)
      BY <1>1 DEF MergeAnswered, Own
    <2>4. requests' \in {requests \ {k}, Refetch(ed, requests \ {k})}
      BY <1>1 DEF MergeAnswered
    <2> HIDE DEF e, dr
    <2>5. ScreenInv'
      BY <1>0, <2>1, <2>2, <2>3, RenderKeeps
    <2>6. requests' \in SUBSET Requests
      BY <1>0, <2>4, RefetchForms
    <2> QED
      BY <1>0, <2>5, <2>6 DEF EInv
  <1>2. CASE FetchAnswered(k)
    <2> DEFINE found == IF k.reply = "ok" THEN [has |-> TRUE, data |-> k.data, failed |-> FALSE]
                        ELSE [cache[k.def] EXCEPT !.failed = TRUE]
               c == [cache EXCEPT ![k.def] = found]
    <2>1. k.def \in Definitions /\ k.data \in Stored
      BY <1>0, <1>2 DEF FetchAnswered, Requests
    <2>2. found \in [has : BOOLEAN, data : Stored, failed : BOOLEAN]
      BY <1>0, <2>1 DEF Caches
    <2>3. Render(c, ed, hist, draft) /\ requests' = requests \ {k}
      BY <1>2 DEF FetchAnswered
    <2> HIDE DEF found
    <2>4. c \in Caches
      BY <1>0, <2>1, <2>2 DEF Caches
    <2> HIDE DEF c
    <2>5. ScreenInv'
      BY <1>0, <2>3, <2>4, RenderKeeps
    <2> QED
      BY <1>0, <2>3, <2>5 DEF EInv
  <1> QED
    BY <1>1, <1>2

-----------------------------------------------------------------------------
\* The designer starts with no page.
LEMMA InitKeeps == ASSUME EditorInit PROVE EInv
  <1>1. cache \in Caches /\ server \in [Definitions -> Stored] /\ requests \in SUBSET Requests
    BY FirstForms DEF EditorInit, Caches
  <1>2. hist \in Histories /\ draft \in Drafts
    BY FirstForms DEF EditorInit
  <1>3. ed \in Pages /\ Marks(ed)
    <2>1. {} \in SUBSET Edges /\ 0 \in 0..MaxMounts /\ "none" \in Opened
      BY EditorAssumption DEF Opened
    <2>2. ed = NoPage
      BY DEF EditorInit
    <2> QED
      BY <2>1, <2>2, FirstForms DEF NoPage, Pages, Marks
  <1> QED
    BY <1>1, <1>2, <1>3 DEF EInv, ScreenInv

\* Every step of the designer.
LEMMA StepKeeps == ASSUME EInv, [EditorNext]_editorVars PROVE EInv'
  <1>1. CASE CanvasStep
    BY <1>1, NodesKeep, EdgesKeep, TouchesKeep, UpdateKeeps, LayoutKeeps, StacksKeep DEF CanvasStep
  <1>2. CASE PageStep
    BY <1>2, VisitsKeep, ButtonsKeep DEF PageStep
  <1>3. CASE \E k \in requests : Serve(k) \/ Answer(k)
    BY <1>3, ServerKeeps, SaveAnswerKeeps, CheckAnswersKeep, StoreAnswersKeep DEF Answer
  <1>4. CASE \E d \in Definitions, s \in Statuses : OtherUser(d, OtherGraph, s)
    BY <1>4, ServerKeeps
  <1>5. CASE UNCHANGED editorVars
    BY <1>5 DEF editorVars, EInv, ScreenInv, Marks
  <1> QED
    BY <1>1, <1>2, <1>3, <1>4, <1>5 DEF EditorNext

\* EInv is an inductive invariant of the designer.
THEOREM Invariance == EditorSpec => []EInv
  BY InitKeeps, StepKeeps, PTL DEF EditorSpec

\* canvasHistoryStore.ts holds its bound although only pushSnapshot trims: undo and redo move one
\* snapshot between the two stacks, so their sum cannot grow.  What undo and redo bring back is a
\* graph whose conditions are on its edges.
THEOREM HistoryTheorem == EditorSpec => []HistoryBounded
  <1>1. EInv => HistoryBounded
    <2> SUFFICES ASSUME EInv PROVE HistoryBounded
      OBVIOUS
    <2>1. Whole \subseteq Graph /\ Stored \subseteq Definition
      BY DEF Whole, Stored, Definition
    <2>2. server \in [Definitions -> Definition] /\ cache \in [Definitions -> Query]
      BY <2>1 DEF EInv, ScreenInv, Caches, Query
    <2>3. /\ ed.canvas \in Graph /\ ed.ref \in Graph /\ ed.base \in Graph
          /\ ed.checking \in BOOLEAN /\ ed.mount \in 0..MaxMounts /\ ed.canvas \in Whole
      BY <2>1 DEF EInv, ScreenInv, Pages
    <2>4. hist.past \in Seq(Whole) /\ hist.future \in Seq(Whole) /\ Len(hist.past) + Len(hist.future) <= MaxDepth
      BY DEF EInv, ScreenInv, Histories
    <2>5. hist.past \in Seq(Graph) /\ hist.future \in Seq(Graph)
      BY <2>1, <2>4
    <2>6. \A k \in requests : k.reply \in {"sent", "ok", "conflict", "invalid", "error"}
      BY DEF EInv, Requests
    <2>7. ed.canvas.cond \subseteq ed.canvas.edges
      BY <2>3 DEF Whole
    <2> QED
      BY <2>2, <2>3, <2>4, <2>5, <2>6, <2>7 DEF HistoryBounded, EditorTypeOK
  <1> QED
    BY <1>1, Invariance, PTL

\* The navigation blocker of the page (useBlocker) sees the mark dirty: in every state a canvas that differs
\* from what was loaded or last saved has it, but where one of the two named slips happened.
THEOREM MarkTheorem == EditorSpec => []UnsavedIsMarked
  <1>1. EInv => UnsavedIsMarked
    BY DEF EInv, ScreenInv, Marks, UnsavedIsMarked
  <1> QED
    BY <1>1, Invariance, PTL
-----------------------------------------------------------------------------
(* The operators' pages: queries *)

Fetched == {"has", "data", "old", "failed", "fetch", "read"}
IsQuery(x) == DOMAIN x = Fetched /\ x.fetch \in {"no", "sent", "read"}

\* What a page does with a query leaves it a query, of what it had or of what it had read.
Derived(y, x) ==
  /\ IsQuery(y) /\ y.data \in {x.data, x.read} /\ y.read \in {x.data, x.read}
  /\ y.fetch = "read" => x.fetch = "read" /\ y.read = x.read

\* The operators of Queries as each page has them.
LEMMA LetterQueries ==
  ASSUME NEW x, IsQuery(x), NEW d
  PROVE  /\ \A y \in {Dlq!Started(x), Dlq!Invalidated(x), Dlq!Observed(x, TRUE), Dlq!Answered(x), Dlq!Refused(x)} :
              IsQuery(y)
         /\ IsQuery(Dlq!ReadWith(x, d)) /\ IsQuery(Dlq!NewQuery(d))
  BY DEF IsQuery, Fetched, Dlq!Started, Dlq!Invalidated, Dlq!Observed, Dlq!Answered, Dlq!Refused,
         Dlq!ReadWith, Dlq!NewQuery

\* The same for the inbox, with what the query holds.
LEMMA TaskQueries ==
  ASSUME NEW x, IsQuery(x), NEW d
  PROVE  /\ \A y \in {Inbox!Started(x), Inbox!Invalidated(x), Inbox!Observed(x, TRUE), Inbox!Answered(x),
                       Inbox!Refused(x)} : Derived(y, x)
         /\ IsQuery(Inbox!ReadWith(x, d)) /\ Inbox!ReadWith(x, d).data = x.data /\ Inbox!ReadWith(x, d).read = d
  BY DEF IsQuery, Derived, Fetched, Inbox!Started, Inbox!Invalidated, Inbox!Observed, Inbox!Answered,
         Inbox!Refused, Inbox!ReadWith

\* The same for the board.
LEMMA BoardQueries ==
  ASSUME NEW x, IsQuery(x), NEW d
  PROVE  /\ \A y \in {Board!Started(x), Board!Observed(x, TRUE), Board!Answered(x), Board!Refused(x)} :
              Derived(y, x)
         /\ IsQuery(Board!ReadWith(x, d)) /\ Board!ReadWith(x, d).data = x.data /\ Board!ReadWith(x, d).read = d
  BY DEF IsQuery, Derived, Fetched, Board!Started, Board!Observed, Board!Answered, Board!Refused, Board!ReadWith

\* The same for the page of an instance; only an answer changes the data.
LEMMA InstanceQueries ==
  ASSUME NEW x, IsQuery(x), NEW d
  PROVE  /\ \A y \in {Instance!Started(x), Instance!Invalidated(x), Instance!Observed(x, TRUE),
                       Instance!Observed(x, FALSE), Instance!Answered(x), Instance!Refused(x),
                       Instance!Cancelled(x)} : Derived(y, x) /\ (y.data = x.data \/ y = Instance!Answered(x))
         /\ Instance!Answered(x).data = x.read
         /\ IsQuery(Instance!ReadWith(x, d)) /\ Instance!ReadWith(x, d).data = x.data
         /\ Instance!ReadWith(x, d).read = d
  BY DEF IsQuery, Derived, Fetched, Instance!Started, Instance!Invalidated, Instance!Observed, Instance!Answered,
         Instance!Refused, Instance!Cancelled, Instance!ReadWith

\* A query that was just made holds what it was made with.
LEMMA FirstQueries ==
  ASSUME NEW d
  PROVE  /\ \A y \in {Inbox!NewQuery(d), Board!NewQuery(d), Instance!NewQuery(d), Inbox!Started(Inbox!NewQuery(d)),
                      Board!Started(Board!NewQuery(d)), Instance!Started(Instance!NewQuery(d))} :
              IsQuery(y) /\ y.data = d /\ y.read = d /\ y.fetch # "read"
         /\ IsQuery(Dlq!Started(Dlq!NewQuery(d)))
  BY DEF IsQuery, Fetched, Inbox!NewQuery, Board!NewQuery, Instance!NewQuery, Inbox!Started, Board!Started,
         Instance!Started, Dlq!Started, Dlq!NewQuery

-----------------------------------------------------------------------------
(* Dead letters *)

LetterCalls == [kind : {"retry", "discard"}, id : Dlq!Entries, at : {"sent", "handled"}, ok : BOOLEAN]
LettersShape ==
  /\ srv \in [Dlq!Entries -> Dlq!Statuses]
  /\ DOMAIN ui = {"filter", "cursors", "asking", "shown", "sent"}
  /\ ui.shown \in [Dlq!Entries -> {"none", "retrying", "discarded"}]
  /\ ui.asking \in {0} \cup Dlq!Entries
  /\ IsQuery(q)
  /\ calls \subseteq LetterCalls

\* A discard that was accepted settled its entry, and what is settled stays so.
DiscardsSettle == \A c \in calls : c.kind = "discard" /\ c.ok => ~Dlq!Unsettled(srv[c.id])
LettersInv == LettersShape /\ DiscardsSettle /\ Dlq!DiscardShownIsReal

\* The page opens.
LEMMA LettersFirst == ASSUME Dlq!LettersInit, srv \in [Dlq!Entries -> Dlq!Statuses] PROVE LettersInv
  BY FirstQueries
  DEF Dlq!LettersInit, LettersInv, LettersShape, DiscardsSettle, Dlq!DiscardShownIsReal

\* Only the entries' statuses, what is shown of them and the calls matter.
LEMMA LettersQuiet ==
  ASSUME LettersInv, UNCHANGED <<srv, calls>>, ui'.shown = ui.shown, DOMAIN ui' = DOMAIN ui,
         ui'.asking \in {0} \cup Dlq!Entries, IsQuery(q')
  PROVE  LettersInv'
  BY DEF LettersInv, LettersShape, DiscardsSettle, Dlq!DiscardShownIsReal, IsQuery, Dlq!Entries, Dlq!Unsettled,
         LetterCalls

\* A call is sent and its status shown.
LEMMA LettersMutate ==
  ASSUME LettersInv, NEW k \in {"retry", "discard"}, NEW e \in Dlq!Entries,
         NEW s \in {"retrying", "discarded"}, s = "discarded" => k = "discard",
         Dlq!Mutate(k, e, s)
  PROVE  LettersInv'
  <1> DEFINE c == [kind |-> k, id |-> e, at |-> "sent", ok |-> FALSE]
  <1>1. /\ ui' = [ui EXCEPT !.shown[e] = s, !.sent = @ + 1, !.asking = 0]
        /\ calls' = calls \cup {c} /\ UNCHANGED <<srv, q>>
    BY DEF Dlq!Mutate
  <1>2. c \in LetterCalls /\ c.kind = k /\ c.id = e /\ c.ok = FALSE
    BY DEF LetterCalls
  <1>3. /\ DOMAIN ui' = DOMAIN ui /\ ui'.shown = [ui.shown EXCEPT ![e] = s] /\ ui'.asking = 0
    BY <1>1 DEF LettersInv, LettersShape
  <1> HIDE DEF c
  <1>4. LettersShape'
    BY <1>1, <1>2, <1>3 DEF LettersInv, LettersShape, IsQuery, LetterCalls, Dlq!Entries
  <1>5. DiscardsSettle'
    BY <1>1, <1>2 DEF LettersInv, DiscardsSettle, Dlq!Unsettled
  <1>6. Dlq!DiscardShownIsReal'
    BY <1>1, <1>2, <1>3 DEF LettersInv, LettersShape, Dlq!DiscardShownIsReal, Dlq!Entries, Dlq!Unsettled
  <1> QED
    BY <1>4, <1>5, <1>6 DEF LettersInv

\* A call is handled, by the server or somewhere on its way: entries only become settled.
LEMMA LettersHandled ==
  ASSUME LettersInv, NEW c \in calls, NEW b \in BOOLEAN, Dlq!HandleLetter(c, b)
  PROVE  LettersInv'
  <1>0. /\ c \in LetterCalls /\ ui' = ui /\ q' = q
        /\ srv \in [Dlq!Entries -> Dlq!Statuses] /\ calls \subseteq LetterCalls
    BY DEF LettersInv, LettersShape, Dlq!HandleLetter
  <1>1. PICK d \in LetterCalls :
          /\ calls' = (calls \ {c}) \cup {d} /\ d.kind = c.kind /\ d.id = c.id
          /\ \/ srv' = Dlq!Changed(c)
             \/ srv' = srv /\ d.ok = c.ok
    <2>1. \A x \in BOOLEAN : /\ [c EXCEPT !.at = "handled", !.ok = x] \in LetterCalls
                             /\ [c EXCEPT !.at = "handled", !.ok = x].kind = c.kind
                             /\ [c EXCEPT !.at = "handled", !.ok = x].id = c.id
      BY <1>0 DEF LetterCalls
    <2>2. /\ [c EXCEPT !.at = "handled"] \in LetterCalls /\ [c EXCEPT !.at = "handled"].kind = c.kind
          /\ [c EXCEPT !.at = "handled"].id = c.id /\ [c EXCEPT !.at = "handled"].ok = c.ok
      BY <1>0 DEF LetterCalls
    <2> QED
      BY <2>1, <2>2 DEF Dlq!HandleLetter
  <1>2. /\ srv' \in [Dlq!Entries -> Dlq!Statuses]
        /\ \A e \in Dlq!Entries : ~Dlq!Unsettled(srv[e]) => ~Dlq!Unsettled(srv'[e])
        /\ c.kind = "discard" /\ srv' = Dlq!Changed(c) => ~Dlq!Unsettled(srv'[c.id])
    <2>1. c.id \in Dlq!Entries /\ c.kind \in {"retry", "discard"}
      BY <1>0 DEF LetterCalls
    <2>2. Dlq!Unsettled(srv[c.id]) \/ srv' = srv
      BY DEF Dlq!HandleLetter
    <2> QED
      BY <1>0, <1>1, <2>1, <2>2 DEF Dlq!Changed, Dlq!Statuses, Dlq!Unsettled
  <1>3. LettersShape'
    BY <1>0, <1>1, <1>2 DEF LettersInv, LettersShape, IsQuery, LetterCalls, Dlq!Entries, Dlq!Statuses
  <1>4. DiscardsSettle'
    <2>1. \A x \in calls : x.id \in Dlq!Entries
      BY <1>0 DEF LetterCalls
    <2>2. c.kind = "discard" /\ c.ok => ~Dlq!Unsettled(srv[c.id])
      BY DEF LettersInv, DiscardsSettle
    <2> QED
      BY <1>1, <1>2, <2>1, <2>2 DEF LettersInv, DiscardsSettle, Dlq!Unsettled
  <1>5. Dlq!DiscardShownIsReal'
    BY <1>0, <1>1, <1>2 DEF LettersInv, Dlq!DiscardShownIsReal, Dlq!Entries, Dlq!Unsettled
  <1> QED
    BY <1>3, <1>4, <1>5 DEF LettersInv

\* An answer: what was refused is withdrawn from the screen, what was accepted is fetched again.
LEMMA LettersSettle ==
  ASSUME LettersInv, NEW c \in calls, Dlq!Settle(c)
  PROVE  LettersInv'
  <1>0. c \in LetterCalls /\ srv' = srv /\ calls' = calls \ {c} /\ c.id \in Dlq!Entries
    BY DEF LettersInv, LettersShape, Dlq!Settle, LetterCalls
  <1>1. DiscardsSettle'
    BY <1>0 DEF LettersInv, DiscardsSettle, Dlq!Unsettled
  <1>2. CASE c.ok
    <2>1. ui' = ui /\ IsQuery(q')
      BY <1>2, LetterQueries DEF LettersInv, LettersShape, Dlq!Settle
    <2>2. LettersShape'
      BY <1>0, <2>1 DEF LettersInv, LettersShape, Dlq!Entries, Dlq!Statuses, LetterCalls
    <2>3. c.kind = "discard" => ~Dlq!Unsettled(srv[c.id])
      BY <1>2 DEF LettersInv, DiscardsSettle
    <2>4. Dlq!DiscardShownIsReal'
      BY <1>0, <2>1, <2>3 DEF LettersInv, Dlq!DiscardShownIsReal, Dlq!Entries, Dlq!Unsettled
    <2> QED
      BY <1>1, <2>2, <2>4 DEF LettersInv
  <1>3. CASE ~c.ok
    <2>1. q' = q /\ ui' = [ui EXCEPT !.shown[c.id] = "none"]
      BY <1>3 DEF Dlq!Settle, Dlq!Withdraw
    <2>2. /\ DOMAIN ui' = DOMAIN ui /\ ui'.asking = ui.asking
          /\ ui'.shown = [ui.shown EXCEPT ![c.id] = "none"]
      BY <2>1 DEF LettersInv, LettersShape
    <2>3. LettersShape'
      BY <1>0, <2>1, <2>2 DEF LettersInv, LettersShape, Dlq!Entries, Dlq!Statuses, LetterCalls, IsQuery
    <2>4. Dlq!DiscardShownIsReal'
      BY <1>0, <2>2 DEF LettersInv, LettersShape, Dlq!DiscardShownIsReal, Dlq!Entries, Dlq!Unsettled
    <2> QED
      BY <1>1, <2>3, <2>4 DEF LettersInv
  <1> QED
    BY <1>2, <1>3

\* Every step of the page.
LEMMA LettersStep == ASSUME LettersInv, Dlq!LettersNext PROVE LettersInv'
  <1>0. /\ IsQuery(q) /\ DOMAIN ui = {"filter", "cursors", "asking", "shown", "sent"}
        /\ ui.asking \in {0} \cup Dlq!Entries
    BY DEF LettersInv, LettersShape
  <1>1. ASSUME NEW u, Dlq!Showing(u), DOMAIN u = DOMAIN ui, u.shown = ui.shown, u.asking = ui.asking PROVE LettersInv'
    BY <1>0, <1>1, FirstQueries, LettersQuiet DEF Dlq!Showing
  <1>2. CASE (\E f \in Dlq!Filters : Dlq!SetFilter(f)) \/ Dlq!ApplyFilters \/ Dlq!GoNext \/ Dlq!GoPrev
    <2>1. \A x : /\ DOMAIN [ui EXCEPT !.filter = x] = DOMAIN ui /\ [ui EXCEPT !.filter = x].shown = ui.shown
                 /\ [ui EXCEPT !.filter = x].asking = ui.asking
      BY <1>0
    <2>2. \A x : /\ DOMAIN [ui EXCEPT !.cursors = x] = DOMAIN ui /\ [ui EXCEPT !.cursors = x].shown = ui.shown
                 /\ [ui EXCEPT !.cursors = x].asking = ui.asking
      BY <1>0
    <2>3. \E x : Dlq!Showing([ui EXCEPT !.filter = x]) \/ Dlq!Showing([ui EXCEPT !.cursors = x])
      BY <1>2 DEF Dlq!SetFilter, Dlq!ApplyFilters, Dlq!GoNext, Dlq!GoPrev
    <2> QED
      BY <1>1, <2>1, <2>2, <2>3
  <1>3. CASE Dlq!RefetchLetters \/ Dlq!ReadLetters \/ Dlq!LettersAnswer \/ Dlq!LettersFail
    <2>1. UNCHANGED <<srv, calls, ui>> /\ IsQuery(q')
      BY <1>0, <1>3, LetterQueries DEF Dlq!RefetchLetters, Dlq!ReadLetters, Dlq!LettersAnswer, Dlq!LettersFail
    <2> QED
      BY <1>0, <2>1, LettersQuiet
  <1>4. CASE (\E e \in Dlq!Entries : Dlq!AskDiscard(e)) \/ Dlq!CancelDiscard
    <2>1. UNCHANGED <<srv, calls, q>> /\ \E e \in {0} \cup Dlq!Entries : ui' = [ui EXCEPT !.asking = e]
      BY <1>4 DEF Dlq!AskDiscard, Dlq!CancelDiscard
    <2> QED
      BY <1>0, <2>1, LettersQuiet
  <1>5. CASE (\E e \in Dlq!Entries : Dlq!Retry(e)) \/ Dlq!ConfirmDiscard
    BY <1>0, <1>5, LettersMutate DEF Dlq!Retry, Dlq!ConfirmDiscard
  <1>6. CASE \E e \in Dlq!Entries : Dlq!Elsewhere(e)
    <2>1. PICK e \in Dlq!Entries : Dlq!Elsewhere(e)
      BY <1>6
    <2>2. srv' = [srv EXCEPT ![e] = "resolved"] /\ UNCHANGED <<ui, q, calls>> /\ srv \in [Dlq!Entries -> Dlq!Statuses]
      BY <2>1 DEF Dlq!Elsewhere, LettersInv, LettersShape
    <2>3. /\ srv' \in [Dlq!Entries -> Dlq!Statuses]
          /\ \A d \in Dlq!Entries : ~Dlq!Unsettled(srv[d]) => ~Dlq!Unsettled(srv'[d])
      BY <2>2 DEF Dlq!Statuses, Dlq!Unsettled
    <2>4. \A x \in calls : x.id \in Dlq!Entries
      BY DEF LettersInv, LettersShape, LetterCalls
    <2>5. LettersShape'
      BY <2>2, <2>3 DEF LettersInv, LettersShape, Dlq!Entries, Dlq!Statuses, LetterCalls, IsQuery
    <2>6. DiscardsSettle' /\ Dlq!DiscardShownIsReal'
      BY <2>2, <2>3, <2>4 DEF LettersInv, DiscardsSettle, Dlq!DiscardShownIsReal, Dlq!Entries, Dlq!Unsettled
    <2> QED
      BY <2>5, <2>6 DEF LettersInv
  <1>7. CASE \E c \in calls : Dlq!Settle(c) \/ \E b \in BOOLEAN : Dlq!HandleLetter(c, b)
    BY <1>7, LettersSettle, LettersHandled
  <1> QED
    BY <1>2, <1>3, <1>4, <1>5, <1>6, <1>7 DEF Dlq!LettersNext

-----------------------------------------------------------------------------
(* The task inbox *)

TaskStatuses == {"PENDING", "COMPLETED", "CANCELLED"}
TaskCalls == [kind : {"complete", "claim"}, task : Tasks, values : SUBSET Tasks, at : {"sent", "handled"},
              ok : BOOLEAN, mount : BOOLEAN]

\* The form of the panel holds what was typed for its own task.
PanelForm ==
  /\ DOMAIN ui = {"task", "values", "sent", "done"}
  /\ ui.task \in Tasks \cup {"none"} /\ ui.values \subseteq Tasks \cap {ui.task}
PanelQuery(p) ==
  /\ DOMAIN p = {"inbox", "detail"} /\ p.inbox \subseteq Tasks
  /\ IsQuery(p.detail) /\ p.detail.data \in TaskStatuses /\ p.detail.read \in TaskStatuses
Posted == calls \subseteq TaskCalls /\ Inbox!FormsStayApart
TasksInv == srv \in [Tasks -> TaskStatuses] /\ PanelForm /\ PanelQuery(q) /\ Posted

\* Only the queries change, or what the page remembers of its own answers.
LEMMA TasksQuiet ==
  ASSUME TasksInv, PanelQuery(q'), calls' = calls, srv' = srv, ui' = ui \/ \E d : ui' = [ui EXCEPT !.done = d]
  PROVE  TasksInv'
  BY DEF TasksInv, PanelForm, PanelQuery, Posted, Inbox!FormsStayApart

\* A changed detail query is a query.
LEMMA DetailForms ==
  ASSUME PanelQuery(q), NEW y, IsQuery(y), y.data \in TaskStatuses, y.read \in TaskStatuses
  PROVE  PanelQuery([q EXCEPT !.detail = y])
  BY DEF PanelQuery

\* Calls lose their mount, move on or go: none changes what it carries.
LEMMA PostsKeep ==
  ASSUME Posted, calls' \subseteq TaskCalls,
         \A d \in calls' : \E c \in calls : d.kind = c.kind /\ d.task = c.task /\ d.values = c.values
  PROVE  Posted'
  BY DEF Posted, Inbox!FormsStayApart

\* The page opens with no task selected.
LEMMA TasksFirst == ASSUME Inbox!TasksInit PROVE TasksInv
  BY FirstQueries DEF Inbox!TasksInit, Inbox!Fresh, Inbox!NoValues, TasksInv, PanelForm, PanelQuery, Posted,
     TaskStatuses, Inbox!FormsStayApart

\* Selecting a task, closing the panel and typing into its form.
LEMMA PanelKeeps ==
  ASSUME TasksInv, (\E t \in Tasks : Inbox!SelectTask(t)) \/ Inbox!ClosePane \/ Inbox!SetFieldValue
  PROVE  TasksInv'
  <1>0. PanelForm /\ PanelQuery(q) /\ Posted /\ srv \in [Tasks -> TaskStatuses] /\ srv' = srv
    BY DEF TasksInv, Inbox!SelectTask, Inbox!ClosePane, Inbox!SetFieldValue
  <1>1. CASE (\E t \in Tasks : Inbox!SelectTask(t)) \/ Inbox!ClosePane
    <2>1. PanelQuery([q EXCEPT !.detail = Inbox!Fresh])
      BY <1>0, FirstQueries, DetailForms DEF Inbox!Fresh, TaskStatuses
    <2>2. q' = [q EXCEPT !.detail = Inbox!Fresh] /\ calls' = Inbox!Forget(calls)
      BY <1>1 DEF Inbox!SelectTask, Inbox!ClosePane
    <2>3. \E t \in Tasks \cup {"none"} : ui' = [ui EXCEPT !.task = t, !.values = {}]
      BY <1>1 DEF Inbox!SelectTask, Inbox!ClosePane, Inbox!NoValues
    <2>4. PanelForm'
      BY <1>0, <2>3 DEF PanelForm
    <2>5. Posted'
      <3>1. \A d \in calls' :
              d \in TaskCalls /\ \E c \in calls : d.kind = c.kind /\ d.task = c.task /\ d.values = c.values
        BY <1>0, <2>2 DEF Posted, Inbox!Forget, TaskCalls
      <3> QED
        BY <1>0, <3>1, PostsKeep
    <2> QED
      BY <1>0, <2>1, <2>2, <2>4, <2>5 DEF TasksInv, PanelQuery
  <1>2. CASE Inbox!SetFieldValue
    <2>1. ui' = [ui EXCEPT !.values = ui.values \cup {ui.task}] /\ UNCHANGED <<q, calls>> /\ ui.task \in Tasks
      BY <1>2 DEF Inbox!SetFieldValue, Inbox!PaneShown, Inbox!Pane
    <2> QED
      BY <1>0, <2>1 DEF TasksInv, PanelForm, PanelQuery, Posted, Inbox!FormsStayApart
  <1> QED
    BY <1>1, <1>2

\* What is posted carries the form of the panel.
LEMMA PostKeeps ==
  ASSUME TasksInv, NEW t \in Tasks, Inbox!Complete(t) \/ Inbox!Claim(t)
  PROVE  TasksInv'
  <1> DEFINE call(k) == [kind |-> k, task |-> t, values |-> ui.values, at |-> "sent", ok |-> FALSE, mount |-> TRUE]
  <1>0. PanelForm /\ PanelQuery(q) /\ Posted /\ ui.task = t
    BY DEF TasksInv, Inbox!Complete, Inbox!Claim, Inbox!MayComplete, Inbox!MayClaim, Inbox!Pane
  <1>1. PICK k \in {"complete", "claim"} : Inbox!Post(k, t)
    BY DEF Inbox!Complete, Inbox!Claim
  <1>2. /\ UNCHANGED <<srv, q>> /\ ui' = [ui EXCEPT !.sent = ui.sent + 1] /\ calls' = calls \cup {call(k)}
    BY <1>1 DEF Inbox!Post
  <1>3. call(k) \in TaskCalls /\ call(k).values \subseteq {call(k).task}
    BY <1>0 DEF PanelForm, TaskCalls
  <1> HIDE DEF call
  <1>4. Posted'
    BY <1>0, <1>2, <1>3 DEF Posted, Inbox!FormsStayApart
  <1>5. PanelForm'
    BY <1>0, <1>2 DEF PanelForm
  <1> QED
    BY <1>2, <1>4, <1>5 DEF TasksInv, PanelQuery

\* Calls are answered at the server, and at the page.
LEMMA PostsAnswered ==
  ASSUME TasksInv, NEW c \in calls,
         Inbox!TaskAnswered(c) \/ Inbox!TaskRefused(c) \/ \E b \in BOOLEAN : Inbox!CompletionHandled(c, b)
  PROVE  TasksInv'
  <1>0. PanelForm /\ PanelQuery(q) /\ Posted /\ c \in TaskCalls /\ srv \in [Tasks -> TaskStatuses]
    BY DEF TasksInv, Posted
  <1>1. CASE Inbox!TaskAnswered(c)
    <2>1. srv' = srv /\ calls' = calls \ {c} /\ q' \in {q, Inbox!InvalidateTask(c.task)}
          /\ \E d : ui' \in {ui, [ui EXCEPT !.done = d]}
      BY <1>1 DEF Inbox!TaskAnswered
    <2>2. PanelQuery(Inbox!InvalidateTask(c.task))
      <3>1. LET y == Inbox!Invalidated(q.detail)
            IN IsQuery(y) /\ y.data \in TaskStatuses /\ y.read \in TaskStatuses
        BY <1>0, TaskQueries DEF PanelQuery, Derived
      <3>2. Inbox!InvalidateTask(c.task)
              \in {[q EXCEPT !.detail = Inbox!Invalidated(q.detail)], [q EXCEPT !.detail = q.detail]}
        BY DEF Inbox!InvalidateTask
      <3>3. IsQuery(q.detail) /\ q.detail.data \in TaskStatuses /\ q.detail.read \in TaskStatuses
        BY <1>0 DEF PanelQuery
      <3> QED
        BY <1>0, <3>1, <3>2, <3>3, DetailForms
    <2>3. PanelQuery(q)'
      BY <1>0, <2>1, <2>2 DEF PanelQuery
    <2>4. Posted' /\ PanelForm'
      BY <1>0, <2>1 DEF Posted, PanelForm, Inbox!FormsStayApart
    <2> QED
      BY <1>0, <2>1, <2>3, <2>4 DEF TasksInv
  <1>2. CASE Inbox!TaskRefused(c) \/ \E b \in BOOLEAN : Inbox!CompletionHandled(c, b)
    <2>1. UNCHANGED <<ui, q>> /\ srv' \in [Tasks -> TaskStatuses]
      BY <1>0, <1>2 DEF Inbox!TaskRefused, Inbox!CompletionHandled, TaskStatuses
    <2>2. PICK d \in TaskCalls :
            calls' = (calls \ {c}) \cup {d} /\ d.kind = c.kind /\ d.task = c.task /\ d.values = c.values
      <3>1. \A b \in BOOLEAN : LET d == [c EXCEPT !.at = "handled", !.ok = b]
                               IN d \in TaskCalls /\ d.kind = c.kind /\ d.task = c.task /\ d.values = c.values
        BY <1>0 DEF TaskCalls
      <3>2. LET d == [c EXCEPT !.at = "handled"]
            IN d \in TaskCalls /\ d.kind = c.kind /\ d.task = c.task /\ d.values = c.values
        BY <1>0 DEF TaskCalls
      <3> QED
        BY <1>2, <3>1, <3>2 DEF Inbox!TaskRefused, Inbox!CompletionHandled
    <2>3. Posted'
      BY <1>0, <2>2, PostsKeep DEF Posted
    <2> QED
      BY <1>0, <2>1, <2>3 DEF TasksInv, PanelForm, PanelQuery
  <1> QED
    BY <1>1, <1>2

\* Every step of the page: fetches, polls and ends of tasks besides those above.
LEMMA TasksStep == ASSUME TasksInv, Inbox!TasksNext PROVE TasksInv'
  <1>0. PanelForm /\ PanelQuery(q) /\ Posted /\ srv \in [Tasks -> TaskStatuses]
        /\ IsQuery(q.detail) /\ q.detail.data \in TaskStatuses /\ q.detail.read \in TaskStatuses
    BY DEF TasksInv, PanelQuery
  <1>1. CASE Inbox!RefocusTask \/ Inbox!ReadTask \/ \E ok \in BOOLEAN : Inbox!DetailAnswered(ok)
    <2> DEFINE Good(y) == IsQuery(y) /\ y.data \in TaskStatuses /\ y.read \in TaskStatuses
    <2>1. Good(Inbox!Observed(q.detail, TRUE)) /\ Good(Inbox!Answered(q.detail)) /\ Good(Inbox!Refused(q.detail))
      BY <1>0, TaskQueries DEF Derived
    <2>2. ASSUME ui.task \in Tasks PROVE Good(Inbox!ReadWith(q.detail, srv[ui.task]))
      <3>1. srv[ui.task] \in TaskStatuses
        BY <1>0, <2>2
      <3> QED
        BY <1>0, <3>1, TaskQueries
    <2> HIDE DEF Good
    <2>3. UNCHANGED <<srv, ui, calls>> /\ \E y : Good(y) /\ q' = [q EXCEPT !.detail = y]
      BY <1>1, <2>1, <2>2 DEF Inbox!RefocusTask, Inbox!ReadTask, Inbox!DetailAnswered, Inbox!Pane
    <2> USE DEF Good
    <2> QED
      BY <1>0, <2>3, DetailForms, TasksQuiet
  <1>2. CASE \E ok \in BOOLEAN : Inbox!PollInbox(ok)
    <2>1. UNCHANGED <<srv, ui, calls>> /\ \E s \in SUBSET Tasks : q' = [q EXCEPT !.inbox = s]
      BY <1>2 DEF Inbox!PollInbox
    <2>2. PanelQuery(q')
      BY <1>0, <2>1 DEF PanelQuery
    <2> QED
      BY <2>1, <2>2, TasksQuiet
  <1>3. CASE \E t \in Tasks, s \in {"COMPLETED", "CANCELLED"} : Inbox!TaskEnds(t, s)
    <2>1. srv' \in [Tasks -> TaskStatuses] /\ UNCHANGED <<ui, q, calls>>
      BY <1>0, <1>3 DEF Inbox!TaskEnds, TaskStatuses
    <2> QED
      BY <1>0, <2>1 DEF TasksInv, PanelForm, PanelQuery, Posted, Inbox!FormsStayApart
  <1> QED
    BY <1>1, <1>2, <1>3, PanelKeeps, PostKeeps, PostsAnswered DEF Inbox!TasksNext

-----------------------------------------------------------------------------
(* The instance board *)

\* The version of the URL's filter is one of the definition its text names.
FilterFits(u) ==
  /\ DOMAIN u = {"at", "text", "def", "show", "name", "sent"}
  /\ u.text \in DOMAIN Like /\ u.name \in DOMAIN Like /\ u.def \in Versions \cup {"none"}
  /\ u.def # "none" => NameOf[u.def] = u.text
ItemsQuery(p) ==
  /\ DOMAIN p = {"items", "detail"} /\ IsQuery(p.items)
  /\ p.items.data \subseteq Versions /\ p.items.read \subseteq Versions
BoardInv == srv \subseteq Versions /\ FilterFits(ui) /\ ItemsQuery(q)

\* What is derived for the dialog is a version of the definition named in it.
LEMMA StartFits ==
  ASSUME NEW u, NEW p, FilterFits(u), ItemsQuery(p)
  PROVE  /\ Board!StartId(u, p) \in Versions \cup {"none"}
         /\ Board!StartId(u, p) # "none" => NameOf[Board!StartId(u, p)] = u.name
         /\ Board!Matched(u, p) # {} => Board!StartId(u, p) \in Versions /\ NameOf[Board!StartId(u, p)] = u.name
  <1>1. Board!Matched(u, p) \subseteq Versions /\ \A d \in Board!Matched(u, p) : NameOf[d] = u.name
    BY DEF ItemsQuery, Board!Matched
  <1>2. Board!Matched(u, p) # {} => Board!StartId(u, p) \in Board!Matched(u, p)
    BY DEF Board!StartId
  <1>3. Board!Matched(u, p) = {} => Board!StartId(u, p) = (IF u.name = u.text THEN u.def ELSE "none")
    BY DEF Board!StartId
  <1> QED
    BY <1>1, <1>2, <1>3 DEF FilterFits

\* A new typeahead lists nothing.
LEMMA TypeaheadForms == IsQuery(Board!Typeahead) /\ Board!Typeahead.data = {} /\ Board!Typeahead.read = {}
  BY FirstQueries DEF Board!Typeahead

\* The queries follow the filter, and a render may move the filter to what the dialog names.
LEMMA KeyedForms ==
  ASSUME NEW p, ItemsQuery(p), NEW u, NEW text, NEW def
  PROVE  ItemsQuery(Board!Keyed(p, u, text, def))
  <1>1. Board!Keyed(p, u, text, def).items \in {p.items, Board!Typeahead}
        /\ DOMAIN Board!Keyed(p, u, text, def) = {"items", "detail"}
    BY DEF Board!Keyed
  <1> HIDE DEF Board!Keyed
  <1> QED
    BY <1>1, TypeaheadForms DEF ItemsQuery

\* A render leaves the filter fitting, whether or not it follows the dialog.
LEMMA RenderedKeeps ==
  ASSUME NEW u, NEW p, FilterFits(u), ItemsQuery(p), Board!Rendered(u, p)
  PROVE  FilterFits(ui') /\ ItemsQuery(q')
  <1>1. CASE Board!Follows(u, p)
    <2>1. Board!StartId(u, p) \in Versions /\ NameOf[Board!StartId(u, p)] = u.name
      BY <1>1, StartFits DEF Board!Follows
    <2>2. ui' = [u EXCEPT !.text = u.name, !.def = Board!StartId(u, p)]
          /\ q' = Board!Keyed(p, u, u.name, Board!StartId(u, p))
      BY <1>1 DEF Board!Rendered
    <2>3. FilterFits(ui')
      BY <2>1, <2>2 DEF FilterFits
    <2> QED
      BY <2>2, <2>3, KeyedForms
  <1>2. CASE ~Board!Follows(u, p)
    BY <1>2 DEF Board!Rendered
  <1> QED
    BY <1>1, <1>2

\* A filter whose version has its text may be set.
LEMMA FilterKeeps ==
  ASSUME BoardInv, NEW text \in DOMAIN Like, NEW def \in Versions \cup {"none"},
         def # "none" => NameOf[def] = text, Board!Filter(text, def)
  PROVE  BoardInv'
  <1> DEFINE u == [ui EXCEPT !.text = text, !.def = def]
             p == Board!Keyed(q, ui, text, def)
  <1>1. FilterFits(u)
    BY DEF BoardInv, FilterFits
  <1>2. ItemsQuery(p)
    BY KeyedForms DEF BoardInv
  <1>3. Board!Rendered(u, p) /\ srv' = srv
    BY DEF Board!Filter
  <1> HIDE DEF u, p
  <1>4. FilterFits(ui') /\ ItemsQuery(q')
    BY <1>1, <1>2, <1>3, RenderedKeeps
  <1> QED
    BY <1>3, <1>4 DEF BoardInv, FilterFits, ItemsQuery

\* The page opens with an empty filter.
LEMMA BoardFirst == ASSUME Board!BoardInit PROVE BoardInv
  BY TypeaheadForms, WorkbenchAssumption DEF Board!BoardInit, Board!Closed, BoardInv, FilterFits, ItemsQuery

\* The filter: typed, resolved or linked to.
LEMMA FiltersKeep ==
  ASSUME BoardInv,
         \/ \E t \in Board!Texts : Board!TypeFilter(t)
         \/ \E d \in Versions \cup {"none"} : Board!FollowLink(d)
         \/ Board!ResolveFilter
  PROVE  BoardInv'
  <1>0. FilterFits(ui) /\ q.items.data \subseteq Versions
    BY DEF BoardInv, ItemsQuery
  <1>1. \E text \in DOMAIN Like, def \in Versions \cup {"none"} :
          (def # "none" => NameOf[def] = text) /\ Board!Filter(text, def)
    <2>1. CASE \E t \in Board!Texts : Board!TypeFilter(t)
      BY <2>1 DEF Board!TypeFilter, Board!Texts
    <2>2. CASE \E d \in Versions \cup {"none"} : Board!FollowLink(d)
      BY <2>2, WorkbenchAssumption DEF Board!FollowLink
    <2>3. CASE Board!ResolveFilter
      BY <1>0, <2>3 DEF Board!ResolveFilter, FilterFits
    <2> QED
      BY <2>1, <2>2, <2>3
  <1> QED
    BY <1>1, FilterKeeps

\* The dialog, and the answers to its queries.
LEMMA DialogKeeps ==
  ASSUME BoardInv,
         \/ \E t \in Board!Texts : Board!TypeName(t)
         \/ Board!OpenStart
         \/ \E ok \in BOOLEAN : Board!ItemsAnswered(ok)
  PROVE  BoardInv'
  <1>0. srv \subseteq Versions /\ FilterFits(ui) /\ ItemsQuery(q) /\ srv' = srv
    BY DEF BoardInv, Board!TypeName, Board!OpenStart, Board!ItemsAnswered
  <1>1. ASSUME NEW u, NEW p, FilterFits(u), ItemsQuery(p), Board!Rendered(u, p) PROVE BoardInv'
    <2>1. FilterFits(ui') /\ ItemsQuery(q')
      BY <1>1, RenderedKeeps
    <2> QED
      BY <1>0, <2>1 DEF BoardInv, FilterFits, ItemsQuery
  <1>2. CASE \E t \in Board!Texts : Board!TypeName(t)
    <2>1. PICK t \in DOMAIN Like : Board!Rendered([ui EXCEPT !.name = t], q)
      BY <1>2 DEF Board!TypeName, Board!Texts
    <2>2. FilterFits([ui EXCEPT !.name = t])
      BY <1>0 DEF FilterFits
    <2> QED
      BY <1>0, <1>1, <2>1, <2>2
  <1>3. CASE Board!OpenStart
    <2>1. FilterFits([ui EXCEPT !.show = TRUE, !.name = ui.text])
      BY <1>0 DEF FilterFits
    <2> QED
      BY <1>0, <1>1, <1>3, <2>1 DEF Board!OpenStart
  <1>4. CASE \E ok \in BOOLEAN : Board!ItemsAnswered(ok)
    <2> DEFINE found == {d \in srv : NameOf[d] \in Like[ui.text]}
               told == Board!ReadWith(q.items, found)
    <2>1. IsQuery(told) /\ told.data \subseteq Versions /\ told.read \subseteq Versions
      BY <1>0, BoardQueries DEF ItemsQuery
    <2> HIDE DEF told
    <2>2. \A y \in {Board!Answered(told), Board!Refused(q.items)} :
            IsQuery(y) /\ y.data \subseteq Versions /\ y.read \subseteq Versions
      <3>1. Derived(Board!Answered(told), told)
        BY <2>1, BoardQueries
      <3>2. Derived(Board!Refused(q.items), q.items)
        BY <1>0, BoardQueries DEF ItemsQuery
      <3> QED
        BY <1>0, <2>1, <3>1, <3>2 DEF ItemsQuery, Derived
    <2>3. \A y \in {Board!Answered(told), Board!Refused(q.items)} : ItemsQuery([q EXCEPT !.items = y])
      BY <1>0, <2>2 DEF ItemsQuery
    <2>4. \E y \in {Board!Answered(told), Board!Refused(q.items)} : Board!Rendered(ui, [q EXCEPT !.items = y])
      BY <1>4 DEF Board!ItemsAnswered, told
    <2> QED
      BY <1>0, <1>1, <2>3, <2>4
  <1> QED
    BY <1>2, <1>3, <1>4

\* Leaving, coming back, a start on its way, a version that is activated, a focus.
LEMMA BoardQuiet ==
  ASSUME BoardInv,
         \/ \E d \in Versions : Board!ActivateVersion(d)
         \/ Board!CloseStart \/ Board!SubmitStart \/ Board!LeaveBoard \/ Board!ReturnToBoard \/ Board!RefocusBoard
         \/ \E c \in calls : \/ Board!StartRefused(c) \/ Board!StartAccepted(c)
                             \/ Board!ListRefetched(c) \/ Board!OpenStarted(c)
         \/ \E b \in BOOLEAN : Board!DetailRead(b)
  PROVE  BoardInv'
  <1>0. srv \subseteq Versions /\ FilterFits(ui) /\ ItemsQuery(q) /\ IsQuery(q.items)
    BY DEF BoardInv, ItemsQuery
  <1>1. srv' \subseteq Versions
    BY <1>0 DEF Board!ActivateVersion, Board!CloseStart, Board!SubmitStart, Board!LeaveBoard, Board!ReturnToBoard,
       Board!RefocusBoard, Board!StartRefused, Board!StartAccepted, Board!ListRefetched, Board!OpenStarted,
       Board!DetailRead, Board!Moved
  <1>2. FilterFits(ui')
    <2>1. /\ FilterFits([Board!Closed EXCEPT !.at = "away", !.sent = ui.sent])
          /\ FilterFits([Board!Closed EXCEPT !.at = "instance", !.sent = ui.sent])
      BY WorkbenchAssumption DEF Board!Closed, FilterFits
    <2>2. \A x : /\ FilterFits([ui EXCEPT !.show = x]) /\ FilterFits([ui EXCEPT !.sent = x])
                 /\ FilterFits([ui EXCEPT !.at = x])
      BY <1>0 DEF FilterFits
    <2>3. CASE Board!CloseStart \/ Board!SubmitStart \/ Board!ReturnToBoard
      <3>1. \E x : ui' \in {[ui EXCEPT !.show = x], [ui EXCEPT !.sent = x], [ui EXCEPT !.at = x]}
        BY <2>3 DEF Board!CloseStart, Board!SubmitStart, Board!ReturnToBoard
      <3> QED
        BY <2>2, <3>1
    <2>4. CASE Board!LeaveBoard \/ \E c \in calls : Board!OpenStarted(c)
      <3>1. \/ ui' = [Board!Closed EXCEPT !.at = "away", !.sent = ui.sent]
            \/ ui' = [Board!Closed EXCEPT !.at = "instance", !.sent = ui.sent]
        <4> HIDE DEF Board!Closed
        <4> QED
          BY <2>4 DEF Board!LeaveBoard, Board!OpenStarted
      <3> QED
        BY <2>1, <3>1
    <2>5. CASE ui' = ui
      BY <1>0, <2>5
    <2>6. \/ Board!CloseStart \/ Board!SubmitStart \/ Board!ReturnToBoard \/ Board!LeaveBoard
          \/ (\E c \in calls : Board!OpenStarted(c)) \/ ui' = ui
      BY DEF Board!ActivateVersion, Board!RefocusBoard, Board!StartRefused, Board!StartAccepted,
         Board!ListRefetched, Board!DetailRead, Board!Moved
    <2> QED
      BY <2>3, <2>4, <2>5, <2>6
  <1>3. ItemsQuery(q')
    <2>1. \A x : /\ ItemsQuery([q EXCEPT !.detail = x]) /\ ItemsQuery([items |-> Board!Typeahead, detail |-> x])
                 /\ ItemsQuery([items |-> Board!Observed(q.items, TRUE), detail |-> x])
      <3>1. LET y == Board!Observed(q.items, TRUE)
            IN IsQuery(y) /\ y.data \subseteq Versions /\ y.read \subseteq Versions
        BY <1>0, BoardQueries DEF ItemsQuery, Derived
      <3> QED
        BY <1>0, <3>1, TypeaheadForms DEF ItemsQuery
    <2>2. \/ q' = q
          \/ \E x : q' \in {[q EXCEPT !.detail = x], [items |-> Board!Typeahead, detail |-> x],
                            [items |-> Board!Observed(q.items, TRUE), detail |-> x]}
      BY DEF Board!ActivateVersion, Board!CloseStart, Board!SubmitStart, Board!LeaveBoard, Board!ReturnToBoard,
       Board!RefocusBoard, Board!StartRefused, Board!StartAccepted, Board!ListRefetched, Board!OpenStarted,
       Board!DetailRead, Board!Moved
    <2> QED
      BY <1>0, <2>1, <2>2
  <1> QED
    BY <1>1, <1>2, <1>3 DEF BoardInv, FilterFits, ItemsQuery

\* Every step of the page.
LEMMA BoardStep == ASSUME BoardInv, Board!BoardNext PROVE BoardInv'
  BY FiltersKeep, DialogKeeps, BoardQuiet DEF Board!BoardNext

-----------------------------------------------------------------------------
(* The page of an instance *)

InstanceStates == {"ACTIVE", "COMPLETED", "CANCELLED"}
CancelCalls == [previous : InstanceStates, at : {"sent", "handled"}, ok : BOOLEAN]
InstanceShape ==
  /\ srv \in [status : InstanceStates, events : 1..MaxEvents]
  /\ DOMAIN ui = {"dialog", "sent", "asked", "cursor", "applied", "items"}
  /\ DOMAIN q = {"detail", "timeline"}

\* What the server said of a cancellation, and what it said before one, is so.
Asked == calls \subseteq CancelCalls /\ \A c \in calls : c.ok \/ c.previous = "CANCELLED" => srv.status = "CANCELLED"
DetailQuery(x) ==
  /\ IsQuery(x) /\ x.data \in InstanceStates /\ x.read \in InstanceStates
  /\ x.fetch = "read" /\ x.read = "CANCELLED" => srv.status = "CANCELLED"
CancelInv == InstanceShape /\ Asked /\ DetailQuery(q.detail) /\ Instance!CancelShownIsReal

\* The next cursor is one page further, and there are entries after it.
NextFits(n) == n = 0 \/ (n = ui.cursor + PageSize /\ n < srv.events)
\* The entries collected, of this cursor's page at the latest.
Collected ==
  /\ ui.cursor \in 0 .. srv.events /\ ui.items \in Seq(Nat)
  /\ \A i \in 1 .. Len(ui.items) :
       ui.items[i] \in 1 .. srv.events /\ ui.items[i] <= ui.cursor + (IF ui.applied THEN PageSize ELSE 0)
  /\ \A i, j \in 1 .. Len(ui.items) : i < j => ui.items[i] < ui.items[j]
TimelineQuery(x) == IsQuery(x) /\ NextFits(x.data.next) /\ NextFits(x.read.next)
TimelineInv == Collected /\ TimelineQuery(q.timeline)

\* The status on the screen is what it was, or what was read.
LEMMA DetailKeeps ==
  ASSUME CancelInv, srv' = srv, calls' = calls, DOMAIN ui' = DOMAIN ui, DOMAIN q' = DOMAIN q,
         DetailQuery(q'.detail),
         q'.detail.data = q.detail.data \/ (q.detail.fetch = "read" /\ q'.detail.data = q.detail.read)
  PROVE  CancelInv'
  BY DEF CancelInv, InstanceShape, Asked, DetailQuery, Instance!CancelShownIsReal, Instance!Cancelling, IsQuery

\* Nothing happens to the timeline, but that its query fetches.
LEMMA TimelineKeeps ==
  ASSUME TimelineInv, srv'.events = srv.events, ui'.cursor = ui.cursor, ui'.applied = ui.applied,
         ui'.items = ui.items, q'.timeline = q.timeline \/ Derived(q'.timeline, q.timeline)
  PROVE  TimelineInv'
  <1>1. TimelineQuery(q.timeline)'
    BY DEF TimelineInv, TimelineQuery, NextFits, IsQuery, Derived
  <1> QED
    BY <1>1 DEF TimelineInv, Collected

\* The numbers of the assumption.
LEMMA PageNumbers == PageSize \in Nat \ {0} /\ MaxEvents \in Nat
  BY WorkbenchAssumption

\* The page opens.
LEMMA InstanceFirst == ASSUME Instance!PageInit PROVE CancelInv /\ TimelineInv
  <1>1. /\ q.detail = Instance!Started(Instance!NewQuery("ACTIVE"))
        /\ q.timeline = Instance!NewQuery(Instance!NoPage) /\ DOMAIN q = {"detail", "timeline"}
    BY DEF Instance!PageInit
  <1>2. IsQuery(q.detail) /\ q.detail.data = "ACTIVE" /\ q.detail.read = "ACTIVE"
    BY <1>1, FirstQueries
  <1>3. IsQuery(q.timeline) /\ q.timeline.data = Instance!NoPage /\ q.timeline.read = Instance!NoPage
    BY <1>1, FirstQueries
  <1>4. srv.events \in 1..MaxEvents /\ srv.status \in InstanceStates
        /\ srv \in [status : InstanceStates, events : 1..MaxEvents] /\ calls = {}
    BY DEF Instance!PageInit, Instance!Ended, InstanceStates
  <1>5. /\ DOMAIN ui = {"dialog", "sent", "asked", "cursor", "applied", "items"}
        /\ ui.cursor = 0 /\ ui.applied = FALSE /\ ui.items = <<>>
    BY DEF Instance!PageInit
  <1>6. CancelInv
    BY <1>1, <1>2, <1>4, <1>5 DEF CancelInv, InstanceShape, Asked, DetailQuery, Instance!CancelShownIsReal,
       InstanceStates
  <1>7. Instance!NoPage.next = 0
    BY DEF Instance!NoPage
  <1>8. TimelineQuery(q.timeline)
    BY <1>3, <1>7 DEF TimelineQuery, NextFits
  <1>9. ui.items \in Seq(Nat) /\ Len(ui.items) = 0 /\ ui.cursor \in 0 .. srv.events
    <2>1. ui.items \in Seq(Nat) /\ Len(ui.items) = 0
      BY <1>5
    <2> QED
      BY <1>4, <1>5, <2>1, PageNumbers
  <1>10. TimelineInv
    BY <1>8, <1>9 DEF TimelineInv, Collected
  <1> QED
    BY <1>6, <1>10

\* The detail query fetches and is answered, the dialog opens and closes.
LEMMA DetailSteps ==
  ASSUME CancelInv, TimelineInv,
         \/ Instance!PollInstance \/ Instance!RetryDetail \/ Instance!AskCancel \/ Instance!CloseCancel
         \/ Instance!ReadInstance \/ \E ok \in BOOLEAN : Instance!InstanceAnswered(ok)
  PROVE  CancelInv' /\ TimelineInv'
  <1>0. /\ IsQuery(q.detail) /\ q.detail.data \in InstanceStates /\ q.detail.read \in InstanceStates
        /\ DetailQuery(q.detail) /\ srv.status \in InstanceStates
        /\ DOMAIN ui = {"dialog", "sent", "asked", "cursor", "applied", "items"} /\ DOMAIN q = {"detail", "timeline"}
        /\ srv' = srv /\ calls' = calls
    BY DEF CancelInv, InstanceShape, DetailQuery, Instance!PollInstance, Instance!RetryDetail, Instance!AskCancel,
       Instance!CloseCancel, Instance!ReadInstance, Instance!InstanceAnswered
  <1>1. CASE Instance!AskCancel \/ Instance!CloseCancel
    <2>1. q' = q /\ \E b \in BOOLEAN : ui' = [ui EXCEPT !.dialog = b]
      BY <1>1 DEF Instance!AskCancel, Instance!CloseCancel
    <2> QED
      BY <1>0, <2>1, DetailKeeps, TimelineKeeps
  <1>2. ASSUME NEW y, ui' = ui, q' = [q EXCEPT !.detail = y], DetailQuery(y),
               y.data = q.detail.data \/ (q.detail.fetch = "read" /\ y.data = q.detail.read)
        PROVE  CancelInv' /\ TimelineInv'
    <2>1. q'.detail = y /\ q'.timeline = q.timeline /\ DOMAIN q' = DOMAIN q
      BY <1>0, <1>2
    <2> QED
      BY <1>0, <1>2, <2>1, DetailKeeps, TimelineKeeps
  <1>3. CASE Instance!PollInstance \/ Instance!RetryDetail
    <2>1. ui' = ui /\ \E y \in {Instance!Invalidated(q.detail), Instance!Observed(q.detail, FALSE)} :
                        q' = [q EXCEPT !.detail = y]
      BY <1>3 DEF Instance!PollInstance, Instance!RetryDetail
    <2>2. \A y \in {Instance!Invalidated(q.detail), Instance!Observed(q.detail, FALSE)} :
            DetailQuery(y) /\ y.data = q.detail.data
      <3>1. /\ Instance!Invalidated(q.detail).data = q.detail.data
            /\ Instance!Observed(q.detail, FALSE).data = q.detail.data
        BY <1>0 DEF Instance!Invalidated, Instance!Observed, Instance!Started, IsQuery, Fetched
      <3>2. Derived(Instance!Invalidated(q.detail), q.detail) /\ Derived(Instance!Observed(q.detail, FALSE), q.detail)
        BY <1>0, InstanceQueries
      <3> QED
        BY <1>0, <3>1, <3>2 DEF DetailQuery, Derived
    <2> QED
      BY <1>2, <2>1, <2>2
  <1>4. CASE Instance!ReadInstance
    <2> DEFINE y == Instance!ReadWith(q.detail, srv.status)
    <2>1. DetailQuery(y) /\ y.data = q.detail.data
      BY <1>0, InstanceQueries DEF DetailQuery
    <2> HIDE DEF y
    <2>2. ui' = ui /\ q' = [q EXCEPT !.detail = y]
      BY <1>4 DEF Instance!ReadInstance, y
    <2> QED
      BY <1>2, <2>1, <2>2
  <1>5. CASE \E ok \in BOOLEAN : Instance!InstanceAnswered(ok)
    <2>1. /\ q.detail.fetch = "read" /\ ui' = ui
          /\ \E y \in {Instance!Answered(q.detail), Instance!Refused(q.detail)} : q' = [q EXCEPT !.detail = y]
      BY <1>5 DEF Instance!InstanceAnswered
    <2>2. \A y \in {Instance!Answered(q.detail), Instance!Refused(q.detail)} :
            DetailQuery(y) /\ y.data \in {q.detail.data, q.detail.read}
      <3>1. Derived(Instance!Answered(q.detail), q.detail) /\ Derived(Instance!Refused(q.detail), q.detail)
        BY <1>0, InstanceQueries
      <3> QED
        BY <1>0, <3>1 DEF DetailQuery, Derived
    <2> QED
      BY <1>2, <2>1, <2>2
  <1> QED
    BY <1>1, <1>3, <1>4, <1>5

\* A cancellation is confirmed: what is shown is what is asked for.
LEMMA ConfirmKeeps == ASSUME CancelInv, TimelineInv, Instance!ConfirmCancel PROVE CancelInv' /\ TimelineInv'
  <1> DEFINE x == Instance!Cancelled(q.detail)
             y == [x EXCEPT !.data = "CANCELLED"]
             call == [previous |-> q.detail.data, at |-> "sent", ok |-> FALSE]
  <1>0. /\ IsQuery(q.detail) /\ q.detail.data \in InstanceStates /\ q.detail.read \in InstanceStates
        /\ DetailQuery(q.detail) /\ InstanceShape /\ srv' = srv
    BY DEF CancelInv, DetailQuery, Instance!ConfirmCancel
  <1>1. /\ ui' = [ui EXCEPT !.dialog = FALSE, !.sent = ui.sent + 1] /\ calls' = {call} /\ q' = [q EXCEPT !.detail = y]
        /\ ~Instance!Cancelling
    BY DEF Instance!ConfirmCancel
  <1>2. Derived(x, q.detail)
    BY <1>0, InstanceQueries
  <1> HIDE DEF x
  <1>3. DetailQuery(y) /\ y.data = "CANCELLED"
    BY <1>0, <1>2 DEF DetailQuery, Derived, IsQuery, Fetched, InstanceStates
  <1>4. call \in CancelCalls /\ call.at = "sent" /\ call.ok = FALSE
        /\ (call.previous = "CANCELLED" => srv.status = "CANCELLED")
    BY <1>0, <1>1 DEF CancelCalls, CancelInv, Instance!CancelShownIsReal
  <1> HIDE DEF y, call
  <1>5. /\ DOMAIN ui' = DOMAIN ui /\ DOMAIN q' = DOMAIN q /\ q'.detail = y /\ q'.timeline = q.timeline
        /\ ui'.cursor = ui.cursor /\ ui'.applied = ui.applied /\ ui'.items = ui.items
    BY <1>0, <1>1 DEF InstanceShape
  <1>6. CancelInv'
    BY <1>0, <1>1, <1>3, <1>4, <1>5 DEF CancelInv, InstanceShape, Asked, DetailQuery, IsQuery,
       Instance!CancelShownIsReal, Instance!Cancelling
  <1> QED
    BY <1>0, <1>5, <1>6, TimelineKeeps

\* A cancellation is answered: refused, what was shown before it is put back.
LEMMA SettledCancelKeeps ==
  ASSUME CancelInv, TimelineInv, NEW c \in calls, Instance!CancelSettled(c)
  PROVE  CancelInv' /\ TimelineInv'
  <1> DEFINE x == IF c.ok THEN q.detail ELSE Instance!PutBack(c)
             y == Instance!Invalidated(x)
  <1>0. /\ IsQuery(q.detail) /\ q.detail.data \in InstanceStates /\ q.detail.read \in InstanceStates
        /\ DetailQuery(q.detail) /\ InstanceShape /\ c \in CancelCalls
        /\ c.ok \/ c.previous = "CANCELLED" => srv.status = "CANCELLED"
    BY DEF CancelInv, DetailQuery, Asked
  <1>1. srv' = srv /\ ui' = ui /\ calls' = {} /\ q' = [q EXCEPT !.detail = y]
    BY DEF Instance!CancelSettled
  <1>2. DetailQuery(x) /\ (x.data = "CANCELLED" => srv.status = "CANCELLED")
    <2>1. CASE c.ok
      BY <1>0, <2>1
    <2>2. CASE ~c.ok
      <3>1. DetailQuery(Instance!PutBack(c)) /\ Instance!PutBack(c).data = c.previous
        BY <1>0 DEF Instance!PutBack, DetailQuery, IsQuery, Fetched, CancelCalls
      <3> QED
        BY <1>0, <2>2, <3>1
    <2> QED
      BY <2>1, <2>2
  <1> HIDE DEF x
  <1>3. DetailQuery(y) /\ y.data = x.data
    <2>1. y.data = x.data
      BY <1>2 DEF Instance!Invalidated, Instance!Started, IsQuery, Fetched, DetailQuery
    <2> QED
      BY <1>2, <2>1, InstanceQueries DEF DetailQuery, Derived
  <1> HIDE DEF y
  <1>4. DOMAIN q' = DOMAIN q /\ q'.detail = y /\ q'.timeline = q.timeline
    BY <1>0, <1>1 DEF InstanceShape
  <1>5. CancelInv'
    BY <1>0, <1>1, <1>2, <1>3, <1>4 DEF CancelInv, InstanceShape, Asked, DetailQuery, IsQuery,
       Instance!CancelShownIsReal
  <1> QED
    BY <1>1, <1>4, <1>5, TimelineKeeps

\* The server handles or refuses a cancellation, or the instance goes on.
LEMMA ServedKeeps ==
  ASSUME CancelInv, TimelineInv,
         \/ \E c \in calls : Instance!CancelRefused(c) \/ \E b \in BOOLEAN : Instance!CancelHandled(c, b)
         \/ \E s \in {"ACTIVE", "COMPLETED"} : Instance!Proceed(s)
  PROVE  CancelInv' /\ TimelineInv'
  <1>0. /\ IsQuery(q.detail) /\ q.detail.data \in InstanceStates /\ q.detail.read \in InstanceStates
        /\ DetailQuery(q.detail) /\ InstanceShape /\ calls \subseteq CancelCalls /\ Asked
    BY DEF CancelInv, DetailQuery, Asked
  <1>1. CASE \E c \in calls : Instance!CancelRefused(c) \/ \E b \in BOOLEAN : Instance!CancelHandled(c, b)
    <2>1. PICK c \in calls : Instance!CancelRefused(c) \/ \E b \in BOOLEAN : Instance!CancelHandled(c, b)
      BY <1>1
    <2>2. UNCHANGED <<ui, q>> /\ c.at = "sent"
      BY <2>1 DEF Instance!CancelRefused, Instance!CancelHandled
    <2>3. PICK d \in CancelCalls :
            /\ calls' = {d} /\ d.at = "handled" /\ d.previous = c.previous
            /\ \/ srv' = srv /\ d.ok = c.ok
               \/ srv.status = "ACTIVE" /\ srv' = [srv EXCEPT !.status = "CANCELLED"]
      <3>1. \A b \in BOOLEAN : LET d == [c EXCEPT !.at = "handled", !.ok = b]
                               IN d \in CancelCalls /\ d.at = "handled" /\ d.previous = c.previous
        BY <1>0 DEF CancelCalls
      <3>2. LET d == [c EXCEPT !.at = "handled"]
            IN d \in CancelCalls /\ d.at = "handled" /\ d.previous = c.previous /\ d.ok = c.ok
        BY <1>0 DEF CancelCalls
      <3> QED
        BY <2>1, <3>1, <3>2 DEF Instance!CancelRefused, Instance!CancelHandled
    <2>4. /\ srv' \in [status : InstanceStates, events : 1..MaxEvents] /\ srv'.events = srv.events
          /\ srv.status = "CANCELLED" => srv'.status = "CANCELLED"
          /\ srv' # srv => srv'.status = "CANCELLED"
      BY <1>0, <2>3 DEF InstanceShape, InstanceStates
    <2>5. d.ok \/ d.previous = "CANCELLED" => srv'.status = "CANCELLED"
      BY <1>0, <2>3, <2>4 DEF Asked, InstanceShape
    <2>6. CancelInv'
      BY <1>0, <2>2, <2>3, <2>4, <2>5 DEF CancelInv, InstanceShape, Asked, DetailQuery, IsQuery,
         Instance!CancelShownIsReal, Instance!Cancelling
    <2> QED
      BY <2>2, <2>4, <2>6, TimelineKeeps
  <1>2. CASE \E s \in {"ACTIVE", "COMPLETED"} : Instance!Proceed(s)
    <2>1. PICK s \in {"ACTIVE", "COMPLETED"} : Instance!Proceed(s)
      BY <1>2
    <2>2. /\ srv.status = "ACTIVE" /\ srv.events < MaxEvents /\ srv' = [status |-> s, events |-> srv.events + 1]
          /\ UNCHANGED <<ui, q, calls>> /\ srv.events \in 1..MaxEvents /\ MaxEvents \in Nat
      BY <1>0, <2>1, PageNumbers DEF Instance!Proceed, InstanceShape
    <2>3. /\ srv'.events = srv.events + 1
          /\ srv' \in [status : InstanceStates, events : 1..MaxEvents]
      BY <2>2 DEF InstanceStates
    <2>7. InstanceShape'
      BY <1>0, <2>2, <2>3 DEF InstanceShape
    <2>8. Asked' /\ DetailQuery(q.detail)'
      BY <1>0, <2>2 DEF Asked, DetailQuery, IsQuery
    <2>9. Instance!CancelShownIsReal'
      BY <2>2 DEF CancelInv, Instance!CancelShownIsReal, Instance!Cancelling
    <2>4. CancelInv'
      BY <2>7, <2>8, <2>9 DEF CancelInv
    <2>10. ui.cursor \in Nat /\ PageSize \in Nat
      BY <2>2, PageNumbers DEF TimelineInv, Collected
    <2>5. TimelineQuery(q.timeline)'
      BY <2>2, <2>3, <2>10 DEF TimelineInv, TimelineQuery, NextFits, IsQuery
    <2>6. Collected'
      BY <2>2, <2>3 DEF TimelineInv, Collected
    <2> QED
      BY <2>4, <2>5, <2>6 DEF TimelineInv
  <1> QED
    BY <1>1, <1>2

\* A page put behind the entries before it: they stay in order and within what there is.
LEMMA JoinedInOrder ==
  ASSUME NEW s \in Seq(Nat), NEW p \in Seq(Nat), NEW c \in Nat, NEW k \in Nat, NEW top \in Nat, Len(p) <= k,
         \A i \in 1 .. Len(s) : s[i] \in 1 .. top /\ s[i] <= c,
         \A i, j \in 1 .. Len(s) : i < j => s[i] < s[j],
         \A i \in 1 .. Len(p) : p[i] = c + i /\ p[i] <= top
  PROVE  /\ s \o p \in Seq(Nat)
         /\ \A i \in 1 .. Len(s \o p) : (s \o p)[i] \in 1 .. top /\ (s \o p)[i] <= c + k
         /\ \A i, j \in 1 .. Len(s \o p) : i < j => (s \o p)[i] < (s \o p)[j]
  <1> DEFINE both == s \o p
             n == Len(s)
  <1>1. both \in Seq(Nat) /\ Len(both) = n + Len(p) /\ n \in Nat /\ Len(p) \in Nat
    BY ConcatProperties
  <1>2. \A i \in 1 .. n : both[i] = s[i]
    BY ConcatProperties
  <1>3. \A i \in 1 .. Len(both) : i > n => i - n \in 1 .. Len(p) /\ both[i] = p[i - n]
    <2>1. \A i \in 1 .. Len(s) + Len(p) : both[i] = IF i <= Len(s) THEN s[i] ELSE p[i - Len(s)]
      BY ConcatProperties
    <2> HIDE DEF both
    <2> QED
      BY <1>1, <2>1
  <1> HIDE DEF both
  <1>4. \A i \in 1 .. Len(both) : i > n => both[i] = c + (i - n) /\ both[i] <= top
    BY <1>3
  <1>5. \A i \in 1 .. Len(both) : i <= n => i \in 1 .. n
    BY <1>1
  <1>6. ASSUME NEW i \in 1 .. Len(both) PROVE both[i] \in 1 .. top /\ both[i] <= c + k
    <2>1. CASE i <= n
      <3>1. both[i] = s[i] /\ s[i] \in 1 .. top /\ s[i] <= c
        BY <1>2, <1>5, <2>1
      <3> QED
        BY <3>1
    <2>2. CASE i > n
      <3>1. both[i] = c + (i - n) /\ both[i] <= top /\ i - n \in 1 .. Len(p)
        BY <1>3, <1>4, <2>2
      <3> QED
        BY <1>1, <3>1
    <2> QED
      BY <1>1, <2>1, <2>2
  <1>7. ASSUME NEW i \in 1 .. Len(both), NEW j \in 1 .. Len(both), i < j PROVE both[i] < both[j]
    <2>1. CASE j <= n
      <3>1. i \in 1 .. n /\ j \in 1 .. n
        BY <1>1, <1>7, <2>1
      <3>2. both[i] = s[i] /\ both[j] = s[j] /\ s[i] < s[j]
        BY <1>2, <1>7, <3>1
      <3> QED
        BY <3>2
    <2>2. CASE i > n
      <3>1. j > n
        BY <1>1, <1>7, <2>2
      <3>2. both[i] = c + (i - n) /\ both[j] = c + (j - n)
        BY <1>4, <2>2, <3>1
      <3> QED
        BY <1>1, <1>7, <3>2
    <2>3. CASE i <= n /\ j > n
      <3>1. both[i] = s[i] /\ s[i] \in 1 .. top /\ s[i] <= c
        BY <1>2, <1>5, <2>3
      <3>2. both[j] = c + (j - n)
        BY <1>4, <2>3
      <3>3. j - n >= 1 /\ j - n \in Nat
        BY <1>1, <2>3
      <3>4. s[i] \in Nat
        BY <3>1
      <3> QED
        BY <3>1, <3>2, <3>3, <3>4
    <2> QED
      BY <1>1, <2>1, <2>2, <2>3
  <1>8. s \o p = both
    BY DEF both
  <1> QED
    BY <1>1, <1>6, <1>7, <1>8

\* What is collected for a page: its entries, behind those before it.
LEMMA CollectKeeps ==
  ASSUME Collected, NEW page \in Seq(Nat), srv.events \in Nat, Len(page) <= PageSize,
         \A i \in 1 .. Len(page) : page[i] = ui.cursor + i /\ page[i] <= srv.events,
         ~ui.applied, srv' = srv, ui'.cursor = ui.cursor, ui'.applied = TRUE,
         ui'.items = Instance!Merged(page, ui)
  PROVE  Collected'
  <1>0. ui.cursor \in Nat /\ ui.items \in Seq(Nat) /\ PageSize \in Nat /\ ui.cursor \in 0 .. srv.events
    <2>1. ui.items \in Seq(Nat) /\ ui.cursor \in 0 .. srv.events
      BY DEF Collected
    <2> QED
      BY <2>1, PageNumbers
  <1>1. /\ \A i \in 1 .. Len(ui.items) : ui.items[i] \in 1 .. srv.events /\ ui.items[i] <= ui.cursor
        /\ \A i, j \in 1 .. Len(ui.items) : i < j => ui.items[i] < ui.items[j]
    BY <1>0 DEF Collected
  <1>2. PICK s \in Seq(Nat) :
          /\ ui'.items = s
          /\ \A i \in 1 .. Len(s) : s[i] \in 1 .. srv.events /\ s[i] <= ui.cursor + PageSize
          /\ \A i, j \in 1 .. Len(s) : i < j => s[i] < s[j]
    <2>1. CASE ui.cursor = 0
      <3>1. ui'.items = page
        BY <2>1 DEF Instance!Merged
      <3>2. \A i \in 1 .. Len(page) : page[i] \in 1 .. srv.events /\ page[i] <= ui.cursor + PageSize
        BY <1>0, <2>1
      <3>3. \A i, j \in 1 .. Len(page) : i < j => page[i] < page[j]
        BY <1>0, <2>1
      <3> QED
        BY <3>1, <3>2, <3>3
    <2>2. CASE ui.cursor # 0
      <3>1. ui'.items = ui.items \o page
        BY <2>2 DEF Instance!Merged
      <3> DEFINE s == ui.items \o page
      <3>2. /\ s \in Seq(Nat)
            /\ \A i \in 1 .. Len(s) : s[i] \in 1 .. srv.events /\ s[i] <= ui.cursor + PageSize
            /\ \A i, j \in 1 .. Len(s) : i < j => s[i] < s[j]
        BY ONLY <1>0, <1>1, JoinedInOrder, page \in Seq(Nat), srv.events \in Nat, Len(page) <= PageSize,
                \A i \in 1 .. Len(page) : page[i] = ui.cursor + i /\ page[i] <= srv.events
      <3> HIDE DEF s
      <3>3. ui'.items = s
        BY <3>1 DEF s
      <3> QED
        BY <3>2, <3>3
    <2> QED
      BY <2>1, <2>2
  <1> QED
    BY <1>0, <1>2 DEF Collected

\* A page of the timeline holds the entries after its cursor, and names where the next begins.
LEMMA PageForms ==
  ASSUME ui.cursor \in 0 .. srv.events, srv.events \in Nat
  PROVE  /\ Instance!TimelinePage(ui.cursor).items \in Seq(Nat)
         /\ Len(Instance!TimelinePage(ui.cursor).items) <= PageSize
         /\ \A i \in 1 .. Len(Instance!TimelinePage(ui.cursor).items) :
              /\ Instance!TimelinePage(ui.cursor).items[i] = ui.cursor + i
              /\ Instance!TimelinePage(ui.cursor).items[i] <= srv.events
         /\ NextFits(Instance!TimelinePage(ui.cursor).next)
  <1> DEFINE last == IF srv.events <= ui.cursor + PageSize THEN srv.events ELSE ui.cursor + PageSize
             n == last - ui.cursor
             items == [i \in 1 .. n |-> ui.cursor + i]
  <1>1. n \in Nat /\ n <= PageSize /\ ui.cursor + n <= srv.events /\ last = ui.cursor + n /\ ui.cursor \in Nat
    BY PageNumbers
  <1>2. Instance!TimelinePage(ui.cursor) = [items |-> items, next |-> IF last < srv.events THEN last ELSE 0]
    BY DEF Instance!TimelinePage
  <1>3. last < srv.events => last = ui.cursor + PageSize
    BY PageNumbers
  <1>4. NextFits(Instance!TimelinePage(ui.cursor).next)
    BY <1>2, <1>3 DEF NextFits
  <1> HIDE DEF n, last
  <1>5. items \in Seq(Nat) /\ Len(items) = n
    BY <1>1
  <1>6. \A i \in 1 .. n : items[i] = ui.cursor + i /\ items[i] <= srv.events
    BY <1>1
  <1>7. Instance!TimelinePage(ui.cursor).items = items
    BY <1>2
  <1> HIDE DEF items
  <1> QED
    BY <1>1, <1>4, <1>5, <1>6, <1>7

\* The timeline is opened, continued, fetched again and answered.
LEMMA TimelineSteps ==
  ASSUME CancelInv, TimelineInv,
         \/ Instance!OpenTimeline \/ Instance!LoadMore \/ Instance!RefocusTimeline
         \/ \E ok \in BOOLEAN : Instance!TimelineAnswered(ok)
  PROVE  CancelInv' /\ TimelineInv'
  <1>0. /\ Collected /\ TimelineQuery(q.timeline) /\ IsQuery(q.timeline) /\ DetailQuery(q.detail)
        /\ DOMAIN ui = {"dialog", "sent", "asked", "cursor", "applied", "items"} /\ DOMAIN q = {"detail", "timeline"}
        /\ srv' = srv /\ calls' = calls /\ srv.events \in Nat /\ ui.cursor \in 0 .. srv.events
    <2>1. srv' = srv /\ calls' = calls
      BY DEF Instance!OpenTimeline, Instance!LoadMore, Instance!RefocusTimeline, Instance!TimelineAnswered
    <2>2. srv.events \in Nat
      BY PageNumbers DEF CancelInv, InstanceShape
    <2>3. ui.cursor \in 0 .. srv.events
      BY DEF TimelineInv, Collected
    <2> QED
      BY <2>1, <2>2, <2>3 DEF CancelInv, InstanceShape, TimelineInv, TimelineQuery
  <1>1. ASSUME DOMAIN ui' = DOMAIN ui, NEW y, q' = [q EXCEPT !.timeline = y]
        PROVE  CancelInv' /\ q'.timeline = y
    <2>1. q'.detail = q.detail /\ q'.timeline = y /\ DOMAIN q' = DOMAIN q
      BY <1>0, <1>1
    <2> QED
      BY <1>0, <1>1, <2>1, DetailKeeps
  <1>2. CASE Instance!OpenTimeline \/ Instance!RefocusTimeline
    <2>1. ui' \in {ui, [ui EXCEPT !.asked = TRUE]}
          /\ \E y \in {Instance!Started(q.timeline), Instance!Observed(q.timeline, TRUE)} :
               q' = [q EXCEPT !.timeline = y]
      BY <1>2 DEF Instance!OpenTimeline, Instance!RefocusTimeline
    <2>2. DOMAIN ui' = DOMAIN ui /\ ui'.cursor = ui.cursor /\ ui'.applied = ui.applied /\ ui'.items = ui.items
      BY <1>0, <2>1
    <2>3. /\ Derived(Instance!Started(q.timeline), q.timeline)
          /\ Derived(Instance!Observed(q.timeline, TRUE), q.timeline)
      BY <1>0, InstanceQueries
    <2> QED
      BY <1>0, <1>1, <2>1, <2>2, <2>3, TimelineKeeps
  <1>3. CASE Instance!LoadMore
    <2> DEFINE fresh == Instance!Started(Instance!NewQuery(Instance!NoPage))
    <2>1. /\ ui' = [ui EXCEPT !.cursor = q.timeline.data.next, !.applied = FALSE]
          /\ q' = [q EXCEPT !.timeline = fresh] /\ q.timeline.data.next # 0
      BY <1>3 DEF Instance!LoadMore
    <2>2. /\ DOMAIN ui' = DOMAIN ui /\ ui'.cursor = q.timeline.data.next
          /\ ui'.applied = FALSE /\ ui'.items = ui.items
      BY <1>0, <2>1
    <2>3. q.timeline.data.next = ui.cursor + PageSize /\ q.timeline.data.next < srv.events
      BY <1>0, <2>1 DEF TimelineQuery, NextFits
    <2>4. ui.cursor \in Nat /\ PageSize \in Nat
      BY <1>0, PageNumbers
    <2>5. ui'.cursor \in 0 .. srv.events
      BY <1>0, <2>2, <2>3, <2>4
    <2>6. \A i \in 1 .. Len(ui.items) : ui.items[i] \in 1 .. srv.events /\ ui.items[i] <= ui.cursor + PageSize
      <3> TAKE i \in 1 .. Len(ui.items)
      <3>1. ui.items[i] \in 1 .. srv.events /\ ui.items[i] <= ui.cursor + (IF ui.applied THEN PageSize ELSE 0)
        BY <1>0 DEF Collected
      <3>2. CASE ui.applied
        BY <3>1, <3>2
      <3>3. CASE ~ui.applied
        BY <2>4, <3>1, <3>3
      <3> QED
        BY <3>2, <3>3
    <2>7. Collected'
      <3>1. \A i \in 1 .. Len(ui.items) : ui.items[i] <= ui.cursor + PageSize + 0
        BY <2>4, <2>6
      <3> QED
        BY <1>0, <2>2, <2>3, <2>5, <2>6, <3>1 DEF Collected
    <2>8. IsQuery(fresh) /\ fresh.data = Instance!NoPage /\ fresh.read = Instance!NoPage /\ Instance!NoPage.next = 0
      BY FirstQueries DEF Instance!NoPage
    <2> HIDE DEF fresh
    <2>9. CancelInv' /\ q'.timeline = fresh
      BY <1>1, <2>1, <2>2
    <2> QED
      BY <2>7, <2>8, <2>9 DEF TimelineInv, TimelineQuery, NextFits, IsQuery
  <1>4. CASE \E ok \in BOOLEAN : Instance!TimelineAnswered(ok)
    <2> DEFINE page == Instance!TimelinePage(ui.cursor)
               told == Instance!ReadWith(q.timeline, page)
               new == Instance!Answered(told)
               none == Instance!Refused(q.timeline)
    <2>1. \/ q' = [q EXCEPT !.timeline = new] /\ ui' = Instance!Collect(ui, new)
          \/ q' = [q EXCEPT !.timeline = none] /\ ui' = ui
      BY <1>4 DEF Instance!TimelineAnswered
    <2>2. CASE q' = [q EXCEPT !.timeline = none] /\ ui' = ui
      <3>1. Derived(none, q.timeline)
        BY <1>0, InstanceQueries
      <3> HIDE DEF none
      <3> QED
        BY <1>0, <1>1, <2>2, <3>1, TimelineKeeps
    <2>3. CASE q' = [q EXCEPT !.timeline = new] /\ ui' = Instance!Collect(ui, new)
      <3>1. IsQuery(told) /\ told.read = page /\ told.data = q.timeline.data
        BY <1>0, InstanceQueries
      <3> HIDE DEF told
      <3>2. IsQuery(new) /\ new.data = page /\ new.read = page
        <4>1. Derived(new, told) /\ new.data = told.read /\ new.read = told.read
          BY <3>1, InstanceQueries DEF Instance!Answered, IsQuery, Fetched
        <4> QED
          BY <3>1, <4>1 DEF Derived
      <3>3. NextFits(page.next)
        BY <1>0, PageForms
      <3>4. TimelineQuery(new)
        BY <3>2, <3>3 DEF TimelineQuery
      <3>5. CASE ui' = ui
        <4>1. CancelInv' /\ q'.timeline = new
          BY <1>1, <2>3, <3>5
        <4>2. TimelineQuery(q.timeline)'
          BY <1>0, <3>4, <3>5, <4>1 DEF TimelineQuery, NextFits, IsQuery
        <4> QED
          BY <1>0, <3>5, <4>1, <4>2 DEF TimelineInv, Collected
      <3>6. CASE ui' = [ui EXCEPT !.items = Instance!Merged(page.items, ui), !.applied = TRUE] /\ ~ui.applied
        <4>1. /\ DOMAIN ui' = DOMAIN ui /\ ui'.cursor = ui.cursor /\ ui'.applied = TRUE
              /\ ui'.items = Instance!Merged(page.items, ui)
          BY <1>0, <3>6
        <4>2. CancelInv' /\ q'.timeline = new
          BY <1>1, <2>3, <4>1
        <4>3. /\ page.items \in Seq(Nat) /\ Len(page.items) <= PageSize
              /\ \A i \in 1 .. Len(page.items) : page.items[i] = ui.cursor + i /\ page.items[i] <= srv.events
          BY <1>0, PageForms
        <4> HIDE DEF page
        <4>4. Collected'
          BY <1>0, <3>6, <4>1, <4>3, CollectKeeps
        <4>5. TimelineQuery(q.timeline)'
          BY <1>0, <3>4, <4>1, <4>2 DEF TimelineQuery, NextFits, IsQuery
        <4> QED
          BY <4>2, <4>4, <4>5 DEF TimelineInv
      <3>7. Instance!Collect(ui, new) = ui
            \/ /\ ~ui.applied
               /\ Instance!Collect(ui, new) = [ui EXCEPT !.items = Instance!Merged(new.data.items, ui), !.applied = TRUE]
        BY DEF Instance!Collect
      <3> QED
        BY <2>3, <3>2, <3>5, <3>6, <3>7
    <2> QED
      BY <2>1, <2>2, <2>3
  <1> QED
    BY <1>2, <1>3, <1>4

\* Every step of the page.
LEMMA InstanceStep == ASSUME CancelInv, TimelineInv, Instance!PageNext PROVE CancelInv' /\ TimelineInv'
  BY DetailSteps, ConfirmKeeps, SettledCancelKeeps, ServedKeeps, TimelineSteps DEF Instance!PageNext

-----------------------------------------------------------------------------
(* The page on the screen *)

WorkbenchInv ==
  \/ on = "letters" /\ LettersInv
  \/ on = "tasks" /\ TasksInv
  \/ on = "board" /\ BoardInv
  \/ on = "instance" /\ CancelInv /\ TimelineInv

\* WorkbenchInv is an inductive invariant of the operators' pages.
THEOREM WorkbenchInvariance == Spec => []WorkbenchInv
  <1>1. Init => WorkbenchInv
    <2>1. Dlq!LettersInit => srv \in [Dlq!Entries -> Dlq!Statuses]
      <3>1. Letters \in Seq(Dlq!Statuses)
        BY WorkbenchAssumption DEF Dlq!Statuses
      <3>2. \A e \in 1 .. Len(Letters) : Letters[e] \in Dlq!Statuses
        BY <3>1, ElementOfSeq
      <3> QED
        BY <3>2 DEF Dlq!LettersInit, Dlq!Entries
    <2> QED
      BY <2>1, LettersFirst, TasksFirst, BoardFirst, InstanceFirst DEF Init, WorkbenchInv
  <1>2. WorkbenchInv /\ [Next]_vars => WorkbenchInv'
    <2> SUFFICES ASSUME WorkbenchInv, [Next]_vars PROVE WorkbenchInv'
      OBVIOUS
    <2>1. CASE on = "letters"
      <3>1. LettersInv /\ ((Dlq!LettersNext /\ on' = on) \/ UNCHANGED vars)
        BY <2>1 DEF WorkbenchInv, Next
      <3>2. CASE Dlq!LettersNext /\ on' = on
        BY <2>1, <3>1, <3>2, LettersStep DEF WorkbenchInv
      <3>3. CASE UNCHANGED vars
        <4>1. LettersInv'
          BY <3>1, <3>3, LettersQuiet DEF vars, LettersInv, LettersShape
        <4> QED
          BY <2>1, <3>3, <4>1 DEF WorkbenchInv, vars
      <3> QED
        BY <3>1, <3>2, <3>3
    <2>2. CASE on = "tasks"
      <3>1. TasksInv /\ ((Inbox!TasksNext /\ on' = on) \/ UNCHANGED vars)
        BY <2>2 DEF WorkbenchInv, Next
      <3>2. CASE Inbox!TasksNext /\ on' = on
        BY <2>2, <3>1, <3>2, TasksStep DEF WorkbenchInv
      <3>3. CASE UNCHANGED vars
        <4>1. TasksInv'
          BY <3>1, <3>3, TasksQuiet DEF vars, TasksInv, PanelQuery
        <4> QED
          BY <2>2, <3>3, <4>1 DEF WorkbenchInv, vars
      <3> QED
        BY <3>1, <3>2, <3>3
    <2>3. CASE on = "board"
      <3>1. BoardInv /\ ((Board!BoardNext /\ on' = on) \/ UNCHANGED vars)
        BY <2>3 DEF WorkbenchInv, Next
      <3>2. CASE Board!BoardNext /\ on' = on
        BY <2>3, <3>1, <3>2, BoardStep DEF WorkbenchInv
      <3>3. CASE UNCHANGED vars
        BY <2>3, <3>1, <3>3 DEF vars, WorkbenchInv, BoardInv, FilterFits, ItemsQuery, IsQuery
      <3> QED
        BY <3>1, <3>2, <3>3
    <2>4. CASE on = "instance"
      <3>1. CancelInv /\ TimelineInv /\ ((Instance!PageNext /\ on' = on) \/ UNCHANGED vars)
        BY <2>4 DEF WorkbenchInv, Next
      <3>2. CASE Instance!PageNext /\ on' = on
        BY <2>4, <3>1, <3>2, InstanceStep DEF WorkbenchInv
      <3>3. CASE UNCHANGED vars
        <4>1. CancelInv' /\ TimelineInv'
          BY <3>1, <3>3, DetailKeeps, TimelineKeeps DEF vars, CancelInv
        <4> QED
          BY <2>4, <3>3, <4>1 DEF WorkbenchInv, vars
      <3> QED
        BY <3>1, <3>2, <3>3
    <2> QED
      BY <2>1, <2>2, <2>3, <2>4 DEF WorkbenchInv
  <1> QED
    BY <1>1, <1>2, PTL DEF Spec

\* DlqPage.tsx and InstanceDetailPage.tsx show a status before the server confirms it, and withdraw it when
\* it is refused; the timeline collects what several fetches brought.  Whatever is answered first, what is
\* shown as discarded or cancelled is so or is being asked for, and the entries are in order.
THEOREM ShownTheorem == Spec => []ShownIsReal
  <1>1. WorkbenchInv => ShownIsReal
    <2> SUFFICES ASSUME WorkbenchInv PROVE ShownIsReal
      OBVIOUS
    <2>1. CASE on = "letters"
      <3>1. LettersInv
        BY <2>1 DEF WorkbenchInv
      <3>2. Dlq!LettersTypeOK /\ Dlq!DiscardShownIsReal
        BY <3>1 DEF LettersInv, LettersShape, IsQuery, Dlq!LettersTypeOK
      <3> QED
        BY <2>1, <3>2 DEF ShownIsReal, TypeOK
    <2>2. CASE on = "tasks"
      <3>1. Inbox!TasksTypeOK
        BY <2>2 DEF WorkbenchInv, TasksInv, PanelForm, PanelQuery, TaskStatuses, Inbox!TasksTypeOK
      <3> QED
        BY <2>2, <3>1 DEF ShownIsReal, TypeOK
    <2>3. CASE on = "board"
      <3>1. Board!BoardTypeOK
        BY <2>3 DEF WorkbenchInv, BoardInv, FilterFits, ItemsQuery, Board!BoardTypeOK, Board!Texts
      <3> QED
        BY <2>3, <3>1 DEF ShownIsReal, TypeOK
    <2>4. CASE on = "instance"
      <3>1. CancelInv /\ TimelineInv
        BY <2>4 DEF WorkbenchInv
      <3>2. Instance!TimelineInOrder
        BY <3>1 DEF TimelineInv, Collected, Instance!TimelineInOrder
      <3>3. ui.items \in Seq(1 .. srv.events)
        <4>1. ui.items \in Seq(Nat) /\ \A i \in 1 .. Len(ui.items) : ui.items[i] \in 1 .. srv.events
          BY <3>1 DEF TimelineInv, Collected
        <4> QED
          <5> DEFINE S == 1 .. srv.events
                     s == ui.items
          <5>1. Len(s) \in Nat /\ s \in [1 .. Len(s) -> Nat]
            BY <4>1, LenProperties
          <5>2. s \in [1 .. Len(s) -> S]
            BY <4>1, <5>1
          <5> HIDE DEF S, s
          <5>3. s \in Seq(S)
            BY <5>1, <5>2, SeqDef
          <5> QED
            BY <5>3 DEF S, s
      <3>4. Instance!PageTypeOK /\ Instance!CancelShownIsReal
        BY <3>1, <3>3 DEF CancelInv, InstanceShape, DetailQuery, InstanceStates, Instance!PageTypeOK, Instance!Ended
      <3> QED
        BY <2>4, <3>2, <3>4 DEF ShownIsReal, TypeOK
    <2> QED
      BY <2>1, <2>2, <2>3, <2>4 DEF WorkbenchInv
  <1> QED
    BY <1>1, WorkbenchInvariance, PTL

\* TaskInboxPage.tsx keys its panel by the task, and InstanceBoardPage.tsx derives at every render the id it
\* would start: a completion carries the form of its own task, and the dialog starts the version it shows, of
\* the definition it names.
THEOREM SentTheorem == Spec => []SentIsShown
  <1>1. WorkbenchInv => SentIsShown
    <2> SUFFICES ASSUME WorkbenchInv PROVE SentIsShown
      OBVIOUS
    <2>1. CASE on = "tasks"
      BY <2>1 DEF WorkbenchInv, TasksInv, Posted, SentIsShown
    <2>2. CASE on = "board"
      <3>1. FilterFits(ui) /\ ItemsQuery(q)
        BY <2>2 DEF WorkbenchInv, BoardInv
      <3>2. Board!StartId(ui, q) # "none" => NameOf[Board!StartId(ui, q)] = ui.name
        BY <3>1, StartFits
      <3>3. Board!StartId(ui, q) # "none" => Board!VersionShown(ui, q) \in {Board!StartId(ui, q), "none"}
        BY DEF Board!VersionShown, Board!StartId
      <3> QED
        BY <2>2, <3>2, <3>3 DEF SentIsShown, Board!StartsWhatIsShown
    <2> QED
      BY <2>1, <2>2 DEF SentIsShown
  <1> QED
    BY <1>1, WorkbenchInvariance, PTL
=============================================================================
