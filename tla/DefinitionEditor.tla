--------------------------- MODULE DefinitionEditor ---------------------------
(***************************************************************************)
(* The process designer of the web client: the page                        *)
(* pages/definitions/DefinitionEditorPage.tsx, the canvas it shows, the    *)
(* undo history and the draft it keeps in two stores outside the page, the *)
(* query cache under it, and its requests to the server, answered in any   *)
(* order.  The server may also be changed by another user.                 *)
(*                                                                         *)
(* A graph is the set of its nodes and edges, the attribute of its one     *)
(* SUB_PROCESS node (its interface, or a value the validator rejects), the *)
(* edges that carry a condition, and where the nodes stand.                *)
(***************************************************************************)
EXTENDS Naturals, Sequences, FiniteSets, SequencesExt

CONSTANTS
  Definitions,  \* the definitions the server keeps
  Described,    \* those with a description
  Nodes,        \* node identities
  Edges,        \* edges the user may draw, pairs of nodes
  Gateways,     \* the nodes that are exclusive gateways
  Attrs,        \* values of the interface attribute
  CleanAttrs,   \* those validateSubProcessInterface accepts
  FirstNodes, FirstEdges, FirstAttr,  \* the graph every definition starts with
  MaxDepth,     \* maxDepth of the history store (50 in the code)
  MaxEdits,     \* bound: edits, undos and redos
  MaxMounts,    \* bound: times the page is opened
  MaxCalls      \* bound: requests under way

ASSUME EditorAssumption ==
  /\ MaxDepth \in Nat \ {0} /\ MaxMounts \in Nat
  /\ Edges \subseteq Nodes \X Nodes
  /\ Gateways \subseteq Nodes
  /\ Described \subseteq Definitions
  /\ CleanAttrs \subseteq Attrs
  /\ FirstAttr \in CleanAttrs
  /\ FirstNodes \subseteq Nodes
  /\ FirstEdges \subseteq Edges

VARIABLES
  server,   \* server[d]: the definition as stored
  cache,    \* cache[d]: the query under ['definitions', d]
  ed,       \* the page on screen
  hist,     \* canvasHistoryStore
  draft,    \* definitionDraftStore
  requests, \* requests under way
  edits     \* how many edits so far (bound)

editorVars == <<server, cache, ed, hist, draft, requests, edits>>

Statuses == {"DRAFT", "ACTIVE"}
Positions == {"stored", "moved"}
Graph == [nodes : SUBSET Nodes, edges : SUBSET Edges, cond : SUBSET Edges,
          attr : Attrs, pos : Positions]
Definition == [graph : Graph, status : Statuses]

FirstGraph == [nodes |-> FirstNodes, edges |-> FirstEdges, cond |-> {}, attr |-> FirstAttr, pos |-> "stored"]
NoDefinition == [graph |-> FirstGraph, status |-> "DRAFT"]

(***************************************************************************)
(* The query of one definition: its data, whether there is any, whether    *)
(* the last fetch failed.                                                  *)
(***************************************************************************)
Query == [has : BOOLEAN, data : Definition, failed : BOOLEAN]
NoTriggers == [undo |-> FALSE, redo |-> FALSE, layout |-> FALSE, add |-> FALSE, update |-> FALSE, attr |-> FirstAttr]
NoLayout == [on |-> FALSE, live |-> FALSE, of |-> FirstGraph]

NoPage == [page |-> "none", mount |-> 0, shown |-> FALSE, canvas |-> FirstGraph,
           hasRef |-> FALSE, ref |-> FirstGraph, dirty |-> FALSE,
           valErr |-> FALSE, srvErr |-> FALSE, checking |-> FALSE, conflict |-> FALSE,
           leaving |-> FALSE, dialog |-> {}, snapped |-> FALSE, layout |-> NoLayout,
           trig |-> NoTriggers, promote |-> "none",
           base |-> FirstGraph, slipped |-> FALSE]

NoDraft == [def |-> "none", graph |-> FirstGraph, keys |-> {}]

------------------------------------------------------------------------------
(* The history store. *)

\* Variant: trims one snapshot too late.
PushOneMore(h, g) ==
  LET longer == Append(h.past, g)
      over == IF Len(longer) > MaxDepth + 1 THEN Len(longer) - MaxDepth ELSE 0
  IN [past |-> SubSeq(longer, over + 1, Len(longer)), future |-> <<>>]

PushSnapshot(h, g) ==
  LET longer == Append(h.past, g)
      over == IF Len(longer) > MaxDepth THEN Len(longer) - MaxDepth ELSE 0
  IN [past |-> SubSeq(longer, over + 1, Len(longer)), future |-> <<>>]

UndoStack(h, now) ==
  IF h.past = <<>> THEN h ELSE [past |-> Front(h.past), future |-> <<now>> \o h.future]

RedoStack(h, now) ==
  IF h.future = <<>> THEN h ELSE [past |-> Append(h.past, now), future |-> Tail(h.future)]

ClearedHistory == [past |-> <<>>, future |-> <<>>]

------------------------------------------------------------------------------
(* What the page computes while it renders. *)

Existing(e) == e.page \in Definitions
QueryOf(c, e) == c[e.page]
Data(c, e) == IF Existing(e) /\ c[e.page].has THEN c[e.page].data ELSE NoDefinition
ReadOnly(c, e) == Existing(e) /\ c[e.page].has /\ c[e.page].data.status # "DRAFT"

\* rendererState and the switch of QueryStateBoundary: a conflict hides the editor.
RendererState(c, e) ==
  CASE e.conflict                                             -> "stale-version"
    [] ~e.conflict /\ Existing(e) /\ c[e.page].failed         -> "failure"
    [] ~e.conflict /\ Existing(e) /\ ~c[e.page].failed
                   /\ ~c[e.page].has                          -> "loading"
    [] OTHER                                                  -> "success"

BadInterface(g) == g.nodes # {} /\ g.attr \notin CleanAttrs

(***************************************************************************)
(* ProcessCanvas is mounted with graph g.  The trigger counters live in    *)
(* the page and the last ones seen in the canvas, so a canvas mounted      *)
(* again replays every trigger that ever fired, in the order of its        *)
(* effects: layout, undo, redo, update, add.                               *)
(***************************************************************************)
\* s: the graph so far, the history and the page; from: the graph the canvas mounted with.
LayoutReplayed(s, from) ==
  IF s.ed.trig.layout /\ s.edit
  THEN [s EXCEPT !.h = PushSnapshot(@, from), !.ed.layout = [on |-> TRUE, live |-> TRUE, of |-> from]]
  ELSE [s EXCEPT !.ed.layout.live = FALSE]

UndoReplayed(s, from) ==
  IF s.ed.trig.undo /\ s.h.past # <<>>
  THEN [s EXCEPT !.g = Last(s.h.past), !.h = UndoStack(@, from), !.ed.dirty = TRUE, !.marked = TRUE]
  ELSE s

RedoReplayed(s, from) ==
  IF s.ed.trig.redo /\ s.h.future # <<>>
  THEN [s EXCEPT !.g = Head(s.h.future), !.h = RedoStack(@, from), !.ed.dirty = TRUE, !.marked = TRUE]
  ELSE s

\* Unlike the others, an update does not mark the page.
UpdateReplayed(s, from) ==
  IF s.ed.trig.update /\ s.edit
  THEN [s EXCEPT !.g.attr = s.ed.trig.attr, !.h = PushSnapshot(@, from), !.ed.snapped = TRUE]
  ELSE [s EXCEPT !.ed.snapped = FALSE]

AddReplayed(s, from) ==
  LET free == Nodes \ from.nodes
  IN IF s.ed.trig.add /\ s.edit /\ free # {}
     THEN [s EXCEPT !.g.nodes = @ \cup {CHOOSE n \in free : TRUE}, !.h = PushSnapshot(@, from),
                    !.ed.dirty = TRUE, !.marked = TRUE]
     ELSE s

Shown(s, from) ==
  [hist |-> s.h,
   ed |-> [s.ed EXCEPT !.shown = TRUE, !.canvas = s.g, !.hasRef = TRUE, !.ref = s.g, !.base = from,
                       !.slipped = s.ed.snapped /\ ~s.marked, !.dialog = {}]]

Mounted(c, e, h, g) ==
  LET start == [g |-> g, h |-> h, ed |-> e, edit |-> ~ReadOnly(c, e), marked |-> FALSE]
  IN Shown(AddReplayed(UpdateReplayed(RedoReplayed(UndoReplayed(LayoutReplayed(start, g), g), g), g), g), g)

\* What the render after a handler does: QueryStateBoundary mounts or unmounts the editor.
Settled(c, e, h) ==
  IF e.page = "none" THEN [ed |-> e, hist |-> h]
  ELSE IF RendererState(c, e) = "success"
       THEN IF e.shown THEN [ed |-> e, hist |-> h] ELSE Mounted(c, e, h, Data(c, e).graph)
       ELSE [ed |-> [e EXCEPT !.shown = FALSE, !.layout.live = FALSE], hist |-> h]

(***************************************************************************)
(* The draft-mirror effect.  It compares the canvas and the description of *)
(* the page with the definition as cached and writes the one draft of the  *)
(* store, whichever definition that draft was of.  The page never loads    *)
(* the description, so a described definition always differs in it.        *)
(***************************************************************************)
DirtyKeys(c, e) ==
  (IF c[e.page].has /\ e.page \in Described THEN {"description"} ELSE {})
    \cup (IF e.ref # Data(c, e).graph THEN {"graph"} ELSE {})

Mirrored(c, e, dr) ==
  IF Existing(e) /\ e.hasRef /\ DirtyKeys(c, e) # {}
  THEN [def |-> e.page, graph |-> e.ref, keys |-> DirtyKeys(c, e)]
  ELSE dr

(***************************************************************************)
(* A handler left the page at e, the history at h, the cache at c and the  *)
(* draft at dr.  The effect runs when the store or the definition changed; *)
(* a canvas edit alone does not trigger it.                                *)
(***************************************************************************)
Rendered(c, s, dr) ==
  LET triggered == \/ dr # draft
                   \/ s.ed.mount # ed.mount
                   \/ Data(c, s.ed) # Data(cache, ed)
  IN /\ ed' = s.ed
     /\ hist' = s.hist
     /\ cache' = c
     /\ draft' = IF triggered THEN Mirrored(c, s.ed, dr) ELSE dr

Render(c, e, h, dr) == Rendered(c, Settled(c, e, h), dr)

Show(e, h) == Render(cache, e, h, draft) /\ UNCHANGED server

Call(k, e, g) == [kind |-> k, def |-> IF Existing(e) THEN e.page ELSE "none", graph |-> g,
                  mount |-> e.mount, reply |-> "sent", data |-> NoDefinition]
Room == Cardinality(requests) < MaxCalls

\* The dialogs cover the page: while one is open nothing under it can be clicked.
Uncovered == ed.shown /\ ~ed.leaving /\ ed.dialog = {} /\ ed.promote = "none"
Editable == Uncovered /\ ~ReadOnly(cache, ed)

Fetching(d) == \E k \in requests : k.kind = "fetch" /\ k.def = d
\* A query has one fetch at a time: an invalidation or refetch() drops the one under way for
\* another, or joins it when there is no data yet.
Refetch(e, rest) ==
  IF ~Existing(e) \/ (Fetching(e.page) /\ ~cache[e.page].has) THEN rest
  ELSE {k \in rest : ~(k.kind = "fetch" /\ k.def = e.page)}
         \cup {[Call("fetch", e, FirstGraph) EXCEPT !.mount = 0]}

------------------------------------------------------------------------------
EditorInit ==
  /\ server = [d \in Definitions |-> NoDefinition]
  /\ cache = [d \in Definitions |-> [has |-> FALSE, data |-> NoDefinition, failed |-> FALSE]]
  /\ ed = NoPage
  /\ hist = ClearedHistory
  /\ draft = NoDraft
  /\ requests = {}
  /\ edits = 0

------------------------------------------------------------------------------
(* Opening and leaving the page. *)

\* The page mounts, clears the history and fetches what it has not or what is stale.
Open(p, stale) ==
  /\ ed.page = "none" /\ ed.mount < MaxMounts /\ Room
  /\ p \in Definitions \cup {"new"}
  /\ LET e == [NoPage EXCEPT !.page = p, !.mount = ed.mount + 1]
         fetch == p \in Definitions /\ (stale \/ ~cache[p].has)
         c == IF p \in Definitions /\ ~cache[p].has THEN [cache EXCEPT ![p].failed = FALSE] ELSE cache
     IN /\ Render(c, e, ClearedHistory, draft)
        /\ requests' = IF fetch THEN Refetch(e, requests) ELSE requests
  /\ UNCHANGED <<server, edits>>

Left == [NoPage EXCEPT !.mount = ed.mount]

\* useBlocker: a dirty page holds the navigation until the user decides.
Navigate ==
  /\ ed.page # "none" /\ ~ed.leaving
  /\ Show(IF ed.dirty THEN [ed EXCEPT !.leaving = TRUE] ELSE Left, hist)
  /\ UNCHANGED <<requests, edits>>

\* The dialog is drawn with the editor: hidden, it cannot be answered.
Stay ==
  /\ ed.leaving /\ ed.shown
  /\ Show([ed EXCEPT !.leaving = FALSE], hist)
  /\ UNCHANGED <<requests, edits>>

DiscardAndProceed ==
  /\ ed.leaving /\ ed.shown
  /\ Show(Left, hist)
  /\ UNCHANGED <<requests, edits>>

\* Reloading the tab: every store is in memory.
Reload ==
  /\ ed.page # "none"
  /\ ed' = Left /\ hist' = ClearedHistory /\ draft' = NoDraft
  /\ cache' = [d \in Definitions |-> [has |-> FALSE, data |-> NoDefinition, failed |-> FALSE]]
  /\ requests' = {} /\ UNCHANGED <<server, edits>>

------------------------------------------------------------------------------
(* Editing the canvas. *)

Edit(e, h) ==
  /\ edits < MaxEdits /\ edits' = edits + 1
  /\ Show(e, h)
  /\ UNCHANGED requests

Snap == PushSnapshot(hist, ed.canvas)
Drawn(g) == [ed EXCEPT !.canvas = g, !.ref = g, !.dirty = TRUE]

\* Palette: by double click (a trigger that a later mount replays) or by drag and drop.
AddNode(n, dropped) ==
  /\ Editable /\ n \notin ed.canvas.nodes
  /\ Edit([Drawn([ed.canvas EXCEPT !.nodes = @ \cup {n}]) EXCEPT !.trig.add = @ \/ ~dropped], Snap)

\* An edge from an exclusive gateway waits for its condition; the snapshot is taken at once.
Connect(x) ==
  /\ Editable /\ x \notin ed.canvas.edges
  /\ x[1] \in ed.canvas.nodes /\ x[2] \in ed.canvas.nodes
  /\ Edit(IF x[1] \in Gateways THEN [ed EXCEPT !.dialog = {x}]
          ELSE Drawn([ed.canvas EXCEPT !.edges = @ \cup {x}]), Snap)

\* A double click on an edge of a gateway: no snapshot, and a read-only canvas lets it pass.
EditCondition(x) ==
  /\ Uncovered /\ x \in ed.canvas.edges /\ x[1] \in Gateways
  /\ Edit([ed EXCEPT !.dialog = {x}], hist)

\* An existing edge is changed, a missing one is added; "default" carries no condition.
ConfirmCondition(default) ==
  /\ ed.shown /\ ed.dialog # {}
  /\ LET g == ed.canvas
         cond == IF default THEN g.cond \ ed.dialog ELSE g.cond \cup ed.dialog
     IN Show([Drawn([g EXCEPT !.edges = @ \cup ed.dialog, !.cond = cond]) EXCEPT !.dialog = {}], hist)
  /\ UNCHANGED <<requests, edits>>

CancelCondition ==
  /\ ed.shown /\ ed.dialog # {}
  /\ Show([ed EXCEPT !.dialog = {}], hist)
  /\ UNCHANGED <<requests, edits>>

\* A node leaves with its edges, in two change events that both push the same snapshot.
RemoveNode(n) ==
  /\ Uncovered /\ n \in ed.canvas.nodes
  /\ LET g == ed.canvas
         gone == {x \in g.edges : x[1] = n \/ x[2] = n}
         h == IF gone = {} THEN Snap ELSE PushSnapshot(Snap, g)
     IN Edit(Drawn([g EXCEPT !.nodes = @ \ {n}, !.edges = @ \ gone, !.cond = @ \ gone]), h)

\* Variant: the condition of the edge stays behind.
RemoveEdgeOnly(x) ==
  /\ Uncovered /\ x \in ed.canvas.edges
  /\ Edit(Drawn([ed.canvas EXCEPT !.edges = @ \ {x}]), Snap)

RemoveEdge(x) ==
  /\ Uncovered /\ x \in ed.canvas.edges
  /\ Edit(Drawn([ed.canvas EXCEPT !.edges = @ \ {x}, !.cond = @ \ {x}]), Snap)

\* Any other change event (a move, a selection, a measurement) only marks the page.
Move ==
  /\ Uncovered
  /\ Edit(Drawn([ed.canvas EXCEPT !.pos = "moved"]), hist)

Touch ==
  /\ ed.shown /\ ~ed.dirty
  /\ Show([ed EXCEPT !.dirty = TRUE], hist)
  /\ UNCHANGED <<requests, edits>>

\* The property panel: one snapshot per node edited in a row.
UpdateNode(a) ==
  /\ Editable /\ ed.canvas.nodes # {} /\ a # ed.canvas.attr
  /\ Edit([Drawn([ed.canvas EXCEPT !.attr = a]) EXCEPT !.snapped = TRUE,
             !.trig.update = TRUE, !.trig.attr = a],
          IF ed.snapped THEN hist ELSE Snap)

\* Re-layout: the layout is computed, after an import, from the nodes of the click.
AutoLayout ==
  /\ Editable /\ ~ed.layout.on
  /\ Edit([ed EXCEPT !.trig.layout = TRUE,
             !.layout = [on |-> TRUE, live |-> TRUE, of |-> ed.canvas]], Snap)

\* Variant: the layout leaves the page unmarked.
LayoutDoneQuietly ==
  /\ ed.layout.on
  /\ LET of == ed.layout.of
         g == [ed.canvas EXCEPT !.nodes = of.nodes, !.attr = of.attr, !.pos = "moved"]
         e == [ed EXCEPT !.layout = NoLayout]
     IN Show(IF ed.layout.live /\ ed.shown THEN [e EXCEPT !.canvas = g, !.ref = g] ELSE e, hist)
  /\ UNCHANGED <<requests, edits>>

LayoutDone ==
  /\ ed.layout.on
  /\ LET of == ed.layout.of
         g == [ed.canvas EXCEPT !.nodes = of.nodes, !.attr = of.attr, !.pos = "moved"]
         e == [ed EXCEPT !.dirty = TRUE, !.layout = NoLayout]
     IN Show(IF ed.layout.live /\ ed.shown THEN [e EXCEPT !.canvas = g, !.ref = g] ELSE e, hist)
  /\ UNCHANGED <<requests, edits>>

\* Keyboard: the counter grows even while no canvas is there to hear it.
Undo ==
  /\ ed.page # "none" /\ ~ReadOnly(cache, ed)
  /\ LET e == [ed EXCEPT !.trig.undo = TRUE]
     IN IF ed.shown /\ hist.past # <<>>
        THEN Edit([e EXCEPT !.canvas = Last(hist.past), !.ref = Last(hist.past), !.dirty = TRUE],
                  UndoStack(hist, ed.ref))
        ELSE Edit(e, hist)

Redo ==
  /\ ed.page # "none" /\ ~ReadOnly(cache, ed)
  /\ LET e == [ed EXCEPT !.trig.redo = TRUE]
     IN IF ed.shown /\ hist.future # <<>>
        THEN Edit([e EXCEPT !.canvas = Head(hist.future), !.ref = Head(hist.future), !.dirty = TRUE],
                  RedoStack(hist, ed.ref))
        ELSE Edit(e, hist)

\* The validation effect sees the canvas of the last render of the page, whenever that is.
Revalidate ==
  /\ ed.shown /\ ed.valErr # BadInterface(ed.ref)
  /\ Show([ed EXCEPT !.valErr = ~@], hist)
  /\ UNCHANGED <<requests, edits>>

DiscardDraft ==
  /\ Uncovered /\ Existing(ed) /\ draft.def = ed.page
  /\ Render(cache, ed, hist, NoDraft)
  /\ UNCHANGED <<server, requests, edits>>

------------------------------------------------------------------------------
(* Requests of the page. *)

Send(k) == requests' = requests \cup {k}

\* Save: disabled by what the last render saw, checked again against the canvas itself.
Save ==
  /\ Editable /\ ~ed.valErr /\ Room
  /\ ~\E k \in requests : k.kind = "create" /\ k.mount = ed.mount
  /\ Show([ed EXCEPT !.srvErr = FALSE], hist)
  /\ IF BadInterface(ed.ref) THEN UNCHANGED requests
     ELSE Send(Call(IF Existing(ed) THEN "update" ELSE "create", ed, ed.ref))
  /\ UNCHANGED edits

SubmitForRelease ==
  /\ Uncovered /\ Existing(ed) /\ Data(cache, ed).status = "DRAFT" /\ Room
  /\ ~ed.checking /\ ~ed.valErr /\ ~ed.srvErr
  /\ Show([ed EXCEPT !.checking = TRUE], hist)
  /\ Send(Call("activate", ed, FirstGraph))
  /\ UNCHANGED edits

OpenPromote ==
  /\ Uncovered /\ Existing(ed) /\ Data(cache, ed).status = "ACTIVE"
  /\ Show([ed EXCEPT !.promote = "confirm"], hist)
  /\ UNCHANGED <<requests, edits>>

ConfirmPromote ==
  /\ ed.shown /\ ed.promote = "confirm" /\ Room
  /\ Show([ed EXCEPT !.promote = "pending"], hist)
  /\ Send(Call("promote", ed, FirstGraph))
  /\ UNCHANGED edits

CancelPromote ==
  /\ ed.shown /\ ed.promote = "confirm"
  /\ Show([ed EXCEPT !.promote = "none"], hist)
  /\ UNCHANGED <<requests, edits>>

\* ConflictResolver is shown only when some draft is there, of this definition or not;
\* without one the alert of QueryStateBoundary offers a refetch and nothing else.
Resolving == ed.conflict /\ Existing(ed) /\ draft.def # "none"

\* Offered when the conflict names the version it is with.
SaveMerged(mine) ==
  /\ Resolving /\ Room
  /\ Show(ed, hist)
  /\ Send(Call("merge", ed, IF mine THEN draft.graph ELSE Data(cache, ed).graph))
  /\ UNCHANGED edits

DiscardMine ==
  /\ Resolving /\ Room
  /\ Render(cache, [ed EXCEPT !.conflict = FALSE], hist, IF draft.def = ed.page THEN NoDraft ELSE draft)
  /\ requests' = Refetch(ed, requests)
  /\ UNCHANGED <<server, edits>>

\* A retry, a conflict's refetch, or the window coming into focus.
RefetchPage ==
  /\ Existing(ed) /\ ~Fetching(ed.page) /\ Room
  /\ Show(ed, hist)
  /\ requests' = Refetch(ed, requests)
  /\ UNCHANGED edits

------------------------------------------------------------------------------
(* The server.  A definition is changed only while it is a draft; the last *)
(* write wins.  A reply may be lost after the change was made.             *)

Apply(k) ==
  IF k.kind = "activate" THEN [server[k.def] EXCEPT !.status = "ACTIVE"]
  ELSE [server[k.def] EXCEPT !.graph = k.graph]

Reply(k, r) == requests' = (requests \ {k}) \cup {[k EXCEPT !.reply = r]}

Write(k, r) ==
  /\ k.kind \in {"update", "merge", "activate"}
  /\ server[k.def].status = "DRAFT" /\ r \in {"ok", "error"}
  /\ server' = [server EXCEPT ![k.def] = Apply(k)]
  /\ Reply(k, r)

Refuse(k, r) ==
  /\ \/ k.kind \in {"update", "merge", "activate"} /\ server[k.def].status # "DRAFT" /\ r = "conflict"
     \/ k.kind = "create" /\ r \in {"ok", "conflict"}
     \/ k.kind \in {"validate", "activate"} /\ r = "invalid"
     \/ k.kind \in {"validate", "promote"} /\ r = "ok"
     \/ r = "error"
  /\ Reply(k, r)
  /\ UNCHANGED server

Read(k) ==
  /\ k.kind = "fetch"
  /\ requests' = (requests \ {k}) \cup {[k EXCEPT !.reply = "ok", !.data = server[k.def]]}
  /\ UNCHANGED server

Serve(k) ==
  /\ k.reply = "sent"
  /\ \/ \E r \in {"ok", "error"} : Write(k, r)
     \/ \E r \in {"ok", "conflict", "invalid", "error"} : Refuse(k, r)
     \/ Read(k)
  /\ UNCHANGED <<cache, ed, hist, draft, edits>>

\* Another user saves or releases a definition.
OtherUser(d, g, s) ==
  /\ edits < MaxEdits /\ server[d].status = "DRAFT"
  /\ edits' = edits + 1
  /\ server' = [server EXCEPT ![d].graph = g, ![d].status = s]
  /\ UNCHANGED <<cache, ed, hist, draft, requests>>

------------------------------------------------------------------------------
(* The answers.  A handler that awaited one goes on even when its page is  *)
(* gone: the stores it writes are global, only its own state is lost.      *)

Mine(k) == ed.page # "none" /\ ed.mount = k.mount
Own(k, e) == IF Mine(k) THEN e ELSE ed

\* The save succeeded: the history is cleared, the page is marked clean, and the
\* stored graph is validated.
SaveAnswered(k) ==
  /\ k.kind \in {"update", "create"}
  /\ CASE k.reply = "ok" ->
            /\ Show(Own(k, [ed EXCEPT !.dirty = FALSE, !.base = k.graph,
                              !.slipped = ed.shown /\ ed.canvas # k.graph]), ClearedHistory)
            /\ requests' = (requests \ {k}) \cup {[k EXCEPT !.kind = "validate", !.reply = "sent"]}
       [] k.reply = "conflict" ->
            /\ Show(Own(k, [ed EXCEPT !.conflict = TRUE]), hist)
            /\ requests' = requests \ {k}
       [] OTHER -> Show(ed, hist) /\ requests' = requests \ {k}

ValidateAnswered(k) ==
  /\ k.kind = "validate"
  /\ Show(Own(k, IF k.reply = "error" THEN ed ELSE [ed EXCEPT !.srvErr = (k.reply = "invalid")]), hist)
  /\ requests' = requests \ {k}

ActivateAnswered(k) ==
  /\ k.kind = "activate"
  /\ Show(Own(k, [ed EXCEPT !.checking = FALSE]), hist)
  /\ requests' = IF k.reply = "ok" /\ ed.page = k.def THEN Refetch(ed, requests \ {k}) ELSE requests \ {k}

\* handleSaveMerged: the merged body becomes the draft, with no field dirty.
MergeAnswered(k) ==
  /\ k.kind = "merge"
  /\ IF k.reply = "ok"
     THEN /\ Render(cache, Own(k, [ed EXCEPT !.conflict = FALSE]), hist,
                    [def |-> k.def, graph |-> k.graph, keys |-> {}])
          /\ requests' = IF Mine(k) THEN Refetch(ed, requests \ {k}) ELSE requests \ {k}
     ELSE Render(cache, ed, hist, draft) /\ requests' = requests \ {k}
  /\ UNCHANGED server

PromoteAnswered(k) ==
  /\ k.kind = "promote"
  /\ Show(Own(k, [ed EXCEPT !.promote = IF k.reply = "ok" THEN "none" ELSE "confirm"]), hist)
  /\ requests' = IF k.reply = "ok" /\ Existing(ed) THEN Refetch(ed, requests \ {k}) ELSE requests \ {k}

\* A failed fetch keeps the data but shows the failure in place of the page.
FetchAnswered(k) ==
  /\ k.kind = "fetch"
  /\ LET q == IF k.reply = "ok" THEN [has |-> TRUE, data |-> k.data, failed |-> FALSE]
              ELSE [cache[k.def] EXCEPT !.failed = TRUE]
     IN Render([cache EXCEPT ![k.def] = q], ed, hist, draft)
  /\ requests' = requests \ {k} /\ UNCHANGED server

Answer(k) ==
  /\ k.reply # "sent"
  /\ \/ ValidateAnswered(k) \/ ActivateAnswered(k) \/ PromoteAnswered(k)
     \/ SaveAnswered(k) \/ MergeAnswered(k) \/ FetchAnswered(k)
  /\ UNCHANGED edits

------------------------------------------------------------------------------
CanvasStep ==
  \/ \E n \in Nodes : (\E b \in BOOLEAN : AddNode(n, b)) \/ RemoveNode(n)
  \/ \E x \in Edges : Connect(x) \/ EditCondition(x) \/ RemoveEdge(x)
  \/ \E b \in BOOLEAN : ConfirmCondition(b)
  \/ \E a \in Attrs : UpdateNode(a)
  \/ CancelCondition \/ Move \/ Touch \/ AutoLayout \/ LayoutDone \/ Undo \/ Redo \/ Revalidate

PageStep ==
  \/ \E p \in Definitions \cup {"new"}, stale \in BOOLEAN : Open(p, stale)
  \/ Navigate \/ Stay \/ DiscardAndProceed \/ Reload
  \/ DiscardDraft
  \/ Save \/ SubmitForRelease \/ OpenPromote \/ ConfirmPromote \/ CancelPromote
  \/ \E b \in BOOLEAN : SaveMerged(b)
  \/ DiscardMine \/ RefetchPage

OtherGraph == [FirstGraph EXCEPT !.pos = "moved"]

EditorNext ==
  \/ CanvasStep
  \/ PageStep
  \/ \E k \in requests : Serve(k) \/ Answer(k)
  \/ \E d \in Definitions, s \in Statuses : OtherUser(d, OtherGraph, s)

EditorSpec == EditorInit /\ [][EditorNext]_editorVars

------------------------------------------------------------------------------
\* Every part of the state has its shape, and a condition is on an edge of its graph.
EditorTypeOK ==
  /\ server \in [Definitions -> Definition]
  /\ cache \in [Definitions -> Query]
  /\ ed.canvas \in Graph /\ ed.ref \in Graph /\ ed.base \in Graph
  /\ ed.checking \in BOOLEAN /\ ed.mount \in 0..MaxMounts
  /\ ed.canvas.cond \subseteq ed.canvas.edges
  /\ hist.past \in Seq(Graph) /\ hist.future \in Seq(Graph)
  /\ \A k \in requests : k.reply \in {"sent", "ok", "conflict", "invalid", "error"}

\* The history never holds more than maxDepth snapshots, counting those that can be
\* redone: only pushSnapshot trims, redo appends without a look at the bound.  What it brings
\* back is a graph, whose conditions are on its edges.
HistoryBounded == EditorTypeOK /\ Len(hist.past) + Len(hist.future) <= MaxDepth

\* A canvas that differs from what was loaded or last saved is marked, so that leaving
\* asks first, but for the two ways the code lets a change slip: an edit made while a
\* save was under way, and an update of the panel replayed by a new mount.
UnsavedIsMarked ==
  ed.shown /\ ed.canvas # ed.base => ed.dirty \/ ed.slipped

===============================================================================
