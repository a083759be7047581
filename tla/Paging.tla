-------------------------------- MODULE Paging --------------------------------
(***************************************************************************)
(* Lists that are filtered and read page by page, with a cursor for every  *)
(* page before the one shown: tenants, promotion reviews, the audit log,   *)
(* records.  The browser of records (EntityListBrowserPage.tsx) takes what *)
(* its user chose when the search button is pressed, the others at once.   *)
(* Others add and remove items meanwhile.                                  *)
(***************************************************************************)
EXTENDS Naturals, Sequences, SequencesExt, Queries

CONSTANTS
  Items,       \* the items, a sequence: for each the filter that finds it
  MaxChanges   \* bound: items added or removed

VARIABLES
  srv,    \* the items that exist
  ui,     \* the page: its filter, the one chosen, the items its pages come after and the filters
          \* under which these were got
  q       \* the query of the page on the screen; what is cached of others is left out

pagingVars == <<srv, ui, q>>

Filters == {""} \cup {Items[i] : i \in DOMAIN Items}
Found(i) == ui.filter \in {"", Items[i]}
NoPage == [item |-> 0, next |-> 0]

PagingInit ==
  /\ srv = [items |-> DOMAIN Items, changes |-> 0]
  /\ ui \in [browser : BOOLEAN, filter : {""}, chosen : {""}, cursors : {<<>>}]
  /\ q = Started(NewQuery(NoPage))

Cursors == [k \in DOMAIN ui.cursors |-> ui.cursors[k].after]
After == IF ui.cursors = <<>> THEN 0 ELSE Last(Cursors)

\* A page of one item.
Page ==
  LET after == {i \in srv.items : i > After /\ Found(i)}
      first == CHOOSE i \in after : \A j \in after : i <= j
  IN IF after = {} THEN NoPage ELSE [item |-> first, next |-> IF after = {first} THEN 0 ELSE first]

------------------------------------------------------------------------------
\* Another filter or page is another query, without data.
Showing(u) == ui' = u /\ q' = Started(NewQuery(NoPage)) /\ UNCHANGED srv

\* Variant: the position is kept.
KeepCursors == ui.cursors
NoCursors == <<>>

\* A filter or a page size goes back to the first page.
Filter(f) == f # ui.filter /\ Showing([ui EXCEPT !.filter = f, !.chosen = f, !.cursors = NoCursors])
SetFilter(f) == ~ui.browser /\ Filter(f)

Choose(f) == ui.browser /\ f # ui.chosen /\ ui' = [ui EXCEPT !.chosen = f] /\ UNCHANGED <<srv, q>>

\* The same filter is searched again from the first page on.
Search ==
  /\ ui.browser /\ Renders(q) # "loading"
  /\ Filter(ui.chosen) \/ (ui.chosen = ui.filter /\ ui.cursors # <<>> /\ Showing([ui EXCEPT !.cursors = NoCursors]))

\* The browser shows an error beside its table, the others instead of it.
Loaded == Renders(q) = "success" \/ (ui.browser /\ q.failed)
GoNext ==
  /\ Loaded /\ q.data.next # 0
  /\ Showing([ui EXCEPT !.cursors = Append(@, [after |-> q.data.next, filter |-> ui.filter])])

GoPrev == Loaded /\ ui.cursors # <<>> /\ Showing([ui EXCEPT !.cursors = Front(@)])

\* The failure screen, the window in focus, the interval of the audit log.
RefetchPage ==
  /\ q' = (IF Renders(q) = "failure" THEN Invalidated(q) ELSE Observed(q, TRUE))
  /\ q' # q /\ UNCHANGED <<srv, ui>>

ReadPage == q.fetch = "sent" /\ q' = ReadWith(q, Page) /\ UNCHANGED <<srv, ui>>
PageAnswer == q.fetch = "read" /\ q' = Answered(q) /\ UNCHANGED <<srv, ui>>
PageFail == q.fetch = "read" /\ q' = Refused(q) /\ UNCHANGED <<srv, ui>>

OthersChange(i) ==
  /\ srv.changes < MaxChanges
  /\ srv' = [items |-> IF i \in srv.items THEN srv.items \ {i} ELSE srv.items \cup {i}, changes |-> srv.changes + 1]
  /\ UNCHANGED <<ui, q>>

PagingNext ==
  \/ \E f \in Filters : SetFilter(f) \/ Choose(f)
  \/ Search
  \/ GoNext \/ GoPrev \/ RefetchPage \/ ReadPage \/ PageAnswer \/ PageFail
  \/ \E i \in DOMAIN Items : OthersChange(i)

------------------------------------------------------------------------------
\* The pages one went through are pages of the list that is shown: their cursors were given
\* under the filter shown, in the order of the list; and what a page shows comes after them.
CursorsFit ==
  /\ \A k \in DOMAIN ui.cursors : ui.cursors[k].filter = ui.filter
  /\ \A k \in 1 .. Len(ui.cursors) - 1 : Cursors[k] < Cursors[k + 1]
  /\ q.has /\ q.data.item # 0 => q.data.item > After /\ Found(q.data.item)
===============================================================================
