---------------------------- MODULE InstancePage -----------------------------
(***************************************************************************)
(* The page of one instance, pages/instances/InstanceDetailPage.tsx: its   *)
(* status, polled and changed before the server confirms a cancellation    *)
(* (useCancelInstance), and the timeline, collected page by page from a    *)
(* query whose data may change after it was collected.                     *)
(***************************************************************************)
EXTENDS Naturals, Sequences, SequencesExt, Queries

CONSTANTS
  PageSize,   \* page_size of the timeline (50 in the code)
  MaxEvents,  \* bound: events of the instance
  MaxCancels  \* bound: cancellations sent

VARIABLES
  srv,    \* the status of the instance and the number of its events
  ui,     \* the page: its dialog, its tab, the entries of the timeline collected so far
  q,      \* the detail query and the timeline query of the cursor on screen
  calls   \* the cancellation under way

pageVars == <<srv, ui, q, calls>>

Ended == {"COMPLETED", "CANCELLED"}
NoPage == [items |-> <<>>, next |-> 0]

\* A cursor is the number of the entry before the page.
\* Variant: a page is always full.
FullPage(cursor) ==
  [items |-> [i \in 1 .. PageSize |-> cursor + i], next |-> IF cursor + PageSize < srv.events THEN cursor + PageSize ELSE 0]
TimelinePage(cursor) ==
  LET last == IF srv.events <= cursor + PageSize THEN srv.events ELSE cursor + PageSize
  IN [items |-> [i \in 1 .. last - cursor |-> cursor + i], next |-> IF last < srv.events THEN last ELSE 0]

PageInit ==
  /\ srv \in [status : {"ACTIVE"} \cup Ended, events : 1 .. MaxEvents]
  /\ ui = [dialog |-> FALSE, sent |-> 0, asked |-> FALSE, cursor |-> 0, applied |-> FALSE, items |-> <<>>]
  /\ q = [detail |-> Started(NewQuery("ACTIVE")), timeline |-> NewQuery(NoPage)]
  /\ calls = {}

Shown == Renders(q.detail) = "success"
Cancelling == \E c \in calls : c.at \in {"sent", "handled"}

------------------------------------------------------------------------------
\* A refetch of the detail query: the poll, the button, the graph's own interval, the focus.
PollInstance ==
  /\ q.detail.has
  /\ q' = [q EXCEPT !.detail = Invalidated(@)] /\ UNCHANGED <<srv, ui, calls>>

RetryDetail ==
  /\ q' = [q EXCEPT !.detail = Observed(@, FALSE)] /\ q' # q /\ UNCHANGED <<srv, ui, calls>>

AskCancel ==
  /\ Shown /\ q.detail.data = "ACTIVE" /\ ~Cancelling /\ ~ui.dialog
  /\ ui' = [ui EXCEPT !.dialog = TRUE] /\ UNCHANGED <<srv, q, calls>>
CloseCancel == ui.dialog /\ Shown /\ ui' = [ui EXCEPT !.dialog = FALSE] /\ UNCHANGED <<srv, q, calls>>

\* onMutate: the fetch under way is cancelled, what was shown is kept, CANCELLED is shown.
ConfirmCancel ==
  /\ ui.dialog /\ Shown /\ ~Cancelling /\ ui.sent < MaxCancels
  /\ ui' = [ui EXCEPT !.dialog = FALSE, !.sent = @ + 1]
  /\ calls' = {[previous |-> q.detail.data, at |-> "sent", ok |-> FALSE]}
  /\ q' = [q EXCEPT !.detail = [Cancelled(@) EXCEPT !.data = "CANCELLED"]]
  /\ UNCHANGED srv

\* onError puts back what was shown before, onSettled fetches what is true.
\* Variant: nothing is put back.
KeepCancelled(c) == q.detail
PutBack(c) == [q.detail EXCEPT !.has = TRUE, !.data = c.previous, !.failed = FALSE]

CancelSettled(c) ==
  /\ c.at = "handled" /\ calls' = {}
  /\ q' = [q EXCEPT !.detail = Invalidated(IF c.ok THEN q.detail ELSE PutBack(c))]
  /\ UNCHANGED <<srv, ui>>

------------------------------------------------------------------------------
(* The timeline.  The effect that collects a page runs when the query has  *)
(* data for a cursor that was not collected before; a later answer for the *)
(* same cursor is not looked at, but its next cursor is.                   *)

\* mergeTimelineItems
Merged(items, u) == IF u.cursor = 0 THEN items ELSE u.items \o items
\* Variant: every answer is collected.
CollectAlways(u, t) == IF t.has THEN [u EXCEPT !.items = Merged(t.data.items, u), !.applied = TRUE] ELSE u
Collect(u, t) ==
  IF t.has /\ ~u.applied THEN [u EXCEPT !.items = Merged(t.data.items, u), !.applied = TRUE] ELSE u

OpenTimeline ==
  /\ Shown /\ ~ui.asked /\ ~ui.dialog
  /\ ui' = [ui EXCEPT !.asked = TRUE] /\ q' = [q EXCEPT !.timeline = Started(@)]
  /\ UNCHANGED <<srv, calls>>

LoadMore ==
  /\ Shown /\ ui.asked /\ ~ui.dialog /\ q.timeline.has /\ q.timeline.data.next # 0 /\ q.timeline.fetch = "no"
  /\ ui' = [ui EXCEPT !.cursor = q.timeline.data.next, !.applied = FALSE]
  /\ q' = [q EXCEPT !.timeline = Started(NewQuery(NoPage))]
  /\ UNCHANGED <<srv, calls>>

RefocusTimeline ==
  /\ ui.asked /\ q' = [q EXCEPT !.timeline = Observed(@, TRUE)] /\ q' # q
  /\ UNCHANGED <<srv, ui, calls>>

TimelineAnswered(ok) ==
  /\ q.timeline.fetch = "sent"
  /\ LET t == IF ok THEN Answered(ReadWith(q.timeline, TimelinePage(ui.cursor))) ELSE Refused(q.timeline)
     IN q' = [q EXCEPT !.timeline = t] /\ ui' = IF ok THEN Collect(ui, t) ELSE ui
  /\ UNCHANGED <<srv, calls>>

------------------------------------------------------------------------------
(* The server. *)

ReadInstance ==
  /\ q.detail.fetch = "sent" /\ q' = [q EXCEPT !.detail = ReadWith(@, srv.status)]
  /\ UNCHANGED <<srv, ui, calls>>
InstanceAnswered(ok) ==
  /\ q.detail.fetch = "read" /\ q' = [q EXCEPT !.detail = IF ok THEN Answered(@) ELSE Refused(@)]
  /\ UNCHANGED <<srv, ui, calls>>

CancelHandled(c, arrives) ==
  /\ c.at = "sent" /\ srv.status = "ACTIVE" /\ srv' = [srv EXCEPT !.status = "CANCELLED"]
  /\ calls' = {[c EXCEPT !.at = "handled", !.ok = arrives]} /\ UNCHANGED <<ui, q>>
CancelRefused(c) ==
  /\ c.at = "sent" /\ calls' = {[c EXCEPT !.at = "handled"]} /\ UNCHANGED <<srv, ui, q>>

\* The instance takes a step, or ends.
Proceed(s) ==
  /\ srv.status = "ACTIVE" /\ srv.events < MaxEvents
  /\ srv' = [status |-> s, events |-> srv.events + 1] /\ UNCHANGED <<ui, q, calls>>

PageNext ==
  \/ PollInstance \/ RetryDetail \/ AskCancel \/ CloseCancel \/ ConfirmCancel
  \/ OpenTimeline \/ LoadMore \/ RefocusTimeline \/ ReadInstance
  \/ \E ok \in BOOLEAN : TimelineAnswered(ok) \/ InstanceAnswered(ok)
  \/ \E c \in calls : CancelSettled(c) \/ CancelRefused(c) \/ \E b \in BOOLEAN : CancelHandled(c, b)
  \/ \E s \in {"ACTIVE", "COMPLETED"} : Proceed(s)

PageTypeOK ==
  /\ srv.status \in {"ACTIVE"} \cup Ended /\ srv.events \in 1 .. MaxEvents
  /\ q.detail.data \in {"ACTIVE"} \cup Ended
  /\ ui.items \in Seq(1 .. srv.events)

\* A cancelled status on the screen is one the server has, or one being asked for.
CancelShownIsReal == q.detail.data = "CANCELLED" => srv.status = "CANCELLED" \/ Cancelling

\* No entry of the timeline is shown twice or out of order, whatever is fetched again.
TimelineInOrder == \A i \in 1 .. Len(ui.items) - 1 : ui.items[i] < ui.items[i + 1]

==============================================================================
