------------------------------ MODULE TaskInbox ------------------------------
(***************************************************************************)
(* The task inbox, pages/tasks/TaskInboxPage.tsx with hooks/useTasks.ts:   *)
(* the polled list, the panel of the selected task with its form, and the  *)
(* completions and claims it sends.  Tasks also end without this user.     *)
(***************************************************************************)
EXTENDS Naturals, Queries

CONSTANTS
  Tasks,      \* tasks of the inbox
  Assigned,   \* those assigned to this user; the others to a group of theirs
  MaxSends    \* bound: completions and claims sent

VARIABLES
  srv,    \* the status of every task
  ui,     \* the page: the task of the panel and the tasks whose forms its values come from
  q,      \* the rows of the polled list and the detail query of the panel (what is cached of
          \* another task is left out)
  calls   \* completions and claims under way

taskVars == <<srv, ui, q, calls>>

Fresh == Started(NewQuery("PENDING"))
Pane == ui.task   \* "none" or the task of the panel
NoValues == {}

TasksInit ==
  /\ srv = [t \in Tasks |-> "PENDING"]
  /\ ui = [task |-> "none", values |-> NoValues, sent |-> 0, done |-> {}]
  /\ q = [inbox |-> {}, detail |-> Fresh]
  /\ calls = {}

\* The panel shows what it has of the task, whether or not the last fetch failed.
PaneShown == Pane \in Tasks /\ q.detail.has
MayComplete(t) == Pane = t /\ PaneShown /\ t \in Assigned /\ q.detail.data = "PENDING"
MayClaim(t) == Pane = t /\ PaneShown /\ t \notin Assigned
Pending(kind) == \E c \in calls : c.kind = kind /\ c.mount

------------------------------------------------------------------------------
Forget(s) == {[c EXCEPT !.mount = FALSE] : c \in s}

\* The panel is keyed by its task: another task starts with an empty form.
\* Variant: one panel for all tasks.
SelectKeepingForm(t) ==
  /\ t \in q.inbox /\ t # Pane
  /\ ui' = [ui EXCEPT !.task = t]
  /\ q' = [q EXCEPT !.detail = Fresh]
  /\ UNCHANGED <<srv, calls>>
SelectTask(t) ==
  /\ t \in q.inbox /\ t # Pane
  /\ ui' = [ui EXCEPT !.task = t, !.values = NoValues]
  /\ q' = [q EXCEPT !.detail = Fresh]
  /\ calls' = Forget(calls)
  /\ UNCHANGED srv

ClosePane ==
  /\ Pane \in Tasks
  /\ ui' = [ui EXCEPT !.task = "none", !.values = NoValues] /\ calls' = Forget(calls)
  /\ q' = [q EXCEPT !.detail = Fresh] /\ UNCHANGED srv

\* The form of a task is drawn whatever its status and whoever it is assigned to.
SetFieldValue ==
  /\ PaneShown
  /\ ui' = [ui EXCEPT !.values = @ \cup {Pane}]
  /\ UNCHANGED <<srv, q, calls>>

Post(kind, t) ==
  /\ ui.sent < MaxSends /\ ~Pending(kind)
  /\ ui' = [ui EXCEPT !.sent = @ + 1]
  /\ calls' = calls \cup {[kind |-> kind, task |-> t, values |-> ui.values, at |-> "sent", ok |-> FALSE, mount |-> TRUE]}
  /\ UNCHANGED <<srv, q>>

Complete(t) == MayComplete(t) /\ Post("complete", t)
Claim(t) == MayClaim(t) /\ Post("claim", t)

\* The list is fetched again and again, by the poll and after every success; a failed fetch
\* hides it.  Its fetches are single steps here.
PollInbox(ok) ==
  /\ q' = [q EXCEPT !.inbox = IF ok THEN {t \in Tasks : srv[t] = "PENDING"} ELSE {}] /\ q' # q
  /\ UNCHANGED <<srv, ui, calls>>

RefocusTask ==
  /\ Pane \in Tasks /\ q' = [q EXCEPT !.detail = Observed(@, TRUE)] /\ q' # q
  /\ UNCHANGED <<srv, ui, calls>>

\* onSuccess of both mutations.
\* Variant: the list alone is invalidated.
InvalidateListOnly(t) == q
InvalidateTask(t) == [q EXCEPT !.detail = IF Pane = t THEN Invalidated(@) ELSE @]

\* An error is kept by the mutation; nothing is fetched for it.
TaskAnswered(c) ==
  /\ c.at = "handled" /\ calls' = calls \ {c}
  /\ IF c.ok THEN /\ q' = InvalidateTask(c.task)
                  /\ ui' = [ui EXCEPT !.done = IF c.mount THEN @ \cup {Pane} ELSE @]
             ELSE UNCHANGED <<q, ui>>
  /\ UNCHANGED srv

------------------------------------------------------------------------------
(* The server.  A completion is accepted once, while the task is pending.  *)
(* A claim is posted to the assignment route with no user in its body,     *)
(* which that route refuses.                                               *)

CompletionHandled(c, arrives) ==
  /\ c.at = "sent" /\ c.kind = "complete" /\ srv[c.task] = "PENDING"
  /\ srv' = [srv EXCEPT ![c.task] = "COMPLETED"]
  /\ calls' = (calls \ {c}) \cup {[c EXCEPT !.at = "handled", !.ok = arrives]}
  /\ UNCHANGED <<ui, q>>

TaskRefused(c) ==
  /\ c.at = "sent"
  /\ calls' = (calls \ {c}) \cup {[c EXCEPT !.at = "handled"]}
  /\ UNCHANGED <<srv, ui, q>>

ReadTask ==
  /\ Pane \in Tasks /\ q.detail.fetch = "sent" /\ q' = [q EXCEPT !.detail = ReadWith(@, srv[Pane])]
  /\ UNCHANGED <<srv, ui, calls>>

DetailAnswered(ok) ==
  /\ Pane \in Tasks /\ q.detail.fetch = "read"
  /\ q' = [q EXCEPT !.detail = IF ok THEN Answered(@) ELSE Refused(@)]
  /\ UNCHANGED <<srv, ui, calls>>

\* Its instance is cancelled, or another member of the group completes it.
TaskEnds(t, s) ==
  /\ srv[t] = "PENDING" /\ s \in {"COMPLETED", "CANCELLED"}
  /\ srv' = [srv EXCEPT ![t] = s] /\ UNCHANGED <<ui, q, calls>>

TasksNext ==
  \/ \E t \in Tasks : \/ SelectTask(t)
                      \/ Complete(t) \/ Claim(t)
                      \/ \E s \in {"COMPLETED", "CANCELLED"} : TaskEnds(t, s)
  \/ ClosePane \/ SetFieldValue \/ RefocusTask \/ ReadTask
  \/ \E ok \in BOOLEAN : PollInbox(ok) \/ DetailAnswered(ok)
  \/ \E c \in calls : TaskAnswered(c) \/ TaskRefused(c) \/ \E b \in BOOLEAN : CompletionHandled(c, b)

\* What the fetch of the panel does by itself.
PaneFetch == ReadTask \/ \E ok \in BOOLEAN : DetailAnswered(ok)

TasksTypeOK ==
  /\ srv \in [Tasks -> {"PENDING", "COMPLETED", "CANCELLED"}]
  /\ ui.task \in Tasks \cup {"none"} /\ ui.values \subseteq Tasks
  /\ q.detail.data \in {"PENDING", "COMPLETED", "CANCELLED"}
  /\ q.inbox \subseteq Tasks

\* A completion carries only what was typed into the form of its own task.
FormsStayApart == \A c \in calls : c.kind = "complete" => c.values \subseteq {c.task}

==============================================================================
