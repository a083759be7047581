---------------------------- MODULE InstanceBoard ----------------------------
(***************************************************************************)
(* The instance board, pages/instances/InstanceBoardPage.tsx: its          *)
(* definition filter, which lives in the URL, and the dialog that starts   *)
(* an instance of the definition named in it.  The id and the version the  *)
(* dialog submits are derived at every render from what is typed and what  *)
(* two queries have answered so far.                                       *)
(***************************************************************************)
EXTENDS Naturals, Queries

CONSTANTS
  Versions,    \* definitions, one for each version of a name
  NameOf,      \* NameOf[d]: the name of definition d
  Like,        \* Like[t]: the names the server finds for the text t; a text of one name at least
  MaxStarts    \* bound: starts sent

VARIABLES
  srv,    \* the versions that are active, one of a name at most
  ui,     \* the page and the dialog, and the text and id of the URL's filter
  q,      \* the typeahead query of the URL's text and the detail query of its id
  calls   \* starts under way

boardVars == <<srv, ui, q, calls>>

Names == {NameOf[d] : d \in Versions}
Texts == DOMAIN Like

Closed == [at |-> "board", text |-> "", def |-> "none", show |-> FALSE, name |-> "", sent |-> 0]
\* A query of another key is another query; what is cached of it is left out.
Typeahead == Started(NewQuery({}))
NoDetail == NewQuery(FALSE)

BoardInit ==
  /\ srv \in {s \in SUBSET Versions : \A d, e \in s : NameOf[d] = NameOf[e] => d = e}
  /\ ui = Closed
  /\ q = [items |-> Typeahead, detail |-> NoDetail]
  /\ calls = {}

\* matchedStartDefinition: the items listed for the filter, searched for the dialog's name.
Matched(u, p) == {d \in p.items.data : NameOf[d] = u.name}

\* startDefinitionId: the match, or the filter's while the name is still the filter's.
StartId(u, p) ==
  IF Matched(u, p) # {} THEN CHOOSE d \in Matched(u, p) : TRUE
  ELSE IF u.name = u.text THEN u.def ELSE "none"

\* startDefinitionVersion: what the dialog shows beside the name.
VersionShown(u, p) ==
  IF Matched(u, p) # {} THEN StartId(u, p)
  ELSE IF u.name = u.text /\ p.detail.has THEN u.def ELSE "none"

------------------------------------------------------------------------------
\* The URL's filter becomes (text, def), and the queries follow it.
Keyed(p, u, text, def) ==
  [items |-> IF text = u.text THEN p.items ELSE Typeahead,
   detail |-> IF def = u.def THEN p.detail ELSE IF def = "none" THEN NoDetail ELSE Started(NoDetail)]

\* The effect of the dialog: once the name has a match the URL's filter becomes that match.
Follows(u, p) == u.show /\ Matched(u, p) # {} /\ <<u.text, u.def>> # <<u.name, StartId(u, p)>>
Rendered(u, p) ==
  IF Follows(u, p)
  THEN /\ ui' = [u EXCEPT !.text = u.name, !.def = StartId(u, p)]
       /\ q' = Keyed(p, u, u.name, StartId(u, p))
  ELSE ui' = u /\ q' = p

Filter(text, def) ==
  Rendered([ui EXCEPT !.text = text, !.def = def], Keyed(q, ui, text, def)) /\ UNCHANGED <<srv, calls>>
OnBoard == ui.at = "board"

\* onDefinitionInputChange: a text typed into the filter is not resolved yet.
\* Variant: the id of the text before stays.
TypeKeepingId(t) == OnBoard /\ ~ui.show /\ t # ui.text /\ Filter(t, ui.def)
TypeFilter(t) == OnBoard /\ ~ui.show /\ t # ui.text /\ Filter(t, "none")

\* onResolveDefinition, when the field loses the focus.
ResolveFilter ==
  /\ OnBoard /\ ~ui.show
  /\ \E d \in q.items.data : NameOf[d] = ui.text /\ Filter(ui.text, d)

\* The Back button, or a link to the board.
FollowLink(d) == OnBoard /\ (IF d = "none" THEN Filter("", d) ELSE Filter(NameOf[d], d))

OpenStart ==
  /\ OnBoard /\ ~ui.show
  /\ Rendered([ui EXCEPT !.show = TRUE, !.name = ui.text], q) /\ UNCHANGED <<srv, calls>>

CloseStart == OnBoard /\ ui.show /\ ui' = [ui EXCEPT !.show = FALSE] /\ UNCHANGED <<srv, q, calls>>

TypeName(t) ==
  /\ OnBoard /\ ui.show /\ t # ui.name
  /\ Rendered([ui EXCEPT !.name = t], q) /\ UNCHANGED <<srv, calls>>

\* The button is disabled while the mutation of this mount is pending: until the refetch of its
\* onSuccess is over, which is not yet the end of submitStartInstance.
StartPending == \E c \in calls : c.mount /\ c.at # "second"

SubmitStart ==
  /\ OnBoard /\ ui.show /\ ~StartPending /\ ui.sent < MaxStarts
  /\ StartId(ui, q) # "none"
  /\ calls' = calls \cup {[nth |-> ui.sent, at |-> "sent", mount |-> TRUE]}
  /\ ui' = [ui EXCEPT !.sent = @ + 1] /\ UNCHANGED <<srv, q>>

\* The user leaves the board, and comes back to a new one.
Unmounted(s) == {[c EXCEPT !.mount = FALSE] : c \in s}
LeaveBoard ==
  /\ OnBoard /\ ui' = [Closed EXCEPT !.at = "away", !.sent = ui.sent]
  /\ q' = [items |-> Typeahead, detail |-> NoDetail] /\ calls' = Unmounted(calls) /\ UNCHANGED srv
ReturnToBoard == ~OnBoard /\ ui' = [ui EXCEPT !.at = "board"] /\ UNCHANGED <<srv, q, calls>>

\* submitStartInstance goes on, mounted or not: the list is fetched twice, then the dialog is
\* closed and the instance opened, wherever the user is by then.
Moved(c, to) == calls' = (calls \ {c}) \cup {[c EXCEPT !.at = to]} /\ UNCHANGED <<srv, ui, q>>
StartRefused(c) == c.at = "sent" /\ calls' = calls \ {c} /\ UNCHANGED <<srv, ui, q>>
StartAccepted(c) == c.at = "sent" /\ Moved(c, "first")
ListRefetched(c) == c.at = "first" /\ Moved(c, "second")

\* Variant: only a dialog that is still open opens the instance.
OpenIfShown(c) ==
  /\ c.at = "second" /\ calls' = calls \ {c}
  /\ ui' = IF ui.show THEN [Closed EXCEPT !.at = "instance", !.sent = ui.sent] ELSE ui
  /\ q' = [items |-> Typeahead, detail |-> NoDetail] /\ UNCHANGED srv
OpenStarted(c) ==
  /\ c.at = "second" /\ calls' = Unmounted(calls \ {c})
  /\ ui' = [Closed EXCEPT !.at = "instance", !.sent = ui.sent]
  /\ q' = [items |-> Typeahead, detail |-> NoDetail] /\ UNCHANGED srv

------------------------------------------------------------------------------
(* Somebody activates a version, which retires the one before.  Which      *)
(* starts the server accepts makes no difference here.                     *)

ActivateVersion(d) ==
  /\ d \notin srv
  /\ srv' = {e \in srv : NameOf[e] # NameOf[d]} \cup {d} /\ UNCHANGED <<ui, q, calls>>

\* What is read may be out of date as soon as it is shown, so reading and answering are one step.
ItemsAnswered(ok) ==
  /\ OnBoard /\ q.items.fetch = "sent"
  /\ Rendered(ui, [q EXCEPT !.items = IF ok THEN Answered(ReadWith(@, {d \in srv : NameOf[d] \in Like[ui.text]}))
                                      ELSE Refused(@)])
  /\ UNCHANGED <<srv, calls>>

\* The detail of a version never changes but for its status.
DetailRead(ok) ==
  /\ OnBoard /\ q.detail.fetch = "sent"
  /\ q' = [q EXCEPT !.detail = IF ok THEN Answered(@) ELSE Refused(@)]
  /\ UNCHANGED <<srv, ui, calls>>

RefocusBoard ==
  /\ OnBoard
  /\ q' = [items |-> Observed(q.items, TRUE), detail |-> IF ui.def = "none" THEN NoDetail ELSE Observed(q.detail, TRUE)]
  /\ q' # q /\ UNCHANGED <<srv, ui, calls>>

BoardNext ==
  \/ \E t \in Texts : TypeFilter(t) \/ TypeName(t)
  \/ \E d \in Versions \cup {"none"} : FollowLink(d)
  \/ \E d \in Versions : ActivateVersion(d)
  \/ ResolveFilter \/ OpenStart \/ CloseStart \/ SubmitStart \/ LeaveBoard \/ ReturnToBoard \/ RefocusBoard
  \/ \E c \in calls : StartRefused(c) \/ StartAccepted(c) \/ ListRefetched(c) \/ OpenStarted(c)
  \/ \E b \in BOOLEAN : ItemsAnswered(b) \/ DetailRead(b)

\* What a confirmed start does by itself.
StartGoesOn == \E c \in calls : ListRefetched(c) \/ OpenStarted(c)

BoardTypeOK ==
  /\ srv \subseteq Versions
  /\ ui.text \in Texts /\ ui.name \in Texts /\ ui.def \in Versions \cup {"none"}
  /\ q.items.data \subseteq Versions

\* What the dialog would start is a version of the definition it names, and the version it
\* shows, unless it shows none: typed, filtered, linked and answered in any order.
StartsWhatIsShown ==
  ui.show /\ StartId(ui, q) # "none" =>
    /\ NameOf[StartId(ui, q)] = ui.name
    /\ VersionShown(ui, q) \in {StartId(ui, q), "none"}

==============================================================================
