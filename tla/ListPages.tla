------------------------------ MODULE ListPages ------------------------------
(***************************************************************************)
(* A page of the console: a list, and operations with forms and calls (see *)
(* PageFacts).  A form may be left and opened again, for another row, while *)
(* its last call is under way; the page may be left and entered again.     *)
(***************************************************************************)
EXTENDS Naturals, FiniteSets, Queries, PageFacts

CONSTANTS
  MaxOpenings,  \* bound: forms opened
  MaxCalls      \* bound: calls made

VARIABLES
  srv,    \* the row that is listed, and how many calls and others changed the list
  ui,     \* the page
  q,      \* its list query
  calls   \* calls under way

listVars == <<srv, ui, q, calls>>

Ops == DOMAIN ui.forms
Of(o) == OpsOf(ui.page)[o]
Free == [open |-> 0, error |-> 0, last |-> 0]
NoList == [row |-> "gone", changes |-> 0]

\* mount: how often the page was left.  told: the latest change that was confirmed here.
\* hurried: a form was left or used again while a call of it was under way.
ListInit ==
  \E p \in DOMAIN FirstRow :
    /\ srv = [row |-> FirstRow[p], changes |-> 0]
    /\ ui = [page |-> p, mount |-> 0, here |-> TRUE, forms |-> [o \in DOMAIN OpsOf(p) |-> Free],
             openings |-> 0, made |-> 0, told |-> 0, hurried |-> FALSE]
    /\ q = Started(NewQuery(NoList))
    /\ calls = {}

Form_(o) == ui.forms[o]
Covered == \E o \in Ops : Form_(o).open # 0 /\ Of(o).form.kind = "modal"

\* isPending is about the last call that the page, as it is mounted, made.
Pending(o) == \E c \in calls : c.n = Form_(o).last /\ ~c.again
UnderWay(o) == \E c \in calls : c.op = o /\ c.mount = ui.mount /\ c.opening = Form_(o).open

Offered(o) ==
  \/ Of(o).button.on = {}
  \/ Renders(q) = "success" /\ q.data.row \in Of(o).button.on

Withdrawn(o, when, e) == IF when \in Of(o).form.clears THEN 0 ELSE e

------------------------------------------------------------------------------
NewCall(o, n) ==
  [n |-> n, op |-> o, opening |-> Form_(o).open, mount |-> ui.mount, at |-> "sent", ok |-> FALSE,
   change |-> 0, again |-> FALSE]

\* Bound: leaving the page counts as a call.
Make(o) ==
  /\ ui.made + ui.mount < MaxCalls
  /\ calls' = calls \cup {NewCall(o, ui.made + 1)}
  /\ ui' = [ui EXCEPT !.made = @ + 1, !.hurried = @ \/ UnderWay(o),
       !.forms[o] = [open |-> IF Of(o).call.closes = "sent" THEN 0 ELSE @.open,
                     error |-> Withdrawn(o, "send", @.error), last |-> ui.made + 1]]
  /\ UNCHANGED <<srv, q>>

OpenForm(o) ==
  /\ ui.openings < MaxOpenings
  /\ ui' = [ui EXCEPT !.openings = @ + 1,
       !.forms[o] = [@ EXCEPT !.open = ui.openings + 1, !.error = Withdrawn(o, "open", Form_(o).error)]]
  /\ UNCHANGED <<srv, q, calls>>

Press(o) ==
  /\ ui.here /\ ~Covered /\ Form_(o).open = 0
  /\ Offered(o) /\ ~(Of(o).button.waits /\ Pending(o))
  /\ IF Of(o).form.kind = "none" THEN Make(o) ELSE OpenForm(o)

Submit(o) ==
  /\ ui.here /\ Form_(o).open # 0 /\ ~(Of(o).form.waits /\ Pending(o))
  /\ Make(o)

CloseForm(o, e) ==
  /\ ui' = [ui EXCEPT !.forms[o].open = 0, !.forms[o].error = e, !.hurried = @ \/ UnderWay(o)]
  /\ UNCHANGED <<srv, q, calls>>

Cancel(o) ==
  /\ ui.here /\ Form_(o).open # 0 /\ ~(Of(o).form.holds /\ Pending(o))
  /\ CloseForm(o, Withdrawn(o, "cancel", Form_(o).error))

ClickBeside(o) == ui.here /\ Form_(o).open # 0 /\ Of(o).form.beside /\ CloseForm(o, Form_(o).error)

------------------------------------------------------------------------------
(* Answers.  Setters of a page that was left do nothing, the cache is told *)
(* nevertheless.                                                           *)

Mounted(c) == ui.here /\ c.mount = ui.mount
Fetches(c) ==
  \/ Of(c.op).call.fetches = "always"
  \/ Of(c.op).call.fetches = "open" /\ Mounted(c) /\ Form_(c.op).open # 0
Leads(c) ==
  \/ Of(c.op).call.leaves = "always"
  \/ Of(c.op).call.leaves = "mounted" /\ Mounted(c)

Gone == [ui EXCEPT !.here = FALSE, !.mount = @ + 1, !.forms = [o \in Ops |-> Free]]

\* What is confirmed shall be shown, if the list had data and no fetch is forgotten with the page.
\* What is found by a search is never fetched again, and members are not those of the list.
Unlisted(o) == ui.page = "found" \/ <<ui.page, o>> = <<"groups", "members">>
Confirmed(c) == IF ~Unlisted(c.op) /\ q.has /\ (ui.here \/ q.fetch = "no") THEN c.change ELSE ui.told

Succeeded(c) ==
  LET told == [ui EXCEPT !.told = IF Confirmed(c) > @ THEN Confirmed(c) ELSE @] IN
  /\ q' = IF ~Fetches(c) THEN q ELSE IF ui.here THEN Invalidated(q) ELSE Outdated(q)
  /\ ui' = IF ui.here /\ Leads(c) THEN [Gone EXCEPT !.told = told.told]
           ELSE IF Mounted(c) /\ Of(c.op).call.closes = "done"
           THEN [told EXCEPT !.forms[c.op].open = 0, !.forms[c.op].error = 0, !.hurried = @ \/ Of(c.op).call.again]
           ELSE told
  /\ calls' = IF Of(c.op).call.again THEN (calls \ {c}) \cup {[c EXCEPT !.at = "sent", !.ok = FALSE, !.again = TRUE]}
              ELSE calls \ {c}

\* The second call of a pair closes the form in any case; only its fetch depends on its success.
SucceededAgain(c) ==
  /\ q' = IF ~c.ok THEN q ELSE IF ui.here THEN Invalidated(q) ELSE Outdated(q)
  /\ ui' = IF Mounted(c) THEN [ui EXCEPT !.forms[c.op].open = 0] ELSE ui
  /\ calls' = calls \ {c}

Failed(c) ==
  LET kept == Form_(c.op).error
      told == CASE Of(c.op).call.tells = "each" -> c.opening
                [] Of(c.op).call.tells = "last" -> IF Form_(c.op).last = c.n THEN c.opening ELSE kept
                [] Of(c.op).call.tells = "no" -> kept
  IN
  /\ ui' = IF Mounted(c) THEN [ui EXCEPT !.forms[c.op].error = told] ELSE ui
  /\ calls' = calls \ {c} /\ UNCHANGED q

Settle(c) ==
  /\ c.at = "handled"
  /\ IF c.again THEN SucceededAgain(c) ELSE IF c.ok THEN Succeeded(c) ELSE Failed(c)
  /\ UNCHANGED srv

------------------------------------------------------------------------------
(* The rest of the client, and the server.                                 *)

\* Bound: the page is left once, while its first call is under way.
Leave == ui.here /\ ui.mount = 0 /\ ui.made = 1 /\ calls # {} /\ ui' = Gone /\ UNCHANGED <<srv, q, calls>>

Return(stale) ==
  /\ ~ui.here /\ ui.mount = 1
  /\ ui' = [ui EXCEPT !.here = TRUE] /\ q' = Observed(q, stale)
  /\ UNCHANGED <<srv, calls>>

\* The failure screen has a retry button; the window comes into focus.
RefetchList ==
  /\ ui.here
  /\ q' = (IF Renders(q) = "failure" THEN Invalidated(q) ELSE Observed(q, TRUE))
  /\ q' # q /\ UNCHANGED <<srv, ui, calls>>

\* The server accepts a call or refuses it; an answer may be lost.
HandleCall(c, does, arrives) ==
  /\ c.at = "sent"
  /\ IF does
     THEN \E r \in IF Of(c.op).call.row = {} THEN {srv.row} ELSE Of(c.op).call.row :
            srv' = [row |-> r, changes |-> srv.changes + 1]
     ELSE UNCHANGED srv
  /\ calls' = (calls \ {c}) \cup
       {[c EXCEPT !.at = "handled", !.ok = does /\ arrives, !.change = IF does /\ arrives THEN srv'.changes ELSE 0]}
  /\ UNCHANGED <<ui, q>>

ReadList == q.fetch = "sent" /\ q' = ReadWith(q, srv) /\ UNCHANGED <<srv, ui, calls>>
ListAnswer == q.fetch = "read" /\ q' = Answered(q) /\ UNCHANGED <<srv, ui, calls>>
ListFail == q.fetch = "read" /\ q' = Refused(q) /\ UNCHANGED <<srv, ui, calls>>
ListFetch == ReadList \/ ListAnswer \/ ListFail

ListNext ==
  \/ \E o \in Ops : Press(o) \/ Submit(o) \/ Cancel(o) \/ ClickBeside(o)
  \/ \E c \in calls : Settle(c) \/ \E d, b \in BOOLEAN : HandleCall(c, d, b)
  \/ Leave \/ \E b \in BOOLEAN : Return(b)
  \/ RefetchList \/ ListFetch

------------------------------------------------------------------------------
ListTypeOK ==
  /\ ui.openings \in 0 .. MaxOpenings /\ ui.made \in 0 .. MaxCalls
  /\ \A o \in Ops : Form_(o).open \in 0 .. ui.openings /\ Form_(o).error \in 0 .. ui.openings
  /\ q.data.changes <= srv.changes /\ ui.told <= srv.changes

\* Forms in which an error of another opening may stand: nothing withdraws it when they open.
StaleErrors ==
  CASE ui.page = "services" -> Ops
    [] ui.page = "records" -> {"delete"}
    [] ui.page = "definitions" -> {"create"}
    [] ui.page = "shares" -> {"grant"}
    [] OTHER -> {}

\* Forms whose submit button does not wait.
Doubles ==
  CASE ui.page = "tokens" -> {"issue"}
    [] ui.page = "groups" -> {"create", "members"}
    [] OTHER -> {}

\* Forms that an answer to an earlier opening may close.
Strays ==
  CASE ui.page \in {"services", "shares"} -> Ops
    [] ui.page = "tokens" -> {"issue"}
    [] ui.page \in {"groups", "webhooks"} -> {"create"}
    [] ui.page = "records" -> {"delete"}
    [] OTHER -> {}

\* An error that a form shows is about what was sent from it as it is open, and one opening has
\* one call under way.
FormsStayApart ==
  /\ \A o \in Ops : Form_(o).open # 0 /\ Form_(o).error \notin {0, Form_(o).open} =>
       ui.hurried \/ o \in StaleErrors
  /\ \A c, d \in calls : c # d /\ c.op = d.op /\ c.mount = ui.mount /\ d.mount = ui.mount
                        /\ c.opening # 0 /\ {c.opening, d.opening} = {Form_(c.op).open} => c.op \in Doubles

\* An answer closes no form that was opened after its call was made.
AnswerClosesItsForm ==
  \A c \in calls \ calls', o \in Ops :
    ui'.here /\ Form_(o).open # 0 /\ ui'.forms[o].open = 0 /\ c.at = "handled" =>
      c.op = o /\ (c.opening = Form_(o).open \/ (ui.hurried /\ o \in Strays))

\* A confirmed change is in the list, or the list could not be fetched, or nobody looks at it.
Shows(n) == q.data.changes >= n \/ q.failed \/ ~ui.here
==============================================================================
