---------------------------- MODULE PromotionPage ----------------------------
(***************************************************************************)
(* The review page of one operator, PromotionReviewPage.tsx with           *)
(* NonSkippableApprovalGate.tsx and hooks/usePromotions.ts, beside the     *)
(* requests of everybody else.                                             *)
(***************************************************************************)
EXTENDS Promotion, Queries

CONSTANT Me

ASSUME PageAssumption == Me \in Users

VARIABLES
  context,  \* the context query: the status of the review
  gate      \* the approval gate: the buttons that wait, the alerts it shows, the requests sent
            \* from it as it is mounted, and the decisions of this page that were accepted

pageVars == <<context, gate>>
vars == <<review, run, source, target, calls, context, gate>>

Alerts == {"self", "digest", "conflict", "rehearsal", "general"}
NewGate == [waits |-> {}, alerts |-> {}, mine |-> {}, done |-> {}]

PageInit == PromotionInit /\ context = Started(NewQuery("pending_review")) /\ gate = NewGate

GateShown == Renders(context) = "success"

\* Which buttons the status shown enables.
Enabled(k) ==
  CASE k = "approve" -> Me # Requester /\ context.data = "pending_review"
    [] k = "reject" -> context.data = "pending_review"
    [] k = "apply" -> context.data = "approved"

\* The alerts that a click withdraws; a rejection leaves those of the other two.
Withdrawn(k) ==
  CASE k = "approve" -> {"self", "digest", "general"}
    [] k = "reject" -> {"general"}
    [] k = "apply" -> Alerts \ {"self"}

Click(i, k) ==
  /\ GateShown /\ Enabled(k) /\ k \notin gate.waits
  /\ Send(i, Me, k)
  /\ gate' = [gate EXCEPT !.waits = @ \cup {k}, !.alerts = @ \ Withdrawn(k), !.mine = @ \cup {i}]
  /\ UNCHANGED <<review, run, source, target, context>>

\* How a refusal is told.  The server answers every refusal but that of the requester with 409,
\* and what is not a conflict or about the rehearsal is read as a digest that does not match.
AlertFor(k, r) ==
  CASE r = "self" -> "self"
    [] r = "conflict" -> "conflict"
    [] r \in Unrehearsed -> "rehearsal"
    [] r \in {"invalid", "taken"} /\ k # "reject" -> "digest"
    [] OTHER -> "general"

\* onSuccess of the three mutations.
\* Variant: the context is left as it is.
KeepContext == context
InvalidateContext == Invalidated(context)

\* A gate that was unmounted meanwhile is told nothing; the mutations belong to the page.
GateAnswered(i, r) ==
  LET k == calls[i].kind IN
  /\ i \in gate.mine /\ calls[i].at = "answered" /\ r \in {calls[i].reply, "broken"}
  /\ context' = IF r = "ok" THEN InvalidateContext ELSE context
  /\ gate' = [gate EXCEPT !.mine = @ \ {i}, !.waits = @ \ {k},
                          !.alerts = IF r = "ok" THEN @ ELSE @ \cup {AlertFor(k, r)},
                          !.done = IF r = "ok" THEN @ \cup {i} ELSE @]
  /\ UNCHANGED promotionVars

\* A fetch that fails replaces the gate, with all it kept, by the failure.
ContextAnswered(ok) ==
  /\ context.fetch = "read"
  /\ context' = IF ok THEN Answered(context) ELSE Refused(context)
  /\ gate' = IF ok THEN gate ELSE [gate EXCEPT !.waits = {}, !.alerts = {}]
  /\ UNCHANGED promotionVars

ReadContext ==
  /\ context.fetch = "sent" /\ context' = ReadWith(context, review.status)
  /\ UNCHANGED promotionVars /\ UNCHANGED gate

\* Try again, or the window gets the focus.
RefetchContext ==
  /\ context' = Observed(context, TRUE) /\ context' # context
  /\ UNCHANGED promotionVars /\ UNCHANGED gate

PageStep ==
  \/ \E i \in Calls, k \in Kinds : Click(i, k)
  \/ \E i \in Calls, r \in Replies : GateAnswered(i, r)
  \/ \E ok \in BOOLEAN : ContextAnswered(ok)
  \/ ReadContext \/ RefetchContext

Elsewhere ==
  /\ \/ \E i \in Calls, u \in Users \ {Me}, k \in Kinds : Send(i, u, k) /\ UNCHANGED <<review, run, source, target>>
     \/ \E i \in Calls : Handle(i)
     \/ Beside
  /\ UNCHANGED pageVars

Next == PageStep \/ Elsewhere

Fairness == WF_vars(ReadContext) /\ WF_vars(\E ok \in BOOLEAN : ContextAnswered(ok))

Spec == PageInit /\ [][Next]_vars /\ Fairness

------------------------------------------------------------------------------
\* A decision of this page that was accepted is shown: the review is no more offered for the
\* same decision, unless the fetch that would have said so failed.
DecisionIsShown ==
  \A i \in Calls : (i \in gate.done) ~> (~Enabled(calls[i].kind) \/ context.failed)

==============================================================================
