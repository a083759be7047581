----------------------------- MODULE DeadLetters -----------------------------
(***************************************************************************)
(* The dead-letter page, pages/dlq/DlqPage.tsx: a filtered, paged list of  *)
(* entries, the statuses it shows before the server confirms them, and the *)
(* retries and discards it sends.  Other operators work on the same        *)
(* entries, and requests are handled and answered in any order.            *)
(***************************************************************************)
EXTENDS Naturals, Sequences, SequencesExt, Queries

CONSTANTS
  Letters,      \* the entries, a sequence in the order of the list
  MaxActions    \* bound: retries and discards sent

VARIABLES
  srv,    \* the status of every entry
  ui,     \* the page
  q,      \* the list query on screen; what is cached of other filters and pages is left out
  calls   \* retries and discards under way

letterVars == <<srv, ui, q, calls>>

Entries == 1 .. Len(Letters)
Statuses == {"pending", "retrying", "resolved", "discarded"}
Filters == {"", "pending"}
Unsettled(s) == s \in {"pending", "retrying"}

\* The cursor of the page is the entry its rows come after.
After == IF ui.cursors = <<>> THEN 0 ELSE Last(ui.cursors)
Nothing == [rows |-> {}, next |-> 0]

\* Pages of one entry.  A row is the entry with the status it had when it was read.
Listed ==
  LET after == {e \in Entries : e > After /\ (ui.filter = "" \/ srv[e] = ui.filter)}
      first == CHOOSE e \in after : \A f \in after : e <= f
  IN IF after = {} THEN Nothing
     ELSE [rows |-> {[id |-> first, status |-> srv[first]]}, next |-> IF after = {first} THEN 0 ELSE first]

LettersInit ==
  /\ srv = [e \in Entries |-> Letters[e]]
  /\ ui = [filter |-> "", cursors |-> <<>>, asking |-> 0,
           shown |-> [e \in Entries |-> "none"], sent |-> 0]
  /\ q = Started(NewQuery(Nothing))
  /\ calls = {}

Rows == IF Renders(q) = "success" THEN q.data.rows ELSE {}

\* normalizeStatus: what the page noted itself hides what the row says.
StatusOf(r) == IF ui.shown[r.id] # "none" THEN ui.shown[r.id] ELSE r.status

\* Both buttons of an entry, and each of them while its last request is answered.
Offered(e) == \E r \in Rows : r.id = e /\ StatusOf(r) \notin {"resolved", "discarded"}
Free == ui.asking = 0   \* the dialog covers the page
Pending(kind) == \E c \in calls : c.kind = kind

------------------------------------------------------------------------------
Showing(u) == ui' = u /\ q' = Started(NewQuery(Nothing)) /\ UNCHANGED <<srv, calls>>

\* Typing a filter asks for it at once, at the position of the page it was typed on; Apply
\* and Clear go back to the first page.
SetFilter(f) == Free /\ f # ui.filter /\ Showing([ui EXCEPT !.filter = f])
ApplyFilters == Free /\ ui.cursors # <<>> /\ Showing([ui EXCEPT !.cursors = <<>>])

GoNext ==
  /\ Free /\ Renders(q) = "success" /\ q.data.next # 0
  /\ Showing([ui EXCEPT !.cursors = Append(@, q.data.next)])

GoPrev == Free /\ Renders(q) = "success" /\ ui.cursors # <<>> /\ Showing([ui EXCEPT !.cursors = Front(@)])

\* The failure screen has a retry button; the window comes into focus.
RefetchLetters ==
  /\ q' = (IF Renders(q) = "failure" THEN Invalidated(q) ELSE Observed(q, TRUE))
  /\ q' # q /\ UNCHANGED <<srv, ui, calls>>

\* onMutate: the status is shown before the request is sent.
Mutate(kind, e, status) ==
  /\ ui.sent < MaxActions
  /\ ui' = [ui EXCEPT !.shown[e] = status, !.sent = @ + 1, !.asking = 0]
  /\ calls' = calls \cup {[kind |-> kind, id |-> e, at |-> "sent", ok |-> FALSE]}
  /\ UNCHANGED <<srv, q>>

Retry(e) == Free /\ Offered(e) /\ ~Pending("retry") /\ Mutate("retry", e, "retrying")

AskDiscard(e) ==
  /\ Free /\ Offered(e) /\ ~Pending("discard")
  /\ ui' = [ui EXCEPT !.asking = e] /\ UNCHANGED <<srv, q, calls>>

ConfirmDiscard == ui.asking # 0 /\ Mutate("discard", ui.asking, "discarded")
CancelDiscard == ui.asking # 0 /\ ui' = [ui EXCEPT !.asking = 0] /\ UNCHANGED <<srv, q, calls>>

\* Variant: a refused action leaves its status on the screen.
KeepShown(c) == ui
Withdraw(c) == [ui EXCEPT !.shown[c.id] = "none"]

Settle(c) ==
  /\ c.at = "handled" /\ calls' = calls \ {c}
  /\ IF c.ok THEN q' = Invalidated(q) /\ UNCHANGED ui ELSE ui' = Withdraw(c) /\ UNCHANGED q
  /\ UNCHANGED srv

------------------------------------------------------------------------------
(* The server: retry/2 and discard/2 lock the entry and refuse one that is *)
(* settled.  An answer may be lost after the change.                       *)

Changed(c) == [srv EXCEPT ![c.id] = IF c.kind = "discard" THEN "discarded" ELSE "retrying"]

HandleLetter(c, arrives) ==
  /\ c.at = "sent"
  /\ \/ Unsettled(srv[c.id]) /\ srv' = Changed(c)
        /\ calls' = (calls \ {c}) \cup {[c EXCEPT !.at = "handled", !.ok = arrives]}
     \/ ~(Unsettled(srv[c.id]) /\ arrives) /\ UNCHANGED srv
        /\ calls' = (calls \ {c}) \cup {[c EXCEPT !.at = "handled"]}
  /\ UNCHANGED <<ui, q>>

ReadLetters == q.fetch = "sent" /\ q' = ReadWith(q, Listed) /\ UNCHANGED <<srv, ui, calls>>
LettersAnswer == q.fetch = "read" /\ q' = Answered(q) /\ UNCHANGED <<srv, ui, calls>>
LettersFail == q.fetch # "no" /\ q' = Refused(q) /\ UNCHANGED <<srv, ui, calls>>

\* The processor resolves an entry, or another operator discards it: the page shows both alike.
Elsewhere(e) ==
  /\ Unsettled(srv[e])
  /\ srv' = [srv EXCEPT ![e] = "resolved"] /\ UNCHANGED <<ui, q, calls>>

LettersNext ==
  \/ \E f \in Filters : SetFilter(f)
  \/ ApplyFilters \/ GoNext \/ GoPrev
  \/ \E e \in Entries : Retry(e) \/ AskDiscard(e) \/ Elsewhere(e)
  \/ RefetchLetters \/ ConfirmDiscard \/ CancelDiscard
  \/ \E c \in calls : Settle(c) \/ \E b \in BOOLEAN : HandleLetter(c, b)
  \/ ReadLetters \/ LettersAnswer \/ LettersFail

LettersTypeOK ==
  /\ srv \in [Entries -> Statuses]
  /\ \A e \in Entries : ui.shown[e] \in {"none", "retrying", "discarded"}
  /\ ui.asking \in {0} \cup Entries
  /\ q.fetch \in {"no", "sent", "read"}

\* An entry shown as discarded before any answer is one whose discard is under way or done.
DiscardShownIsReal ==
  \A e \in Entries : ui.shown[e] = "discarded" =>
    ~Unsettled(srv[e]) \/ \E c \in calls : c.kind = "discard" /\ c.id = e

==============================================================================
