----------------------------- MODULE DetailForms -----------------------------
(***************************************************************************)
(* The pages that edit one tenant (EditTenantPage.tsx) and one user        *)
(* (UserDetailPage.tsx), while others edit the same.  The first fills its  *)
(* form once and sends what differs from the tenant as it was last read,   *)
(* the second fills it whenever the user was read and sends all.           *)
(***************************************************************************)
EXTENDS Naturals, FiniteSets, Queries

CONSTANTS
  MaxSaves,   \* bound: saves sent
  MaxOthers,  \* bound: saves of others
  MaxTyping   \* bound: fields typed

VARIABLES
  srv,    \* what is stored, and how often others wrote
  ui,     \* the page
  q,      \* the query of the record
  calls   \* saves under way

formVars == <<srv, ui, q, calls>>

\* The display name, and the host name of a tenant or the status of a user.
Fields == {"name", "second"}
\* Who wrote a value tells the values apart.
Values == {"first", "mine", "off", "theirs"}
Empty == [f \in Fields |-> "first"]

\* own: the fields the user typed, for a user since the form was last filled; others: somebody
\* else's change was read into the page and not into its form; asking: the dialog that
\* deactivates a user is open.
FormInit ==
  /\ srv = [stored |-> Empty, others |-> 0]
  /\ ui \in [page : {"tenant", "user"}, here : {TRUE}, filled : {FALSE}, form : {Empty}, own : {{}},
             typed : {0}, saves : {0}, others : {FALSE}, leaving : {FALSE}, asking : {FALSE}]
  /\ q = Started(NewQuery(Empty))
  /\ calls = {}

Shown == ui.here /\ Renders(q) = "success" /\ ui.filled
Pending(kind) == \E c \in calls : c.kind = kind

------------------------------------------------------------------------------
Type(f) ==
  /\ Shown /\ ui.typed < MaxTyping /\ ui.form[f] # "mine"
  /\ ui' = [ui EXCEPT !.form[f] = "mine", !.own = @ \cup {f}, !.typed = @ + 1]
  /\ UNCHANGED <<srv, q, calls>>

Differing == {f \in Fields : ui.form[f] # q.data[f]}

\* Variant: everything is sent.
AllFields == Fields
Body == IF ui.page = "tenant" THEN Differing ELSE Fields

Send(kind, fields, own) ==
  /\ ui.saves < MaxSaves /\ ~Pending(kind)
  /\ ui' = [ui EXCEPT !.saves = @ + 1]
  /\ calls' = calls \cup {[kind |-> kind, fields |-> fields, at |-> "sent", ok |-> FALSE, own |-> own,
                           values |-> IF kind = "save" THEN ui.form ELSE [f \in Fields |-> "off"],
                           read |-> q.data, others |-> ui.others]}
  /\ UNCHANGED <<srv, q>>

\* Nothing is sent if nothing differs.
Save == Shown /\ Body # {} /\ Send("save", Body, ui.own)

AskDeactivate ==
  /\ Shown /\ ui.page = "user" /\ ui.form["second"] # "off" /\ ~ui.asking
  /\ ui' = [ui EXCEPT !.asking = TRUE] /\ UNCHANGED <<srv, q, calls>>

\* The dialog stands beside the boundary: it stays when the user cannot be read.
CancelDeactivate == ui.here /\ ui.asking /\ ui' = [ui EXCEPT !.asking = FALSE] /\ UNCHANGED <<srv, q, calls>>

\* Only the status; a save may be under way.
Deactivate == ui.here /\ ui.asking /\ Send("off", {"second"}, {"second"})

\* The tenant page is left a moment later; a deactivation is shown before it is read.
CallAnswered(c) ==
  /\ c.at = "handled" /\ calls' = calls \ {c}
  /\ IF c.ok
     THEN /\ q' = IF ui.here THEN Invalidated(q) ELSE Outdated(q)
          /\ ui' = [ui EXCEPT !.leaving = @ \/ ui.page = "tenant",
                              !.asking = @ /\ c.kind # "off",
                              !.form["second"] = IF c.kind = "off" /\ ui.here THEN "off" ELSE @,
                              !.own = IF c.kind = "off" /\ ui.here THEN @ \cup {"second"} ELSE @]
     ELSE UNCHANGED <<ui, q>>
  /\ UNCHANGED srv

\* The timer is not cleared: it leads away from wherever the user is.
NavigateLater == ui.leaving /\ ui' = [ui EXCEPT !.leaving = FALSE, !.here = FALSE, !.asking = FALSE] /\ UNCHANGED <<srv, q, calls>>

Leave == ui.here /\ ui' = [ui EXCEPT !.here = FALSE, !.asking = FALSE] /\ UNCHANGED <<srv, q, calls>>

------------------------------------------------------------------------------
(* The query, and the effect that fills the form.                          *)

\* Variant: the form of a tenant is filled by every answer.
FillAlways == TRUE
Fills == ui.page = "user" \/ ~ui.filled

RecordAnswer ==
  /\ q.fetch = "read" /\ q' = Answered(q)
  /\ ui' = IF ~ui.here \/ (q.has /\ q.read = q.data) THEN ui
           ELSE IF Fills THEN [ui EXCEPT !.filled = TRUE, !.form = q.read, !.own = IF ui.page = "user" THEN {} ELSE @]
           ELSE [ui EXCEPT !.others = @ \/ \E f \in Fields : q.read[f] = "theirs"]
  /\ UNCHANGED <<srv, calls>>

RecordFail == q.fetch = "read" /\ q' = Refused(q) /\ UNCHANGED <<srv, ui, calls>>
ReadRecord == q.fetch = "sent" /\ q' = ReadWith(q, srv.stored) /\ UNCHANGED <<srv, ui, calls>>

RefetchRecord ==
  /\ ui.here
  /\ q' = (IF Renders(q) = "failure" THEN Invalidated(q) ELSE Observed(q, TRUE))
  /\ q' # q /\ UNCHANGED <<srv, ui, calls>>

\* The server writes the fields it is sent, or refuses; an answer may be lost, or say that only
\* the identity provider was not told.
HandleSave(c, does, arrives) ==
  /\ c.at = "sent"
  /\ srv' = IF does THEN [srv EXCEPT !.stored = [f \in Fields |-> IF f \in c.fields THEN c.values[f] ELSE @[f]]] ELSE srv
  /\ calls' = (calls \ {c}) \cup {[c EXCEPT !.at = "handled", !.ok = does /\ arrives]}
  /\ UNCHANGED <<ui, q>>

OtherSaves(f) ==
  /\ srv.others < MaxOthers
  /\ srv' = [stored |-> [srv.stored EXCEPT ![f] = "theirs"], others |-> srv.others + 1]
  /\ UNCHANGED <<ui, q, calls>>

FormNext ==
  \/ \E f \in Fields : OtherSaves(f) \/ Type(f)
  \/ Save \/ AskDeactivate \/ CancelDeactivate \/ Deactivate \/ NavigateLater \/ Leave
  \/ \E c \in calls : CallAnswered(c) \/ \E d, b \in BOOLEAN : HandleSave(c, d, b)
  \/ RecordAnswer \/ RecordFail \/ ReadRecord \/ RefetchRecord

------------------------------------------------------------------------------
FormTypeOK ==
  /\ srv.stored \in [Fields -> Values] /\ ui.form \in [Fields -> Values]
  /\ ui.own \subseteq Fields /\ Cardinality(calls) <= 2

\* What the user did not type is not invented by a save: a field of a user is sent as the page
\* last read it, though others may have changed it since; a field of a tenant is not sent, until
\* somebody's change was read into the page without its form.
SavesWhatWasTyped ==
  \A c \in calls, f \in Fields : f \in c.fields /\ f \notin c.own =>
    IF ui.page = "user" THEN c.values[f] = c.read[f] ELSE c.others

\* A save writes over nothing that its page had not read, but in fields that were typed.
\* The code does not keep it (README, Disagreements): no run checks it.
OverwritesNothingUnread ==
  \A c \in calls, f \in Fields : c.at = "sent" /\ f \in c.fields \ c.own => c.values[f] = srv.stored[f]

\* A user of whom the page said that they are deactivated is, until somebody else changes them.
\* The code does not keep it (README, Disagreements): no run checks it.
DeactivatedStays ==
  \A c \in calls : c.kind = "off" /\ c.ok => srv.stored["second"] \in {"off", "theirs"}

\* What the user types stays in the form of a tenant.
TypingStays ==
  \A f \in Fields : ui.page = "tenant" /\ f \in ui.own => ui.form[f] = "mine"
==============================================================================
