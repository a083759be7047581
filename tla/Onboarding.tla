------------------------------ MODULE Onboarding ------------------------------
(***************************************************************************)
(* Registering a tenant: the form (RegisterTenantPage.tsx), the page that  *)
(* polls a registration (OnboardingProgressPage.tsx), and the page of the  *)
(* result, where a realm is bound (OnboardingResultPage.tsx).  An answer   *)
(* may come after its page was left.                                       *)
(***************************************************************************)
EXTENDS Naturals, FiniteSets

CONSTANTS
  MaxAsks,    \* bound: registrations and bindings sent
  MaxPolls,   \* bound: polls under way
  MaxVisits   \* bound: pages entered

VARIABLES
  srv,    \* the tenant that is registered, and whether its realm is bound
  ui,     \* the page on the screen
  calls   \* requests under way

onboardingVars == <<srv, ui, calls>>

\* visit: how often a page was entered.  shown: the record a result page shows.
\* errors: how often polls failed since the page was entered or asked to go on.
OnboardingInit ==
  /\ srv = [tenant |-> FALSE, realm |-> FALSE]
  /\ ui = [at |-> "form", visit |-> 0, busy |-> FALSE, error |-> FALSE, shown |-> "nothing",
           interval |-> FALSE, errors |-> 0, hidden |-> FALSE, asks |-> 0]
  /\ calls = {}

Record == IF ~srv.tenant THEN "nothing" ELSE IF srv.realm THEN "loginable" ELSE "created"
Ask(kind) == [kind |-> kind, visit |-> ui.visit, at |-> "sent", reply |-> "failed"]
Here(c) == c.visit = ui.visit

\* What every page starts with.
Enter(page, record) ==
  [ui EXCEPT !.at = page, !.visit = @ + 1, !.busy = FALSE, !.error = FALSE, !.shown = record,
             !.interval = page = "progress", !.errors = 0]

------------------------------------------------------------------------------
(* The form.                                                               *)

Register ==
  /\ ui.at = "form" /\ ~ui.busy /\ ui.asks < MaxAsks
  /\ ui' = [ui EXCEPT !.busy = TRUE, !.error = FALSE, !.asks = @ + 1]
  /\ calls' = calls \cup {Ask("register")} /\ UNCHANGED srv

EditForm == ui.at = "form" /\ ui.error /\ ui' = [ui EXCEPT !.error = FALSE] /\ UNCHANGED <<srv, calls>>

\* The handler goes to the result wherever the user is by then.
RegisterAnswered(c) ==
  /\ c.kind = "register" /\ c.at = "handled" /\ calls' = calls \ {c}
  /\ ui' = IF c.reply # "failed" THEN Enter("result", c.reply)
           ELSE IF Here(c) THEN [ui EXCEPT !.busy = FALSE, !.error = TRUE] ELSE ui
  /\ UNCHANGED srv

------------------------------------------------------------------------------
(* The poll: a tick asks whatever is under way, unless the tab is hidden.  *)

Polls == {c \in calls : c.kind = "poll"}

Tick ==
  /\ ui.interval /\ ~ui.hidden /\ Cardinality(Polls) < MaxPolls
  /\ Ask("poll") \notin calls
  /\ calls' = calls \cup {Ask("poll")} /\ UNCHANGED <<srv, ui>>

\* The counter and the interval are those of the page that asked.
\* Variant: the third failure leaves the interval.
KeepInterval(n) == ui.interval
IntervalAfter(n) == ui.interval /\ n < 3

PollAnswered(c) ==
  /\ c.kind = "poll" /\ c.at = "handled" /\ calls' = calls \ {c}
  /\ ui' = IF c.reply # "failed" THEN Enter("result", c.reply)
           ELSE IF ~Here(c) THEN ui
           ELSE [ui EXCEPT !.errors = IF @ < 3 THEN @ + 1 ELSE @,
                           !.interval = IntervalAfter(ui.errors + 1),
                           !.error = @ \/ ui.errors + 1 >= 3]
  /\ UNCHANGED srv

RetryPolling ==
  /\ ui.at = "progress" /\ ui.error
  /\ ui' = [ui EXCEPT !.error = FALSE, !.errors = 0, !.interval = TRUE]
  /\ UNCHANGED <<srv, calls>>

Visibility == ui' = [ui EXCEPT !.hidden = ~@] /\ UNCHANGED <<srv, calls>>

------------------------------------------------------------------------------
(* The result: restored by the host name if it was entered without one.    *)

Restoring(c) == Here(c) /\ ui.shown = "nothing"

RestoreAnswered(c) ==
  /\ c.kind = "restore" /\ c.at = "handled" /\ calls' = calls \ {c}
  /\ ui' = IF ~Restoring(c) THEN ui
           ELSE IF c.reply = "failed" THEN [ui EXCEPT !.error = TRUE] ELSE [ui EXCEPT !.shown = c.reply]
  /\ UNCHANGED srv

Bind ==
  /\ ui.at = "result" /\ ui.shown = "created" /\ ~ui.busy /\ ui.asks < MaxAsks
  /\ ui' = [ui EXCEPT !.busy = TRUE, !.error = FALSE, !.asks = @ + 1]
  /\ calls' = calls \cup {Ask("bind")} /\ UNCHANGED srv

BindAnswered(c) ==
  /\ c.kind = "bind" /\ c.at = "handled" /\ calls' = calls \ {c}
  /\ ui' = IF ~Here(c) THEN ui
           ELSE IF c.reply = "failed" THEN [ui EXCEPT !.busy = FALSE, !.error = TRUE]
           ELSE [ui EXCEPT !.busy = FALSE, !.shown = c.reply]
  /\ UNCHANGED srv

\* The user goes to one of the pages; a result that is opened by its address is asked for.
Visit(page) ==
  /\ ui.visit < MaxVisits
  /\ ui' = Enter(page, "nothing")
  /\ calls' = IF page = "result" THEN calls \cup {[Ask("restore") EXCEPT !.visit = @ + 1]} ELSE calls
  /\ UNCHANGED srv

------------------------------------------------------------------------------
(* The server: a tenant is registered once, a realm is bound once; an      *)
(* answer may be lost.                                                     *)

Does(c) ==
  CASE c.kind = "register" -> ~srv.tenant /\ srv' = [srv EXCEPT !.tenant = TRUE]
    [] c.kind = "bind" -> srv.tenant /\ ~srv.realm /\ srv' = [srv EXCEPT !.realm = TRUE]
    [] OTHER -> srv.tenant /\ UNCHANGED srv

HandleAsk(c, arrives) ==
  /\ c.at = "sent"
  /\ \/ /\ Does(c)
        /\ calls' = (calls \ {c}) \cup {[c EXCEPT !.at = "handled", !.reply =
                      IF ~arrives THEN "failed" ELSE IF srv'.realm THEN "loginable" ELSE "created"]}
     \/ ~arrives /\ UNCHANGED srv /\ calls' = (calls \ {c}) \cup {[c EXCEPT !.at = "handled"]}
  /\ UNCHANGED ui

OnboardingNext ==
  \/ Register \/ EditForm \/ Tick \/ RetryPolling \/ Visibility \/ Bind
  \/ \E p \in {"form", "progress", "result"} : Visit(p)
  \/ \E c \in calls :
       \/ RegisterAnswered(c) \/ PollAnswered(c) \/ RestoreAnswered(c) \/ BindAnswered(c)
       \/ \E b \in BOOLEAN : HandleAsk(c, b)

\* The interval ticks, a poll is handled, and its handler goes on.
HandlePoll == \E c \in Polls : HandleAsk(c, FALSE)
PollGoesOn == \E c \in Polls : PollAnswered(c)

------------------------------------------------------------------------------
OnboardingTypeOK ==
  /\ ui.errors \in 0 .. 3
  /\ srv.realm => srv.tenant
  /\ Cardinality(Polls) <= MaxPolls

\* What a result page says is so: a tenant that exists, a realm that is bound.  The poll has an
\* interval only on its page, and none once it told that it failed.
ResultIsReal ==
  /\ ui.shown \in {"created", "loginable"} => srv.tenant
  /\ ui.shown = "loginable" => srv.realm
  /\ ui.interval => ui.at = "progress" /\ ~ui.error

===============================================================================
