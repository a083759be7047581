------------------------------- MODULE Rollouts -------------------------------
(***************************************************************************)
(* Rolling a new column out to every company: the page of the operator     *)
(* (PlatformMigrationConsolePage.tsx) and the requests it sends, which     *)
(* take the companies one by one (platform/migration_rollout.ex).  A       *)
(* request goes on when its page was left or its answer was lost, so that  *)
(* two of them may work on one rollout.                                    *)
(***************************************************************************)
EXTENDS Naturals, FiniteSets, Queries

CONSTANTS
  Columns,    \* the columns that are rolled out, one rollout each
  Begun,      \* bound: those whose rollout began before
  Companies,
  MaxAsks,    \* bound: rollouts started and resumed
  MaxFaults   \* bound: requests given up by the page or at the server

VARIABLES
  srv,    \* the rollouts, each company's promotion and its outcome
  ui,     \* the page
  q,      \* the query of the rollout in the page's address
  calls   \* requests under way

rolloutVars == <<srv, ui, q, calls>>

NoResult == [column |-> "none", outcomes |-> [t \in Companies |-> "none"], current |-> {}]

\* The form alone.
FreshPage == [active |-> "none", linked |-> FALSE, shown |-> NoResult, started |-> NoResult,
              last |-> "none", asks |-> 0]

EnteredBy(link, asks) == [FreshPage EXCEPT !.active = link, !.linked = link # "none", !.asks = asks]

\* Nothing is read yet, or nothing that would be looked at again.
NoStatus == Started(NewQuery(NoResult))

Outstanding(outcomes) == {t \in Companies : outcomes[t] \in {"pending", "failed"}}

\* What a company may have of a rollout that began before: nothing, if it was not active or the
\* request ended too soon; a promotion ahead of its outcome, if it ended between the two.
Before ==
  {b \in [promotion : {"none", "pending", "ddl_failed", "ddl_applied"}, outcome : {"none", "pending", "failed", "succeeded"}] :
     (b.outcome # "none" => b.promotion # "none") /\ (b.outcome = "succeeded" => b.promotion = "ddl_applied")}

\* The page is entered without a rollout or, by its address, with one in any state.
\* overlapped: two requests have worked on a rollout at a time; added: the companies that
\* got an outcome when their rollout was completed, or found to be done, already.
RolloutInit ==
  /\ calls = {} /\ q = NoStatus
  /\ \E link \in Begun \cup {"none"}, before \in [Companies -> Before], done \in BOOLEAN :
       LET Of(r, field) == [t \in Companies |-> IF r = link THEN before[t][field] ELSE "none"] IN
       /\ ui = EnteredBy(link, 0)
       /\ srv = [faults |-> 0, rollouts |-> {link} \cap Columns, completed |-> IF done THEN {link} \cap Columns ELSE {},
                 overlapped |-> {}, promotion |-> [r \in Columns |-> Of(r, "promotion")],
                 outcome |-> [r \in Columns |-> Of(r, "outcome")],
                 added |-> [r \in Columns |-> IF done THEN Outstanding(Of(r, "outcome")) ELSE {}]]

ResultOf(r, current) == [column |-> r, outcomes |-> srv.outcome[r], current |-> current]

------------------------------------------------------------------------------
(* The page.                                                               *)

Pending(kind) == \E c \in calls : c.kind = kind /\ c.awaited
ShowsForm == ~ui.linked \/ ui.last # "none"

\* What an action brought hides what the query has.
Shown == IF ui.active = "none" THEN NoResult
         ELSE IF ui.shown # NoResult THEN ui.shown
         ELSE IF Renders(q) = "success" THEN q.data ELSE NoResult

Ask(kind, r) ==
  /\ ui.asks < MaxAsks
  /\ calls' = calls \cup {[id |-> ui.asks, kind |-> kind, column |-> r, awaited |-> TRUE, at |-> "sent", todo |-> {},
                           turn |-> "none", got |-> "none", listed |-> NoResult.outcomes, result |-> NoResult]}
  /\ ui' = [ui EXCEPT !.asks = @ + 1]
  /\ UNCHANGED <<srv, q>>

Start(r) == ShowsForm /\ ~Pending("start") /\ ~Pending("resume") /\ Ask("start", r)

\* A start may be under way.
Resume == Outstanding(Shown.outcomes) # {} /\ ~Pending("resume") /\ Ask("resume", ui.active)

StartDifferent == ~ShowsForm /\ ui' = EnteredBy("none", ui.asks) /\ q' = NoStatus /\ UNCHANGED <<srv, calls>>

\* A request that is over is gone if nobody waits for it.
Kept(cs) == {c \in cs : c.awaited \/ c.at \notin {"answered", "over"}}

Fault == srv.faults < MaxFaults /\ srv' = [srv EXCEPT !.faults = @ + 1]

\* The page is entered anew, without a rollout or by the address of any that exists; what
\* was cached is collected by then.
LeaveRollouts(link) ==
  /\ ui # EnteredBy(link, ui.asks) /\ ui' = EnteredBy(link, ui.asks)
  /\ q' = NoStatus
  /\ calls' = Kept({[c EXCEPT !.awaited = FALSE] : c \in calls})
  /\ Fault

\* The entry in the menu drops the rollout from the address, and the page stays.
FollowMenu == ui.linked /\ ui' = [ui EXCEPT !.linked = FALSE] /\ UNCHANGED <<srv, q, calls>>

\* Variant: the rollout started before keeps being the active one.
StartedBeside(result) == [ui EXCEPT !.shown = result, !.started = result, !.last = "start"]

StartedWith(result) ==
  [ui EXCEPT !.active = result.column, !.shown = result, !.started = result, !.last = "start"]

RolloutAnswered(c) ==
  /\ c.awaited /\ c.at = "answered" /\ calls' = calls \ {c}
  /\ ui' = IF c.kind = "start" THEN StartedWith(c.result) ELSE [ui EXCEPT !.shown = c.result, !.last = "resume"]
  /\ q' = NoStatus /\ UNCHANGED srv

\* The request was refused, or its answer is lost while it goes on.
RolloutRefused(c) ==
  /\ c.awaited
  /\ calls' = Kept((calls \ {c}) \cup {[c EXCEPT !.awaited = FALSE]})
  /\ UNCHANGED <<ui, q>>
  /\ IF c.at = "over" THEN UNCHANGED srv ELSE Fault

------------------------------------------------------------------------------
(* A request at the server.                                                *)

Goes(c, at, to) == c.at = at /\ calls' = Kept((calls \ {c}) \cup {to}) /\ UNCHANGED <<ui, q>>

\* start_rollout: a rollout that exists, though completed, is gone on with, for companies that
\* are active and have no outcome too.  Which are active may be another thing at each start.
HandleStart(c, active) ==
  /\ c.kind = "start"
  /\ Goes(c, "sent", [c EXCEPT !.at = "seeding",
       !.todo = {t \in active : srv.outcome[c.column][t] = "none"},
       !.result.current = {t \in Companies : srv.outcome[c.column][t] = "succeeded"}])
  /\ srv' = [srv EXCEPT !.rollouts = @ \cup {c.column}]

\* register_column_promotion: one for a column and a company.
RegisterPromotion(c, t) ==
  /\ t \in c.todo
  /\ Goes(c, "seeding", [c EXCEPT !.at = "registered", !.turn = t, !.todo = @ \ {t},
       !.got = IF srv.promotion[c.column][t] = "none" THEN "pending" ELSE "failed"])
  /\ srv' = [srv EXCEPT !.promotion[c.column][t] = IF @ = "none" THEN "pending" ELSE @]

FoundDone(r) == r \in srv.completed \/ \E d \in calls : d.column = r /\ d.at = "counted" /\ d.got = "done"

\* One outcome for a rollout and a company: a second one ends the request.
SeedOutcome(c) ==
  LET first == srv.outcome[c.column][c.turn] = "none" IN
  /\ Goes(c, "registered", [c EXCEPT !.at = IF first THEN "seeding" ELSE "over", !.turn = "none", !.got = "none"])
  /\ srv' = IF ~first THEN srv
            ELSE [srv EXCEPT !.outcome[c.column][c.turn] = c.got,
                             !.added[c.column] = IF FoundDone(c.column) THEN @ \cup {c.turn} ELSE @]

\* apply_outstanding reads what is outstanding once.
ListOutstanding(c) ==
  LET overlaps == \E d \in calls \ {c} : d.column = c.column /\ d.at \in {"applying", "tries", "tried", "counted"} IN
  /\ IF c.kind = "start" THEN c.todo = {} ELSE c.column \in srv.rollouts
  /\ Goes(c, IF c.kind = "start" THEN "seeding" ELSE "sent",
       [c EXCEPT !.at = "applying", !.listed = srv.outcome[c.column], !.todo = Outstanding(srv.outcome[c.column])])
  /\ srv' = IF overlaps THEN [srv EXCEPT !.overlapped = @ \cup {c.column}] ELSE srv

ReadPromotion(c, t) ==
  /\ t \in c.todo
  /\ Goes(c, "applying", [c EXCEPT !.at = "tries", !.turn = t, !.todo = @ \ {t}, !.got = srv.promotion[c.column][t]])
  /\ UNCHANGED srv

\* Variant: a promotion that failed is taken for one that needs its outcome only.
AppliedOrFailed == {"ddl_applied", "ddl_failed"}
NeedsOutcomeOnly == {"ddl_applied"}

\* run_column_promotion under the lock of the company's schema, which is not held for what was
\* read before; retry_failed_column_promotion reads again, and refuses what no longer failed.
\* A database error leaves the promotion as it was.
Promote(c, does) ==
  LET now == srv.promotion[c.column][c.turn]
      runs == c.got \notin NeedsOutcomeOnly /\ (c.got = "pending" \/ now = "ddl_failed")
      ok == c.got \in NeedsOutcomeOnly \/ (runs /\ does = "ddl_applied")
  IN
  /\ c.at = "tries"
  /\ does \in IF ~runs THEN {now} ELSE {"ddl_applied", now} \cup (IF now = "ddl_applied" THEN {} ELSE {"ddl_failed"})
  /\ Goes(c, "tries", [c EXCEPT !.at = "tried", !.got = IF ok THEN "succeeded" ELSE "failed"])
  /\ srv' = [srv EXCEPT !.promotion[c.column][c.turn] = does]

\* The update writes what differs from the outcome as it was listed.
RecordOutcome(c) ==
  /\ Goes(c, "tried", [c EXCEPT !.at = "applying", !.turn = "none", !.got = "none"])
  /\ srv' = IF c.listed[c.turn] = c.got THEN srv ELSE [srv EXCEPT !.outcome[c.column][c.turn] = c.got]

\* Variant: only the companies that were not tried are counted.
NoneWaits(r) == \A t \in Companies : srv.outcome[r][t] # "pending"
IsDone(r) == Outstanding(srv.outcome[r]) = {}

\* recompute_rollout_completion counts, and then writes; it takes nothing back.
CountOutstanding(c) ==
  /\ c.todo = {}
  /\ Goes(c, "applying", [c EXCEPT !.at = "counted", !.listed = NoResult.outcomes, !.got = IF IsDone(c.column) THEN "done" ELSE "open"])
  /\ UNCHANGED srv

FinishRequest(c) ==
  /\ Goes(c, "counted", [c EXCEPT !.at = "answered", !.got = "none", !.result = ResultOf(c.column, c.result.current)])
  /\ srv' = IF c.got = "done" THEN [srv EXCEPT !.completed = @ \cup {c.column}] ELSE srv

\* The request ends without an answer: its node stops, an exception is raised, or another one
\* inserted the same rollout first.
EndRequest(c) == c.at \notin {"answered", "over"} /\ Goes(c, c.at, [c EXCEPT !.at = "over"]) /\ Fault

------------------------------------------------------------------------------
\* The query matters as long as no action brought a result.
AsksStatus == ui.active # "none" /\ ui.shown = NoResult
ReadStatus == AsksStatus /\ q.fetch = "sent" /\ q' = ReadWith(q, ResultOf(ui.active, {})) /\ UNCHANGED <<srv, ui, calls>>
StatusAnswer == AsksStatus /\ q.fetch = "read" /\ q' = Answered(q) /\ UNCHANGED <<srv, ui, calls>>
StatusFail == AsksStatus /\ q.fetch = "read" /\ q' = Refused(q) /\ UNCHANGED <<srv, ui, calls>>
RefetchStatus ==
  /\ AsksStatus
  /\ q' = (IF Renders(q) = "failure" THEN Invalidated(q) ELSE Observed(q, TRUE))
  /\ q' # q /\ UNCHANGED <<srv, ui, calls>>

RolloutNext ==
  \/ \E r \in Columns : Start(r)
  \/ Resume \/ StartDifferent \/ FollowMenu
  \/ \E link \in srv.rollouts \cup {"none"} : LeaveRollouts(link)
  \/ \E c \in calls :
       \/ RolloutAnswered(c) \/ RolloutRefused(c)
       \/ \E active \in SUBSET Companies : HandleStart(c, active)
       \/ SeedOutcome(c) \/ ListOutstanding(c) \/ RecordOutcome(c)
       \/ CountOutstanding(c) \/ FinishRequest(c) \/ EndRequest(c)
       \/ \E t \in Companies : RegisterPromotion(c, t) \/ ReadPromotion(c, t)
       \/ \E does \in {"pending", "ddl_failed", "ddl_applied"} : Promote(c, does)
  \/ ReadStatus \/ StatusAnswer \/ StatusFail \/ RefetchStatus

------------------------------------------------------------------------------
\* The rollout that is shown is the one that Resume resumes, unless a resume was answered after
\* a start that was under way with it; a banner tells of the result that is shown.
ShowsItsRollout ==
  /\ Shown # NoResult /\ Shown.column # ui.active => ui.last = "resume"
  /\ ui.last = "start" => ui.shown = ui.started

\* An outcome that says succeeded, stored or shown, is that of a company that has the column, and
\* so is one of which a repeated start says that it was there before.  A rollout is completed
\* when every outcome it had has succeeded, and stays so: none is outstanding later but those of
\* companies that a start added since they were counted (README, Disagreements), unless two
\* requests overlapped.
SucceededIsThere ==
  /\ \A r \in Columns, t \in Companies : srv.outcome[r][t] = "succeeded" => srv.promotion[r][t] = "ddl_applied"
  /\ \A t \in Companies :
       Shown.outcomes[t] = "succeeded" \/ t \in Shown.current => srv.promotion[Shown.column][t] = "ddl_applied"
  /\ \A r \in srv.completed \ srv.overlapped : Outstanding(srv.outcome[r]) \subseteq srv.added[r]

\* A rollout that is completed and has nothing outstanding stays so, unless two requests overlapped.
\* The code does not keep it (README, Disagreements): no run checks it.
CompletedStaysDone ==
  \A r \in srv.completed \ srv'.overlapped :
    Outstanding(srv.outcome[r]) = {} => Outstanding(srv'.outcome[r]) = {}
===============================================================================
