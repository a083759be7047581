--------------------------------- MODULE Exam ---------------------------------
(***************************************************************************)
(* Taking an exam in the web client: modules/exam/ExamSessionPage.tsx with *)
(* its anti-cheat hook, the list and the result page around it, and the    *)
(* one session of the candidate that the server keeps, saves, scores and   *)
(* closes (lib/letflow/modules/exam/session.ex, anti_cheat.ex).            *)
(*                                                                         *)
(* Requests run concurrently, are handled and answered in any order, and   *)
(* may fail before the server handles them or lose their answer.  An       *)
(* answer of a question is a set: the options chosen, or at most one text. *)
(***************************************************************************)
EXTENDS Naturals, FiniteSets

CONSTANTS
  Types,       \* the questions' types, in the order they are shown
  Options,     \* the options of a question
  Texts,       \* what can be typed into a short_text question
  Policy,      \* on_tab_switch of the exam: "log", "warn" or "submit"
  MaxCalls,    \* bound: requests sent
  MaxMounts    \* bound: times the session page is opened

Questions == DOMAIN Types

ASSUME ExamAssumption ==
  /\ Questions = 1 .. Cardinality(Questions) /\ 1 \in Questions
  /\ \A q \in Questions : Types[q] \in {"single", "multiple", "short_text"}
  /\ Policy \in {"log", "warn", "submit"}
  /\ {MaxCalls, MaxMounts} \subseteq Nat

VARIABLES
  srv,    \* the session on the server
  page,   \* the page on the screen
  calls,  \* requests under way
  used    \* requests sent and pages opened so far (bounds; names of the requests)

vars == <<srv, page, calls, used>>

Values(q) == IF Types[q] = "short_text" THEN {{}} \cup {{t} : t \in Texts} ELSE SUBSET Options

\* An answer carries the number of the save that brought it.
NoAnswers == [q \in Questions |-> [n |-> 0, v |-> {}]]
Closed == {"submitted", "grading_pending", "auto_submitted"}

IsText(q) == Types[q] = "short_text"

\* phase is that of the session page; the result page has its load state there.  text: what has
\* become of the textarea since its question was shown: nothing, typed into, or left again.
Page(view, phase) ==
  [view |-> view, phase |-> phase, answers |-> NoAnswers, q |-> 1, draft |-> {}, text |-> "shown",
   save |-> "idle", submitError |-> FALSE, warning |-> FALSE]

Init ==
  /\ srv = [status |-> "none", late |-> FALSE, answers |-> NoAnswers, scored |-> NoAnswers]
  /\ page = Page("list", "idle")
  /\ calls = {}
  /\ used = [sent |-> 0, mounts |-> 0]

Shown == page.view = "session" /\ page.phase = "in_progress"

------------------------------------------------------------------------------
(* Requests.  wait: the save a report waits for; clean: no other save of   *)
(* the question was under way when the report was made; lost: the flush    *)
(* was refused, or failed as far as the page knows.                        *)

Call(kind) ==
  [kind |-> kind, id |-> used.sent + 1, q |-> 1, v |-> {}, at |-> "sent", live |-> TRUE,
   wait |-> 0, flush |-> 0, clean |-> TRUE, lost |-> FALSE, snap |-> NoAnswers]

CanSend(k) == used.sent + k <= MaxCalls
Send(new) == calls' = calls \cup new /\ used' = [used EXCEPT !.sent = @ + Cardinality(new)]

Saves(q) == {c \in calls : c.kind = "save" /\ c.q = q}

\* What only reads is forgotten with its page, and so is an answer on its way, unless a report
\* waits for it; after a reload nothing waits any more.
Unmount(s) ==
  {[c EXCEPT !.live = FALSE] : c \in
     {d \in s : \/ d.kind \in {"start", "save", "submit", "report"} /\ d.at \in {"sent", "checked"}
                \/ \E r \in s : r.wait = d.id}}
Reloaded(s) == Unmount({c \in s : c.wait = 0})

------------------------------------------------------------------------------
(* The page.                                                               *)

\* The start effect runs once per mount.
Mount(rest) ==
  /\ CanSend(1) /\ used.mounts < MaxMounts
  /\ page' = Page("session", "starting")
  /\ calls' = rest \cup {Call("start")}
  /\ used' = [sent |-> used.sent + 1, mounts |-> used.mounts + 1]
  /\ UNCHANGED srv

Open == page.view = "list" /\ Mount(calls)
Reload == page.view = "session" /\ Mount(Reloaded(calls))

\* Back to the list, from a terminal screen or through the browser's history.
Leave ==
  /\ page.view # "list"
  /\ page' = Page("list", "idle") /\ calls' = Unmount(calls)
  /\ UNCHANGED <<srv, used>>

\* The draft is taken from the answers when the question on screen changes.
Resync(p) == [p EXCEPT !.draft = IF IsText(p.q) THEN p.answers[p.q].v ELSE @, !.text = "shown"]

EnterSession(snap) == page' = Resync([page EXCEPT !.phase = "in_progress", !.answers = snap])

SaveCall(q, v) == [Call("save") EXCEPT !.q = q, !.v = v]

\* maybeSaveDraft: a draft that is what is saved is not sent.
Unsaved == IsText(page.q) /\ page.draft # page.answers[page.q].v

Type(t) ==
  /\ Shown /\ IsText(page.q) /\ page.draft # t
  /\ page' = [page EXCEPT !.draft = t, !.text = "typing"]
  /\ UNCHANGED <<srv, calls, used>>

\* Focus leaves the textarea; without a keystroke too, when it was entered.
Blur ==
  /\ Shown /\ (page.text = "typing" \/ Unsaved)
  /\ LET p == [page EXCEPT !.text = IF @ = "typing" THEN "left" ELSE @]
     IN IF Unsaved THEN CanSend(1) /\ Send({SaveCall(page.q, page.draft)}) /\ page' = [p EXCEPT !.save = "saving"]
                   ELSE page' = p /\ UNCHANGED <<calls, used>>
  /\ UNCHANGED srv

\* handleOptionToggle: from the answers the page has, not from what is under way.
Toggle(o) ==
  /\ Shown /\ ~IsText(page.q) /\ CanSend(1)
  /\ LET v == page.answers[page.q].v
         next == IF Types[page.q] # "multiple" THEN {o} ELSE IF o \in v THEN v \ {o} ELSE v \cup {o}
     IN Send({SaveCall(page.q, next)})
  /\ page' = [page EXCEPT !.save = "saving"]
  /\ UNCHANGED srv

\* The previous and the next question, within the questions.
Neighbours(q) == {q - 1, q + 1} \cap Questions

MoveTo(q) ==
  /\ Shown /\ page.text # "typing"
  /\ page' = Resync([page EXCEPT !.q = q])
  /\ UNCHANGED <<srv, calls, used>>

Submit ==
  /\ Shown /\ page.text # "typing" /\ CanSend(1)
  /\ Send({Call("submit")})
  /\ page' = [page EXCEPT !.submitError = FALSE]
  /\ UNCHANGED srv

\* Variant: the report does not wait for the flush of the draft.
NotAwaited(id) == 0
Awaited(id) == id

\* report: the draft is flushed first and the report waits for that save.
SignalCalls ==
  IF ~Unsaved THEN {Call("report")}
  ELSE LET s == SaveCall(page.q, page.draft)
       IN {s, [Call("report") EXCEPT !.id = s.id + 1, !.q = page.q, !.wait = Awaited(s.id),
                                     !.flush = s.id, !.clean = Saves(page.q) = {}]}

\* The tab is hidden, the window loses the focus or leaves full screen while the listeners are on.
Signal ==
  /\ Shown /\ CanSend(Cardinality(SignalCalls))
  /\ Send(SignalCalls)
  /\ page' = IF Unsaved THEN [page EXCEPT !.save = "saving"] ELSE page
  /\ UNCHANGED srv

\* ExamSessionResultPage: opened by its address, it only reads.
OpenResult ==
  /\ page.view = "list" /\ CanSend(1) /\ used.mounts < MaxMounts
  /\ page' = Page("byid", "loading")
  /\ calls' = calls \cup {Call("result")}
  /\ used' = [sent |-> used.sent + 1, mounts |-> used.mounts + 1]
  /\ UNCHANGED srv

------------------------------------------------------------------------------
(* The server.                                                             *)

\* Nobody takes the answer of a page that is gone, unless a report waits for it.
Kept(d) == d.live \/ d.at \in {"sent", "checked"} \/ \E r \in calls : r.wait = d.id
Become(c, d) == calls' = (calls \ {c}) \cup {e \in {d} : Kept(e)}
Now(c, at) == Become(c, [c EXCEPT !.at = at])

\* load_answers, score_session and update_session_after_submit, under the lock of the session row.
Score(statuses) ==
  \E s \in statuses : srv' = [srv EXCEPT !.status = s, !.scored = srv.answers]

\* create: a session already open refuses with its id, a finished one with attempts_exhausted.
StartHandled(c) ==
  /\ c.kind = "start" /\ c.at = "sent"
  /\ \/ /\ srv.status = "none"
        /\ srv' = [srv EXCEPT !.status = "in_progress"] /\ Now(c, "entered")
     \/ srv.status = "in_progress" /\ Now(c, "open") /\ UNCHANGED srv
     \/ srv.status \in Closed \cup {"none"} /\ Now(c, "refused") /\ UNCHANGED srv
  /\ UNCHANGED <<page, used>>

\* get_session_state_for_user, whatever the status of the session.
StateRead(c) ==
  /\ c.kind \in {"resume", "result"} /\ c.at = "sent"
  /\ IF srv.status = "none" THEN Now(c, "refused")
     ELSE Become(c, [c EXCEPT !.at = IF c.kind = "resume" THEN "entered" ELSE srv.status, !.snap = srv.answers])
  /\ UNCHANGED <<srv, page, used>>

Accepting == srv.status = "in_progress" /\ ~srv.late

\* autosave_answer: the checks, and later the write; nothing locks the session between them.
SaveChecked(c) ==
  /\ c.kind = "save" /\ c.at = "sent"
  /\ Now(c, IF Accepting THEN "checked" ELSE "refused")
  /\ UNCHANGED <<srv, page, used>>

SaveWritten(c) ==
  /\ c.kind = "save" /\ c.at = "checked"
  /\ srv' = [srv EXCEPT !.answers[c.q] = [n |-> c.id, v |-> c.v]]
  /\ Now(c, "written")
  /\ UNCHANGED <<page, used>>

\* Variant: a submission scores whatever the session's status.
SubmitAgain == Score({"submitted", "grading_pending"})

\* submit_txn: a finished session answers with the outcome it has.
SubmitTxn == IF srv.status = "in_progress" THEN Score({"submitted", "grading_pending"}) ELSE UNCHANGED srv

SubmitHandled(c) ==
  /\ c.kind = "submit" /\ c.at = "sent"
  /\ SubmitTxn /\ Now(c, "done")
  /\ UNCHANGED <<page, used>>

\* record_signal: a signal soon after another one is only counted (debounced); one that is
\* refused, or fails, shows nothing, as one that is logged.
ReportHandled(c) ==
  /\ c.kind = "report" /\ c.at = "sent" /\ c.wait = 0
  /\ \/ Now(c, IF Accepting /\ Policy = "warn" THEN "warn" ELSE "logged")
     \/ Accepting /\ Policy = "submit" /\ Now(c, "checked")
  /\ UNCHANGED <<srv, page, used>>

\* branch_on_policy submits later; nothing locks the session between the checks and this.
ReportSubmits(c) ==
  /\ c.kind = "report" /\ c.at = "checked"
  /\ \/ SubmitTxn /\ Now(c, "done")
     \/ Now(c, "logged") /\ UNCHANGED srv
  /\ UNCHANGED <<page, used>>

\* The request never arrives, the server fails before it writes, or the answer is lost.
CallFails(c) ==
  /\ \/ c.at \in {"sent", "checked", "written"}
     \/ c.at = "done" /\ c.kind = "submit"
  /\ c.kind # "report" /\ Now(c, "failed")
  /\ UNCHANGED <<srv, page, used>>

Deadline ==
  /\ srv.status = "in_progress" /\ ~srv.late
  /\ srv' = [srv EXCEPT !.late = TRUE]
  /\ UNCHANGED <<page, calls, used>>

\* finalize_txn, from the sweep of expired sessions.
FinalizeExpired ==
  /\ srv.status = "in_progress" /\ srv.late
  /\ Score({"auto_submitted", "grading_pending"})
  /\ UNCHANGED <<page, calls, used>>

------------------------------------------------------------------------------
(* The answers reach the page.                                             *)

Settle(c) == calls' = calls \ {c}

\* Variant: a resumption that fails leaves the page as it is.
StartErrorIgnored(c) == IF c.kind = "resume" THEN page ELSE [page EXCEPT !.phase = "error"]
StartError(c) == [page EXCEPT !.phase = "error"]

StartAnswered(c) ==
  /\ c.kind \in {"start", "resume"} /\ c.at \in {"entered", "open", "refused", "failed"}
  /\ \/ c.at = "entered" /\ EnterSession(c.snap) /\ Settle(c)
     \/ c.at = "open" /\ Become(c, [c EXCEPT !.kind = "resume", !.at = "sent"]) /\ UNCHANGED page
     \/ c.at \in {"refused", "failed"} /\ page' = StartError(c) /\ Settle(c)
  /\ UNCHANGED <<srv, used>>

\* Variant: a flush that fails withholds the report.
ReleasedIfWritten(s) ==
  {[c EXCEPT !.wait = IF @ = s.id /\ s.at = "written" THEN 0 ELSE @] : c \in calls}

\* A save's answer, a failure too, releases the report that waits for it.
Released(s) ==
  {[c EXCEPT !.wait = IF @ = s.id THEN 0 ELSE @, !.lost = @ \/ (c.flush = s.id /\ s.at # "written")] : c \in calls}

SaveAnswered(c) ==
  /\ c.kind = "save" /\ c.at \in {"written", "refused", "failed"}
  /\ calls' = Released(c) \ {c}
  /\ page' = IF ~c.live THEN page
             ELSE IF c.at = "refused" THEN [page EXCEPT !.phase = "expired"]
             ELSE IF c.at = "failed" THEN [page EXCEPT !.save = "error"]
             ELSE [page EXCEPT !.save = "saved", !.answers[c.q] = [n |-> c.id, v |-> c.v]]
  /\ UNCHANGED <<srv, used>>

SubmitAnswered(c) ==
  /\ c.kind = "submit" /\ c.at \in {"done", "failed"}
  /\ Settle(c)
  /\ page' = IF c.at = "done" THEN [page EXCEPT !.phase = "result"] ELSE [page EXCEPT !.submitError = TRUE]
  /\ UNCHANGED <<srv, used>>

\* handleAntiCheatOutcome
ReportAnswered(c) ==
  /\ c.kind = "report" /\ c.at \in {"done", "warn", "logged"}
  /\ Settle(c)
  /\ page' = IF c.at = "done" THEN [page EXCEPT !.phase = "result"]
             ELSE IF c.at = "warn" THEN [page EXCEPT !.warning = TRUE] ELSE page
  /\ UNCHANGED <<srv, used>>

\* A session that is not finished, and one whose score is missing, have no score to show.
ResultAnswered(c) ==
  /\ c.kind = "result" /\ c.at # "sent"
  /\ Settle(c)
  /\ page' = [page EXCEPT !.phase = IF c.at \in {"refused", "failed"} THEN "not_found"
                                    ELSE IF c.at = "grading_pending" THEN "pending"
                                    ELSE IF c.at = "in_progress" THEN "score_unavailable" ELSE "score"]
  /\ UNCHANGED <<srv, used>>

------------------------------------------------------------------------------
Handle == \E c \in calls :
  \/ StartHandled(c) \/ StateRead(c) \/ SaveChecked(c) \/ SaveWritten(c) \/ SubmitHandled(c) \/ ReportHandled(c)
  \/ ReportSubmits(c) \/ CallFails(c)

Arrive == \E c \in calls :
  \/ StartAnswered(c) \/ SaveAnswered(c) \/ SubmitAnswered(c) \/ ReportAnswered(c) \/ ResultAnswered(c)

Candidate ==
  \/ Open \/ Reload \/ Leave \/ OpenResult
  \/ \E q \in Questions : \E t \in Values(q) : Types[q] = "short_text" /\ page.q = q /\ Type(t)
  \/ Blur
  \/ \E o \in Options : Toggle(o)
  \/ \E q \in Neighbours(page.q) : MoveTo(q)
  \/ Submit \/ Signal

Next == Handle \/ Arrive \/ Candidate \/ Deadline \/ FinalizeExpired

\* A request is handled and answered, or fails, sooner or later.
Spec == Init /\ [][Next]_vars /\ WF_vars(Handle) /\ WF_vars(Arrive)

------------------------------------------------------------------------------
CallStates == {"sent", "checked", "written", "entered", "open", "refused", "failed", "done", "warn", "logged",
               "in_progress"} \cup Closed
AnswerSet == [Questions -> [n : 0 .. MaxCalls, v : {{}} \cup {{t} : t \in Texts} \cup SUBSET Options]]

\* Types, and what the records say of each other: a waiting report waits for a save under way,
\* an answer has the form its question asks for.
TypeOK ==
  /\ srv \in [status : {"none", "in_progress"} \cup Closed, late : BOOLEAN, answers : AnswerSet, scored : AnswerSet]
  /\ \A q \in Questions : srv.answers[q].v \in Values(q) /\ page.answers[q].v \in Values(q)
  /\ page.q \in Questions /\ page.view \in {"list", "session", "byid"}
  /\ page.save \in {"idle", "saving", "saved", "error"} /\ (page.text = "typing" => IsText(page.q))
  /\ \A c \in calls : c.at \in CallStates /\ (c.wait # 0 => \E s \in calls : s.kind = "save" /\ s.id = c.wait)
  /\ used.sent \in 0 .. MaxCalls /\ used.mounts \in 0 .. MaxMounts

\* FLUSH-BEFORE-FORCED-SUBMIT: when a signal has closed the session, the text that was on the screen
\* at the signal is scored, or one sent after it; provided its save did not fail and no
\* earlier save of the question was still under way, which the server may take later.
\* Reports wait for saves that are under way, and answers have the form of their questions.
ForcedSubmitKeepsDraft ==
  /\ TypeOK
  /\ \A c \in calls :
       c.kind = "report" /\ c.at = "done" /\ c.clean /\ ~c.lost => srv.scored[c.q].n >= c.flush

\* The submission by the candidate, the one a signal forces and the sweep at the deadline race; the
\* session is scored by one of them, and its outcome never changes again.
ScoredOnce ==
  [][srv.status \in Closed => srv'.status = srv.status /\ srv'.scored = srv.scored]_vars

\* A page that starts or resumes a session shows the exam or an error in the end, whatever fails.
StartSettles == (page.phase = "starting") ~> (page.phase # "starting")

\* "navigating away and back shows the last-saved text, not a stale draft": a question shown again,
\* nothing typed since and no save of it under way, shows the text the page has as saved.
\* The code does not keep it (README, Disagreements): no run checks it.
TextShownIsSaved ==
  Shown /\ IsText(page.q) /\ page.text = "shown" /\ Saves(page.q) = {} => page.draft = page.answers[page.q].v
=============================================================================
