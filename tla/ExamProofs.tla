------------------------------ MODULE ExamProofs ------------------------------
(***************************************************************************)
(* A forced submission scores the text that was on the screen, and a       *)
(* session is scored once: for any questions, options, texts and policy,   *)
(* and any number of requests and visits.  The argument is about requests: *)
(* one under way is the one that was sent, further on (Follows), and a     *)
(* report that still may count on its flush knows what the server has      *)
(* (Promised).                                                             *)
(***************************************************************************)
EXTENDS Exam, FiniteSetTheorems, TLAPS

Answers == {a \in AnswerSet : \A q \in Questions : a[q].v \in Values(q)}
Drafts == {{}} \cup {{t} : t \in Texts}

SrvSet == [status : {"none", "in_progress"} \cup Closed, late : BOOLEAN, answers : Answers, scored : Answers]

PageSet ==
  [view : {"list", "session", "byid"},
   phase : {"idle", "starting", "in_progress", "error", "expired", "result", "loading", "not_found",
            "pending", "score_unavailable", "score"},
   answers : Answers, q : Questions, draft : Drafts, text : {"shown", "typing", "left"},
   save : {"idle", "saving", "saved", "error"}, submitError : BOOLEAN, warning : BOOLEAN]

UsedSet == [sent : 0 .. MaxCalls, mounts : 0 .. MaxMounts]

CallSet ==
  [kind : {"start", "resume", "save", "submit", "report", "result"}, id : Nat, q : Questions,
   v : Drafts \cup SUBSET Options, at : CallStates, live : BOOLEAN, wait : Nat, flush : Nat,
   clean : BOOLEAN, lost : BOOLEAN, snap : Answers]

\* What a request says by itself: a report waits for its own flush, and only until it is handled;
\* it was checked against a session.
Fine(c) ==
  /\ c \in CallSet /\ c.id \in 1 .. used.sent /\ c.flush <= used.sent
  /\ c.kind = "save" => c.v \in Values(c.q)
  /\ c.wait # 0 => c.kind = "report" /\ c.at = "sent" /\ c.wait = c.flush
  /\ c.kind = "report" /\ c.at = "checked" => srv.status # "none"

\* While a report may count on its flush: no earlier save of the question is under way; once the
\* flush is written, or the report is released, the server has its text or a later one; whoever
\* scores the session after the report was checked scores that.
Promised(c) ==
  c.kind = "report" /\ c.clean /\ ~c.lost =>
    /\ \A s \in calls : s.kind = "save" =>
         /\ s.q = c.q => s.id >= c.flush
         /\ s.id = c.flush => s.q = c.q /\ (s.at = "written" => srv.answers[c.q].n >= c.flush)
    /\ c.wait = 0 => srv.answers[c.q].n >= c.flush
    /\ c.at \in {"checked", "done"} /\ srv.status \in Closed => srv.scored[c.q].n >= c.flush
    /\ c.at = "done" => srv.status \in Closed

Waits == \A c \in calls : c.wait # 0 => \E s \in calls : s.kind = "save" /\ s.id = c.wait

CallsInv == /\ srv \in SrvSet /\ used \in UsedSet /\ Waits
            /\ \A c \in calls : Fine(c) /\ Promised(c)

PageInv == page \in PageSet /\ (page.text = "typing" => IsText(page.q))

IInv == CallsInv /\ PageInv

-----------------------------------------------------------------------------
(* Requests from one state to the next. *)

\* d is the request c, further on.
Follows(c, d) ==
  /\ d \in CallSet
  /\ d.id = c.id /\ d.q = c.q /\ d.v = c.v /\ d.flush = c.flush /\ d.clean = c.clean
  /\ c.lost => d.lost
  /\ (d.kind = "save" <=> c.kind = "save") /\ (d.kind = "report" <=> c.kind = "report")
  /\ d.wait # 0 => d.wait = c.wait /\ d.at = "sent"
  /\ c.wait # 0 /\ d.wait = 0 =>
       d.lost \/ \E s \in calls : s.kind = "save" /\ s.id = c.wait /\ s.at = "written"
  /\ d.kind = "save" /\ d.at = "written" => c.at = "written" \/ srv'.answers[c.q].n = c.id
  /\ d.kind = "report" /\ d.at = "checked" => c.at = "checked" \/ (d.wait = 0 /\ srv.status = "in_progress")
  /\ d.kind = "report" /\ d.at = "done" => c.at = "done" \/ (c.at = "checked" /\ srv'.status \in Closed)

\* d is a request sent in this step.
Fresh(d) ==
  /\ d \in CallSet /\ d.at = "sent"
  /\ used.sent < d.id /\ d.id <= used'.sent
  /\ d.wait = d.flush /\ (d.wait = 0 \/ (used.sent < d.wait /\ d.wait <= used'.sent))
  /\ d.kind = "save" => d.v \in Values(d.q)
  /\ d.wait # 0 => d.kind = "report"
  /\ d.kind = "report" /\ d.clean => \A s \in calls' : s.kind = "save" =>
       (s.q = d.q => s.id >= d.flush) /\ (s.id = d.flush => s.q = d.q)

\* What a step may do to the session: an answer is that of a save under way; what is scored is
\* what is there, and stays.
SrvStep ==
  /\ srv' \in SrvSet
  /\ \A q \in Questions :
       \/ srv'.answers[q].n = srv.answers[q].n
       \/ \E s \in calls : s.kind = "save" /\ s.q = q /\ srv'.answers[q].n = s.id
  /\ srv.status \in Closed => srv'.status = srv.status /\ srv'.scored = srv.scored
  /\ srv'.status \in Closed => srv.status \in Closed \/ srv'.scored = srv'.answers
  /\ srv'.status = "none" => srv.status = "none"

\* A step whose requests follow those before it, or are new, keeps what the requests know.
LEMMA CallsStep ==
  ASSUME CallsInv, SrvStep, used' \in UsedSet, used.sent <= used'.sent,
         \A d \in calls' : Fresh(d) \/ \E c \in calls : Follows(c, d),
         Waits'
  PROVE  CallsInv'
  <1>1. /\ \A q \in Questions : srv.answers[q].n \in Nat /\ srv'.answers[q].n \in Nat
        /\ used.sent \in Nat /\ used'.sent \in Nat
    <2>1. srv \in SrvSet /\ srv' \in SrvSet /\ used \in UsedSet
      BY DEF CallsInv, SrvStep
    <2> QED
      BY <2>1, ExamAssumption DEF SrvSet, UsedSet, Answers, AnswerSet
  <1>2. ASSUME NEW d \in calls', Fresh(d) PROVE Fine(d)' /\ Promised(d)'
    <2>1. d \in CallSet /\ d.id \in Nat /\ d.wait \in Nat /\ d.flush \in Nat /\ d.q \in Questions
      BY <1>2 DEF Fresh, CallSet
    <2>2. Fine(d)'
      BY <1>1, <1>2, <2>1 DEF Fresh, Fine
    <2>3. ASSUME NEW s \in calls', s.kind = "save", s.id = d.flush PROVE s.at # "written"
      <3>1. CASE Fresh(s)
        BY <3>1 DEF Fresh
      <3>2. ASSUME NEW e \in calls, Follows(e, s) PROVE FALSE
        BY <1>1, <1>2, <2>1, <2>3, <3>2 DEF Fresh, Follows, CallsInv, Fine
      <3> QED
        BY <3>1, <3>2
    <2>4. d.wait = 0 => srv'.answers[d.q].n >= d.flush
      BY <1>1, <1>2, <2>1 DEF Fresh
    <2>5. d.at # "done"
      BY <1>2 DEF Fresh
    <2>6. Promised(d)'
      BY <1>2, <2>3, <2>4, <2>5 DEF Fresh, Promised
    <2> QED
      BY <2>2, <2>6
  <1>3. ASSUME NEW d \in calls', NEW c \in calls, Follows(c, d) PROVE Fine(d)' /\ Promised(d)'
    <2>1. /\ Fine(c) /\ Promised(c) /\ c.id \in Nat /\ c.flush \in Nat /\ c.q \in Questions
          /\ d \in CallSet
      BY <1>3 DEF CallsInv, Fine, CallSet, Follows
    <2>2. Fine(d)'
      <3>1. d.kind = "report" /\ d.at = "checked" => srv'.status # "none"
        BY <1>3, <2>1 DEF Fine, Follows, SrvStep
      <3> QED
        BY <1>1, <1>3, <2>1, <3>1 DEF Fine, Follows
    <2> SUFFICES ASSUME d.kind = "report", d.clean, ~d.lost PROVE Promised(d)'
      BY <2>2 DEF Promised
    <2>3. /\ c.kind = "report" /\ c.clean /\ ~c.lost /\ d.id = c.id /\ d.q = c.q /\ d.flush = c.flush
      BY <1>3 DEF Follows
    <2>4. \A s \in calls : s.kind = "save" =>
            /\ s.q = c.q => s.id >= c.flush
            /\ s.id = c.flush => s.q = c.q /\ (s.at = "written" => srv.answers[c.q].n >= c.flush)
      BY <2>1, <2>3 DEF Promised
    <2>5. srv.answers[c.q].n >= c.flush => srv'.answers[c.q].n >= c.flush
      BY <2>1, <2>4 DEF SrvStep
    <2>6. ASSUME NEW s \in calls', s.kind = "save"
          PROVE  /\ s.q = d.q => s.id >= d.flush
                 /\ s.id = d.flush => s.q = d.q /\ (s.at = "written" => srv'.answers[d.q].n >= d.flush)
      <3>1. CASE Fresh(s)
        BY <1>1, <2>1, <2>3, <3>1 DEF Fresh, Fine, CallSet
      <3>2. ASSUME NEW e \in calls, Follows(e, s)
            PROVE  /\ s.q = d.q => s.id >= d.flush
                   /\ s.id = d.flush => s.q = d.q /\ (s.at = "written" => srv'.answers[d.q].n >= d.flush)
        <4>1. /\ e.kind = "save" /\ s.id = e.id /\ s.q = e.q
              /\ s.at = "written" => e.at = "written" \/ srv'.answers[e.q].n = e.id
          BY <2>6, <3>2 DEF Follows
        <4> QED
          BY <2>1, <2>3, <2>4, <2>5, <4>1
      <3> QED
        BY <3>1, <3>2
    <2>7. d.wait = 0 => srv'.answers[d.q].n >= d.flush
      <3>1. CASE c.wait = 0
        BY <2>1, <2>3, <2>5, <3>1 DEF Promised
      <3>2. CASE c.wait # 0 /\ d.wait = 0
        <4>1. PICK s \in calls : s.kind = "save" /\ s.id = c.wait /\ s.at = "written"
          BY <1>3, <3>2 DEF Follows
        <4>2. c.wait = c.flush
          BY <2>1, <3>2 DEF Fine
        <4> QED
          BY <2>3, <2>4, <2>5, <4>1, <4>2
      <3> QED
        BY <3>1, <3>2
    <2>8. d.at = "done" => srv'.status \in Closed
      <3>1. CASE c.at = "done"
        BY <2>1, <2>3, <3>1 DEF Promised, SrvStep
      <3>2. CASE c.at # "done"
        BY <1>3, <2>3, <3>2 DEF Follows
      <3> QED
        BY <3>1, <3>2
    <2>9. ASSUME d.at \in {"checked", "done"}, srv'.status \in Closed PROVE srv'.scored[d.q].n >= d.flush
      <3>1. CASE srv.status \in Closed
        <4>1. c.at \in {"checked", "done"}
          BY <1>3, <2>9, <3>1 DEF Follows, Closed
        <4>2. srv.scored[c.q].n >= c.flush
          BY <2>1, <2>3, <3>1, <4>1 DEF Promised
        <4> QED
          BY <2>3, <3>1, <4>2 DEF SrvStep
      <3>2. CASE srv.status \notin Closed
        <4>1. srv'.scored = srv'.answers
          BY <2>9, <3>2 DEF SrvStep
        <4>2. d.wait = 0
          BY <2>2, <2>9 DEF Fine
        <4> QED
          BY <2>7, <4>1, <4>2
      <3> QED
        BY <3>1, <3>2
    <2> QED
      BY <2>6, <2>7, <2>8, <2>9 DEF Promised
  <1> QED
    BY <1>2, <1>3 DEF CallsInv, SrvStep

-----------------------------------------------------------------------------
(* Types of what the actions put together. *)

\* The forms of an answer.
LEMMA ValueTypes ==
  /\ \A q \in Questions : Values(q) \subseteq Drafts \cup SUBSET Options
  /\ \A q \in Questions : IsText(q) => Values(q) = Drafts
  /\ \A q \in Questions : ~IsText(q) => Values(q) = SUBSET Options
  BY DEF Values, Drafts, IsText

\* No question is answered yet.
LEMMA NoAnswersType == NoAnswers \in Answers
  <1>1. \A q \in Questions : {} \in Values(q)
    BY DEF Values
  <1>2. 0 \in 0 .. MaxCalls
    BY ExamAssumption
  <1>3. NoAnswers \in AnswerSet
    BY <1>2 DEF NoAnswers, AnswerSet
  <1> QED
    BY <1>1, <1>3 DEF NoAnswers, Answers

\* A page just opened.
LEMMA PageType ==
  ASSUME NEW view \in {"list", "session", "byid"}, NEW phase \in {"idle", "starting", "loading"}
  PROVE  Page(view, phase) \in PageSet /\ Page(view, phase).text = "shown"
  <1>1. {} \in Drafts /\ 1 \in Questions
    BY ExamAssumption DEF Drafts
  <1> QED
    BY <1>1, NoAnswersType DEF Page, PageSet

\* An answer that is put in its place.
LEMMA AnswerPut ==
  ASSUME NEW a \in Answers, NEW q \in Questions, NEW i \in 0 .. MaxCalls, NEW w \in Values(q)
  PROVE  /\ [a EXCEPT ![q] = [n |-> i, v |-> w]] \in Answers
         /\ \A x \in Questions : [a EXCEPT ![q] = [n |-> i, v |-> w]][x].n = IF x = q THEN i ELSE a[x].n
  <1> DEFINE r == [n |-> i, v |-> w]
  <1>1. r \in [n : 0 .. MaxCalls, v : {{}} \cup {{t} : t \in Texts} \cup SUBSET Options]
    BY ValueTypes DEF Drafts
  <1>2. r.n = i /\ r.v = w
    OBVIOUS
  <1> HIDE DEF r
  <1>3. a \in AnswerSet /\ \A x \in Questions : a[x].v \in Values(x)
    BY DEF Answers
  <1>4. [a EXCEPT ![q] = r] \in AnswerSet
    BY <1>1, <1>3 DEF AnswerSet
  <1>5. \A x \in Questions : [a EXCEPT ![q] = r][x] = IF x = q THEN r ELSE a[x]
    BY <1>3 DEF AnswerSet
  <1>6. [a EXCEPT ![q] = r] \in Answers
    BY <1>2, <1>3, <1>4, <1>5 DEF Answers
  <1>7. \A x \in Questions : [a EXCEPT ![q] = r][x].n = IF x = q THEN i ELSE a[x].n
    BY <1>2, <1>5
  <1> QED
    BY <1>6, <1>7 DEF r

\* A request as it is sent.
LEMMA CallType ==
  ASSUME used \in UsedSet, NEW kind \in {"start", "submit", "report", "save", "result"}
  PROVE  /\ Call(kind) \in CallSet
         /\ Call(kind).kind = kind /\ Call(kind).id = used.sent + 1 /\ Call(kind).at = "sent"
         /\ Call(kind).wait = 0 /\ Call(kind).flush = 0 /\ Call(kind).q = 1
  <1>1. 1 \in Questions /\ {} \in Drafts /\ used.sent + 1 \in Nat
    BY ExamAssumption DEF UsedSet, Drafts
  <1> QED
    BY <1>1, NoAnswersType DEF Call, CallSet, CallStates

-----------------------------------------------------------------------------
(* Requests that are handled, answered or forgotten. *)

\* A step that leaves the session alone.
LEMMA SrvSame == CallsInv /\ UNCHANGED srv => SrvStep
  BY DEF CallsInv, SrvStep

\* A request that gets another state.
LEMMA AtFollows ==
  ASSUME CallsInv, NEW c \in calls, NEW x \in CallStates,
         c.wait = 0 \/ x = "sent",
         c.kind = "save" /\ x = "written" => c.at = "written" \/ srv'.answers[c.q].n = c.id,
         c.kind = "report" /\ x = "checked" => c.at = "checked" \/ srv.status = "in_progress",
         c.kind = "report" /\ x = "done" => c.at = "done" \/ (c.at = "checked" /\ srv'.status \in Closed)
  PROVE  LET d == [c EXCEPT !.at = x] IN Follows(c, d) /\ d.wait = c.wait
  <1> DEFINE d == [c EXCEPT !.at = x]
  <1>1. c \in CallSet
    BY DEF CallsInv, Fine
  <1>2. d \in CallSet
    BY <1>1 DEF CallSet
  <1>3. /\ d.id = c.id /\ d.q = c.q /\ d.v = c.v /\ d.flush = c.flush /\ d.clean = c.clean
        /\ d.lost = c.lost /\ d.kind = c.kind /\ d.wait = c.wait /\ d.at = x
    BY <1>1 DEF CallSet
  <1> HIDE DEF d
  <1>4. Follows(c, d)
    BY <1>2, <1>3 DEF Follows
  <1> QED
    BY <1>3, <1>4 DEF d

\* A request that stays as it is.
LEMMA SelfFollows ==
  ASSUME CallsInv, NEW c \in calls
  PROVE  Follows(c, c)
  BY DEF CallsInv, Fine, Follows

\* A request goes on, or is forgotten.
LEMMA BecomeStep ==
  ASSUME CallsInv, SrvStep, NEW c \in calls, NEW d, Follows(c, d), d.wait = c.wait, Become(c, d),
         UNCHANGED used
  PROVE  CallsInv'
  <1>1. calls' = (calls \ {c}) \cup {e \in {d} : Kept(e)}
    BY DEF Become
  <1>2. \A e \in calls' : \E b \in calls : Follows(b, e)
    BY <1>1, SelfFollows
  <1>3. ASSUME NEW e \in calls', e.wait # 0
        PROVE  \E s \in calls' : s.kind = "save" /\ s.id = e.wait
    <2>1. PICK r \in calls : r.wait = e.wait
      BY <1>1
    <2>2. PICK s \in calls : s.kind = "save" /\ s.id = e.wait
      BY <1>3, <2>1 DEF CallsInv, Waits
    <2>3. CASE s = c
      <3>1. d.kind = "save" /\ d.id = e.wait
        BY <2>2, <2>3 DEF Follows
      <3>2. Kept(d)
        BY <2>1, <3>1 DEF Kept
      <3> QED
        BY <1>1, <3>1, <3>2
    <2> QED
      BY <1>1, <2>2, <2>3
  <1>4. used' \in UsedSet /\ used.sent <= used'.sent
    BY ExamAssumption DEF CallsInv, UsedSet
  <1> QED
    BY <1>2, <1>3, <1>4, CallsStep DEF Waits

\* A request is answered that no other waits for.
LEMMA SettleStep ==
  ASSUME CallsInv, NEW c \in calls, c.kind # "save", Settle(c), UNCHANGED <<srv, used>>
  PROVE  CallsInv'
  <1>1. calls' = calls \ {c}
    BY DEF Settle
  <1>2. \A e \in calls' : \E b \in calls : Follows(b, e)
    BY <1>1, SelfFollows
  <1>3. Waits'
    BY <1>1 DEF CallsInv, Waits
  <1>4. used' \in UsedSet /\ used.sent <= used'.sent
    BY ExamAssumption DEF CallsInv, UsedSet
  <1> QED
    BY <1>2, <1>3, <1>4, CallsStep, SrvSame

\* Nothing happens to the requests.
LEMMA QuietStep ==
  ASSUME CallsInv, SrvStep, UNCHANGED <<calls, used>>
  PROVE  CallsInv'
  <1>1. \A e \in calls' : \E b \in calls : Follows(b, e)
    BY SelfFollows
  <1>2. Waits' /\ used' \in UsedSet /\ used.sent <= used'.sent
    BY ExamAssumption DEF CallsInv, UsedSet, Waits
  <1> QED
    BY <1>1, <1>2, CallsStep

-----------------------------------------------------------------------------
(* The server. *)

\* A session in progress is scored.
LEMMA ScoreStep ==
  ASSUME CallsInv, srv.status = "in_progress", NEW S \in SUBSET Closed, Score(S)
  PROVE  SrvStep /\ srv'.status \in Closed /\ srv'.scored = srv'.answers
  <1>1. srv \in SrvSet /\ "in_progress" \notin Closed /\ "none" \notin Closed
    BY DEF CallsInv, Closed
  <1>2. PICK x \in S : srv' = [srv EXCEPT !.status = x, !.scored = srv.answers]
    BY DEF Score
  <1>3. srv' \in SrvSet /\ srv'.status = x /\ srv'.scored = srv.answers /\ srv'.answers = srv.answers
    BY <1>1, <1>2 DEF SrvSet
  <1> QED
    BY <1>1, <1>3 DEF SrvStep

\* A submission scores a session in progress, and finds another as it is.
LEMMA SubmitStep ==
  ASSUME CallsInv, SubmitTxn
  PROVE  /\ SrvStep
         /\ srv.status = "in_progress" => srv'.status \in Closed /\ srv'.scored = srv'.answers
  <1>1. {"submitted", "grading_pending"} \in SUBSET Closed
    BY DEF Closed
  <1>2. CASE srv.status = "in_progress"
    BY <1>1, <1>2, ScoreStep DEF SubmitTxn
  <1>3. CASE srv.status # "in_progress"
    BY <1>3, SrvSame DEF SubmitTxn
  <1> QED
    BY <1>2, <1>3

\* Only reports wait.
LEMMA NoWait ==
  ASSUME CallsInv, NEW c \in calls, c.kind # "report" \/ c.at # "sent"
  PROVE  c.wait = 0
  BY DEF CallsInv, Fine

\* The server handles a request, or it fails.
LEMMA HandleStep ==
  ASSUME CallsInv, Handle
  PROVE  CallsInv' /\ SrvStep /\ UNCHANGED page
  <1> PICK c \in calls : \/ StartHandled(c) \/ StateRead(c) \/ SaveChecked(c) \/ SaveWritten(c)
                         \/ SubmitHandled(c) \/ ReportHandled(c) \/ ReportSubmits(c) \/ CallFails(c)
    BY DEF Handle
  <1>1. srv \in SrvSet /\ c \in CallSet /\ Fine(c)
    BY DEF CallsInv, Fine
  <1>2. CASE StartHandled(c)
    <2>1. c.wait = 0 /\ c.kind = "start" /\ UNCHANGED <<page, used>>
      BY <1>2, NoWait DEF StartHandled
    <2>2. PICK x \in {"entered", "open", "refused"} : Now(c, x)
      BY <1>2 DEF StartHandled
    <2>3. SrvStep
      <3>1. CASE UNCHANGED srv
        BY <3>1, SrvSame
      <3>2. CASE srv.status = "none" /\ srv' = [srv EXCEPT !.status = "in_progress"]
        <4>1. /\ srv' \in SrvSet /\ srv'.answers = srv.answers /\ srv.status \notin Closed
              /\ srv'.status # "none" /\ srv'.status \notin Closed
          BY <1>1, <3>2 DEF SrvSet, Closed
        <4> QED
          BY <4>1 DEF SrvStep
      <3> QED
        BY <1>2, <3>1, <3>2 DEF StartHandled
    <2>4. Follows(c, [c EXCEPT !.at = x]) /\ [c EXCEPT !.at = x].wait = c.wait
      BY <2>1, AtFollows DEF CallStates
    <2> QED
      BY <2>1, <2>2, <2>3, <2>4, BecomeStep DEF Now
  <1>3. CASE StateRead(c)
    <2>1. c.wait = 0 /\ c.kind \in {"resume", "result"} /\ UNCHANGED <<srv, page, used>> /\ SrvStep
      BY <1>3, NoWait, SrvSame DEF StateRead
    <2>2. CASE Now(c, "refused")
      <3>1. Follows(c, [c EXCEPT !.at = "refused"]) /\ [c EXCEPT !.at = "refused"].wait = c.wait
        BY <2>1, AtFollows DEF CallStates
      <3> QED
        BY <2>1, <2>2, <3>1, BecomeStep DEF Now
    <2>3. CASE srv.status # "none" /\ ~ Now(c, "refused")
      <3> DEFINE x == IF c.kind = "resume" THEN "entered" ELSE srv.status
                 d == [c EXCEPT !.at = x, !.snap = srv.answers]
      <3>1. Become(c, d)
        BY <1>3, <2>3 DEF StateRead
      <3>2. x \in CallStates /\ srv.answers \in Answers
        BY <1>1, <2>3 DEF SrvSet, CallStates
      <3>3. d \in CallSet
        BY <1>1, <3>2 DEF CallSet
      <3>4. /\ d.id = c.id /\ d.q = c.q /\ d.v = c.v /\ d.flush = c.flush /\ d.clean = c.clean
            /\ d.lost = c.lost /\ d.kind = c.kind /\ d.wait = c.wait
        BY <1>1 DEF CallSet
      <3> HIDE DEF d
      <3>5. Follows(c, d)
        BY <2>1, <3>3, <3>4 DEF Follows
      <3> QED
        BY <2>1, <3>1, <3>4, <3>5, BecomeStep
    <2> QED
      BY <1>3, <2>2, <2>3 DEF StateRead
  <1>4. CASE SaveChecked(c)
    <2>1. c.wait = 0 /\ c.kind = "save" /\ UNCHANGED <<srv, page, used>> /\ SrvStep
      BY <1>4, NoWait, SrvSame DEF SaveChecked
    <2>2. PICK x \in {"checked", "refused"} : Now(c, x)
      BY <1>4 DEF SaveChecked
    <2>3. Follows(c, [c EXCEPT !.at = x]) /\ [c EXCEPT !.at = x].wait = c.wait
      BY <2>1, AtFollows DEF CallStates
    <2> QED
      BY <2>1, <2>2, <2>3, BecomeStep DEF Now
  <1>5. CASE SaveWritten(c)
    <2>1. /\ c.wait = 0 /\ c.kind = "save" /\ Now(c, "written") /\ UNCHANGED <<page, used>>
          /\ srv' = [srv EXCEPT !.answers[c.q] = [n |-> c.id, v |-> c.v]]
      BY <1>5, NoWait DEF SaveWritten
    <2>2. c.q \in Questions /\ c.v \in Values(c.q) /\ c.id \in 0 .. MaxCalls /\ srv.answers \in Answers
      BY <1>1, <2>1, ExamAssumption DEF CallSet, Fine, SrvSet, CallsInv, UsedSet
    <2>3. /\ [srv.answers EXCEPT ![c.q] = [n |-> c.id, v |-> c.v]] \in Answers
          /\ \A q \in Questions :
               [srv.answers EXCEPT ![c.q] = [n |-> c.id, v |-> c.v]][q].n = IF q = c.q THEN c.id ELSE srv.answers[q].n
      BY <2>2, AnswerPut
    <2>4. srv' = [srv EXCEPT !.answers = [srv.answers EXCEPT ![c.q] = [n |-> c.id, v |-> c.v]]]
      BY <2>1
    <2>5. /\ srv' \in SrvSet /\ srv'.answers = [srv.answers EXCEPT ![c.q] = [n |-> c.id, v |-> c.v]]
          /\ srv'.status = srv.status /\ srv'.scored = srv.scored
      BY <1>1, <2>3, <2>4 DEF SrvSet
    <2>6. SrvStep /\ srv'.answers[c.q].n = c.id
      BY <2>1, <2>2, <2>3, <2>5 DEF SrvStep
    <2>7. Follows(c, [c EXCEPT !.at = "written"]) /\ [c EXCEPT !.at = "written"].wait = c.wait
      BY <2>1, <2>6, AtFollows DEF CallStates
    <2> QED
      BY <2>1, <2>6, <2>7, BecomeStep DEF Now
  <1>6. CASE SubmitHandled(c)
    <2>1. c.wait = 0 /\ c.kind = "submit" /\ Now(c, "done") /\ SrvStep /\ UNCHANGED <<page, used>>
      BY <1>6, NoWait, SubmitStep DEF SubmitHandled
    <2>2. Follows(c, [c EXCEPT !.at = "done"]) /\ [c EXCEPT !.at = "done"].wait = c.wait
      BY <2>1, AtFollows DEF CallStates
    <2> QED
      BY <2>1, <2>2, BecomeStep DEF Now
  <1>7. CASE ReportHandled(c)
    <2>1. c.wait = 0 /\ UNCHANGED <<srv, page, used>> /\ SrvStep
      BY <1>7, SrvSame DEF ReportHandled
    <2>2. PICK x \in {"warn", "logged", "checked"} : Now(c, x) /\ (x = "checked" => srv.status = "in_progress")
      BY <1>7 DEF ReportHandled, Accepting
    <2>3. Follows(c, [c EXCEPT !.at = x]) /\ [c EXCEPT !.at = x].wait = c.wait
      BY <2>1, <2>2, AtFollows DEF CallStates
    <2> QED
      BY <2>1, <2>2, <2>3, BecomeStep DEF Now
  <1>9. CASE ReportSubmits(c)
    <2>1. c.wait = 0 /\ c.at = "checked" /\ srv.status # "none" /\ UNCHANGED <<page, used>>
      BY <1>1, <1>9, NoWait DEF ReportSubmits, Fine
    <2>2. PICK x \in {"logged", "done"} :
            Now(c, x) /\ SrvStep /\ (x = "done" => srv'.status \in Closed)
      <3>1. CASE SubmitTxn /\ Now(c, "done")
        <4>1. srv.status # "in_progress" => srv' = srv /\ srv.status \in Closed
          BY <1>1, <2>1, <3>1 DEF SubmitTxn, SrvSet
        <4> QED
          BY <3>1, <4>1, SubmitStep
      <3>2. CASE Now(c, "logged") /\ UNCHANGED srv
        BY <3>2, SrvSame
      <3> QED
        BY <1>9, <3>1, <3>2 DEF ReportSubmits
    <2>3. Follows(c, [c EXCEPT !.at = x]) /\ [c EXCEPT !.at = x].wait = c.wait
      BY <2>1, <2>2, AtFollows DEF CallStates
    <2> QED
      BY <2>1, <2>2, <2>3, BecomeStep DEF Now
  <1>8. CASE CallFails(c)
    <2>1. c.wait = 0 /\ Now(c, "failed") /\ UNCHANGED <<srv, page, used>> /\ SrvStep
      BY <1>8, NoWait, SrvSame DEF CallFails
    <2>2. Follows(c, [c EXCEPT !.at = "failed"]) /\ [c EXCEPT !.at = "failed"].wait = c.wait
      BY <2>1, AtFollows DEF CallStates
    <2> QED
      BY <2>1, <2>2, BecomeStep DEF Now
  <1> QED
    BY <1>2, <1>3, <1>4, <1>5, <1>6, <1>7, <1>8, <1>9

\* The deadline passes, and the sweep scores what is overdue.
LEMMA ClockStep ==
  ASSUME CallsInv, Deadline \/ FinalizeExpired
  PROVE  CallsInv' /\ SrvStep /\ UNCHANGED page
  <1>1. UNCHANGED <<page, calls, used>>
    BY DEF Deadline, FinalizeExpired
  <1>2. SrvStep
    <2>1. CASE Deadline
      <3>1. /\ srv' \in SrvSet /\ srv'.answers = srv.answers
            /\ srv'.status = srv.status /\ srv'.scored = srv.scored
        BY <2>1 DEF Deadline, CallsInv, SrvSet
      <3> QED
        BY <3>1 DEF SrvStep
    <2>2. CASE FinalizeExpired
      <3>1. {"auto_submitted", "grading_pending"} \in SUBSET Closed
        BY DEF Closed
      <3> QED
        BY <2>2, <3>1, ScoreStep DEF FinalizeExpired
    <2> QED
      BY <2>1, <2>2
  <1> QED
    BY <1>1, <1>2, QuietStep

-----------------------------------------------------------------------------
(* The answers reach the page. *)

\* The draft of the question that is now on the screen.
LEMMA ResyncType ==
  ASSUME NEW p \in PageSet
  PROVE  Resync(p) \in PageSet /\ Resync(p).text = "shown"
  <1>1. IsText(p.q) => p.answers[p.q].v \in Drafts
    BY ValueTypes DEF PageSet, Answers
  <1>2. Resync(p) \in PageSet
    BY <1>1 DEF PageSet, Resync
  <1>3. Resync(p).text = "shown"
    BY DEF PageSet, Resync
  <1> QED
    BY <1>2, <1>3

\* An answer releases the reports that waited for it, and only those.
LEMMA ReleaseStep ==
  ASSUME CallsInv, NEW c \in calls, c.kind = "save", calls' = Released(c) \ {c}, UNCHANGED <<srv, used>>
  PROVE  CallsInv'
  <1> DEFINE After(e) == [e EXCEPT !.wait = IF @ = c.id THEN 0 ELSE @,
                                   !.lost = @ \/ (e.flush = c.id /\ c.at # "written")]
  <1>1. calls' = {After(e) : e \in calls} \ {c}
    BY DEF Released
  <1>2. ASSUME NEW e \in calls
        PROVE  /\ After(e) \in CallSet /\ After(e).id = e.id /\ After(e).kind = e.kind /\ After(e).at = e.at
               /\ After(e).q = e.q /\ After(e).v = e.v /\ After(e).flush = e.flush /\ After(e).clean = e.clean
               /\ After(e).wait = (IF e.wait = c.id THEN 0 ELSE e.wait)
               /\ After(e).lost = (e.lost \/ (e.flush = c.id /\ c.at # "written"))
    <2>1. e \in CallSet
      BY DEF CallsInv, Fine
    <2>2. (IF e.wait = c.id THEN 0 ELSE e.wait) \in Nat
      BY <2>1 DEF CallSet
    <2>3. (e.lost \/ (e.flush = c.id /\ c.at # "written")) \in BOOLEAN
      BY <2>1 DEF CallSet
    <2> QED
      BY <2>1, <2>2, <2>3 DEF CallSet
  <1> HIDE DEF After
  <1>3. ASSUME NEW e \in calls PROVE Follows(e, After(e))
    <2>1. Fine(e)
      BY DEF CallsInv
    <2>2. After(e).wait # 0 => After(e).wait = e.wait /\ After(e).at = "sent"
      BY <1>2, <2>1 DEF Fine
    <2>3. e.wait # 0 /\ After(e).wait = 0 => e.wait = c.id /\ e.flush = c.id
      BY <1>2, <2>1 DEF Fine
    <2>4. e.wait # 0 /\ After(e).wait = 0 =>
            After(e).lost \/ \E s \in calls : s.kind = "save" /\ s.id = e.wait /\ s.at = "written"
      BY <1>2, <2>3
    <2> QED
      BY <1>2, <2>2, <2>4 DEF Follows
  <1>4. ASSUME NEW d \in calls', d.wait # 0
        PROVE  \E s \in calls' : s.kind = "save" /\ s.id = d.wait
    <2>1. PICK e \in calls : d = After(e)
      BY <1>1
    <2>2. e.wait # 0 /\ d.wait = e.wait /\ e.wait # c.id
      BY <1>2, <1>4, <2>1
    <2>3. PICK s \in calls : s.kind = "save" /\ s.id = e.wait
      BY <2>2 DEF CallsInv, Waits
    <2>4. After(s).kind = "save" /\ After(s).id = d.wait /\ After(s) # c
      BY <1>2, <2>2, <2>3
    <2> QED
      BY <1>1, <2>3, <2>4
  <1>5. used' \in UsedSet /\ used.sent <= used'.sent
    BY ExamAssumption DEF CallsInv, UsedSet
  <1> QED
    BY <1>1, <1>3, <1>4, <1>5, CallsStep, SrvSame DEF Waits

\* An answer, or a failure, reaches the page.
LEMMA ArriveStep ==
  ASSUME IInv, Arrive
  PROVE  IInv' /\ SrvStep
  <1> PICK c \in calls : \/ StartAnswered(c) \/ SaveAnswered(c) \/ SubmitAnswered(c)
                         \/ ReportAnswered(c) \/ ResultAnswered(c)
    BY DEF Arrive
  <1>1. CallsInv /\ page \in PageSet /\ (page.text = "typing" => IsText(page.q)) /\ c \in CallSet /\ Fine(c)
    BY DEF IInv, PageInv, CallsInv, Fine
  <1>2. UNCHANGED <<srv, used>> /\ SrvStep
    BY <1>1, SrvSame DEF StartAnswered, SaveAnswered, SubmitAnswered, ReportAnswered, ResultAnswered
  <1>3. CASE StartAnswered(c)
    <2>1. CASE Settle(c) /\ EnterSession(c.snap)
      <3>1. CallsInv'
        BY <1>1, <1>2, <1>3, <2>1, SettleStep DEF StartAnswered
      <3>2. [page EXCEPT !.phase = "in_progress", !.answers = c.snap] \in PageSet
        BY <1>1 DEF PageSet, CallSet
      <3> QED
        BY <1>2, <2>1, <3>1, <3>2, ResyncType DEF EnterSession, IInv, PageInv
    <2>2. CASE UNCHANGED page /\ Become(c, [c EXCEPT !.kind = "resume", !.at = "sent"])
      <3> DEFINE d == [c EXCEPT !.kind = "resume", !.at = "sent"]
      <3>1. d \in CallSet
        BY <1>1 DEF CallSet, CallStates
      <3>2. /\ d.id = c.id /\ d.q = c.q /\ d.v = c.v /\ d.flush = c.flush /\ d.clean = c.clean
            /\ d.lost = c.lost /\ d.kind = "resume" /\ d.wait = c.wait /\ d.at = "sent"
        BY <1>1 DEF CallSet
      <3> HIDE DEF d
      <3>3. c.wait = 0 /\ c.kind \in {"start", "resume"}
        BY <1>1, <1>3, NoWait DEF StartAnswered
      <3>4. Follows(c, d)
        BY <3>1, <3>2, <3>3 DEF Follows
      <3>5. CallsInv'
        BY <1>1, <1>2, <2>2, <3>2, <3>4, BecomeStep DEF d
      <3> QED
        BY <1>2, <2>2, <3>5 DEF IInv, PageInv
    <2>3. CASE Settle(c) /\ page' = StartError(c)
      <3>1. CallsInv'
        BY <1>1, <1>2, <1>3, <2>3, SettleStep DEF StartAnswered
      <3>2. page' \in PageSet /\ page'.text = page.text /\ page'.q = page.q
        BY <1>1, <2>3 DEF PageSet, StartError
      <3> QED
        BY <1>1, <1>2, <3>1, <3>2 DEF IInv, PageInv
    <2> QED
      BY <1>3, <2>1, <2>2, <2>3 DEF StartAnswered
  <1>4. CASE SaveAnswered(c)
    <2>1. CallsInv'
      BY <1>1, <1>2, <1>4, ReleaseStep DEF SaveAnswered
    <2>2. /\ c.q \in Questions /\ c.v \in Values(c.q) /\ c.id \in 0 .. MaxCalls
      BY <1>1, <1>4, ExamAssumption DEF SaveAnswered, CallSet, Fine, CallsInv, UsedSet
    <2>3. [page.answers EXCEPT ![c.q] = [n |-> c.id, v |-> c.v]] \in Answers
      BY <1>1, <2>2, AnswerPut DEF PageSet
    <2>4. \/ page' = page \/ page' = [page EXCEPT !.phase = "expired"] \/ page' = [page EXCEPT !.save = "error"]
          \/ page' = [page EXCEPT !.save = "saved",
                                  !.answers = [page.answers EXCEPT ![c.q] = [n |-> c.id, v |-> c.v]]]
      BY <1>4 DEF SaveAnswered
    <2>5. page' \in PageSet /\ page'.text = page.text /\ page'.q = page.q
      BY <1>1, <2>3, <2>4 DEF PageSet
    <2> QED
      BY <1>1, <1>2, <2>1, <2>5 DEF IInv, PageInv
  <1>5. CASE SubmitAnswered(c) \/ ReportAnswered(c) \/ ResultAnswered(c)
    <2>1. c.kind # "save" /\ Settle(c)
      BY <1>5 DEF SubmitAnswered, ReportAnswered, ResultAnswered
    <2>2. CallsInv'
      BY <1>1, <1>2, <2>1, SettleStep
    <2>3. \/ page' = page \/ page' = [page EXCEPT !.warning = TRUE] \/ page' = [page EXCEPT !.submitError = TRUE]
          \/ \E x \in {"result", "not_found", "pending", "score_unavailable", "score"} :
               page' = [page EXCEPT !.phase = x]
      BY <1>5 DEF SubmitAnswered, ReportAnswered, ResultAnswered
    <2>4. page' \in PageSet /\ page'.text = page.text /\ page'.q = page.q
      BY <1>1, <2>3 DEF PageSet
    <2> QED
      BY <1>1, <1>2, <2>2, <2>4 DEF IInv, PageInv
  <1> QED
    BY <1>3, <1>4, <1>5

-----------------------------------------------------------------------------
(* The candidate. *)

\* Requests that are sent.
LEMMA SendStep ==
  ASSUME CallsInv, NEW new, calls' = calls \cup new, \A d \in new : Fresh(d),
         \A d \in new : d.wait # 0 => \E s \in new : s.kind = "save" /\ s.id = d.wait,
         used' \in UsedSet, used.sent <= used'.sent, UNCHANGED srv
  PROVE  CallsInv'
  <1>1. \A d \in calls' : Fresh(d) \/ \E c \in calls : Follows(c, d)
    BY SelfFollows
  <1>2. Waits'
    BY DEF CallsInv, Waits
  <1> QED
    BY <1>1, <1>2, CallsStep, SrvSame

\* One request of its own.
LEMMA SendOne ==
  ASSUME CallsInv, NEW d \in CallSet, d.id = used.sent + 1, d.at = "sent", d.wait = 0, d.flush = 0,
         d.kind = "save" => d.v \in Values(d.q),
         CanSend(1), Send({d}), UNCHANGED srv
  PROVE  CallsInv'
  <1>1. used \in UsedSet /\ used.sent \in Nat /\ used.sent + 1 <= MaxCalls /\ MaxCalls \in Nat
    BY ExamAssumption DEF CallsInv, UsedSet, CanSend
  <1>2. Cardinality({d}) = 1
    BY FS_Singleton
  <1>3. calls' = calls \cup {d} /\ used' = [used EXCEPT !.sent = @ + 1]
    BY <1>2 DEF Send
  <1>4. used' \in UsedSet /\ used'.sent = used.sent + 1
    BY <1>1, <1>3 DEF UsedSet
  <1>5. \A s \in calls' : s.kind = "save" => s.id \in Nat /\ s.id # 0
    BY <1>1, <1>3 DEF CallsInv, Fine, CallSet
  <1>6. Fresh(d)
    BY <1>1, <1>4, <1>5 DEF Fresh
  <1> QED
    BY <1>1, <1>3, <1>4, <1>6, SendStep

\* A save of what the screen has.
LEMMA SaveType ==
  ASSUME used \in UsedSet, NEW q \in Questions, NEW w \in Values(q)
  PROVE  LET d == SaveCall(q, w)
         IN  /\ d \in CallSet /\ d.kind = "save" /\ d.id = used.sent + 1 /\ d.at = "sent"
             /\ d.wait = 0 /\ d.flush = 0 /\ d.q = q /\ d.v = w
  <1> DEFINE b == Call("save")
  <1>1. b \in CallSet /\ b.kind = "save" /\ b.id = used.sent + 1 /\ b.at = "sent" /\ b.wait = 0 /\ b.flush = 0
    BY CallType
  <1>2. w \in Drafts \cup SUBSET Options
    BY ValueTypes
  <1> HIDE DEF b
  <1>3. [b EXCEPT !.q = q, !.v = w] \in CallSet
    BY <1>1, <1>2 DEF CallSet
  <1>4. LET d == [b EXCEPT !.q = q, !.v = w]
        IN  /\ d.kind = "save" /\ d.id = used.sent + 1 /\ d.at = "sent"
            /\ d.wait = 0 /\ d.flush = 0 /\ d.q = q /\ d.v = w
    BY <1>1 DEF CallSet
  <1> QED
    BY <1>3, <1>4 DEF SaveCall, b

\* A signal while the text on the screen is not saved: the flush, and the report that waits for it.
LEMMA FlushStep ==
  ASSUME CallsInv, page \in PageSet, Unsaved, Send(SignalCalls), CanSend(Cardinality(SignalCalls)),
         UNCHANGED srv
  PROVE  CallsInv'
  <1> DEFINE s == SaveCall(page.q, page.draft)
             b == Call("report")
             r == [b EXCEPT !.id = s.id + 1, !.q = page.q, !.wait = Awaited(s.id),
                            !.flush = s.id, !.clean = Saves(page.q) = {}]
             i == used.sent + 1
  <1>1. used \in UsedSet /\ used.sent \in Nat /\ MaxCalls \in Nat /\ i \in Nat
    BY ExamAssumption DEF CallsInv, UsedSet
  <1>2. page.q \in Questions /\ page.draft \in Values(page.q)
    BY ValueTypes DEF PageSet, Unsaved
  <1>3. /\ s \in CallSet /\ s.kind = "save" /\ s.id = i /\ s.at = "sent"
        /\ s.wait = 0 /\ s.flush = 0 /\ s.q = page.q /\ s.v = page.draft
    BY <1>1, <1>2, SaveType
  <1>4. b \in CallSet /\ b.kind = "report" /\ b.at = "sent"
    BY <1>1, CallType
  <1>5. SignalCalls = {s, r}
    BY DEF SignalCalls
  <1> HIDE DEF s, b
  <1>6. r = [b EXCEPT !.id = i + 1, !.q = page.q, !.wait = i, !.flush = i, !.clean = Saves(page.q) = {}]
    BY <1>3 DEF Awaited
  <1> HIDE DEF r
  <1>7. /\ r \in CallSet /\ r.kind = "report" /\ r.at = "sent" /\ r.id = i + 1 /\ r.q = page.q
        /\ r.wait = i /\ r.flush = i
        /\ r.clean = (Saves(page.q) = {})
    <2> DEFINE f == Saves(page.q) = {}
    <2>1. f \in BOOLEAN
      OBVIOUS
    <2>2. r = [b EXCEPT !.id = i + 1, !.q = page.q, !.wait = i, !.flush = i, !.clean = f]
      BY <1>6
    <2> HIDE DEF f
    <2>3. i + 1 \in Nat
      BY <1>1
    <2> HIDE DEF i
    <2>4. r \in CallSet
      BY <1>1, <1>2, <1>4, <2>1, <2>2, <2>3 DEF CallSet
    <2>5. /\ r.kind = "report" /\ r.at = "sent" /\ r.id = i + 1 /\ r.q = page.q
          /\ r.wait = i /\ r.flush = i /\ r.clean = f
      BY <1>4, <2>2 DEF CallSet
    <2> QED
      BY <2>4, <2>5 DEF f
  <1>9. Cardinality({s, r}) = 2
    <2>1. IsFiniteSet({s}) /\ Cardinality({s}) = 1
      BY FS_Singleton
    <2>2. r \notin {s} /\ {s} \cup {r} = {s, r}
      BY <1>3, <1>7
    <2> QED
      BY <2>1, <2>2, FS_AddElement
  <1>10. calls' = calls \cup {s, r} /\ used' = [used EXCEPT !.sent = @ + 2] /\ used.sent + 2 <= MaxCalls
    BY <1>5, <1>9 DEF Send, CanSend
  <1>11. used' \in UsedSet /\ used'.sent = used.sent + 2
    BY <1>1, <1>10 DEF UsedSet
  <1>12. Fresh(s)
    BY <1>1, <1>2, <1>3, <1>11 DEF Fresh
  <1>13. Fresh(r)
    <2>1. ASSUME NEW e \in calls', e.kind = "save", r.clean
          PROVE  (e.q = r.q => e.id >= r.flush) /\ (e.id = r.flush => e.q = r.q)
      <3>1. CASE e \in calls
        <4>1. e.id \in Nat /\ e.id < i
          BY <1>1, <3>1 DEF CallsInv, Fine, CallSet
        <4>2. e.q # page.q
          BY <1>7, <2>1, <3>1 DEF Saves
        <4> QED
          BY <1>1, <1>7, <4>1, <4>2
      <3>2. CASE e \notin calls
        BY <1>1, <1>3, <1>7, <1>10, <2>1, <3>2
      <3> QED
        BY <3>1, <3>2
    <2> QED
      BY <1>1, <1>7, <1>11, <2>1 DEF Fresh
  <1>14. \A d \in {s, r} : d.wait # 0 => \E x \in {s, r} : x.kind = "save" /\ x.id = d.wait
    BY <1>3, <1>7
  <1>15. \A d \in {s, r} : Fresh(d)
    BY <1>12, <1>13
  <1>16. used.sent <= used'.sent
    BY <1>1, <1>11
  <1> DEFINE new == {s, r}
  <1>17. /\ calls' = calls \cup new /\ \A d \in new : Fresh(d)
         /\ \A d \in new : d.wait # 0 => \E x \in new : x.kind = "save" /\ x.id = d.wait
    BY <1>10, <1>14, <1>15
  <1> HIDE DEF new
  <1> QED
    BY <1>11, <1>16, <1>17, SendStep

\* The requests that outlive a page: a save that a report waits for is among them.
LEMMA UnmountRest ==
  ASSUME CallsInv, UNCHANGED srv, NEW S \in SUBSET calls,
         \A r \in S : r.wait # 0 => \A s \in calls : s.kind = "save" /\ s.id = r.wait => s \in S
  PROVE  /\ \A e \in Unmount(S) : \E c \in calls : Follows(c, e)
         /\ \A e \in Unmount(S) : e.wait # 0 => \E s \in Unmount(S) : s.kind = "save" /\ s.id = e.wait
  <1> DEFINE Gone(c) == [c EXCEPT !.live = FALSE]
             Stays(d) == \/ d.kind \in {"start", "save", "submit", "report"} /\ d.at \in {"sent", "checked"}
                         \/ \E r \in S : r.wait = d.id
  <1>1. Unmount(S) = {Gone(c) : c \in {d \in S : Stays(d)}}
    BY DEF Unmount
  <1>2. ASSUME NEW c \in S
        PROVE  /\ Gone(c) \in CallSet /\ Gone(c).id = c.id /\ Gone(c).kind = c.kind /\ Gone(c).at = c.at
               /\ Gone(c).q = c.q /\ Gone(c).v = c.v /\ Gone(c).flush = c.flush /\ Gone(c).clean = c.clean
               /\ Gone(c).wait = c.wait /\ Gone(c).lost = c.lost
    <2>1. c \in CallSet
      BY DEF CallsInv, Fine
    <2> QED
      BY <2>1 DEF CallSet
  <1> HIDE DEF Gone
  <1>3. ASSUME NEW c \in S PROVE Follows(c, Gone(c))
    BY <1>2, SelfFollows DEF Follows
  <1>4. ASSUME NEW e \in Unmount(S), e.wait # 0
        PROVE  \E s \in Unmount(S) : s.kind = "save" /\ s.id = e.wait
    <2>1. PICK c \in S : e = Gone(c)
      BY <1>1
    <2>2. c.wait = e.wait /\ c.wait # 0
      BY <1>2, <1>4, <2>1
    <2>3. PICK s \in calls : s.kind = "save" /\ s.id = c.wait
      BY <2>2 DEF CallsInv, Waits
    <2>4. s \in S /\ Stays(s)
      BY <2>2, <2>3
    <2>5. Gone(s) \in Unmount(S) /\ Gone(s).kind = "save" /\ Gone(s).id = e.wait
      BY <1>1, <1>2, <2>2, <2>3, <2>4
    <2> QED
      BY <2>5
  <1> QED
    BY <1>1, <1>3, <1>4

\* A page is opened: what is left of the requests, and the one it begins with.
LEMMA OpenStep ==
  ASSUME CallsInv, UNCHANGED srv, NEW rest, NEW kind \in {"start", "result"},
         \A e \in rest : \E c \in calls : Follows(c, e),
         \A e \in rest : e.wait # 0 => \E s \in rest : s.kind = "save" /\ s.id = e.wait,
         CanSend(1), used.mounts < MaxMounts, calls' = rest \cup {Call(kind)},
         used' = [sent |-> used.sent + 1, mounts |-> used.mounts + 1]
  PROVE  CallsInv'
  <1>1. /\ used \in UsedSet /\ used.sent \in Nat /\ used.mounts \in Nat /\ MaxCalls \in Nat /\ MaxMounts \in Nat
        /\ used.sent + 1 <= MaxCalls
    BY ExamAssumption DEF CallsInv, UsedSet, CanSend
  <1>2. used' \in UsedSet /\ used'.sent = used.sent + 1
    BY <1>1 DEF UsedSet
  <1>3. Fresh(Call(kind)) /\ Call(kind).wait = 0
    BY <1>1, <1>2, CallType DEF Fresh
  <1>4. Waits'
    BY <1>3 DEF Waits
  <1>5. used.sent <= used'.sent
    BY <1>1, <1>2
  <1> QED
    BY <1>2, <1>3, <1>4, <1>5, CallsStep, SrvSame

\* The candidate opens, reloads or leaves a page.
LEMMA VisitStep ==
  ASSUME IInv, Open \/ Reload \/ Leave \/ OpenResult
  PROVE  IInv' /\ SrvStep
  <1>1. CallsInv /\ UNCHANGED srv /\ SrvStep
    BY SrvSame DEF IInv, Open, Reload, Leave, OpenResult, Mount
  <1>2. PageInv'
    BY PageType DEF PageInv, Open, Reload, Leave, OpenResult, Mount
  <1>3. \A e \in calls : \E c \in calls : Follows(c, e)
    BY <1>1, SelfFollows
  <1>4. \A e \in calls : e.wait # 0 => \E s \in calls : s.kind = "save" /\ s.id = e.wait
    BY <1>1 DEF CallsInv, Waits
  <1>5. CASE Open \/ OpenResult
    <2>1. PICK kind \in {"start", "result"} : calls' = calls \cup {Call(kind)}
      BY <1>5 DEF Open, OpenResult, Mount
    <2>2. /\ CanSend(1) /\ used.mounts < MaxMounts
          /\ used' = [sent |-> used.sent + 1, mounts |-> used.mounts + 1]
      BY <1>5 DEF Open, OpenResult, Mount
    <2> QED
      BY <1>1, <1>2, <1>3, <1>4, <2>1, <2>2, OpenStep DEF IInv
  <1>6. CASE Reload
    <2> DEFINE S == {c \in calls : c.wait = 0}
    <2>1. /\ CanSend(1) /\ used.mounts < MaxMounts /\ calls' = Unmount(S) \cup {Call("start")}
          /\ used' = [sent |-> used.sent + 1, mounts |-> used.mounts + 1]
      BY <1>6 DEF Reload, Mount, Reloaded
    <2>2. /\ \A e \in Unmount(S) : \E c \in calls : Follows(c, e)
          /\ \A e \in Unmount(S) : e.wait # 0 => \E s \in Unmount(S) : s.kind = "save" /\ s.id = e.wait
      BY <1>1, UnmountRest
    <2> QED
      BY <1>1, <1>2, <2>1, <2>2, OpenStep DEF IInv
  <1>7. CASE Leave
    <2>1. calls' = Unmount(calls) /\ UNCHANGED used
      BY <1>7 DEF Leave
    <2>2. /\ \A e \in Unmount(calls) : \E c \in calls : Follows(c, e)
          /\ \A e \in Unmount(calls) : e.wait # 0 => \E s \in Unmount(calls) : s.kind = "save" /\ s.id = e.wait
      BY <1>1, UnmountRest
    <2>3. Waits' /\ used' \in UsedSet /\ used.sent <= used'.sent
      BY <1>1, <2>1, <2>2, ExamAssumption DEF Waits, CallsInv, UsedSet
    <2> QED
      BY <1>1, <1>2, <2>1, <2>2, <2>3, CallsStep DEF IInv
  <1> QED
    BY <1>5, <1>6, <1>7

\* The candidate works on the exam.
LEMMA WorkStep ==
  ASSUME IInv,
         \/ \E q \in Questions : \E t \in Values(q) : Types[q] = "short_text" /\ page.q = q /\ Type(t)
         \/ Blur \/ (\E o \in Options : Toggle(o))
         \/ (\E q \in Neighbours(page.q) : MoveTo(q))
         \/ Submit \/ Signal
  PROVE  IInv' /\ SrvStep
  <1>1. /\ CallsInv /\ page \in PageSet /\ (page.text = "typing" => IsText(page.q))
        /\ UNCHANGED srv /\ SrvStep /\ used \in UsedSet
    BY SrvSame DEF IInv, PageInv, CallsInv, Type, Blur, Toggle, MoveTo, Submit, Signal
  <1>2. ASSUME NEW q \in Questions, NEW t \in Values(q), Types[q] = "short_text", page.q = q, Type(t)
        PROVE  IInv'
    <2>1. UNCHANGED <<calls, used>> /\ page' = [page EXCEPT !.draft = t, !.text = "typing"] /\ IsText(q)
      BY <1>2 DEF Type, IsText
    <2>2. t \in Drafts
      BY <1>2, <2>1, ValueTypes
    <2>3. page' \in PageSet /\ page'.q = q
      BY <1>1, <1>2, <2>1, <2>2 DEF PageSet
    <2> QED
      BY <1>1, <2>1, <2>3, QuietStep DEF IInv, PageInv
  <1>3. CASE Blur
    <2> DEFINE p == [page EXCEPT !.text = IF @ = "typing" THEN "left" ELSE @]
    <2>1. /\ page' \in PageSet /\ page'.q = page.q /\ page'.text # "typing"
      <3>1. p \in PageSet /\ p.q = page.q /\ p.text # "typing"
        BY <1>1 DEF PageSet
      <3>2. page' = p \/ page' = [p EXCEPT !.save = "saving"]
        BY <1>3 DEF Blur
      <3> HIDE DEF p
      <3> QED
        BY <3>1, <3>2 DEF PageSet
    <2>2. CASE Unsaved
      <3> DEFINE d == SaveCall(page.q, page.draft)
      <3>1. CanSend(1) /\ Send({d})
        BY <1>3, <2>2 DEF Blur
      <3>2. page.q \in Questions /\ page.draft \in Values(page.q)
        BY <1>1, <2>2, ValueTypes DEF PageSet, Unsaved
      <3>3. /\ d \in CallSet /\ d.kind = "save" /\ d.id = used.sent + 1 /\ d.at = "sent"
            /\ d.wait = 0 /\ d.flush = 0 /\ d.q = page.q /\ d.v = page.draft
        BY <1>1, <3>2, SaveType
      <3> HIDE DEF d
      <3>4. CallsInv'
        BY <1>1, <3>1, <3>2, <3>3, SendOne
      <3> QED
        BY <1>1, <2>1, <3>4 DEF IInv, PageInv
    <2>3. CASE ~Unsaved
      <3>1. UNCHANGED <<calls, used>>
        BY <1>3, <2>3 DEF Blur
      <3> QED
        BY <1>1, <2>1, <3>1, QuietStep DEF IInv, PageInv
    <2> QED
      BY <2>2, <2>3
  <1>4. ASSUME NEW o \in Options, Toggle(o) PROVE IInv'
    <2>1. PICK w \in SUBSET Options : CanSend(1) /\ Send({SaveCall(page.q, w)})
      <3> DEFINE v == page.answers[page.q].v
                 w == IF Types[page.q] # "multiple" THEN {o} ELSE IF o \in v THEN v \ {o} ELSE v \cup {o}
      <3>1. v \in SUBSET Options
        BY <1>1, <1>4, ValueTypes DEF Toggle, PageSet, Answers
      <3>2. CanSend(1) /\ Send({SaveCall(page.q, w)})
        BY <1>4 DEF Toggle
      <3>3. w \in SUBSET Options
        <4> HIDE DEF v
        <4> QED
          BY <3>1
      <3> HIDE DEF w
      <3> QED
        BY <3>2, <3>3
    <2> DEFINE d == SaveCall(page.q, w)
    <2>2. page.q \in Questions /\ w \in Values(page.q)
      BY <1>1, <1>4, ValueTypes DEF PageSet, Toggle
    <2>3. /\ d \in CallSet /\ d.kind = "save" /\ d.id = used.sent + 1 /\ d.at = "sent"
          /\ d.wait = 0 /\ d.flush = 0 /\ d.q = page.q /\ d.v = w
      BY <1>1, <2>2, SaveType
    <2>4. Send({d})
      BY <2>1
    <2> HIDE DEF d
    <2>5. CallsInv'
      BY <1>1, <2>1, <2>2, <2>3, <2>4, SendOne
    <2>6. page' \in PageSet /\ page'.q = page.q /\ page'.text = page.text
      BY <1>1, <1>4 DEF Toggle, PageSet
    <2> QED
      BY <1>1, <2>5, <2>6 DEF IInv, PageInv
  <1>5. ASSUME NEW q \in Neighbours(page.q), MoveTo(q) PROVE IInv'
    <2>1. q \in Questions /\ page' = Resync([page EXCEPT !.q = q]) /\ UNCHANGED <<calls, used>>
      BY <1>5 DEF MoveTo, Neighbours
    <2>2. [page EXCEPT !.q = q] \in PageSet
      BY <1>1, <2>1 DEF PageSet
    <2> QED
      BY <1>1, <2>1, <2>2, ResyncType, QuietStep DEF IInv, PageInv
  <1>6. CASE Submit
    <2>1. CanSend(1) /\ Send({Call("submit")})
      BY <1>6 DEF Submit
    <2>2. CallsInv'
      BY <1>1, <2>1, CallType, SendOne
    <2>3. page' \in PageSet /\ page'.q = page.q /\ page'.text = page.text
      BY <1>1, <1>6 DEF Submit, PageSet
    <2> QED
      BY <1>1, <2>2, <2>3 DEF IInv, PageInv
  <1>7. CASE Signal
    <2>1. page' \in PageSet /\ page'.q = page.q /\ page'.text = page.text
      BY <1>1, <1>7 DEF Signal, PageSet
    <2>2. CASE Unsaved
      <3>1. CallsInv'
        BY <1>1, <1>7, <2>2, FlushStep DEF Signal
      <3> QED
        BY <1>1, <2>1, <3>1 DEF IInv, PageInv
    <2>3. CASE ~Unsaved
      <3>1. SignalCalls = {Call("report")} /\ Cardinality({Call("report")}) = 1
        BY <2>3, FS_Singleton DEF SignalCalls
      <3>2. CanSend(1) /\ Send({Call("report")})
        BY <1>7, <3>1 DEF Signal
      <3>3. CallsInv'
        BY <1>1, <3>2, CallType, SendOne
      <3> QED
        BY <1>1, <2>1, <3>3 DEF IInv, PageInv
    <2> QED
      BY <2>2, <2>3
  <1> QED
    BY <1>1, <1>2, <1>3, <1>4, <1>5, <1>6, <1>7

-----------------------------------------------------------------------------
(* The theorems. *)

\* Every step keeps the invariant, and what is scored.
LEMMA NextStep ==
  ASSUME IInv, [Next]_vars
  PROVE  IInv' /\ SrvStep
  <1>1. CASE UNCHANGED vars
    <2>1. CallsInv' /\ SrvStep
      BY <1>1, SrvSame, QuietStep DEF IInv, vars
    <2> QED
      BY <1>1, <2>1 DEF IInv, PageInv, vars
  <1>2. CASE Handle \/ Deadline \/ FinalizeExpired
    BY <1>2, HandleStep, ClockStep DEF IInv, PageInv
  <1>3. CASE Arrive
    BY <1>3, ArriveStep
  <1>4. CASE Candidate
    BY <1>4, VisitStep, WorkStep DEF Candidate
  <1> QED
    BY <1>1, <1>2, <1>3, <1>4 DEF Next

\* The strengthened invariant holds in every state.
THEOREM Invariance == Spec => []IInv
  <1>1. ASSUME Init PROVE IInv
    <2>1. srv \in SrvSet
      BY <1>1, NoAnswersType DEF Init, SrvSet
    <2>2. used \in UsedSet
      BY <1>1, ExamAssumption DEF Init, UsedSet
    <2>3. PageInv
      BY <1>1, PageType DEF Init, PageInv
    <2> QED
      BY <1>1, <2>1, <2>2, <2>3 DEF Init, IInv, CallsInv, Waits
  <1> QED
    BY <1>1, NextStep, PTL DEF Spec

\* The records keep their forms, whatever is answered late or never.
THEOREM TypeCorrect == Spec => []TypeOK
  <1>1. ASSUME IInv PROVE TypeOK
    <2>1. /\ srv \in SrvSet /\ page \in PageSet /\ used \in UsedSet /\ Waits
          /\ \A c \in calls : c \in CallSet
      BY <1>1 DEF IInv, CallsInv, PageInv, Fine
    <2>2. srv \in [status : {"none", "in_progress"} \cup Closed, late : BOOLEAN, answers : AnswerSet, scored : AnswerSet]
      BY <2>1 DEF SrvSet, Answers
    <2>3. \A q \in Questions : srv.answers[q].v \in Values(q) /\ page.answers[q].v \in Values(q)
      BY <2>1 DEF SrvSet, PageSet, Answers
    <2>4. \A c \in calls : c.at \in CallStates
      BY <2>1 DEF CallSet
    <2>5. used.sent \in 0 .. MaxCalls /\ used.mounts \in 0 .. MaxMounts
      BY <2>1 DEF UsedSet
    <2>6. /\ page.q \in Questions /\ page.view \in {"list", "session", "byid"}
          /\ page.save \in {"idle", "saving", "saved", "error"}
      BY <2>1 DEF PageSet
    <2> QED
      BY <1>1, <2>1, <2>2, <2>3, <2>4, <2>5, <2>6 DEF IInv, PageInv, TypeOK, Waits
  <1> QED
    BY <1>1, Invariance, PTL

\* When a signal has closed the session, the text that was on the screen is scored, or a later one,
\* unless its save failed or an earlier one was still under way.
THEOREM FlushTheorem == Spec => []ForcedSubmitKeepsDraft
  <1>1. IInv /\ TypeOK => ForcedSubmitKeepsDraft
    BY DEF IInv, CallsInv, Promised, ForcedSubmitKeepsDraft
  <1> QED
    BY <1>1, Invariance, TypeCorrect, PTL

\* The session is scored by one of the three that may close it, once.
THEOREM ScoredTheorem == Spec => ScoredOnce
  <1>1. IInv /\ [Next]_vars => [srv.status \in Closed => srv'.status = srv.status /\ srv'.scored = srv.scored]_vars
    BY NextStep DEF SrvStep
  <1> QED
    BY <1>1, Invariance, PTL DEF Spec, ScoredOnce
=============================================================================
