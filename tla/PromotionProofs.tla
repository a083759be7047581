--------------------------- MODULE PromotionProofs ---------------------------
(***************************************************************************)
(* What the guarded update of the review row gives, for any number of      *)
(* users, requests and versions: a request that is about to decide or to   *)
(* mark saw the status that its move starts from (Sound), and the update   *)
(* is made only if the row is still the one it saw.  Hence one decision,   *)
(* by another than the requester, and a review that is applied only after  *)
(* its version was copied; and the row implements ReviewLifecycle.         *)
(***************************************************************************)
EXTENDS PromotionPage, TLAPS

Applying == {"rehearsed", "sourced", "clear", "promoted", "outcome", "marking"}

Call == [user : Users \cup {NoUser}, kind : Kinds, at : Stages,
         seen : [status : Statuses, version : Nat], copy : Versions, reply : Replies]

\* What a request has read and done so far.
Sound(c) ==
  /\ c.at # "unsent" => c.user \in Users
  /\ c.at = "read" /\ c.kind # "apply" => c.seen.status = "pending_review"
  /\ c.at = "read" /\ c.kind = "approve" => c.user # Requester
  /\ c.at = "marking" => c.seen.status = "approved"
  /\ c.at \in Applying => c.kind = "apply"
  /\ c.at = "promoted" => c.copy \in target.has
  /\ c.at \in {"outcome", "marking", "answered"} /\ c.kind = "apply" /\ c.reply = "ok"
       => c.copy \in target.has

\* ReviewIsEarned, with a witness that no step changes any more.
OneDecision ==
  /\ \A i, j \in Calls : Decided(i) /\ Decided(j) => i = j
  /\ \A i \in Calls : Decided(i) => review.status # "pending_review"

OthersApprove == review.status \in {"approved", "applied"} => review.by \in Users \ {Requester}

AppliedWasCopied ==
  review.status = "applied" =>
    \E i \in Calls : /\ calls[i].at = "answered" /\ calls[i].kind = "apply" /\ calls[i].reply = "ok"
                     /\ calls[i].copy \in target.has

IInv ==
  /\ PromotionTypeOK
  /\ \A i \in Calls : Sound(calls[i])
  /\ OneDecision /\ OthersApprove /\ AppliedWasCopied

------------------------------------------------------------------------------
(* How the forms of an update change the requests.                         *)

\* Only the stage changes.
LEMMA StepIs ==
  ASSUME calls \in [Calls -> Call], NEW i \in Calls, NEW stage \in Stages, Step(i, stage)
  PROVE  /\ calls' \in [Calls -> Call]
         /\ calls'[i] = [calls[i] EXCEPT !.at = stage]
         /\ \A j \in Calls \ {i} : calls'[j] = calls[j]
  BY DEF Step, Call

\* What was seen is forgotten with the answer.
LEMMA AnswerIs ==
  ASSUME calls \in [Calls -> Call], NEW i \in Calls, NEW r \in Replies, Answer(i, r)
  PROVE  /\ calls' \in [Calls -> Call]
         /\ calls'[i] = [calls[i] EXCEPT !.at = "answered", !.seen = NoRow, !.reply = r]
         /\ \A j \in Calls \ {i} : calls'[j] = calls[j]
<1> DEFINE c == [calls[i] EXCEPT !.at = "answered", !.seen = NoRow, !.reply = r]
<1>1. NoRow \in [status : Statuses, version : Nat] BY DEF NoRow, Statuses
<1>2. c \in Call BY <1>1 DEF Call, Stages
<1>3. calls' = [calls EXCEPT ![i] = c] BY DEF Answer
<1> QED BY <1>2, <1>3

\* The row is remembered as it is.
LEMMA RememberIs ==
  ASSUME PromotionTypeOK, NEW i \in Calls, NEW stage \in Stages, Remember(i, stage)
  PROVE  /\ calls' \in [Calls -> Call]
         /\ calls'[i] = [calls[i] EXCEPT !.at = stage, !.seen = Row]
         /\ \A j \in Calls \ {i} : calls'[j] = calls[j]
<1>1. calls \in [Calls -> Call] BY DEF PromotionTypeOK, Call
<1>2. Row \in [status : Statuses, version : Nat] BY DEF PromotionTypeOK, Row
<1> DEFINE c == [calls[i] EXCEPT !.at = stage, !.seen = Row]
<1>3. c \in Call BY <1>1, <1>2 DEF Call
<1>4. calls' = [calls EXCEPT ![i] = c] BY DEF Remember
<1> QED BY <1>1, <1>3, <1>4

\* A promotion that is over goes to its outcome.
LEMMA EndsIs ==
  ASSUME calls \in [Calls -> Call], NEW i \in Calls, NEW r \in Replies, Ends(i, r)
  PROVE  /\ calls' \in [Calls -> Call]
         /\ calls'[i] = [calls[i] EXCEPT !.at = "outcome", !.reply = r]
         /\ \A j \in Calls \ {i} : calls'[j] = calls[j]
<1> DEFINE c == [calls[i] EXCEPT !.at = "outcome", !.reply = r]
<1>1. c \in Call BY DEF Call, Stages
<1>2. calls' = [calls EXCEPT ![i] = c] BY DEF Ends
<1> QED BY <1>1, <1>2

\* The type invariant speaks of such requests.
LEMMA TypeHasCalls == PromotionTypeOK => calls \in [Calls -> Call]
  BY DEF PromotionTypeOK, Call

------------------------------------------------------------------------------
(* A step of one request that is not answered, decides nothing and leaves  *)
(* the review and the target alone keeps the invariant if it keeps its     *)
(* own request sound.                                                      *)

\* Such a step keeps the invariant.
LEMMA OneRequestMoves ==
  ASSUME IInv, NEW i \in Calls,
         calls' \in [Calls -> Call], \A j \in Calls \ {i} : calls'[j] = calls[j],
         UNCHANGED <<review, run, source, target>>,
         calls[i].at # "answered", Sound(calls[i])', ~Decided(i)'
  PROVE  IInv'
<1>1. PromotionTypeOK' BY DEF IInv, PromotionTypeOK, Call
<1>2. \A j \in Calls : Sound(calls[j])' BY DEF IInv, Sound
<1>3. \A j \in Calls : Decided(j)' => Decided(j) BY DEF Decided
<1>4. OneDecision' BY <1>3 DEF IInv, OneDecision
<1>5. OthersApprove' BY DEF IInv, OthersApprove
<1>6. AppliedWasCopied' BY DEF IInv, AppliedWasCopied
<1> QED BY <1>1, <1>2, <1>4, <1>5, <1>6 DEF IInv

------------------------------------------------------------------------------
(* The requests, action by action.                                         *)

\* A request is sent.
LEMMA SendKeeps ==
  ASSUME IInv, PromotionAssumption, NEW i \in Calls, NEW u \in Users, NEW k \in Kinds, Send(i, u, k),
         UNCHANGED <<review, run, source, target>>
  PROVE  IInv'
<1> DEFINE c == [Unsent EXCEPT !.user = u, !.kind = k, !.at = "sent"]
<1>1. calls \in [Calls -> Call] BY TypeHasCalls DEF IInv
<1>2. c \in Call BY DEF Call, Unsent, NoRow, Stages, Statuses, Replies, Unrehearsed, PromotionAssumption
<1>3. calls' = [calls EXCEPT ![i] = c] /\ calls[i].at = "unsent" BY DEF Send
<1>4. /\ calls' \in [Calls -> Call] /\ calls'[i] = c
      /\ \A j \in Calls \ {i} : calls'[j] = calls[j]
  BY <1>1, <1>2, <1>3
<1>5. c.at = "sent" /\ c.user = u BY DEF Unsent
<1>6. Sound(calls[i])' /\ ~Decided(i)' BY <1>4, <1>5 DEF Sound, Applying, Decided
<1> QED BY <1>3, <1>4, <1>6, OneRequestMoves

\* A request passes the gates and remembers the row, or is refused.
LEMMA ReadReviewKeeps ==
  ASSUME IInv, NEW i \in Calls, ReadReview(i)
  PROVE  IInv'
<1>1. calls \in [Calls -> Call] /\ PromotionTypeOK BY TypeHasCalls DEF IInv
<1>2. calls[i].at = "sent" /\ UNCHANGED <<review, run, source, target>> BY DEF ReadReview
<1>3. CASE Gate(calls[i]) = "ok"
  <2>1. Remember(i, "read") BY <1>3 DEF ReadReview
  <2>2. /\ calls' \in [Calls -> Call] /\ calls'[i] = [calls[i] EXCEPT !.at = "read", !.seen = Row]
        /\ \A j \in Calls \ {i} : calls'[j] = calls[j]
    BY <1>1, <2>1, RememberIs DEF Stages
  <2>3. /\ calls'[i].at = "read" /\ calls'[i].seen.status = review.status
        /\ calls'[i].kind = calls[i].kind /\ calls'[i].user = calls[i].user
    BY <1>1, <2>2 DEF Call, Row
  <2>4. /\ calls[i].kind # "apply" => review.status = "pending_review"
        /\ calls[i].kind = "approve" => calls[i].user # Requester
    BY <1>3 DEF Gate
  <2>5. calls[i].user \in Users BY <1>2 DEF IInv, Sound
  <2>6. Sound(calls[i])' /\ ~Decided(i)' BY <2>3, <2>4, <2>5 DEF Sound, Applying, Decided
  <2> QED BY <1>2, <2>2, <2>6, OneRequestMoves
<1>4. CASE Gate(calls[i]) # "ok"
  <2>1. Gate(calls[i]) \in {"self", "invalid"} BY <1>4 DEF Gate
  <2>2. Answer(i, Gate(calls[i])) BY <1>4 DEF ReadReview
  <2>3. /\ calls' \in [Calls -> Call]
        /\ calls'[i] = [calls[i] EXCEPT !.at = "answered", !.seen = NoRow, !.reply = Gate(calls[i])]
        /\ \A j \in Calls \ {i} : calls'[j] = calls[j]
    BY <1>1, <2>1, <2>2, AnswerIs DEF Replies
  <2>4. /\ calls'[i].at = "answered" /\ calls'[i].reply # "ok" /\ calls'[i].user = calls[i].user
    BY <1>1, <2>1, <2>3 DEF Call
  <2>5. calls[i].user \in Users BY <1>2 DEF IInv, Sound
  <2>6. Sound(calls[i])' /\ ~Decided(i)' BY <2>4, <2>5 DEF Sound, Applying, Decided
  <2> QED BY <1>2, <2>3, <2>6, OneRequestMoves
<1> QED BY <1>3, <1>4

\* A request that is answered without deciding, by a node that stops too.
LEMMA AnswerKeeps ==
  ASSUME IInv, NEW i \in Calls, NEW r \in Replies, Answer(i, r), calls[i].at \notin {"unsent", "answered"},
         r = "ok" => calls[i].kind = "apply" /\ calls[i].copy \in target.has,
         UNCHANGED <<review, run, source, target>>
  PROVE  IInv'
<1>1. calls \in [Calls -> Call] BY TypeHasCalls DEF IInv
<1>2. /\ calls' \in [Calls -> Call]
      /\ calls'[i] = [calls[i] EXCEPT !.at = "answered", !.seen = NoRow, !.reply = r]
      /\ \A j \in Calls \ {i} : calls'[j] = calls[j]
  BY <1>1, AnswerIs
<1>3. /\ calls'[i].at = "answered" /\ calls'[i].reply = r /\ calls'[i].user = calls[i].user
      /\ calls'[i].kind = calls[i].kind /\ calls'[i].copy = calls[i].copy
  BY <1>1, <1>2 DEF Call
<1>4. calls[i].user \in Users BY DEF IInv, Sound
<1>5. Sound(calls[i])' BY <1>3, <1>4 DEF Sound, Applying
<1>6. ~Decided(i)' BY <1>3 DEF Decided
<1> QED BY <1>2, <1>5, <1>6, OneRequestMoves

\* A request that goes on to a stage in which nothing is promised yet.
LEMMA StepKeeps ==
  ASSUME IInv, NEW i \in Calls, NEW stage \in {"rehearsed", "clear"}, Step(i, stage),
         calls[i].at \notin {"unsent", "answered"}, calls[i].kind = "apply",
         UNCHANGED <<review, run, source, target>>
  PROVE  IInv'
<1>1. calls \in [Calls -> Call] BY TypeHasCalls DEF IInv
<1>2. /\ calls' \in [Calls -> Call] /\ calls'[i] = [calls[i] EXCEPT !.at = stage]
      /\ \A j \in Calls \ {i} : calls'[j] = calls[j]
  BY <1>1, StepIs DEF Stages
<1>3. /\ calls'[i].at = stage /\ calls'[i].user = calls[i].user /\ calls'[i].kind = calls[i].kind
  BY <1>1, <1>2 DEF Call
<1>4. calls[i].user \in Users BY DEF IInv, Sound
<1>5. Sound(calls[i])' /\ ~Decided(i)' BY <1>3, <1>4 DEF Sound, Applying, Decided
<1> QED BY <1>2, <1>5, OneRequestMoves

\* A promotion that ends with an outcome.
LEMMA EndsKeeps ==
  ASSUME IInv, NEW i \in Calls, NEW r \in Replies, Ends(i, r),
         calls[i].at \notin {"unsent", "answered"}, calls[i].kind = "apply",
         r = "ok" => calls[i].copy \in target.has,
         UNCHANGED <<review, run, source, target>>
  PROVE  IInv'
<1>1. calls \in [Calls -> Call] BY TypeHasCalls DEF IInv
<1>2. /\ calls' \in [Calls -> Call]
      /\ calls'[i] = [calls[i] EXCEPT !.at = "outcome", !.reply = r]
      /\ \A j \in Calls \ {i} : calls'[j] = calls[j]
  BY <1>1, EndsIs
<1>3. /\ calls'[i].at = "outcome" /\ calls'[i].reply = r /\ calls'[i].user = calls[i].user
      /\ calls'[i].kind = calls[i].kind /\ calls'[i].copy = calls[i].copy
  BY <1>1, <1>2 DEF Call
<1>4. calls[i].user \in Users BY DEF IInv, Sound
<1>5. Sound(calls[i])' /\ ~Decided(i)' BY <1>3, <1>4 DEF Sound, Applying, Decided
<1> QED BY <1>2, <1>5, OneRequestMoves

\* The source is copied.
LEMMA ReadSourceKeeps ==
  ASSUME IInv, NEW i \in Calls, ReadSource(i)
  PROVE  IInv'
<1> DEFINE c == [calls[i] EXCEPT !.at = "sourced", !.copy = source]
<1>1. calls \in [Calls -> Call] /\ source \in Versions BY TypeHasCalls DEF IInv, PromotionTypeOK
<1>2. c \in Call BY <1>1 DEF Call, Stages
<1>3. /\ calls' = [calls EXCEPT ![i] = c] /\ calls[i].at = "rehearsed"
      /\ UNCHANGED <<review, run, source, target>>
  BY DEF ReadSource
<1>4. calls' \in [Calls -> Call] /\ calls'[i] = c /\ \A j \in Calls \ {i} : calls'[j] = calls[j]
  BY <1>1, <1>2, <1>3
<1>5. /\ calls'[i].at = "sourced" /\ calls'[i].user = calls[i].user /\ calls'[i].kind = calls[i].kind
  BY <1>1, <1>4 DEF Call
<1>6. calls[i].user \in Users /\ calls[i].kind = "apply" BY <1>3 DEF IInv, Sound, Applying
<1>7. Sound(calls[i])' /\ ~Decided(i)' BY <1>5, <1>6 DEF Sound, Applying, Decided
<1> QED BY <1>3, <1>4, <1>7, OneRequestMoves

\* The review is read again, to be marked.
LEMMA RememberToMarkKeeps ==
  ASSUME IInv, NEW i \in Calls, calls[i].at = "outcome", review.status = "approved",
         Remember(i, "marking"), UNCHANGED <<review, run, source, target>>
  PROVE  IInv'
<1>1. calls \in [Calls -> Call] /\ PromotionTypeOK BY TypeHasCalls DEF IInv
<1>2. /\ calls' \in [Calls -> Call] /\ calls'[i] = [calls[i] EXCEPT !.at = "marking", !.seen = Row]
      /\ \A j \in Calls \ {i} : calls'[j] = calls[j]
  BY <1>1, RememberIs DEF Stages
<1>3. /\ calls'[i].at = "marking" /\ calls'[i].seen.status = review.status
      /\ calls'[i].kind = calls[i].kind /\ calls'[i].user = calls[i].user
      /\ calls'[i].copy = calls[i].copy /\ calls'[i].reply = calls[i].reply
  BY <1>1, <1>2 DEF Call, Row
<1>4. /\ calls[i].user \in Users /\ calls[i].kind = "apply"
      /\ calls[i].reply = "ok" => calls[i].copy \in target.has
  BY DEF IInv, Sound, Applying
<1>5. Sound(calls[i])' /\ ~Decided(i)' BY <1>3, <1>4 DEF Sound, Applying, Decided
<1> QED BY <1>2, <1>5, OneRequestMoves

------------------------------------------------------------------------------
(* What writes the target or the review.                                   *)

\* The target gains a version, by whoever activates it.
LEMMA TargetGrows ==
  ASSUME IInv, NEW v \in Versions, target' = Activated(v), NEW i \in Calls,
         calls' \in [Calls -> Call], \A j \in Calls \ {i} : calls'[j] = calls[j],
         UNCHANGED <<review, run, source>>,
         calls'[i] = calls[i] \/ (calls[i].at # "answered" /\ Sound(calls[i])' /\ ~Decided(i)')
  PROVE  IInv'
<1>1. target' = [active |-> v, has |-> target.has \cup {v}] BY DEF Activated
<1>2. target \in [active : Versions, has : SUBSET Versions] BY DEF IInv, PromotionTypeOK
<1>3. target'.has = target.has \cup {v} /\ target'.active = v BY <1>1
<1>4. PromotionTypeOK'
  <2>1. target' \in [active : Versions, has : SUBSET Versions] BY <1>1, <1>2
  <2> QED BY <1>3, <2>1 DEF IInv, PromotionTypeOK, Call
<1>5. \A j \in Calls : Sound(calls[j])' BY <1>3 DEF IInv, Sound
<1>6. \A j \in Calls : Decided(j)' => Decided(j) BY DEF Decided
<1>7. OneDecision' BY <1>6 DEF IInv, OneDecision
<1>8. OthersApprove' BY DEF IInv, OthersApprove
<1>9. AppliedWasCopied' BY <1>3 DEF IInv, AppliedWasCopied
<1> QED BY <1>4, <1>5, <1>7, <1>8, <1>9 DEF IInv

\* The transaction in the target: the copy is there from now on, or its version was taken.
LEMMA CommitPromotionKeeps ==
  ASSUME IInv, NEW i \in Calls, CommitPromotion(i)
  PROVE  IInv'
<1>1. calls \in [Calls -> Call] BY TypeHasCalls DEF IInv
<1>2. /\ calls[i].at = "clear" /\ calls[i].kind = "apply" /\ calls[i].user \in Users
      /\ UNCHANGED <<review, run, source>>
  BY DEF CommitPromotion, IInv, Sound, Applying
<1>3. CASE calls[i].copy \in target.has
  <2>1. Ends(i, "taken") /\ UNCHANGED target BY <1>3 DEF CommitPromotion
  <2> QED BY <1>2, <2>1, EndsKeeps DEF Replies
<1>4. CASE calls[i].copy \notin target.has
  <2>1. Step(i, "promoted") /\ target' = Activated(calls[i].copy) BY <1>4 DEF CommitPromotion
  <2>2. calls[i].copy \in Versions BY <1>1 DEF Call
  <2>3. /\ calls' \in [Calls -> Call] /\ calls'[i] = [calls[i] EXCEPT !.at = "promoted"]
        /\ \A j \in Calls \ {i} : calls'[j] = calls[j]
    BY <1>1, <2>1, StepIs DEF Stages
  <2>4. /\ calls'[i].at = "promoted" /\ calls'[i].user = calls[i].user
        /\ calls'[i].kind = calls[i].kind /\ calls'[i].copy = calls[i].copy
    BY <1>1, <2>3 DEF Call
  <2>5. calls[i].copy \in target'.has BY <2>1 DEF Activated
  <2>6. Sound(calls[i])' /\ ~Decided(i)' BY <1>2, <2>4, <2>5 DEF Sound, Applying, Decided
  <2> QED BY <1>2, <2>1, <2>2, <2>3, <2>6, TargetGrows
<1> QED BY <1>3, <1>4

\* A decision: the row is still pending, so nobody has decided before.
LEMMA DecideKeeps ==
  ASSUME IInv, PromotionAssumption, NEW i \in Calls, Decide(i)
  PROVE  IInv'
<1>1. /\ calls \in [Calls -> Call] /\ calls[i].at = "read" /\ calls[i].kind \in {"approve", "reject"}
      /\ calls[i].user \in Users /\ UNCHANGED <<run, source, target>>
  BY TypeHasCalls DEF IInv, Decide, Sound
<1>2. CASE ~Unchanged(calls[i])
  <2>1. Answer(i, "invalid") /\ UNCHANGED review BY <1>2 DEF Decide
  <2> QED BY <1>1, <2>1, AnswerKeeps DEF Replies
<1>3. CASE Unchanged(calls[i])
  <2>1. Answer(i, "ok") BY <1>3 DEF Decide
  <2>2. /\ calls' \in [Calls -> Call]
        /\ calls'[i] = [calls[i] EXCEPT !.at = "answered", !.seen = NoRow, !.reply = "ok"]
        /\ \A j \in Calls \ {i} : calls'[j] = calls[j]
    BY <1>1, <2>1, AnswerIs DEF Replies
  <2>3. /\ calls'[i].at = "answered" /\ calls'[i].kind = calls[i].kind /\ calls'[i].user = calls[i].user
    BY <1>1, <2>2 DEF Call
  <2>4. review.status = "pending_review" BY <1>1, <1>3 DEF IInv, Sound, Unchanged, Row
  <2>5. review \in [status : Statuses, version : Nat, by : Users \cup {NoUser}]
    BY DEF IInv, PromotionTypeOK
  <2>6. /\ calls[i].kind = "approve" =>
             review' = [status |-> "approved", version |-> review.version + 1, by |-> calls[i].user]
        /\ calls[i].kind = "reject" =>
             review' = [status |-> "rejected", version |-> review.version + 1, by |-> review.by]
    BY <1>1, <1>3 DEF Decide, MoveTo
  <2>7. review' \in [status : Statuses, version : Nat, by : Users \cup {NoUser}]
    <3>1. CASE calls[i].kind = "approve" BY <1>1, <2>5, <2>6, <3>1 DEF Statuses
    <3>2. CASE calls[i].kind = "reject" BY <2>5, <2>6, <3>2 DEF Statuses
    <3> QED BY <1>1, <3>1, <3>2
  <2>8. PromotionTypeOK' BY <1>1, <2>2, <2>7 DEF IInv, PromotionTypeOK, Call
  <2>9. \A j \in Calls : Sound(calls[j])'
    <3>1. Sound(calls[i])' BY <1>1, <2>3 DEF Sound, Applying
    <3>2. \A j \in Calls \ {i} : Sound(calls[j])' BY <1>1, <2>2 DEF IInv, Sound
    <3> QED BY <3>1, <3>2
  <2>10. review'.status \in {"approved", "rejected"} BY <1>1, <2>6
  <2>11. OneDecision'
    <3>1. \A j \in Calls : ~Decided(j) BY <2>4 DEF IInv, OneDecision
    <3>2. \A j \in Calls \ {i} : ~Decided(j)' BY <2>2, <3>1 DEF Decided
    <3> QED BY <2>10, <3>2 DEF OneDecision
  <2>12. OthersApprove'
    <3>1. CASE calls[i].kind = "approve"
      <4>1. calls[i].user \in Users \ {Requester} BY <1>1, <3>1 DEF IInv, Sound
      <4> QED BY <2>6, <3>1, <4>1 DEF OthersApprove
    <3>2. CASE calls[i].kind = "reject" BY <2>6, <3>2 DEF OthersApprove
    <3> QED BY <1>1, <3>1, <3>2
  <2>13. AppliedWasCopied' BY <2>10 DEF AppliedWasCopied
  <2> QED BY <2>8, <2>9, <2>11, <2>12, <2>13 DEF IInv
<1> QED BY <1>2, <1>3

\* The review goes on from "approved" or "applied", by a request that answers or by a rollback.
LEMMA ReviewMoves ==
  ASSUME IInv, NEW s \in {"applied", "failed", "superseded"}, MoveTo(s, review.by),
         review.status \in {"approved", "applied"}, calls' \in [Calls -> Call],
         \A j \in Calls : Sound(calls[j])', \A j \in Calls : Decided(j)' => Decided(j),
         s = "applied" => \E i \in Calls : /\ calls'[i].at = "answered" /\ calls'[i].kind = "apply"
                                           /\ calls'[i].reply = "ok" /\ calls'[i].copy \in target.has,
         UNCHANGED <<run, source, target>>
  PROVE  IInv'
<1>1. review' = [status |-> s, version |-> review.version + 1, by |-> review.by] BY DEF MoveTo
<1>2. review \in [status : Statuses, version : Nat, by : Users \cup {NoUser}]
  BY DEF IInv, PromotionTypeOK
<1>3. review' \in [status : Statuses, version : Nat, by : Users \cup {NoUser}]
  BY <1>1, <1>2 DEF Statuses
<1>4. PromotionTypeOK' BY <1>3 DEF IInv, PromotionTypeOK, Call
<1>5. review'.status = s /\ review'.by = review.by BY <1>1
<1>6. OneDecision' BY <1>5 DEF IInv, OneDecision
<1>7. OthersApprove' BY <1>5 DEF IInv, OthersApprove
<1>8. AppliedWasCopied' BY <1>5 DEF AppliedWasCopied
<1> QED BY <1>4, <1>6, <1>7, <1>8 DEF IInv

\* The mark: a review that is marked applied has the request that marks it to show for it.
LEMMA MarkKeeps ==
  ASSUME IInv, NEW i \in Calls, Mark(i)
  PROVE  IInv'
<1>1. /\ calls \in [Calls -> Call] /\ calls[i].at = "marking" /\ calls[i].kind = "apply"
      /\ calls[i].user \in Users /\ calls[i].seen.status = "approved"
      /\ calls[i].reply = "ok" => calls[i].copy \in target.has
      /\ UNCHANGED <<run, source, target>> /\ Answer(i, calls[i].reply)
  BY TypeHasCalls DEF IInv, Mark, Sound, Applying
<1>2. calls[i].reply \in Replies BY <1>1 DEF Call
<1>3. CASE ~Unchanged(calls[i])
  <2>1. UNCHANGED review BY <1>3 DEF Mark
  <2> QED BY <1>1, <1>2, <2>1, AnswerKeeps
<1>4. CASE Unchanged(calls[i])
  <2> DEFINE s == IF calls[i].reply = "ok" THEN "applied" ELSE "failed"
  <2>1. MoveTo(s, review.by) BY <1>4 DEF Mark
  <2>2. review.status = "approved" BY <1>1, <1>4 DEF Unchanged, Row
  <2>3. /\ calls' \in [Calls -> Call]
        /\ calls'[i] = [calls[i] EXCEPT !.at = "answered", !.seen = NoRow, !.reply = calls[i].reply]
        /\ \A j \in Calls \ {i} : calls'[j] = calls[j]
    BY <1>1, <1>2, AnswerIs
  <2>4. /\ calls'[i].at = "answered" /\ calls'[i].reply = calls[i].reply
        /\ calls'[i].user = calls[i].user
        /\ calls'[i].kind = calls[i].kind /\ calls'[i].copy = calls[i].copy
    BY <1>1, <2>3 DEF Call
  <2>5. \A j \in Calls : Sound(calls[j])'
    <3>1. Sound(calls[i])' BY <1>1, <2>4 DEF Sound, Applying
    <3>2. \A j \in Calls \ {i} : Sound(calls[j])' BY <1>1, <2>3 DEF IInv, Sound
    <3> QED BY <3>1, <3>2
  <2>6. \A j \in Calls : Decided(j)' => Decided(j)
    <3>1. ~Decided(i)' BY <1>1, <2>4 DEF Decided
    <3>2. \A j \in Calls \ {i} : Decided(j)' => Decided(j) BY <2>3 DEF Decided
    <3> QED BY <3>1, <3>2
  <2>7. s \in {"applied", "failed", "superseded"} OBVIOUS
  <2>8. s = "applied" => /\ calls'[i].at = "answered" /\ calls'[i].kind = "apply"
                         /\ calls'[i].reply = "ok" /\ calls'[i].copy \in target.has
    BY <1>1, <2>4
  <2> HIDE DEF s
  <2> QED BY <1>1, <2>1, <2>2, <2>3, <2>5, <2>6, <2>7, <2>8, ReviewMoves
<1> QED BY <1>3, <1>4

------------------------------------------------------------------------------
(* Every step.                                                             *)

\* The requests.
LEMMA HandleKeeps ==
  ASSUME IInv, PromotionAssumption, NEW i \in Calls, Handle(i)
  PROVE  IInv'
<1>1. calls \in [Calls -> Call] /\ PromotionTypeOK BY TypeHasCalls DEF IInv
<1>2. CASE ReadReview(i) BY <1>2, ReadReviewKeeps
<1>3. CASE Decide(i) BY <1>3, DecideKeeps
<1>4. CASE CheckRehearsal(i)
  <2>1. /\ calls[i].at = "read" /\ calls[i].kind = "apply" /\ UNCHANGED <<review, run, source, target>>
    BY <1>4 DEF CheckRehearsal
  <2>2. CASE run.latest = "passed"
    <3>1. Step(i, "rehearsed") BY <1>4, <2>2 DEF CheckRehearsal
    <3> QED BY <2>1, <3>1, StepKeeps
  <2>3. CASE run.latest # "passed"
    <3>1. Answer(i, run.latest) BY <1>4, <2>3 DEF CheckRehearsal
    <3>2. run.latest \in Unrehearsed BY <1>1, <2>3 DEF PromotionTypeOK, Outcomes
    <3>3. run.latest \in Replies /\ run.latest # "ok" BY <3>2 DEF Replies, Unrehearsed
    <3> QED BY <2>1, <3>1, <3>3, AnswerKeeps
  <2> QED BY <2>2, <2>3
<1>5. CASE ReadSource(i) BY <1>5, ReadSourceKeeps
<1>6. CASE CheckConflict(i)
  <2>1. /\ calls[i].at = "sourced" /\ calls[i].kind = "apply" /\ UNCHANGED <<review, run, source, target>>
    BY <1>6 DEF CheckConflict, IInv, Sound, Applying
  <2>2. Ends(i, "conflict") \/ Step(i, "clear") BY <1>6 DEF CheckConflict
  <2> QED BY <2>1, <2>2, EndsKeeps, StepKeeps DEF Replies
<1>7. CASE CommitPromotion(i) BY <1>7, CommitPromotionKeeps
<1>8. CASE PromotionFails(i)
  <2>1. /\ calls[i].at \in {"rehearsed", "clear"} /\ calls[i].kind = "apply"
        /\ Ends(i, "broken") /\ UNCHANGED <<review, run, source, target>>
    BY <1>8 DEF PromotionFails, IInv, Sound, Applying
  <2> QED BY <2>1, EndsKeeps DEF Replies
<1>9. ASSUME NEW r \in {"ok", "broken"}, AppendEvent(i, r) PROVE IInv'
  <2>1. /\ calls[i].at = "promoted" /\ calls[i].kind = "apply" /\ calls[i].copy \in target.has
        /\ Ends(i, r) /\ UNCHANGED <<review, run, source, target>>
    BY <1>9 DEF AppendEvent, IInv, Sound, Applying
  <2> QED BY <2>1, EndsKeeps DEF Replies
<1>10. CASE ReadToMark(i)
  <2>1. calls[i].at = "outcome" /\ UNCHANGED <<review, run, source, target>> BY <1>10 DEF ReadToMark
  <2>2. CASE review.status = "approved"
    <3>1. Remember(i, "marking") BY <1>10, <2>2 DEF ReadToMark
    <3> QED BY <2>1, <2>2, <3>1, RememberToMarkKeeps
  <2>3. CASE review.status # "approved"
    <3>1. Answer(i, calls[i].reply) BY <1>10, <2>3 DEF ReadToMark
    <3>2. /\ calls[i].reply \in Replies /\ calls[i].kind = "apply"
          /\ calls[i].reply = "ok" => calls[i].copy \in target.has
      BY <1>1, <2>1 DEF Call, IInv, Sound, Applying
    <3> QED BY <2>1, <3>1, <3>2, AnswerKeeps
  <2> QED BY <2>2, <2>3
<1>11. CASE Mark(i) BY <1>11, MarkKeeps
<1>12. CASE HandlerDies(i)
  <2>1. /\ calls[i].at \notin {"unsent", "answered"} /\ Answer(i, "broken")
        /\ UNCHANGED <<review, run, source, target>>
    BY <1>12 DEF HandlerDies
  <2> QED BY <2>1, AnswerKeeps DEF Replies
<1> QED BY <1>2, <1>3, <1>4, <1>5, <1>6, <1>7, <1>8, <1>9, <1>10, <1>11, <1>12 DEF Handle

\* What happens beside them.
LEMMA BesideKeeps ==
  ASSUME IInv, Beside
  PROVE  IInv'
<1>1. calls \in [Calls -> Call] /\ PromotionTypeOK BY TypeHasCalls DEF IInv
<1>2. ASSUME UNCHANGED <<review, target, calls>>, PromotionTypeOK' PROVE IInv'
  <2>1. \A j \in Calls : Sound(calls[j])' BY <1>2 DEF IInv, Sound
  <2>2. OneDecision' /\ OthersApprove' /\ AppliedWasCopied'
    BY <1>2 DEF IInv, OneDecision, Decided, OthersApprove, AppliedWasCopied
  <2> QED BY <1>2, <2>1, <2>2 DEF IInv
<1>3. CASE Rehearse
  <2>1. PromotionTypeOK' BY <1>1, <1>3 DEF PromotionTypeOK, Rehearse, Outcomes, Unrehearsed
  <2> QED BY <1>2, <1>3, <2>1 DEF Rehearse
<1>4. CASE RehearseOther
  <2>1. run' \in [latest : Outcomes, claimed : BOOLEAN] /\ run'.latest = "stale"
    BY <1>1, <1>4 DEF PromotionTypeOK, RehearseOther, Outcomes, Unrehearsed
  <2>2. PromotionTypeOK' BY <1>1, <1>4, <2>1 DEF PromotionTypeOK, RehearseOther
  <2> QED BY <1>2, <1>4, <2>2 DEF RehearseOther
<1>5. ASSUME NEW o \in {"passed", "failing"}, RehearsalEnds(o) PROVE IInv'
  <2>1. run.claimed BY <1>1, <1>5 DEF PromotionTypeOK, RehearsalEnds
  <2>2. run' \in [latest : Outcomes, claimed : BOOLEAN] /\ run'.claimed = run.claimed
    BY <1>1, <1>5 DEF PromotionTypeOK, RehearsalEnds, Outcomes, Unrehearsed
  <2>3. PromotionTypeOK' BY <1>1, <1>5, <2>1, <2>2 DEF PromotionTypeOK, RehearsalEnds
  <2> QED BY <1>2, <1>5, <2>3 DEF RehearsalEnds
<1>6. ASSUME NEW v \in Versions, SourceMoves(v) PROVE IInv'
  <2>1. PromotionTypeOK' BY <1>1, <1>6 DEF PromotionTypeOK, SourceMoves
  <2> QED BY <1>2, <1>6, <2>1 DEF SourceMoves
<1>7. ASSUME NEW v \in Versions, TargetMoves(v) PROVE IInv'
  <2>1. target' = Activated(v) /\ UNCHANGED <<review, run, source, calls>> BY <1>7 DEF TargetMoves
  <2>2. CASE Calls # {}
    <3>1. PICK i \in Calls : TRUE BY <2>2
    <3>2. /\ calls' \in [Calls -> Call] /\ calls'[i] = calls[i]
          /\ \A j \in Calls \ {i} : calls'[j] = calls[j]
      BY <1>1, <2>1
    <3>3. target' = Activated(v) /\ UNCHANGED <<review, run, source>> BY <2>1
    <3> QED BY <3>2, <3>3, TargetGrows
  <2>3. CASE Calls = {}
    <3>1. target' \in [active : Versions, has : SUBSET Versions] /\ target'.active \in target'.has
      BY <1>1, <2>1 DEF PromotionTypeOK, Activated
    <3>2. PromotionTypeOK' BY <1>1, <2>1, <3>1 DEF PromotionTypeOK
    <3> QED BY <2>1, <2>3, <3>2 DEF IInv, OneDecision, OthersApprove, AppliedWasCopied
  <2> QED BY <2>2, <2>3
<1>8. CASE SupersedeReview
  <2>1. /\ review.status \in {"approved", "applied"} /\ MoveTo("superseded", review.by)
        /\ UNCHANGED <<run, source, target, calls>>
    BY <1>8 DEF SupersedeReview
  <2>2. /\ \A j \in Calls : Sound(calls[j])'
        /\ \A j \in Calls : Decided(j)' => Decided(j)
    BY <2>1 DEF IInv, Sound, Decided
  <2> QED BY <1>1, <2>1, <2>2, ReviewMoves
<1> QED BY <1>3, <1>4, <1>5, <1>6, <1>7, <1>8 DEF Beside

\* The strengthened invariant holds: a request past its read holds what it saw.
THEOREM Invariance == PromotionSpec => []IInv
<1>1. PromotionInit => IInv
  <2> SUFFICES ASSUME PromotionInit PROVE IInv OBVIOUS
  <2> USE PromotionAssumption
  <2>1. Unsent \in Call BY DEF Call, Unsent, NoRow, Stages, Statuses, Replies, Unrehearsed, Kinds
  <2>2. calls = [i \in Calls |-> Unsent] BY DEF PromotionInit
  <2>3. PromotionTypeOK BY <2>1, <2>2 DEF PromotionInit, PromotionTypeOK, Call, Statuses, Outcomes, Unrehearsed
  <2>4. \A i \in Calls : Sound(calls[i]) /\ ~Decided(i)
    BY <2>2 DEF Sound, Decided, Unsent, Applying
  <2>5. review.status = "pending_review" BY DEF PromotionInit
  <2> QED BY <2>3, <2>4, <2>5 DEF IInv, OneDecision, OthersApprove, AppliedWasCopied
<1>2. IInv /\ [PromotionNext]_promotionVars => IInv'
  <2> SUFFICES ASSUME IInv, [PromotionNext]_promotionVars PROVE IInv' OBVIOUS
  <2>1. ASSUME NEW i \in Calls, NEW u \in Users, NEW k \in Kinds, Send(i, u, k),
               UNCHANGED <<review, run, source, target>>
        PROVE  IInv'
    BY <2>1, PromotionAssumption, SendKeeps
  <2>2. ASSUME NEW i \in Calls, Handle(i) PROVE IInv' BY <2>2, PromotionAssumption, HandleKeeps
  <2>3. CASE Beside BY <2>3, BesideKeeps
  <2>4. CASE UNCHANGED promotionVars
    BY <2>4 DEF promotionVars, IInv, PromotionTypeOK, Sound, OneDecision, Decided, OthersApprove, AppliedWasCopied
  <2> QED BY <2>1, <2>2, <2>3, <2>4 DEF PromotionNext
<1> QED BY <1>1, <1>2, PTL DEF PromotionSpec

\* The variables keep their types, with any number of users, requests and versions.
THEOREM TypeCorrect == PromotionSpec => []PromotionTypeOK
<1>1. IInv => PromotionTypeOK BY DEF IInv
<1> QED BY <1>1, Invariance, PTL

\* One decision, by another than who asked, and no review applied without its copy.
THEOREM EarnedTheorem == PromotionSpec => []ReviewIsEarned
<1>1. IInv => ReviewIsEarned
  BY DEF IInv, ReviewIsEarned, OneDecision, OthersApprove, AppliedWasCopied
<1> QED BY <1>1, Invariance, PTL

------------------------------------------------------------------------------
(* The refinement.                                                         *)

\* A step of the promotion is a step of the life cycle or leaves the row as it was.
LEMMA StepRefines ==
  ASSUME IInv, [PromotionNext]_promotionVars
  PROVE  [Lifecycle!LifecycleNext]_<<review.status, review.by>>
<1>1. CASE UNCHANGED review BY <1>1
<1>2. ASSUME NEW i \in Calls, Decide(i), review' # review
      PROVE  Lifecycle!LifecycleNext
  <2>1. /\ Unchanged(calls[i]) /\ calls[i].at = "read" /\ calls[i].kind \in {"approve", "reject"}
    BY <1>2 DEF Decide
  <2>2. /\ review.status = "pending_review" /\ calls[i].user \in Users
        /\ calls[i].kind = "approve" => calls[i].user # Requester
    BY <2>1 DEF IInv, Sound, Unchanged, Row
  <2>3. CASE calls[i].kind = "approve"
    <3>1. review'.status = "approved" /\ review'.by = calls[i].user
      BY <1>2, <2>1, <2>3 DEF Decide, MoveTo
    <3>2. Lifecycle!Approve(calls[i].user) BY <2>2, <2>3, <3>1 DEF Lifecycle!Approve
    <3> QED BY <2>2, <3>2 DEF Lifecycle!LifecycleNext
  <2>4. CASE calls[i].kind = "reject"
    <3>1. review'.status = "rejected" /\ review'.by = review.by
      BY <1>2, <2>1, <2>4 DEF Decide, MoveTo
    <3> QED BY <2>2, <3>1 DEF Lifecycle!Reject, Lifecycle!LifecycleNext
  <2> QED BY <2>1, <2>3, <2>4
<1>3. ASSUME NEW i \in Calls, Mark(i), review' # review
      PROVE  Lifecycle!LifecycleNext
  <2>1. Unchanged(calls[i]) /\ calls[i].at = "marking" BY <1>3 DEF Mark
  <2>2. review.status = "approved" BY <2>1 DEF IInv, Sound, Unchanged, Row
  <2>3. review'.status \in {"applied", "failed"} /\ review'.by = review.by
    BY <1>3, <2>1 DEF Mark, MoveTo
  <2>4. Lifecycle!Conclude(review'.status) BY <2>2, <2>3 DEF Lifecycle!Conclude
  <2> QED BY <2>3, <2>4 DEF Lifecycle!LifecycleNext
<1>4. CASE SupersedeReview
  BY <1>4 DEF SupersedeReview, MoveTo, Lifecycle!Supersede, Lifecycle!LifecycleNext
<1>5. ASSUME review' # review
      PROVE  (\E i \in Calls : Decide(i) \/ Mark(i)) \/ SupersedeReview
  BY <1>5 DEF PromotionNext, promotionVars, Handle, Beside, ReadReview, CheckRehearsal, ReadSource,
     CheckConflict, CommitPromotion, PromotionFails, AppendEvent, ReadToMark, HandlerDies,
     Rehearse, RehearseOther, RehearsalEnds, SourceMoves, TargetMoves
<1> QED BY <1>1, <1>2, <1>3, <1>4, <1>5

\* The row and its guarded updates implement the life cycle of a review.
THEOREM RefinementTheorem == PromotionSpec => ImplementsLifecycle
<1>1. PromotionInit => Lifecycle!LifecycleInit BY DEF PromotionInit, Lifecycle!LifecycleInit
<1>2. IInv /\ [PromotionNext]_promotionVars => [Lifecycle!LifecycleNext]_<<review.status, review.by>>
  BY StepRefines
<1> QED BY <1>1, <1>2, Invariance, PTL DEF PromotionSpec, ImplementsLifecycle, Lifecycle!LifecycleSpec

------------------------------------------------------------------------------
(* The page.                                                               *)

\* The page of an operator and the requests of everybody else take the steps of the promotion
\* only, so that all of the above holds of them: what the run checks, on any instance.
THEOREM PageTakesPromotionSteps == Spec => PromotionSpec
<1>1. PageInit => PromotionInit BY DEF PageInit
<1>2. [Next]_vars => [PromotionNext]_promotionVars
  <2> SUFFICES ASSUME [Next]_vars PROVE [PromotionNext]_promotionVars OBVIOUS
  <2>1. ASSUME NEW i \in Calls, NEW k \in Kinds, Click(i, k) PROVE PromotionNext
    BY <2>1, PageAssumption DEF Click, PromotionNext
  <2>2. CASE Elsewhere BY <2>2 DEF Elsewhere, PromotionNext
  <2>3. ASSUME PageStep, \A i \in Calls, k \in Kinds : ~Click(i, k) PROVE UNCHANGED promotionVars
    BY <2>3 DEF PageStep, GateAnswered, ContextAnswered, ReadContext, RefetchContext
  <2>4. CASE UNCHANGED vars BY <2>4 DEF vars, promotionVars
  <2> QED BY <2>1, <2>2, <2>3, <2>4 DEF Next
<1> QED BY <1>1, <1>2, PTL DEF Spec, PromotionSpec

\* The invariant that earns a review holds of the page and its requests, the life cycle too.
THEOREM PageIsSafe == Spec => []ReviewIsEarned /\ ImplementsLifecycle
<1> QED BY PageTakesPromotionSteps, EarnedTheorem, RefinementTheorem, PTL
==============================================================================
