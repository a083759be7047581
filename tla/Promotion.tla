------------------------------ MODULE Promotion ------------------------------
(***************************************************************************)
(* The promotion of one definition from a test tenant to a target tenant:  *)
(* its review (promotion_review_store.ex), the rehearsal (definitions.ex)  *)
(* and apply_review/4 with promote_definition/3 (promotion.ex), statement  *)
(* by statement, for requests handled at the same time.                    *)
(***************************************************************************)
EXTENDS Integers

CONSTANTS
  Users, Requester, NoUser,
  Calls,        \* requests, numbered in the order in which they are sent
  Versions,     \* version numbers of the definition
  Base,         \* the version that was active in the target when the plan was made
  Planned       \* the version of the source that the plan was made of

ASSUME PromotionAssumption ==
  /\ Requester \in Users /\ NoUser \notin Users
  /\ Calls \subseteq Nat /\ Versions \subseteq Nat /\ Base \in Versions /\ Planned \in Versions

VARIABLES
  review,   \* the row: status, row_version, approved_by
  run,      \* the assertion runs: outcome of the latest, and whether one was claimed for this plan
  source,   \* the active version of the source definition
  target,   \* the active version of the target definition and all its versions
  calls     \* per request: who sent it, how far it is, what it read and what it answers

promotionVars == <<review, run, source, target, calls>>

Statuses == {"pending_review", "approved", "rejected", "applied", "failed", "superseded"}
Kinds == {"approve", "reject", "apply"}
Stages == {"unsent", "sent", "read", "rehearsed", "sourced", "clear", "promoted", "outcome", "marking", "answered"}
Unrehearsed == {"missing", "running", "failing", "stale"}
Outcomes == Unrehearsed \cup {"passed"}
Replies == {"none", "ok", "self", "invalid", "conflict", "taken", "broken"} \cup Unrehearsed

NoRow == [status |-> "pending_review", version |-> 0]
Unsent == [user |-> NoUser, kind |-> "reject", at |-> "unsent", seen |-> NoRow, copy |-> Planned, reply |-> "none"]

PromotionInit ==
  /\ review = [status |-> "pending_review", version |-> 0, by |-> NoUser]
  /\ run = [latest |-> "missing", claimed |-> FALSE]
  /\ source = Planned
  /\ target = [active |-> Base, has |-> {Base}]
  /\ calls = [i \in Calls |-> Unsent]

------------------------------------------------------------------------------
Step(i, stage) == calls' = [calls EXCEPT ![i].at = stage]
Answer(i, r) == calls' = [calls EXCEPT ![i].at = "answered", ![i].seen = NoRow, ![i].reply = r]

Send(i, u, k) ==
  /\ calls[i].at = "unsent" /\ \A j \in Calls : j < i => calls[j].at # "unsent"
  /\ calls' = [calls EXCEPT ![i] = [Unsent EXCEPT !.user = u, !.kind = k, !.at = "sent"]]

\* The gates of a request on the row it reads; the digest of a review never changes.
\* Variant: the requester may approve.
GateOpenToAll(c) ==
  IF review.status # (IF c.kind = "apply" THEN "approved" ELSE "pending_review") THEN "invalid" ELSE "ok"
Gate(c) ==
  IF c.kind = "approve" /\ c.user = Requester THEN "self"
  ELSE IF review.status # (IF c.kind = "apply" THEN "approved" ELSE "pending_review") THEN "invalid"
  ELSE "ok"

Row == [status |-> review.status, version |-> review.version]
Remember(i, stage) == calls' = [calls EXCEPT ![i].at = stage, ![i].seen = Row]

ReadReview(i) ==
  /\ calls[i].at = "sent"
  /\ IF Gate(calls[i]) = "ok" THEN Remember(i, "read") ELSE Answer(i, Gate(calls[i]))
  /\ UNCHANGED <<review, run, source, target>>

\* The guard of every update of the row.
\* Variant: the row is found by its id alone.
ById(c) == TRUE
Unchanged(c) == c.seen = Row

MoveTo(s, by) == review' = [status |-> s, version |-> review.version + 1, by |-> by]

Decide(i) ==
  /\ calls[i].at = "read" /\ calls[i].kind \in {"approve", "reject"}
  /\ IF Unchanged(calls[i])
     THEN /\ IF calls[i].kind = "approve" THEN MoveTo("approved", calls[i].user)
                                          ELSE MoveTo("rejected", review.by)
          /\ Answer(i, "ok")
     ELSE Answer(i, "invalid") /\ UNCHANGED review
  /\ UNCHANGED <<run, source, target>>

------------------------------------------------------------------------------
(* apply_review/4 after its gates: the rehearsal, a fresh read of the      *)
(* source, the conflict check, the transaction in the target, the event,   *)
(* and the mark on the review.                                             *)

CheckRehearsal(i) ==
  /\ calls[i].at = "read" /\ calls[i].kind = "apply"
  /\ IF run.latest = "passed" THEN Step(i, "rehearsed") ELSE Answer(i, run.latest)
  /\ UNCHANGED <<review, run, source, target>>

ReadSource(i) ==
  /\ calls[i].at = "rehearsed"
  /\ calls' = [calls EXCEPT ![i].at = "sourced", ![i].copy = source]
  /\ UNCHANGED <<review, run, source, target>>

Ends(i, r) == calls' = [calls EXCEPT ![i].at = "outcome", ![i].reply = r]

CheckConflict(i) ==
  /\ calls[i].at = "sourced"
  /\ IF target.active > Base THEN Ends(i, "conflict") ELSE Step(i, "clear")
  /\ UNCHANGED <<review, run, source, target>>

\* Insert, deprecate, activate; a version is unique in the target.
\* Variant: nothing is inserted.
ActivatedOnly(v) == [target EXCEPT !.active = v]
Activated(v) == [active |-> v, has |-> target.has \cup {v}]

CommitPromotion(i) ==
  /\ calls[i].at = "clear"
  /\ IF calls[i].copy \in target.has
     THEN Ends(i, "taken") /\ UNCHANGED target
     ELSE Step(i, "promoted") /\ target' = Activated(calls[i].copy)
  /\ UNCHANGED <<review, run, source>>

\* The actor or the source is refused, a check of the new row fails, or another activation wins
\* the unique index.
PromotionFails(i) ==
  /\ calls[i].at \in {"rehearsed", "clear"} /\ Ends(i, "broken")
  /\ UNCHANGED <<review, run, source, target>>

AppendEvent(i, r) ==
  /\ calls[i].at = "promoted" /\ r \in {"ok", "broken"} /\ Ends(i, r)
  /\ UNCHANGED <<review, run, source, target>>

\* Whether the mark can be made does not change the answer.
ReadToMark(i) ==
  /\ calls[i].at = "outcome"
  /\ IF review.status = "approved" THEN Remember(i, "marking") ELSE Answer(i, calls[i].reply)
  /\ UNCHANGED <<review, run, source, target>>

Mark(i) ==
  /\ calls[i].at = "marking"
  /\ IF Unchanged(calls[i]) THEN MoveTo(IF calls[i].reply = "ok" THEN "applied" ELSE "failed", review.by)
                            ELSE UNCHANGED review
  /\ Answer(i, calls[i].reply)
  /\ UNCHANGED <<run, source, target>>

\* The node stops, between two statements.
HandlerDies(i) ==
  /\ calls[i].at \notin {"unsent", "answered"} /\ Answer(i, "broken")
  /\ UNCHANGED <<review, run, source, target>>

Handle(i) ==
  \/ ReadReview(i) \/ Decide(i)
  \/ CheckRehearsal(i) \/ ReadSource(i) \/ CheckConflict(i)
  \/ CommitPromotion(i) \/ PromotionFails(i) \/ \E r \in {"ok", "broken"} : AppendEvent(i, r)
  \/ ReadToMark(i) \/ Mark(i) \/ HandlerDies(i)

------------------------------------------------------------------------------
(* What happens beside the requests of this review.                        *)

\* One run per plan is claimed; it stays "running" if its node stops.
Rehearse ==
  /\ ~run.claimed /\ run' = [latest |-> "running", claimed |-> TRUE]
  /\ UNCHANGED <<review, source, target, calls>>

RehearsalEnds(o) ==
  /\ run.latest = "running" /\ o \in {"passed", "failing"} /\ run' = [run EXCEPT !.latest = o]
  /\ UNCHANGED <<review, source, target, calls>>

\* A run is recorded for another digest.
RehearseOther ==
  /\ run.latest # "stale" /\ run' = [run EXCEPT !.latest = "stale"]
  /\ UNCHANGED <<review, source, target, calls>>

\* An activation or a rollback in the source.
SourceMoves(v) ==
  /\ v \in Versions /\ v # source /\ source' = v
  /\ UNCHANGED <<review, run, target, calls>>

\* Another promotion, an activation or a rollback.
TargetMoves(v) ==
  /\ v \in Versions /\ v # target.active
  /\ target' = Activated(v)
  /\ UNCHANGED <<review, run, source, calls>>

\* A rollback finds this review alone for its definition, and no request changes it meanwhile.
SupersedeReview ==
  /\ review.status \in {"approved", "applied"} /\ MoveTo("superseded", review.by)
  /\ UNCHANGED <<run, source, target, calls>>

Beside ==
  \/ Rehearse \/ RehearseOther \/ \E o \in {"passed", "failing"} : RehearsalEnds(o)
  \/ \E v \in Versions : SourceMoves(v) \/ TargetMoves(v)
  \/ SupersedeReview

PromotionNext ==
  \/ \E i \in Calls, u \in Users, k \in Kinds : Send(i, u, k) /\ UNCHANGED <<review, run, source, target>>
  \/ \E i \in Calls : Handle(i)
  \/ Beside

PromotionSpec == PromotionInit /\ [][PromotionNext]_promotionVars

------------------------------------------------------------------------------
\* The values of the variables: the active version is one of the target's, and an outcome other
\* than that of a foreign run is that of a run that was claimed.
PromotionTypeOK ==
  /\ review \in [status : Statuses, version : Nat, by : Users \cup {NoUser}]
  /\ run \in [latest : Outcomes, claimed : BOOLEAN]
  /\ run.latest \in {"running", "passed", "failing"} => run.claimed
  /\ source \in Versions
  /\ target \in [active : Versions, has : SUBSET Versions] /\ target.active \in target.has
  /\ calls \in [Calls -> [user : Users \cup {NoUser}, kind : Kinds, at : Stages,
                          seen : [status : Statuses, version : Nat], copy : Versions, reply : Replies]]

\* The request that was told it decided the review.
Decided(i) == calls[i].kind # "apply" /\ calls[i].at = "answered" /\ calls[i].reply = "ok"

\* Of all approvals and rejections sent at the same time at most one is accepted, and none
\* while the review waits for one.  Who approved is not who asked.  A review says "applied"
\* only if some request copied a version of the source into the target and told the world.
ReviewIsEarned ==
  /\ \A i, j \in Calls : Decided(i) /\ Decided(j) => i = j
  /\ \A i \in Calls : Decided(i) => review.status # "pending_review"
  /\ review.status \in {"approved", "applied"} => review.by \in Users \ {Requester}
  /\ review.status = "applied" =>
       \E i \in Calls : calls[i].kind = "apply" /\ calls[i].reply = "ok" /\ calls[i].copy \in target.has

\* The row and its guarded updates implement the life cycle of a review.
Lifecycle == INSTANCE ReviewLifecycle WITH status <- review.status, approver <- review.by
ImplementsLifecycle == Lifecycle!LifecycleSpec

==============================================================================
