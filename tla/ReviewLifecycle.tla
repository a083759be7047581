--------------------------- MODULE ReviewLifecycle ---------------------------
(***************************************************************************)
(* What a promotion review promises, as promotion_review_store.ex states   *)
(* it: one decision, by another person than the one who asked if it is an  *)
(* approval, one end of an approved review, and no way back.               *)
(***************************************************************************)

CONSTANTS Users, Requester, NoUser

VARIABLES status, approver

LifecycleInit == status = "pending_review" /\ approver = NoUser

Approve(u) ==
  /\ status = "pending_review" /\ u # Requester
  /\ status' = "approved" /\ approver' = u

Reject == status = "pending_review" /\ status' = "rejected" /\ UNCHANGED approver

\* An approved review is applied or fails.
Conclude(s) ==
  /\ status = "approved" /\ s \in {"applied", "failed"}
  /\ status' = s /\ UNCHANGED approver

\* The version that a review brought is rolled back: a review that was decided makes room.
Supersede ==
  /\ status \in {"approved", "applied", "failed", "rejected"}
  /\ status' = "superseded" /\ UNCHANGED approver

LifecycleNext ==
  \/ \E u \in Users : Approve(u)
  \/ Reject
  \/ \E s \in {"applied", "failed"} : Conclude(s)
  \/ Supersede

LifecycleSpec == LifecycleInit /\ [][LifecycleNext]_<<status, approver>>
==============================================================================
