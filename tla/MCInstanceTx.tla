---------------------------- MODULE MCInstanceTx ----------------------------
(* Two tokens: one at a human task that escalates to a second human task, one *)
(* at a timer node.                                                           *)
EXTENDS InstanceTx, TLC

CONSTANTS t1, t2, review, approve, pause

MCStart == t1 :> review @@ t2 :> pause
MCKind == review :> "human" @@ approve :> "human" @@ pause :> "timer"
MCSucc == review :> approve @@ approve :> Done @@ pause :> Done
MCEscalatesTo == review :> approve
=============================================================================
